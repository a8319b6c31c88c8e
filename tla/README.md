# A TLA+ model of the R&D Claim Evidence Hub

The Hub (`src/app`) is a FastAPI application over one SQLite file: an operator keeps companies,
customers, contracts, solutions and R&D projects in it, and it tells them how ready a claim is.
It is used by one person, usually, but it is not sequential: browsers have several tabs, handlers
written with `def` run in threads beside the event loop, an import is two requests with anything in
between, the process is started and stopped by hand, and a start writes to the database.

These modules model the parts of it where an order of steps matters, check them with TLC on small
instances and prove the most important results with TLAPS for every instance.

## How the program runs

- `async def` handlers (all saves, import preview and apply, cleanup, purge) run on the event loop
  and are suspended only at `await request.form()` and `await upload.read()`. Between two of those
  nothing else on the loop runs: one such handler is one atomic step with respect to the others,
  split at its commits only because the process may end there.
- `def` handlers (every delete page, every GET, the source checks, a watch-profile run) run in a
  thread pool. Their database calls interleave with everything. pysqlite opens a transaction at the
  first write, so a `SELECT` that precedes it is not protected by it.
- A handler has a session of its own, and `session.commit()` is where its effects become visible and
  survive. Several handlers commit more than once.
- `lifespan` (`main.py:129`) runs before the first request: schema, rule files, seeding, then the
  scan that decides whether links are enforced.
- In-process state is small and is lost when the process ends: the two preview dicts, the
  enforcement flag, the integrity report and banner.

## Inventory

| Component | State it keeps | Operations | Talks to | What is hard | What makes it correct |
| --- | --- | --- | --- | --- | --- |
| Import preview store (`data_management.py` 1289-1437) | two dicts of nonces, in the process | preview, apply, prune, evict, restart | apply route | re-posts, alteration, expiry, eviction, crash in mid-import | a preview is applied at most once, as shown; the answer is honest |
| Import planner and writer (`data_management.py` 489-1660) | 30 tables, through `DATASETS` | preview (plan), apply (plan again, write) | all records, preview store, entitlement | identifiers of the file against live ones, database changed in between, merged payload | no dangling links, only disclosed records change, new ones under the parent meant |
| Link integrity (`data_integrity.py`, `database.py`, `main.py` 129-166, 676-689) | pragma, banner, report | scan, policy, save, delete | every record page | threads, identifier reuse, check then delete, crash between commits | no broken link under enforcement; the operator is told without it |
| Entitlement reviews (`services.py` 335-495, `rules_engine.py`) | one review per project | sync after save or import, delete | project, solution, contract, customer pages, imports | facts spread over four tables, several commits, a delete thread | a review says what the facts lead to, and is that project's |
| Reference and demo seeding (`seed.py`) | sentinel audit event, units, customers, demo | start | record pages, cleanup, purge | a dozen commits the process may end between, records edited between starts | completed once, then nothing of the operator's is touched |
| Cleanup and purge (`data_management.py` 1663-1848) | none | list candidates, remove, purge a scope | all records, seeding | candidates listed before they are posted, order of deletes | nothing in use goes, reference data stays |
| Framework watch agent (`framework_intelligence.py`) | sources, snapshots, opportunities, documents, requirements, signals, runs | check a source, run a profile, review pages | network, write lock | a run spans fetches and commits once; snapshots follow failures | no duplicate opportunity, human review not undone, change detection |
| Knowledge source checks (`knowledge_agent.py`) | check rows | check all sources | network | redirects, partial failure | only allow-listed hosts, a row per source |
| Project scoring (`services.py` 523-700) | none | score a project | entitlement, costs, evidence | caps and blockers that override points | the band follows the blockers |
| AIF selection and readiness (`services.py` 755-900) | none | select projects for the form | costs, projects | thresholds, ties, empty claims | half of the spend, 3 to 10 projects |
| Cost lines (`services.py` 60-330, `main.py` 2570-2680) | cost rows | create, update, delete | projects, activities | floats, overrides of computed gross | qualifying never above gross |
| Claim periods and deadlines | period and submission rows | create (two commits), delete (two commits) | projects | date arithmetic, a companion row | each period one submission status |
| Database write lock (`database.py`) | SQLite's lock | every write | agent, pages | a run holds it while it fetches | whoever waits is served or refused; only a source that never answers keeps it |
| Audit trail (`audit.py`) | events | one per save | all | same transaction as the record | every committed change has its event |
| Export, reports, cockpit, setup checklist, forms, rule files | none | read, render, parse | all | - | - |

`PROJECT.json` lists the same components with their status, and the hazards, each at its line with
the properties that would catch it.

## Modules

| Module | Models | Runs |
| --- | --- | --- |
| `SingleUse` | what a preview promises, and nothing else: issued, redeemed once, written or closed | as a property of `preview_store` |
| `PreviewStore` | the nonce store of `data_management.py` with the preview and apply routes | `preview_store` |
| `PreviewStoreProofs` | theorems about it | |
| `ImportPlan` | `build_import_plan`, link planning and resolution, matching, `apply_import`, as operators | used by `Import` |
| `Import` | the operator's preview and apply, with record pages in between | `import`, `import_skipped_rows`, `import_identifier` |
| `ImportProofs` | theorems about both | |
| `LinkIntegrity` | startup scan and policy, saves, delete pages in threads, crash | `link_integrity`, `orphans_on_clean_database` |
| `LinkIntegrityProofs` | theorems about it | |
| `Entitlement` | facts, reviews, who syncs and who does not | `entitlement`, `entitlement_recorded` |
| `EntitlementProofs` | theorems about it | |
| `ReferenceSeed` | a start's writes, the pages, cleanup and purge between starts | `reference_seed` |
| `ReferenceSeedProofs` | theorems about it | |
| `FrameworkAgent` | runs of a saved search, source checks, the opportunity and source pages, purge | `framework_agent` |
| `FrameworkAgentProofs` | theorems about it | |
| `ClaimRules` | qualifying amounts, cost warnings, points, blockers and rating, AIF selection and readiness, as operators | used by `Claims` |
| `Claims` | the records of a claim period and the pages that change them | `claims`, `claims_overflow` |
| `ClaimsProofs` | theorems about it | |
| `DataInduction` | induction over numbers and finite sets, and sums of functions, for the three modules of theorems that need them | |
| `MC*` | the instances TLC checks | |

Each definition that stands for code is listed in `PROJECT.json` under `map` with its lines. The
definitions called "Mutant of X" are X with a plausible bug; they are there to show that each
property depends on the code.

### PreviewStore

`issued` and `consumed` are `_ISSUED_PREVIEWS` and `_CONSUMED_PREVIEWS`. A dict's insertion order,
which decides what eviction removes, is the number `slot` an entry got. `Bound` is
`_bound_preview_store`, applied where the code applies it: before a lookup and after an insertion.
`Spend` prunes, pops and remembers, in that order, before the digest is compared, so that an altered
payload spends its preview. Between an accepted payload (`PostGenuine`) and its end (`Commit`,
`Refuse`) nothing runs but the clock and a crash, because the route does not await there. `Restart`
empties both dicts. `minted`, `spent`, `lost` and `ledger` are history for the properties.

Assumed of the environment: SHA-256 does not collide, `token_hex` does not repeat, the clock does not
go back.

### ImportPlan and Import

Three datasets stand for the thirty: units (link to themselves, unique name), customers (optional
link), contracts (required link that is part of the natural key). A row's column can be absent,
blank or filled; an identifier in the file can be one of a live record, of another row, or of
nothing. `BuildPlan` follows `build_import_plan`: clean, match, plan links, decide the status;
`ApplyImport` plans the payload a second time, checks identity and link disclosure, writes in
dependency order (`WriteRows`) and resolves links, and rolls everything back on the first error. The payload
carries the merged record, as the code's does. Both loops are folds over the rows. The cases of `PlanLink` exclude one
another, as the early returns of `_plan_links` do: a row that leaves its link out never reaches the branches that look
the link up. `Texts` are the names a column may hold; the files are any sequences of rows over them.

### LinkIntegrity

`Startup` is the scan and `apply_foreign_key_policy`; `StartupScanFails` the `except` of `lifespan`.
A delete page is a script of steps (`Script`), one per database call, so that another request's
commit falls between its dependency query and its delete. A parent's identifier is reused, as
SQLite reuses the highest one. `Companions` are the rows no dependency rule lists;
`Unconstrained` the one column that has no `REFERENCES` clause on an upgraded database.

### Entitlement

A project page commits the facts (`SaveProject`) and then syncs (`Sync`); an import commits
everything and syncs each project `_projects_touched_by_import` finds, each in its own commit, and
each may fail. `Assess` and `Resolved` are `assess_entitlement` and `entitlement_facts_for_context`.
The delete page's two commits are two actions.

### ReferenceSeed

`phase` and `at` say which commit of a start comes next; `calls` what `lifespan` has yet to call.
Unit names are unique, so a unit is known by its name and a rename carries customers and children
along; customers are a bag, because two may say the same. `Interrupt` ends the process between any two
commits. `DemoFails` is the lookup of a renamed unit. `left` and `cut` are history: the customers as the pages last
left them, through the renames of the starts since, and whether a start has ended early.

### FrameworkAgent

A run takes SQLite's write lock with its first row and keeps it over every fetch until its commit:
`RunStart`; for each active source in the order of their names `RunHeldBack`, or `RunAsk` and, whenever the source
likes, `RunAnswer`; one `RunNotice` for each notice of a page that answered; `RunCommit`. The variables hold what the run has written so far,
`run.saved` what `RunFails` and `Restart` bring back. A check fetches without the lock (`CheckStart`) and
writes under it (`CheckRecord`), or gives up waiting for it (`CheckTimesOut`). A snapshot is the hash, here
the page itself, and the change type. An opportunity is one record with its requirements (`required`, a
confidence for each theme) and its signals. Constants say which themes a text mentions and corroborates and
which texts score for a search, in place of the words; `heard` and `shown` are history. The run's own row,
with its counters, status and errors, is written and shown but read by nothing else, and is left out.
`source_change_tracking.yml` explains `first_seen` as the first successful snapshot; the code gives it to
the first snapshot of all if that succeeds, and a source that failed at first starts as `changed`. The
module follows the code.

### ClaimRules and Claims

`ClaimRules` holds what `services.py` derives and stores nowhere but in a line's qualifying amount:
`QualifyingAmount`, `CostWarned`, the points of `score_project_context` with its blockers and the cap that
warnings put on a rating, and `aif_project_selection` with `build_aif_readiness`. The order of the CT600 and
the form is judged in two places of the code and so is in two operators, `TimingRisk` and `TimingWarned`.
`SumFunction` of the community modules adds spends up, so the selection needs no recursion but the loop's
own (`Described`).

`Claims` keeps the records. `lines` are the cost lines of one project, `facts` what is scored of it,
`portfolio` the other projects of its period in the order of their identifiers, `submission` the period's
status row. Actions and handlers:

| Action | Handler |
| --- | --- |
| `AddLine`, `OpenForm`, `PostForm`, `EditLine`, `DeleteLine` | `add_project_cost`, the edit page, `update_cost_line` from a form that was left open and from one that was not, the delete page |
| `ImportLine` | `apply_import` with `_derived_values`: no limits but those of cleaning, the amount calculated again |
| `AssessProject` | `update_project_assessment`, a field at a time |
| `ChangeActivities`, `ChangeOpinions`, `ChangeEvidence` | imports and cleanup; the professional and evidence pages |
| `UpdateCompany`, `UpdateSubmission` | their pages |
| `LoseSubmission` | `delete_accounting_period` that commits the removal of the status row and is then refused, a project having been linked in between |
| `AddProject`, `RemoveProject`, `DescribeProject`, `RecostProject` | project and cost pages of the other projects |

What is abstracted: a text is known by the class of its length that the thresholds tell apart and by
whether a negative term was found in it; a rate is a constant and an hour costs it, days and a day rate
being treated alike by the code; money is whole and not rounded to pence; a product above `MaxFloat` is one
that overflowed; `sound` stands for the five text conditions of `cost_validation_warnings`. `origin` is
history: where a person would say that the figure in a line comes from.

## Runs

| Run | Instance | States | Shows |
| --- | --- | --- | --- |
| `preview_store` | 3 nonces, 2 readable payloads and 1 unreadable, lifetime 1, limit 2, clock to 2 | 285,729 | applied once, as shown, never revived, within the limit, kept as long as promised, honest replies; implements `SingleUse` |
| `import` | 3 databases, every combination of 0 or 1 row per dataset with colliding identifiers plus files of two rows, all modes, 1 preview, 2 page requests | 316,398 | links never dangle, only named records change, add-only adds, new records under their parent, one record with the key of one that was added |
| `link_integrity` | 1 number handed out twice, 3 kinds of child, 2 delete threads | 300,332 | enforced links hold, children stay with their parent, pages without a banner have their links |
| `entitlement` | 2 projects, 2 solutions, 1 contract, 1 customer, 6 imports | 915,528 | reviews follow the facts, belong to their project, imports stay in scope |
| `reference_seed` | 3 units of the tree, 1 rename, 2 reference customers, 1 demo customer, 4 demo commits, 3 starting databases | 942,476 | one sentinel over a whole seed, no customer a second time over any number of starts, records left alone, a start never fails twice in a row, a demo that is whole where no start ended early |
| `framework_agent` | 2 sources, one with a page that has its notice twice, 3 texts, 1 search, 5 settings, 1 check at a time | 218,400 | a notice is recorded once, prompts are what the texts corroborate, "unchanged" is unchanged, nothing held back is fetched by a run, decisions stand; a run gives the lock back unless a source it asked never answers, and a check ends |
| `claims` | 1 cost line with 0 to 3 hours, 5 amounts, 3 percentages, 5 lines of a file; every fact of a project; a period of up to 21 projects with 4 spends, one of them a refund | 569,211 | a calculated figure follows its hours, a green rating is earned, the projects to describe are enough and no more, a ready period has described them |
| `import_skipped_rows`, `import_identifier`, `orphans_on_clean_database`, `entitlement_recorded`, `claims_overflow` | as above | | the findings below |

### Why the bounds are enough

- Preview store: eviction takes one more preview than the limit, so three nonces and a limit of two;
  expiry takes one tick more than the lifetime. Everything is symmetric in nonces and payloads, and
  the proofs lift all bounds.
- Import: a collision needs two identifiers, a chain needs the three datasets; self links and
  duplicate names need two rows of one dataset. Two page requests are enough to delete and
  recreate a record under its old number.
- Link integrity: the hard cases are one number twice and two delete pages at the same record; the
  proofs lift the bounds. One parent number means that it is always reused.
- Entitlement: two projects tell "this one" from "another"; two solutions tell a chain with a contract
  from one without.
- Reference seed: a parent and two children, a rename, a customer name that occurs twice, and one
  other name an operator may give. Three customers are the most there can be: at that bound a start that
  would add a fourth is not continued, only interrupted.
- Framework agent: the texts are one without a theme, one that mentions it and one that corroborates it,
  which are the ways `create_requirement_and_signal` tells them apart; the second source gives a run
  something to be interrupted at, and the same notice identifier under another source. One check at a
  time (`MaxChecks`) is enough for a check to race a run and the pages, and a second check of the same
  source would only bring another answer.
- Claims: the three groups of pages share no state but what is derived, so the run exercises them one group
  at a time (`focus`), from a complete project, an empty one and an empty period. One line is enough for a
  form that shows what the line no longer is, also after it was deleted and its number given to a new one.
  The amounts are one below zero, zero, two calculations and one above all that is accepted; the percentages
  reach past 100, the lines of the file are a refund, 200 %, `nan`, a product that overflows and hours that do
  not make the figure. The fallback to the ten largest needs more than twenty projects of
  nearly equal spend, which is why `MaxProjects` is 21; a refund that is described although it need not be takes
  five projects, which is why `Small` is 5; past `Small` projects the period only grows, shrinks
  and is described in order, and its spends change once in the order of the identifiers (`Simple`), as any
  other order only renames projects between which ties are broken.
- `MCImport.cfg` (and its two variants) turn the deadlock check off: one preview and two page requests
  may be used up, and the operator has then nothing left to do. All other runs check for deadlock.

## Fairness

Only `framework_agent` assumes any, for `RequestsEnd`: weak fairness of what a run does by itself
(`RunStep`: to pass over a source that is held back, to ask the next one, the next notice, the commit) and of each
check's end. The code justifies it: a run is a plain loop in a thread, which goes on when it can, and a
check that holds an answer either gets the lock or its driver's timeout.

No fairness is assumed of `RunAnswer`, the answer of a source a run has asked. The 15 seconds of
`fetch_source_url` (`framework_intelligence.py:551`) are the client's limit for each connection and each read,
not for a fetch: a page that comes in small pieces, or at the end of several redirects, may take any time,
and the run holds the write lock meanwhile. `RequestsEnd` therefore says that the lock is free again and
again, or that there is a last run and it waits for one source for ever. Nobody has to start a run or a check,
no person has to act, a run need not fail and the process need not restart. The property is not a
matter of course: it depends on every turn of the loop leaving its source behind, whatever the answer was, on
a commit or a rollback at every end of the loop, and, for the checks behind a run that waits for ever, on
the driver's timeout.

All other properties are safety properties, and no other run states fairness: the remaining handlers are
requests that people make, which nothing obliges them to. One that sounds like progress, that a start which
fails does not keep failing, is the invariant `FailsOnce`.

## What is proved

`PreviewStoreProofs`, from `StoreAssumption` (lifetime and limit are numbers, the limit is not zero,
`None` is no nonce), for any set of nonces and payloads, any lifetime and limit:

- `StoreTyped`, `PreviewAppliedOnce`, `PreviewAppliedAsShown`, `PreviewNeverRevived`, `RepliesAreHonest`.
- `StoreWithinCapacity`, `PreviewsAreRetained`.
- `StoreImplementsSingleUse`: every step of the store is a step or a stutter of `SingleUse`.

The invariant is `IInv`. "Applied once" is not inductive: it needs the preview being written not to be
in the ledger yet, which needs a popped nonce never to be tracked again (`NeverRevived`), which needs
what is tracked or popped to have been handed out (`Tracked`, `Popped`). "As shown" needs the entry in
the dict to be what was minted, and the prune that precedes the pop to have dropped expired ones. `ReplyHonest` is read from the second dict and needs what that one remembers to have been
posted (`UsedWasPosted`), which a bounded dict may forget but never invent.

Capacity and retention count, and have an invariant of their own, `CapacityInv`, on top of `IInv`: the keys of either
dict are finitely many and were each put in at a moment of its own (`Dated`). `BoundFits` shows from it that a bound
leaves no more than the limit: the oldest key that stays has fewer than that many above it, and they are all the
others. `BoundDrops` says for what reasons a bound drops a key, and that those that came after it are as many as the
limit when it is not its age; previews are only ever handed out later, so that it stays that way.

`ImportProofs`, from `ImportAssumption` (the databases are of records whose links lead to records, files are sequences
of rows, forms hold records, sentinels are told apart), for any databases, any files of any length and any pages:

- `ImportTyped`, `LinksNeverDangle`; of every apply, `ImportChangesNamedRecords`, `AddOnlyAdds`, `KeysAreAddedOnce`,
  `ParentsFoundByName`.

The inductive invariant is `IInv == TypeOK /\ NeverDangle /\ PreviewSound`: types, links, and what
a preview says of its rows whatever has become of the database since (none is in error, a row to create has the link
the file gave it, identifiers are keys in a restore only). All that is hard is in the operators. `PlanIsItsTurns` and
`WritesAreTheirTurns` turn the folds into sequences of turns; `PlanTurn` and `WrittenTurn` say what one turn does and
`Planning` and `Writing` what all of them have done, by induction on the number of turns. Planning keeps that
a row's record exists and has its name, that the key of a row to create is free, and that its parent is the record its
link means: none, a stored one, or the one a row of the file was matched with if that row came before. Writing keeps
that every identifier remembered leads to the record its row was written to, and that every record is as it was,
updated by a row that names it, or new and linked as its row asked. `Importing` puts both together and is all the
theorems know of an apply; each of those is then a few steps long, but for the two about keys and parents, which
follow a row from the file through both plans to its record
(`ImportedRow`, `NewKey`, `ParentStep`).

These proofs changed the model twice. Two cases of `PlanLink` overlapped for a row without a link when a row
of the file had no identifier, which `CASE` leaves open and TLC resolves by taking the first; they are disjoint now. And
`TypeOK` did not speak of what a preview holds.

`NoKeyAddedTwice` relates the records of one apply to each other as well as to those before it. The plan
remembers the keys it has seen (`SeenTurn`), the second plan's rows therefore differ in their keys (`ToldApart`), and two
new records come from two rows (`OneRowEach`); since each record is linked as its row asked, two with one
key had different numbers in the file (`NewKeyOnce`).

`LinkIntegrityProofs`, from `LinkAssumption` (the sentinels are no identifiers; companions and
unconstrained children are children), for any number of records, children, threads and reuses:

- `LinksTyped`, `LinksHoldUnderEnforcement`, `ChildrenNeverChangeHands`, `QuietPagesSpeakTrue`.

The invariant adds `Admitted`: enforcement is only on while requests are served after a clean scan. The
scan establishes the links, and each of the steps of a delete page preserves them because the
database refuses a delete that a constrained child refers to, whatever the page's own query saw.
`QuietPagesAreTrue` is about what a person concludes from a page without a banner. It needs `QuietIsEnforced`: after a
scan that ended, no banner means that links are enforced. A scan that raises leaves no banner either and is
excepted; the code tells the log and nobody else.

`FrameworkAgentProofs`, from `AgentAssumption` (sources are a finite set of numbers, what a text corroborates it
mentions, pages and sentinels are told apart), for any sources, pages, texts, themes and searches and any
number of checks at a time:

- `AgentTyped`, `NoticesOnce`, `PromptsFollowEvidence`, `UnchangedIsTrue`, `FetchesAllowed`, `DecisionsKept`.

The invariant has to speak of what a rollback brings back as well as of what is there: `LastSound` and
`RowsSound` are stated of the live records and, in `RunSound`, of `run.saved`, which makes `RunFails` and
`Restart` cases like the others. `FetchesAllowed` needs that the flags a run loaded are the
flags there are for as long as it holds the lock, and `UnchangedIsTrue` that a good snapshot's hash is the
page last shown, before and after a rollback. A run takes a page in one notice at a time, as the code
does, so that no lemma needs induction over a page: `UpsertSound` is about one row.

`ClaimsProofs`, from `ClaimAssumption` (limits are numbers, hours are not negative, amounts are whole or the one
that is no number, sentinels are told apart), for any set of lines, posts, files, facts and period:

- `ClaimsTyped`, `GrossFollowsHours`, `GreenEarned`, `ReadyEarned`.

`LinesSound` makes them inductive: the qualifying amount is that of the line it is stored with, whether a form, an
outdated form or a file brought it, and a figure with the origin "calculated" belongs to the hours. A green
rating is then taken apart without the state machine. `GreenUnwarned`: no blocker and no warning, since a
warning caps the score below green. `FullMarks`: what draws no warning and no blocker has all points.
`UnwarnedWithin`: a line that draws no warning counts for its share, between nothing and its gross, unless the product
overflows.
`TimingAgrees`: both places that judge the order of the CT600 and the form agree for every filing.

`ReadyEarned` needs no more of a state than its types and that its lines are finitely many (`LinesStayFinite`); the rest
is about any portfolio. The rank of a project is how many are ahead of it in the order of the selection. A project
ahead of another has a smaller rank, so every rank from 0 is taken by exactly one project (`RanksOrder`), the `k`
largest are `k` (`LargestRanked`), none outside spends more than one inside (`LargestSpendMost`), and without its
smallest member the set is that of the `k - 1` largest (`LargestGrows`). The loop is the recursive function of
`Described`, which exists (`LoopExists`) and ends with the first number that is enough (`DescribedStops`, by induction
from the end). Hence each of more than three is needed: without the smallest they do not reach half, and without
another even less so. And the selection of a ready period spends something (`SelectionSpends`): if the ten
largest spent nothing, one of the rest would have to, and all of the ten are at least as large.

Stating the theorem for all whole numbers showed that the property, as it was checked before, does not hold: a refund
can make the spend of a project negative, and a person who describes that project besides the selection has
described less than half, while the period is rightly called ready. `ReadyIsEarned` now counts, where a
project is negative, what was to be described; the run has a refund among its spends.

`DataInduction` is where the proofs by induction come from. The library's theorems of induction take an operator
as a parameter, which the provers cannot instantiate. Its facts about well-founded orders do not: `LeastNumber` is `WFMin`
of the order of the natural numbers, and `NatInductionOnSets`, `InductionUpTo`, `FiniteMaximum` and `SubsetInduction`
follow from it, stated of the set of the numbers, or of the subsets, that a claim holds of. `SumIsFold` shows by it that
`SumFunctionOnSet`, a fold defined with a recursive choice, is a sum, and `SumTyped`, `SumTakesOut`, `SumOfParts`,
`SumNotNegative` and `SumNotPositive` what one expects of sums.

`EntitlementProofs`, from `EntitlementAssumption` (the forms and files have their fields, a file's links lead
to records), for any number of projects, solutions, contracts, customers and files:

- `ReviewsTyped`, `ReviewsFollow`, `ReviewsBelong`, `ImportsInScope`.

`ReviewsFollowFacts` is inductive with `PendingInScope`, what is yet to be synced being the business of the
request under way, and with `ReviewsHaveTheirProject`. The argument is `PositionKept`: a position is made of four
records, and a step that leaves those alone leaves it as it was. The case that needs one is an import, for which
the projects outside `ProjectsTouched` have to be shown to have kept all four (`UntouchedKept`).

`ReferenceSeedProofs`, from `SeedAssumption` (a parent precedes its children in the tree, no reference customer is
listed twice, the demo begins with its company and its customers have names of their own), for any tree,
renames, references, demo and earlier databases:

- `SeedTyped`, `OneSentinel`, `StartsFailOnce`, `MarkIsOverAWholeSeed`, `RecordsLeft`, `StartsAddOnce`, `DemoComesWhole`.

That the sentinel is written over a whole seed needs what each step of a start tells of those before it
(`Passed`): the units up to `at` are there, then all of them, then all customers, and nothing but the start
itself runs meanwhile. That a start does not fail twice needs the company a failing one leaves to be there at the next
one's first check (`Failing`). The customers are a bag, for which the lemmas under "Bags" say what adding, removing and
renaming rows do. `AddedOnce` and `DemoIsWhole` compare with an earlier moment, and each has an invariant of its own:
`LeftInv`, that what a start has added so far was not there when the pages were left, and `DemoInv`, that a demo is
being added in order or is whole.

## Only model-checked

`RequestsEnd`, which is liveness under fairness, out of the provers' reach, as is `ENABLED`. Every other property of a
passing run is a theorem. That the documents' statements fail, which the violation runs show, is a matter of a
counterexample each.

## Where code and documents differ

| Run | Document | Code |
| --- | --- | --- |
| `import_skipped_rows` | ADR-0004 D1.6: a skipped row results in no write of any kind | a row without a link column inherits the stored link into the payload; the second plan reads that number as the file's own and may re-parent the record |
| `import_identifier` | README: an identifier in a file never selects the record to update | the number of a parent the file has yet to create is used to look the natural key up, and may be that of an unrelated live parent |
| `orphans_on_clean_database` | ADR-0005: orphans become impossible to create on a clean database | customer pages do not look the unit up, and that column has no constraint on an upgraded database |
| `entitlement_recorded` | ADR-0006 D4.1: recorded and resolved wordings can never disagree for the same facts | customer, contract and solution pages change the facts and do not sync |
| `claims_overflow` | docstring of `calculate_qualifying_amount` (`services.py:111`): whenever the guard fires, the line is warned about, "never silent" | the product of a finite cost and its percentage overflows and counts 0; the warnings look at the two figures, which are finite, so that an imported line is left out of a green project without a word |

One more has no run of its own: README says that `SEED_DEMO_DATA` seeds company, contracts, solutions, projects,
evidence and costs (`src/README.md:151`) and that a renamed seed record is respected (line 122). A unit the demo
looks up by name (`seed.py:286`) and that was renamed before the first start with the demo makes that start fail after
the company was committed, and the next one sees a company and serves what there is. `DemoIsWhole` states
what does hold, with this as its exception: where no start ended early, whether at that lookup or from outside, the
demo is whole. Without `~cut` TLC finds the failing start.

Met while modelling, and not stated as findings, because no document promises otherwise or the documents say
so themselves:

- An edit form of a cost line posts the figure it showed. When the line was changed in another tab in
  between, that figure is none the code calculated from what is stored now, and is kept as an override beside
  hours that contradict it (`origin` "outdated" is excepted from `GrossExplained` for it).
- Rows of one file are told apart by their keys as the file writes them ("This record appears more than once in
  the import file."). Two contracts of one name under the numbers 5 and 2 are two keys, although 5 may be a customer
  of the file that is found to be the stored customer 2: both are added, to the same customer. The operating
  procedure rejects a file with duplicate records, which such a file is not as it is written. `NoKeyAddedTwice` names
  the case (`WrittenApart`) and excludes every other.
- A refused delete of a period has removed its submission status already (`LoseSubmission`;
  `docs/codebase_assessment_2026-08-13.md:476` lists it).
- With the weights of `eligibility_weights.yml` and the cap for warnings, a project is green at exactly one score,
  100: whatever costs a point adds a warning or a blocker. `GreenIsEarned` states it.

## Not modelled

Parsing of uploaded files and forms, cleaning and its messages, export, reports, the cockpit, the setup
checklist, templates: they read and format. The datasets that cannot be imported or that have no
natural key. Text of rationales, summaries, audit events (the commit they share is modelled with the
record). How texts are matched: `services.py` and `framework_intelligence.py` look words up in strings, and the
models take what they find as constants or classes. The date arithmetic of claim deadlines. The knowledge
agent's checks: each source is fetched and its row written on its own, with nothing shared between them. More
than one server process: the program is started as one, and its in-process store assumes so.

## Plan

In this order; each module is written so that it can be proved about (no `RECURSIVE`, assumptions
named, invariants in named parts).

1. Proofs: a restriction under which `SkippedRowsUntouched` does hold (files in which every row gives its link); for
   `RequestsEnd`, that each turn of a run's loop leaves one source fewer to fetch, as an action property.
2. An abstract specification of the agent: a set of notices, each with a decision that only people change.
3. Extracted questions, and the knowledge agent's checks with the walk over redirects.
4. Purge scopes in dependency order, with the opportunity tables.
