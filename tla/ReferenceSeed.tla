--------------------------- MODULE ReferenceSeed ---------------------------
(***************************************************************************)
(* What a start of the program writes before it serves its first request   *)
(* (app/seed.py and lifespan in app/main.py; ADR-0005 D5), and the pages   *)
(* an operator uses between two starts: the record pages of units and      *)
(* customers, cleanup and purge (app/data_management.py).                  *)
(*                                                                         *)
(* A start is one sequence of commits, and the process may end between any *)
(* two.  What is read back is read from the database, so that nothing but  *)
(* the records, the sentinel and the demo's commits survives.  Opportunity *)
(* records and the framework sources are left out; pages act one at a time *)
(* (LinkIntegrity has them overlap).                                       *)
(***************************************************************************)
EXTENDS Naturals, Sequences, Bags

CONSTANTS
  Tree,        \* BUSINESS_UNIT_TREE, in order: [name, parent]
  Renames,     \* BUSINESS_UNIT_RENAMES, in order: <<old, new>>
  References,  \* REFERENCE_CUSTOMERS, in order: [name, unit]
  DemoStages,  \* the commits of seed_demo_data, in order
  DemoCustomers, \* the customers of the demo's third commit: [name, unit]
  OtherNames,  \* other names an operator gives a unit or a customer
  Earlier,     \* units of the databases that releases without a sentinel left
  MaxCustomers,  \* bound of the customers there are at a time
  None

NamesIn(seq) == {seq[i].name : i \in DOMAIN seq}
UnitNames ==
  NamesIn(Tree) \cup OtherNames \cup {Renames[i][1] : i \in DOMAIN Renames}
ReferenceNames == NamesIn(References)
CustomerNames ==
  ReferenceNames \cup NamesIn(DemoCustomers) \cup OtherNames
Stages == {DemoStages[i] : i \in DOMAIN DemoStages}

ASSUME SeedAssumption ==
  /\ None \notin UnitNames
  /\ Tree \in Seq([name : UnitNames, parent : UnitNames \cup {None}])
  /\ Renames \in Seq(UnitNames \X NamesIn(Tree))
  /\ \A u \in Earlier : DOMAIN u \subseteq UnitNames /\ u \in [DOMAIN u -> DOMAIN u \cup {None}]
  /\ \A i \in DOMAIN Tree :
       Tree[i].parent = None \/ \E j \in 1 .. i - 1 : Tree[j].name = Tree[i].parent
  /\ \A i \in DOMAIN References : References[i].unit \in NamesIn(Tree)
  /\ \A i, j \in DOMAIN References : References[i] = References[j] => i = j
  /\ NamesIn(DemoCustomers) \cap (ReferenceNames \cup OtherNames) = {}
  /\ DemoStages \in Seq(Stages) /\ Head(DemoStages) = "company"
  /\ {"company", "customers", "contracts"} \subseteq Stages
  /\ MaxCustomers \in Nat

VARIABLES
  phase,      \* where the process is: down, a step of a start, or serving
  at,         \* which rename, unit or demo commit comes next
  calls,      \* what lifespan has yet to call, first the one running
  units,      \* BusinessUnit rows: each name, which is unique, and its parent
  customers,  \* Customer rows, a bag: two may say the same
  sentinels,  \* how many seed_complete events there are
  claimant,   \* a company entered on the company page
  demo,       \* the demo commits whose records are there
  \* History, read by no action:
  failures,   \* starts that failed since a request was last served
  cut,        \* a start has ended early, interrupted or by a failing lookup
  left        \* the customers as the pages last left them; none while serving

database == <<units, customers, sentinels, claimant, demo>>
vars == <<phase, at, calls, database, failures, cut, left>>

Phases == {"down", "guard", "rename", "units", "customers", "mark", "demo", "serving"}
Calls == {<<>>, <<"reference">>, <<"demo">>, <<"reference", "demo">>}

-----------------------------------------------------------------------------
HasUnit(name) == name \in DOMAIN units
Row(customer) == [name |-> customer.name, unit |-> customer.unit]
Held(row) == BagIn(row, customers)

\* Under a new name, a unit keeps its children and its customers.
Renamed(n, old, new) == IF n = old THEN new ELSE n
RenamedUnits(old, new) ==
  [n \in (DOMAIN units \ {old}) \cup {new} |->
     Renamed(units[Renamed(n, new, old)], old, new)]
RenamedCustomers(bag, old, new) ==
  LET was(row) == [row EXCEPT !.unit = Renamed(@, new, old)]
      rows == {[row EXCEPT !.unit = Renamed(@, old, new)] : row \in BagToSet(bag)}
  IN [row \in rows |-> bag[was(row)]]

Goto(p) == phase' = p /\ at' = 1
Return ==
  /\ calls' = Tail(calls)
  /\ Goto(IF Len(calls) = 1 THEN "serving" ELSE "guard")

\* History: a start remembers what the pages left until it serves.
Remember == left' = IF phase' = "serving" THEN EmptyBag ELSE left

Init ==
  /\ phase = "down" /\ at = 1 /\ calls = <<>>
  /\ units \in Earlier
  /\ customers = EmptyBag
  /\ sentinels = 0 /\ claimant = FALSE /\ demo = {}
  /\ failures = 0 /\ cut = FALSE /\ left = EmptyBag

\* lifespan, with the settings this start is given.
Start(todo) ==
  /\ phase = "down"
  /\ calls' = todo
  /\ Goto(IF todo = <<>> THEN "serving" ELSE "guard")
  /\ UNCHANGED <<database, failures, cut>>
  /\ Remember

\* Mutant of ReferenceSeedComplete: the sentinel is not looked for.
ReferenceSeedNeverComplete == FALSE

ReferenceSeedComplete == sentinels > 0

\* seed_demo_data goes on with its own part once seed_business_units returns.
SeededUnits ==
  IF Head(calls) = "demo" THEN Goto("demo") /\ UNCHANGED calls ELSE Return

\* Mutant of Guard: the demo seeds the units and customers afresh.
GuardReferenceOnly ==
  /\ phase = "guard"
  /\ IF ReferenceSeedComplete /\ Head(calls) = "reference"
       THEN SeededUnits ELSE Goto("rename") /\ UNCHANGED calls
  /\ UNCHANGED <<database, failures, cut>>
  /\ Remember

Guard ==
  /\ phase = "guard"
  /\ IF ReferenceSeedComplete THEN SeededUnits ELSE Goto("rename") /\ UNCHANGED calls
  /\ UNCHANGED <<database, failures, cut>>
  /\ Remember

\* One entry of BUSINESS_UNIT_RENAMES, in a commit of its own.
Rename ==
  /\ phase = "rename"
  /\ IF at > Len(Renames)
       THEN Goto("units") /\ UNCHANGED <<units, customers, left>>
       ELSE LET old == Renames[at][1]
                new == Renames[at][2] IN
            /\ at' = at + 1 /\ UNCHANGED phase
            /\ IF HasUnit(old) /\ ~ HasUnit(new)
                 THEN /\ units' = RenamedUnits(old, new)
                      /\ customers' = RenamedCustomers(customers, old, new)
                      /\ left' = RenamedCustomers(left, old, new)
                 ELSE UNCHANGED <<units, customers, left>>
  /\ UNCHANGED <<calls, sentinels, claimant, demo, failures, cut>>

\* Mutant of AfterUnits: the sentinel follows the units.
AfterUnitsMark == Goto("mark")

AfterUnits == Goto("customers")

\* One entry of BUSINESS_UNIT_TREE, in a commit of its own.
SeedUnit ==
  /\ phase = "units"
  /\ IF at > Len(Tree)
       THEN AfterUnits /\ UNCHANGED units
       ELSE /\ at' = at + 1 /\ UNCHANGED phase
            /\ units' = IF HasUnit(Tree[at].name) THEN units
                        ELSE [n \in DOMAIN units \cup {Tree[at].name} |->
                                IF HasUnit(n) THEN units[n] ELSE Tree[at].parent]
  /\ UNCHANGED <<calls, customers, sentinels, claimant, demo, failures, cut, left>>

\* Mutant of Missing: what an interrupted start left is added again.
MissingAnyway == {Row(References[i]) : i \in DOMAIN References}

\* The reference customers the loop adds: those whose unit is there and does
\* not hold them yet.
Missing ==
  {row \in {Row(References[i]) : i \in DOMAIN References} :
     HasUnit(row.unit) /\ ~ Held(row)}

\* seed_reference_customers: all of them in one commit.
SeedCustomers ==
  /\ phase = "customers"
  /\ customers' = customers (+) SetToBag(Missing)
  /\ BagCardinality(customers') <= MaxCustomers
  /\ Goto("mark")
  /\ UNCHANGED <<calls, units, sentinels, claimant, demo, failures, cut, left>>

\* record_reference_seed, and the return from seed_business_units.
Mark ==
  /\ phase = "mark"
  /\ sentinels' = sentinels + 1
  /\ SeededUnits
  /\ UNCHANGED <<units, customers, claimant, demo, failures, cut>>
  /\ Remember

-----------------------------------------------------------------------------
\* Mutant of CompanyThere: only a company of the operator's stops the demo.
CompanyEntered == claimant

CompanyThere == claimant \/ "company" \in demo

\* The units of the demo's customers are looked up by name, and one that is
\* not there is an error no caller handles.
DemoUnitsThere == \A i \in DOMAIN DemoCustomers : HasUnit(DemoCustomers[i].unit)

\* seed_demo_data, past the units: not on a database that has a company.
SkipDemo ==
  /\ phase = "demo" /\ at = 1
  /\ CompanyThere
  /\ Return
  /\ UNCHANGED <<database, failures, cut>>
  /\ Remember

\* One of the demo's commits.
SeedDemo ==
  /\ phase = "demo"
  /\ at = 1 => ~ CompanyThere
  /\ IF at > Len(DemoStages)
       THEN Return /\ UNCHANGED <<demo, customers>>
       ELSE /\ at' = at + 1 /\ UNCHANGED <<phase, calls>>
            /\ demo' = demo \cup {DemoStages[at]}
            /\ IF DemoStages[at] = "customers"
                 THEN /\ DemoUnitsThere
                      /\ customers' = customers (+)
                           SetToBag({Row(DemoCustomers[i]) : i \in DOMAIN DemoCustomers})
                      /\ BagCardinality(customers') <= MaxCustomers
                 ELSE UNCHANGED customers
  /\ UNCHANGED <<units, sentinels, claimant, failures, cut>>
  /\ Remember

\* The lookup raises and so does lifespan: the start fails.
DemoFails ==
  /\ phase = "demo" /\ at \in DOMAIN DemoStages
  /\ DemoStages[at] = "customers" /\ ~ DemoUnitsThere
  /\ Goto("down") /\ calls' = <<>>
  /\ failures' = failures + 1
  /\ cut' = TRUE
  /\ UNCHANGED <<database, left>>

\* The process ends: while it starts, or while it serves.
Interrupt ==
  /\ phase \notin {"down", "serving"}
  /\ Goto("down") /\ calls' = <<>>
  /\ cut' = TRUE
  /\ UNCHANGED <<database, failures, left>>

Stop ==
  /\ phase = "serving"
  /\ Goto("down")
  /\ failures' = 0 /\ left' = customers
  /\ UNCHANGED <<calls, database, cut>>

-----------------------------------------------------------------------------
Page == phase = "serving" /\ UNCHANGED <<phase, at, calls, failures, cut, left>>

\* update_business_unit.  Bound: the parent is left as it is.
RenameUnit(u, name) ==
  /\ Page
  /\ ~ HasUnit(name)
  /\ units' = RenamedUnits(u, name)
  /\ customers' = RenamedCustomers(customers, u, name)
  /\ UNCHANGED <<sentinels, claimant, demo>>

\* Mutant of DeleteUnit: the customers are not looked for.
DeleteUnitUnheld(u) ==
  /\ Page
  /\ \A child \in DOMAIN units : units[child] # u
  /\ units' = [n \in DOMAIN units \ {u} |-> units[n]]
  /\ UNCHANGED <<customers, sentinels, claimant, demo>>

\* delete_business_unit is blocked by child units and by customers.
DeleteUnit(u) ==
  /\ Page
  /\ \A child \in DOMAIN units : units[child] # u
  /\ \A row \in BagToSet(customers) : row.unit # u
  /\ units' = [n \in DOMAIN units \ {u} |-> units[n]]
  /\ UNCHANGED <<customers, sentinels, claimant, demo>>

\* Bound: the customer pages and cleanup are used on the reference customers
\* and the operator's own, which have no contracts.
Own == {row \in BagToSet(customers) : row.name \notin NamesIn(DemoCustomers)}

\* create_customer, update_customer and delete_customer.
EditCustomer(row, name, unit) ==
  /\ Page
  /\ customers' = (customers (-) SetToBag({row}))
                    (+) SetToBag({[name |-> name, unit |-> unit]})
  /\ UNCHANGED <<units, sentinels, claimant, demo>>

CreateCustomer(row) ==
  /\ Page
  /\ BagCardinality(customers) < MaxCustomers
  /\ customers' = customers (+) SetToBag({row})
  /\ UNCHANGED <<units, sentinels, claimant, demo>>

DeleteCustomer(row) ==
  /\ Page
  /\ customers' = customers (-) SetToBag({row})
  /\ UNCHANGED <<units, sentinels, claimant, demo>>

CreateCompany ==
  /\ Page
  /\ claimant' = TRUE
  /\ UNCHANGED <<units, customers, sentinels, demo>>

\* What cleanup and purge leave alone, whatever else they are asked to remove.
IsReference(row) == row.unit # None /\ row.name \in ReferenceNames
ReferenceRows == [row \in {r \in BagToSet(customers) : IsReference(r)} |-> customers[row]]

\* delete_unused_records: the records asked for, each a candidate when posted.
Cleanup(S) ==
  /\ Page
  /\ \A row \in S : ~ IsReference(row)
  /\ customers' = customers (-) SetToBag(S)
  /\ UNCHANGED <<units, sentinels, claimant, demo>>

\* Mutant of PurgeClaimWork: the company is kept with its periods.
PurgeClaimWorkOnly ==
  /\ Page
  /\ demo' = demo \cap {"company", "customers"}
  /\ claimant' = FALSE
  /\ UNCHANGED <<units, customers, sentinels>>

\* purge_records of the claim work: the demo's records but its customers.
PurgeClaimWork ==
  /\ Page
  /\ demo' = demo \cap {"customers"}
  /\ claimant' = FALSE
  /\ UNCHANGED <<units, customers, sentinels>>

\* purge_records of all working data.
PurgeAllWorkingData ==
  /\ Page
  /\ demo' = {} /\ claimant' = FALSE
  /\ customers' = ReferenceRows
  /\ UNCHANGED <<units, sentinels>>

Next ==
  \/ \E todo \in Calls : Start(todo)
  \/ Guard \/ Rename \/ SeedUnit \/ SeedCustomers \/ Mark
  \/ SkipDemo \/ SeedDemo \/ DemoFails
  \/ Interrupt \/ Stop
  \/ \E u \in DOMAIN units, name \in OtherNames : RenameUnit(u, name)
  \/ \E u \in DOMAIN units : DeleteUnit(u)
  \/ \E name \in ReferenceNames, unit \in DOMAIN units :
       CreateCustomer([name |-> name, unit |-> unit])
  \/ \E row \in Own, name \in OtherNames : EditCustomer(row, name, row.unit)
  \/ \E row \in Own, unit \in DOMAIN units \cup {None} : EditCustomer(row, row.name, unit)
  \/ \E row \in Own : DeleteCustomer(row)
  \/ CreateCompany
  \/ \E S \in SUBSET Own : S # {} /\ Cleanup(S)
  \/ PurgeClaimWork \/ PurgeAllWorkingData

Spec == Init /\ [][Next]_vars

-----------------------------------------------------------------------------
RecordsTyped ==
  /\ phase \in Phases /\ at \in Nat \ {0} /\ calls \in Calls
  /\ DOMAIN units \subseteq UnitNames
  /\ units \in [DOMAIN units -> DOMAIN units \cup {None}]
  /\ IsABag(customers)
  /\ BagToSet(customers) \subseteq [name : CustomerNames,
                                    unit : DOMAIN units \cup {None}]
  /\ sentinels \in Nat /\ claimant \in BOOLEAN /\ demo \subseteq Stages
  /\ failures \in Nat /\ cut \in BOOLEAN

TypeOK == RecordsTyped /\ IsABag(left)

Starting == phase \notin {"down", "serving"}

\* "If you rename or delete a seeded record afterwards, the Hub respects that
\* and does not recreate it" (README.md): once the sentinel is there a start
\* leaves units and customers as the operator left them, and adds no customer
\* but the demo's.
StartLeavesRecords ==
  [][Starting /\ sentinels > 0 =>
       /\ units' = units
       /\ customers \sqsubseteq customers'
       /\ \A row \in BagToSet(customers' (-) customers) :
            row.name \in NamesIn(DemoCustomers)]_vars

\* Starts, however many of them are cut short one after the other, follow the
\* renames of units and remove no customer; and once they are over, or at any
\* point where they end, no customer but the demo's is there twice that was
\* not when the pages were last served.
AddedOnce ==
  phase # "serving" =>
    /\ left \sqsubseteq customers
    /\ \A row \in BagToSet(customers) :
         \/ row.name \in NamesIn(DemoCustomers)
         \/ customers[row] = 1
         \/ BagIn(row, left) /\ left[row] = customers[row]

\* The sentinel is written over a whole seed only, wherever earlier starts were
\* interrupted and whatever the database held (record_reference_seed).
MarkedWhenWhole ==
  [][sentinels' > sentinels =>
       /\ \A i \in DOMAIN Tree : HasUnit(Tree[i].name)
       /\ \A i \in DOMAIN References : Held(Row(References[i]))]_vars

\* "Exactly one seed_complete sentinel exists" (ADR-0005, Conformance 9), and
\* no demo record without it.
SentinelOnce == sentinels <= 1 /\ (demo # {} => sentinels = 1)

\* A start that fails does not fail again: nothing an operator did keeps the
\* program from being served for good (the company check of seed_demo_data).
FailsOnce == failures <= 1

\* SEED_DEMO_DATA "seeds the demo company, contracts, solutions, projects,
\* evidence, and costs" (README.md): a database served with the demo's company
\* has the rest of the demo, through purges, renames and any settings, as long
\* as no start ended early.  One that did leaves a part of the demo for good.
DemoIsWhole ==
  phase = "serving" /\ ~cut /\ "company" \in demo => demo = Stages
=============================================================================
