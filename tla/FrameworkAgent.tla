--------------------------- MODULE FrameworkAgent ---------------------------
(***************************************************************************)
(* The procurement watch agent (app/framework_intelligence.py and its      *)
(* pages in app/main.py; ADR-0003 D5): official sources are fetched one by *)
(* one, each answer leaves a snapshot, and the notices on it become        *)
(* opportunities with requirements and review prompts ("signals").         *)
(*                                                                         *)
(* A run of a saved search and a check of one source are sync handlers:    *)
(* they run in threads, beside each other and beside the pages.  A run     *)
(* writes its own row first, so that it holds SQLite's write lock over all *)
(* its fetches, until its only commit; whoever else wants to write waits,  *)
(* and fails if that takes too long.  A check fetches first and writes     *)
(* afterwards.                                                             *)
(*                                                                         *)
(* The variables hold what the holder of the lock sees; run.saved is what  *)
(* a rollback brings back.                                                 *)
(***************************************************************************)
EXTENDS Naturals, Sequences, FiniteSets

CONSTANTS
  Sources,        \* numbered in the order of their names
  Profiles,
  Notices, Texts,
  Themes,         \* keys of REQUIREMENT_PATTERNS
  General,        \* "general framework fit"
  SignalThemes,   \* RDEC_SIGNAL_THEMES
  Mentions,       \* themes a text mentions (ADR-0003 D5.1)
  Corroborates,   \* those it gives more than a lone generic word for (D5.2, D5.3)
  Relevant,       \* texts a profile's terms score above 0
  Publishes,      \* what a source can serve: sequences of notices with their text
  Flags,          \* source -> the settings it can have
  Statuses,       \* FRAMEWORK_OPPORTUNITY_STATUSES
  MaxChecks,      \* bound: checks under way at a time
  None, Failed

Candidates == [notice : Notices, text : Texts]
Pages == UNION {Publishes[s] : s \in Sources}
Settings == [active : BOOLEAN, approval : BOOLEAN, listed : BOOLEAN]
Topics == Themes \cup {General}

Opportunity ==
  [source : Sources, notice : Notices, text : Texts, profile : Profiles, status : Statuses,
   required : [Topics -> {"none", "low", "medium"}],
   signals : SUBSET SignalThemes, heard : SUBSET Themes]
Snapshots ==
  [hash : Pages \cup {Failed}, change : {"failed", "first_seen", "changed", "unchanged"}]
Saved ==
  [last : [Sources -> Snapshots \cup {None}], shown : [Sources -> Pages \cup {None}],
   opportunities : Seq(Opportunity)]
Runs ==
  [profile : Profiles, loaded : [Sources -> Settings], left : SUBSET Sources,
   source : Sources \cup {None}, waiting : BOOLEAN, page : Seq(Candidates), saved : Saved]

ASSUME AgentAssumption ==
  /\ Sources \subseteq Nat /\ IsFiniteSet(Sources)
  /\ SignalThemes \subseteq Themes /\ General \notin Themes
  /\ Mentions \in [Texts -> SUBSET Themes]
  /\ Corroborates \in [Texts -> SUBSET Themes]
  /\ \A t \in Texts : Corroborates[t] \subseteq Mentions[t]
  /\ Relevant \in [Profiles -> SUBSET Texts]
  /\ \A s \in Sources : Publishes[s] \subseteq Seq(Candidates)
  /\ \A s \in Sources : Flags[s] \subseteq Settings
  /\ MaxChecks \in Nat
  /\ "new" \in Statuses
  /\ Failed \notin Pages /\ None \notin Pages \cup {Failed} \cup Runs \cup Snapshots

VARIABLES
  settings,     \* source -> its flags
  last,         \* source -> its latest snapshot, or None
  opportunities,
  run,          \* the run that holds the write lock, or None
  checking,     \* source -> the answer a check holds, or None
  shown         \* history: source -> the page of its last good snapshot, or None

vars == <<settings, last, opportunities, run, checking, shown>>

-----------------------------------------------------------------------------
\* Mutant of ChangeType: an earlier failure is taken for no news.
ChangeTypeIfKnown(latest, answer) ==
  CASE answer = Failed -> "failed"
    [] answer # Failed /\ latest = None -> "first_seen"
    [] answer # Failed /\ latest # None ->
         IF latest.hash # Failed /\ latest.hash # answer THEN "changed" ELSE "unchanged"

\* Mutant of ChangeType: whatever did not answer is told from its hash.
ChangeTypeOfHash(latest, answer) ==
  CASE latest = None -> "first_seen"
    [] latest # None -> IF latest.hash # answer THEN "changed" ELSE "unchanged"

\* record_source_check_snapshot: the hash of a failed check is empty, here Failed.
ChangeType(latest, answer) ==
  CASE answer = Failed -> "failed"
    [] answer # Failed /\ latest = None -> "first_seen"
    [] answer # Failed /\ latest # None ->
         IF latest.hash # answer THEN "changed" ELSE "unchanged"

RecordSnapshot(s, answer) ==
  /\ last' = [last EXCEPT ![s] = [hash |-> answer, change |-> ChangeType(last[s], answer)]]
  /\ shown' = IF answer = Failed THEN shown ELSE [shown EXCEPT ![s] = answer]

\* Whether human_approval_blocked or the allow-list keeps a source from being fetched.
Blocked(flags) == flags.approval \/ ~flags.listed

\* fetch_source_url: a page, or any of the ways a request can fail.
Answers(s, flags) == IF Blocked(flags) THEN {Failed} ELSE Publishes[s] \cup {Failed}

-----------------------------------------------------------------------------
\* Mutant of Raised: only with a new requirement.
RaisedWhenNew(old, mentioned, corroborated) ==
  {t \in mentioned \cap corroborated \cap SignalThemes : old.required[t] = "none"}

\* The themes of a text whose signal create_requirement_and_signal makes sure of.
Raised(old, mentioned, corroborated) == mentioned \cap corroborated \cap SignalThemes

\* create_requirement_and_signal, for every theme of a text: an existing
\* requirement keeps the confidence it was made with.
Extract(old, mentioned, corroborated) ==
  [old EXCEPT
     !.required = [t \in Topics |->
        CASE t \notin mentioned \/ @[t] # "none" -> @[t]
          [] t \in mentioned /\ @[t] = "none" ->
               IF t \in corroborated THEN "medium" ELSE "low"],
     !.signals = @ \cup Raised(old, mentioned, corroborated),
     !.heard = @ \cup corroborated]

\* extract_requirements_for_opportunity: a text without a theme gets the fallback.
ThemesOf(text) == IF Mentions[text] = {} THEN {General} ELSE Mentions[text]

\* heard is history: what its texts have corroborated so far.
NewOpportunity(s, p, c) ==
  [source |-> s, notice |-> c.notice, text |-> c.text, profile |-> p, status |-> "new",
   required |-> [t \in Topics |-> "none"], signals |-> {}, heard |-> {}]

\* candidate_hash: over the source, the notice and its text.
Hashed(row) == <<row.source, row.notice, row.text>>

\* Mutant of Matching: by the hash alone.
MatchingHash(rows, s, c) ==
  {i \in DOMAIN rows : Hashed(rows[i]) = <<s, c.notice, c.text>>}

\* The rows upsert_opportunity looks up: those of the notice, and only if there
\* are none those with the hash.
Matching(rows, s, c) ==
  LET noted == {i \in DOMAIN rows : rows[i].source = s /\ rows[i].notice = c.notice}
  IN  IF noted # {} THEN noted
      ELSE {i \in DOMAIN rows : Hashed(rows[i]) = <<s, c.notice, c.text>>}

\* Mutant of Refresh: an update opens the review again.
RefreshAsNew(old, p, c) == [old EXCEPT !.text = c.text, !.profile = p, !.status = "new"]

\* What an update assigns; the review status is not among it.
Refresh(old, p, c) == [old EXCEPT !.text = c.text, !.profile = p]

\* upsert_opportunity, then the requirements of the text it has now.
Upsert(rows, s, p, c) ==
  LET found == Matching(rows, s, c)
      at == IF found = {} THEN Len(rows) + 1
            ELSE CHOOSE i \in found : \A j \in found : i <= j
      row == IF found = {} THEN NewOpportunity(s, p, c) ELSE Refresh(rows[at], p, c)
      extracted == Extract(row, ThemesOf(c.text), Corroborates[c.text])
  IN  IF found = {} THEN Append(rows, extracted) ELSE [rows EXCEPT ![at] = extracted]

-----------------------------------------------------------------------------
Init ==
  /\ settings \in [Sources -> Settings]
  /\ \A s \in Sources : settings[s] \in Flags[s]
  /\ last = [s \in Sources |-> None]
  /\ opportunities = <<>>
  /\ run = None
  /\ checking = [s \in Sources |-> None]
  /\ shown = [s \in Sources |-> None]

\* Nobody holds the write lock: a page or a thread can commit.
Unlocked == run = None

-----------------------------------------------------------------------------
\* run_framework_agent_for_profile writes its row, which takes the lock, and
\* then reads the active sources.
RunStart(p) ==
  /\ Unlocked
  /\ run' = [profile |-> p,
             loaded |-> settings,
             left |-> {s \in Sources : settings[s].active},
             source |-> None,
             waiting |-> FALSE,
             page |-> <<>>,
             saved |-> [last |-> last, shown |-> shown, opportunities |-> opportunities]]
  /\ UNCHANGED <<settings, last, opportunities, checking, shown>>

\* Mutant of LeftAfter: a source that does not answer is asked again.
LeftAfterAnswer(s, answer) == IF answer = Failed THEN run.left ELSE run.left \ {s}

\* The sources that are still to come after a turn of its loop, whatever came of it.
LeftAfter(s, answer) == run.left \ {s}

\* The source of the next turn of its loop.
NextSource(s) ==
  /\ run # None
  /\ run.page = <<>> /\ ~run.waiting
  /\ s \in run.left
  /\ \A other \in run.left : s <= other

\* A turn up to the snapshot; of a good page the notices are still to come.
TurnEnds(s, answer) ==
  /\ RecordSnapshot(s, answer)
  /\ run' = [run EXCEPT !.left = LeftAfter(s, answer), !.source = s, !.waiting = FALSE,
                        !.page = IF answer = Failed THEN <<>> ELSE answer]
  /\ UNCHANGED <<settings, opportunities, checking>>

\* A source that is held back is not asked.
RunHeldBack(s) ==
  /\ NextSource(s)
  /\ Blocked(run.loaded[s])
  /\ TurnEnds(s, Failed)

\* Any other is asked, and the run, with its lock, waits for it.
RunAsk(s) ==
  /\ NextSource(s)
  /\ ~Blocked(run.loaded[s])
  /\ run' = [run EXCEPT !.source = s, !.waiting = TRUE]
  /\ UNCHANGED <<settings, last, opportunities, checking, shown>>

\* It answers, or the request fails.
RunAnswer(answer) ==
  /\ run # None
  /\ run.waiting
  /\ answer \in Publishes[run.source] \cup {Failed}
  /\ TurnEnds(run.source, answer)

\* The first notice of the page that is left; one that scores nothing is passed over.
RunNotice ==
  /\ run # None
  /\ run.page # <<>>
  /\ LET c == Head(run.page)
     IN  opportunities' = IF c.text \in Relevant[run.profile]
                          THEN Upsert(opportunities, run.source, run.profile, c)
                          ELSE opportunities
  /\ run' = [run EXCEPT !.page = Tail(@)]
  /\ UNCHANGED <<settings, last, checking, shown>>

\* Its commit.
RunCommit ==
  /\ run # None
  /\ run.page = <<>> /\ run.left = {} /\ ~run.waiting
  /\ run' = None
  /\ UNCHANGED <<settings, last, opportunities, checking, shown>>

\* Anything raised in a run, or the process ending, undoes all of it; the
\* process takes the checks with it.
Undo == LET saved == IF run = None
                     THEN [last |-> last, shown |-> shown, opportunities |-> opportunities]
                     ELSE run.saved
        IN  /\ last' = saved.last
            /\ shown' = saved.shown
            /\ opportunities' = saved.opportunities
            /\ run' = None
            /\ UNCHANGED settings

RunFails == run # None /\ Undo /\ UNCHANGED checking

Restart == Undo /\ checking' = [s \in Sources |-> None]

-----------------------------------------------------------------------------
\* run_single_source_check up to its answer: it looks at the source's flags and
\* fetches, with no lock.
CheckStart(s, answer) ==
  /\ checking[s] = None
  /\ Cardinality({other \in Sources : checking[other] # None}) < MaxChecks
  /\ answer \in Answers(s, settings[s])
  /\ checking' = [checking EXCEPT ![s] = answer]
  /\ UNCHANGED <<settings, last, opportunities, run, shown>>

\* Its writes; the latest snapshot is read under the lock they take.
CheckRecord(s) ==
  /\ Unlocked
  /\ checking[s] # None
  /\ RecordSnapshot(s, checking[s])
  /\ checking' = [checking EXCEPT ![s] = None]
  /\ UNCHANGED <<settings, opportunities, run>>

\* "database is locked", after the driver's timeout.
CheckTimesOut(s) ==
  /\ ~Unlocked
  /\ checking[s] # None
  /\ checking' = [checking EXCEPT ![s] = None]
  /\ UNCHANGED <<settings, last, opportunities, run, shown>>

-----------------------------------------------------------------------------
\* Mutant of UpdateSource: a run that does not keep the pages waiting.
UpdateSourceUnlocked(s, flags) ==
  /\ settings' = [settings EXCEPT ![s] = flags]
  /\ UNCHANGED <<last, opportunities, run, checking, shown>>

\* update_framework_source; the address it stores is on the allow-list.
UpdateSource(s, flags) ==
  /\ Unlocked
  /\ flags.listed
  /\ settings' = [settings EXCEPT ![s] = flags]
  /\ UNCHANGED <<last, opportunities, run, checking, shown>>

\* update_framework_opportunity
ReviewOpportunity(i, status) ==
  /\ Unlocked
  /\ opportunities' = [opportunities EXCEPT ![i].status = status]
  /\ UNCHANGED <<settings, last, run, checking, shown>>

\* create_opportunity_document with extract_document_intelligence; its questions
\* are of no theme's making and left out.
AddDocument(i, text) ==
  /\ Unlocked
  /\ opportunities' = [opportunities EXCEPT
       ![i] = Extract(@, Mentions[text], Corroborates[text])]
  /\ UNCHANGED <<settings, last, run, checking, shown>>

\* purge_records, "opportunity_work" (a saved search can be made again) and
\* "activity_history".
PurgeOpportunityWork ==
  /\ Unlocked
  /\ opportunities' = <<>>
  /\ UNCHANGED <<settings, last, run, checking, shown>>

PurgeActivityHistory ==
  /\ Unlocked
  /\ last' = [s \in Sources |-> None]
  /\ shown' = [s \in Sources |-> None]
  /\ UNCHANGED <<settings, opportunities, run, checking>>

-----------------------------------------------------------------------------
\* What a run does by itself.
RunStep == \/ \E s \in Sources : RunHeldBack(s) \/ RunAsk(s)
           \/ RunNotice
           \/ RunCommit

Run == \/ \E p \in Profiles : RunStart(p)
       \/ RunStep
       \/ \E answer \in Pages \cup {Failed} : RunAnswer(answer)
       \/ RunFails

CheckEnds(s) == CheckRecord(s) \/ CheckTimesOut(s)

Check == \E s \in Sources :
           \/ \E answer \in Publishes[s] \cup {Failed} : CheckStart(s, answer)
           \/ CheckEnds(s)

Page == \/ \E s \in Sources : \E flags \in Flags[s] : UpdateSource(s, flags)
        \/ \E i \in DOMAIN opportunities :
             \/ \E status \in Statuses : ReviewOpportunity(i, status)
             \/ \E text \in Texts : AddDocument(i, text)
        \/ PurgeOpportunityWork
        \/ PurgeActivityHistory

Next == Run \/ Check \/ Page \/ Restart

\* A thread that can go on does, and the driver's wait for the lock ends.  Nobody
\* has to start a run, a run need not meet an error, and no source has to answer:
\* the timeout of a fetch is one of each connection and each read, and a page that
\* comes in small pieces, or over many redirects, may take any time.
Fairness ==
  /\ WF_vars(RunStep)
  /\ \A s \in Sources : WF_vars(CheckEnds(s))

Spec == Init /\ [][Next]_vars /\ Fairness

-----------------------------------------------------------------------------
\* Every variable has its type; a failed check says so.
TypeOK ==
  /\ settings \in [Sources -> Settings]
  /\ last \in [Sources -> Snapshots \cup {None}]
  /\ \A s \in Sources : last[s] # None => (last[s].hash = Failed <=> last[s].change = "failed")
  /\ opportunities \in Seq(Opportunity)
  /\ run \in Runs \cup {None}
  /\ run # None /\ (run.page # <<>> \/ run.waiting) => run.source \in Sources
  /\ checking \in [Sources -> Pages \cup {Failed, None}]
  /\ shown \in [Sources -> Pages \cup {None}]

\* "Duplicate notices are not recreated": however often, for whichever search
\* and with whatever text a notice is found, also twice on one page, there is one
\* opportunity for it.
NoticeOnce ==
  \A i, j \in DOMAIN opportunities :
    /\ opportunities[i].source = opportunities[j].source
    /\ opportunities[i].notice = opportunities[j].notice
    => i = j

\* A prompt stands for exactly the themes that some text of the opportunity, the
\* notice as it was or is or a document, has corroborated (ADR-0003 D5.3): also
\* when the requirement was there before, at low confidence.
SignalsFollowEvidence ==
  \A i \in DOMAIN opportunities :
    opportunities[i].signals = opportunities[i].heard \cap SignalThemes

\* A snapshot that says "unchanged" is of the page last seen, whatever failed
\* checks, runs and restarts lie between the two, and whoever recorded them.
UnchangedIsUnchanged ==
  [][\A s \in Sources :
       /\ last'[s] # last[s] /\ last'[s] # None /\ last'[s].change = "unchanged"
       /\ run' # None \/ run = None
       => shown[s] = last'[s].hash]_vars

\* A page that a run records is from a source whose settings allow the fetch at
\* that moment: nobody holds a source back unnoticed while a run is on.
NeverFetchedUnapproved ==
  [][\A s \in Sources :
       /\ run # None /\ run' # None
       /\ last'[s] # last[s] /\ last'[s].hash # Failed
       => ~Blocked(settings[s])]_vars

\* A run never changes what people decided about an opportunity it finds again.
DecisionsStand ==
  [][(run # None \/ run' # None) =>
       \A i \in DOMAIN opportunities \cap DOMAIN opportunities' :
         opportunities'[i].status = opportunities[i].status]_vars

\* The write lock is given back and every check is answered: whatever the sources
\* answer, hold back or publish, a run comes to its commit, an error or the end of
\* the process, and only a source that it asked and that never answers can keep it;
\* a check writes or times out, also behind such a run.
RequestsEnd ==
  /\ []<>(run = None) \/ <>[](run # None /\ run.waiting)
  /\ \A s \in Sources : (checking[s] # None) ~> (checking[s] = None)
=============================================================================
