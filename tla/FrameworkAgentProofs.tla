------------------------ MODULE FrameworkAgentProofs ------------------------
(***************************************************************************)
(* Proofs about the watch agent, for any number of sources, searches,      *)
(* notices and texts.  A run may be undone at any moment, so that whatever *)
(* is said of the snapshots and the opportunities has to be said of what   *)
(* the rollback brings back as well; and the run reads the settings once,  *)
(* so that they have to be those of the whole run.                         *)
(***************************************************************************)
EXTENDS FrameworkAgent, TLAPS

\* Snapshots that can be compared with: a failed one says so, and any other is
\* of the page last seen.
LastSound(latest, pages) ==
  \A s \in Sources : latest[s] # None =>
    /\ latest[s].hash = Failed <=> latest[s].change = "failed"
    /\ latest[s].hash # Failed => pages[s] = latest[s].hash

\* One row for a notice, with the prompts its texts have corroborated.
RowsSound(rows) ==
  /\ \A i, j \in DOMAIN rows :
       rows[i].source = rows[j].source /\ rows[i].notice = rows[j].notice => i = j
  /\ \A i \in DOMAIN rows : rows[i].signals = rows[i].heard \cap SignalThemes

\* Later rows go on from earlier ones without touching what people decided.
Continues(rows, later) ==
  /\ Len(rows) <= Len(later)
  /\ \A i \in DOMAIN rows : later[i].status = rows[i].status

RunSound ==
  run # None =>
    /\ run.loaded = settings
    /\ run.waiting => ~Blocked(run.loaded[run.source])
    /\ LastSound(run.saved.last, run.saved.shown)
    /\ RowsSound(run.saved.opportunities)
    /\ Continues(run.saved.opportunities, opportunities)

IInv == TypeOK /\ LastSound(last, shown) /\ RowsSound(opportunities) /\ RunSound

-----------------------------------------------------------------------------
\* What the extraction of a text does to a row, as the rest of the proof sees it.
LEMMA ExtractSound ==
  ASSUME NEW old \in Opportunity, NEW mentioned \in SUBSET Topics,
         NEW corroborated \in SUBSET Themes, corroborated \subseteq mentioned,
         old.signals = old.heard \cap SignalThemes
  PROVE  /\ Extract(old, mentioned, corroborated) \in Opportunity
         /\ Extract(old, mentioned, corroborated).source = old.source
         /\ Extract(old, mentioned, corroborated).notice = old.notice
         /\ Extract(old, mentioned, corroborated).status = old.status
         /\ Extract(old, mentioned, corroborated).signals
              = Extract(old, mentioned, corroborated).heard \cap SignalThemes
<1> DEFINE new == Extract(old, mentioned, corroborated)
           requiredNow == [t \in Topics |->
             CASE t \notin mentioned \/ old.required[t] # "none" -> old.required[t]
               [] t \in mentioned /\ old.required[t] = "none" ->
                    IF t \in corroborated THEN "medium" ELSE "low"]
<1>1. new = [old EXCEPT !.required = requiredNow,
               !.signals = old.signals \cup Raised(old, mentioned, corroborated),
               !.heard = old.heard \cup corroborated]
  BY DEF Extract, Opportunity
<1>2. requiredNow \in [Topics -> {"none", "low", "medium"}]
  BY DEF Opportunity
<1>3. Raised(old, mentioned, corroborated) \subseteq SignalThemes
  BY DEF Raised
<1> HIDE DEF new, requiredNow
<1>4. new \in Opportunity
  BY <1>1, <1>2, <1>3 DEF Opportunity
<1>5. /\ new.source = old.source /\ new.notice = old.notice /\ new.status = old.status
      /\ new.signals = old.signals \cup Raised(old, mentioned, corroborated)
      /\ new.heard = old.heard \cup corroborated
  BY <1>1 DEF Opportunity
<1>6. new.signals = new.heard \cap SignalThemes
  BY <1>5 DEF Raised
<1> QED BY <1>4, <1>5, <1>6 DEF new

\* A text corroborates what it mentions, and the fallback has no prompt.
LEMMA ThemesTyped ==
  ASSUME NEW t \in Texts
  PROVE  /\ Corroborates[t] \in SUBSET Themes
         /\ Mentions[t] \in SUBSET Topics /\ Corroborates[t] \subseteq Mentions[t]
         /\ ThemesOf(t) \in SUBSET Topics /\ Corroborates[t] \subseteq ThemesOf(t)
BY AgentAssumption DEF ThemesOf, Topics

\* Both of them: what a text of the configuration does to a row.
LEMMA TextSound ==
  ASSUME NEW old \in Opportunity, NEW t \in Texts, old.signals = old.heard \cap SignalThemes,
         NEW mentioned \in {ThemesOf(t), Mentions[t]}
  PROVE  /\ Extract(old, mentioned, Corroborates[t]) \in Opportunity
         /\ Extract(old, mentioned, Corroborates[t]).source = old.source
         /\ Extract(old, mentioned, Corroborates[t]).notice = old.notice
         /\ Extract(old, mentioned, Corroborates[t]).status = old.status
         /\ Extract(old, mentioned, Corroborates[t]).signals
              = Extract(old, mentioned, Corroborates[t]).heard \cap SignalThemes
<1> DEFINE corroborated == Corroborates[t]
<1>1. /\ mentioned \in SUBSET Topics /\ corroborated \in SUBSET Themes
      /\ corroborated \subseteq mentioned
  BY ThemesTyped
<1> HIDE DEF corroborated
<1>2. /\ Extract(old, mentioned, corroborated) \in Opportunity
      /\ Extract(old, mentioned, corroborated).source = old.source
      /\ Extract(old, mentioned, corroborated).notice = old.notice
      /\ Extract(old, mentioned, corroborated).status = old.status
      /\ Extract(old, mentioned, corroborated).signals
           = Extract(old, mentioned, corroborated).heard \cap SignalThemes
  BY <1>1, ExtractSound
<1> QED BY <1>2 DEF corroborated

\* A new row has no prompt, and a row that is refreshed keeps its prompts.
LEMMA RowsTyped ==
  ASSUME NEW s \in Sources, NEW p \in Profiles, NEW c \in Candidates, "new" \in Statuses
  PROVE  /\ NewOpportunity(s, p, c) \in Opportunity
         /\ NewOpportunity(s, p, c).source = s /\ NewOpportunity(s, p, c).notice = c.notice
         /\ NewOpportunity(s, p, c).signals = NewOpportunity(s, p, c).heard \cap SignalThemes
         /\ \A old \in Opportunity :
              /\ Refresh(old, p, c) \in Opportunity
              /\ Refresh(old, p, c).source = old.source
              /\ Refresh(old, p, c).notice = old.notice
              /\ Refresh(old, p, c).status = old.status
              /\ Refresh(old, p, c).signals = old.signals
              /\ Refresh(old, p, c).heard = old.heard
<1> USE DEF NewOpportunity, Refresh, Opportunity, Candidates
<1>1. [t \in Topics |-> "none"] \in [Topics -> {"none", "low", "medium"}]
  OBVIOUS
<1>2. NewOpportunity(s, p, c) \in Opportunity
  BY <1>1
<1> QED BY <1>2

\* A notice that is found again updates its row, and a new one gets a row of its
\* own: the lookup by notice comes before the one by hash.
LEMMA UpsertSound ==
  ASSUME NEW rows \in Seq(Opportunity), RowsSound(rows),
         NEW s \in Sources, NEW p \in Profiles, NEW c \in Candidates
  PROVE  /\ Upsert(rows, s, p, c) \in Seq(Opportunity)
         /\ RowsSound(Upsert(rows, s, p, c))
         /\ Continues(rows, Upsert(rows, s, p, c))
<1> DEFINE found == Matching(rows, s, c)
           at == IF found = {} THEN Len(rows) + 1
                 ELSE CHOOSE i \in found : \A j \in found : i <= j
           row == IF found = {} THEN NewOpportunity(s, p, c) ELSE Refresh(rows[at], p, c)
           new == Extract(row, ThemesOf(c.text), Corroborates[c.text])
           later == IF found = {} THEN Append(rows, new) ELSE [rows EXCEPT ![at] = new]
           noted == {i \in DOMAIN rows : rows[i].source = s /\ rows[i].notice = c.notice}
<1>1. Upsert(rows, s, p, c) = later
  BY DEF Upsert
<1>2. found = noted
  BY DEF Matching, Hashed
<1> HIDE DEF found, at, row, new, later, noted
<1>3. c.text \in Texts /\ "new" \in Statuses
  BY AgentAssumption DEF Candidates
<1>4. CASE found = {}
  <2>1. row = NewOpportunity(s, p, c)
    BY <1>4 DEF row
  <2>2. row \in Opportunity /\ row.source = s /\ row.notice = c.notice
        /\ row.signals = row.heard \cap SignalThemes
    BY <2>1, <1>3, RowsTyped
  <2>3. new \in Opportunity /\ new.source = s /\ new.notice = c.notice
        /\ new.signals = new.heard \cap SignalThemes
    BY <2>2, <1>3, TextSound DEF new
  <2>4. later = Append(rows, new)
    BY <1>4 DEF later
  <2>5. \A i \in DOMAIN rows : ~(rows[i].source = s /\ rows[i].notice = c.notice)
    BY <1>2, <1>4 DEF noted
  <2>6. /\ Append(rows, new) \in Seq(Opportunity)
        /\ DOMAIN rows = 1 .. Len(rows) /\ Len(rows) \in Nat
        /\ Len(Append(rows, new)) = Len(rows) + 1
        /\ DOMAIN Append(rows, new) = 1 .. Len(rows) + 1
        /\ \A i \in DOMAIN rows : Append(rows, new)[i] = rows[i]
        /\ Append(rows, new)[Len(rows) + 1] = new
    BY <2>3
  <2>7. RowsSound(Append(rows, new))
    BY <2>3, <2>5, <2>6 DEF RowsSound
  <2>8. Continues(rows, Append(rows, new))
    BY <2>6 DEF Continues
  <2> QED BY <1>1, <2>4, <2>6, <2>7, <2>8
<1>5. CASE found # {}
  <2>1. PICK k \in found : TRUE
    BY <1>5
  <2>2. \A i \in found : i = k
    BY <1>2, <2>1 DEF RowsSound, noted
  <2>3. at = k
    <3>1. \A j \in found : k <= j
      BY <1>2, <2>1, <2>2 DEF noted
    <3> QED BY <1>5, <2>1, <2>2, <3>1 DEF at
  <2>4. k \in DOMAIN rows /\ rows[k].source = s /\ rows[k].notice = c.notice
        /\ rows[k] \in Opportunity
    BY <1>2, <2>1 DEF noted
  <2>5. row = Refresh(rows[k], p, c)
    BY <1>5, <2>3 DEF row
  <2>6. /\ row \in Opportunity /\ row.source = s /\ row.notice = c.notice
        /\ row.status = rows[k].status
        /\ row.signals = row.heard \cap SignalThemes
    BY <2>4, <2>5, <1>3, RowsTyped DEF RowsSound
  <2>7. /\ new \in Opportunity /\ new.source = s /\ new.notice = c.notice
        /\ new.status = rows[k].status
        /\ new.signals = new.heard \cap SignalThemes
    BY <2>6, <1>3, TextSound DEF new
  <2>8. later = [rows EXCEPT ![k] = new]
    BY <1>5, <2>3 DEF later
  <2>9. /\ later \in Seq(Opportunity)
        /\ DOMAIN later = DOMAIN rows /\ Len(later) = Len(rows) /\ Len(rows) \in Nat
        /\ \A i \in DOMAIN rows : later[i] = IF i = k THEN new ELSE rows[i]
    BY <2>4, <2>7, <2>8
  <2>10. RowsSound(later)
    BY <2>4, <2>7, <2>9 DEF RowsSound
  <2>11. Continues(rows, later)
    BY <2>7, <2>9 DEF Continues
  <2> QED BY <1>1, <2>9, <2>10, <2>11
<1> QED BY <1>4, <1>5

-----------------------------------------------------------------------------
\* A snapshot keeps the snapshots comparable, and says what it has to say of the
\* page: "unchanged" is of the page last seen.
LEMMA SnapshotSound ==
  ASSUME TypeOK, LastSound(last, shown),
         NEW s \in Sources, NEW answer \in Pages \cup {Failed}, RecordSnapshot(s, answer)
  PROVE  /\ last' \in [Sources -> Snapshots \cup {None}]
         /\ shown' \in [Sources -> Pages \cup {None}]
         /\ LastSound(last', shown')
         /\ \A o \in Sources : last'[o] # last[o] => o = s /\ last'[o].hash = answer
         /\ last'[s].change = "unchanged" => shown[s] = last'[s].hash
<1> DEFINE change == ChangeType(last[s], answer)
           snapshot == [hash |-> answer, change |-> change]
<1>1. /\ last \in [Sources -> Snapshots \cup {None}] /\ shown \in [Sources -> Pages \cup {None}]
      /\ None \notin Snapshots
  BY AgentAssumption DEF TypeOK
<1>2. /\ last' = [last EXCEPT ![s] = snapshot]
      /\ shown' = IF answer = Failed THEN shown ELSE [shown EXCEPT ![s] = answer]
  BY DEF RecordSnapshot
<1>3. /\ change \in {"failed", "first_seen", "changed", "unchanged"}
      /\ answer = Failed <=> change = "failed"
      /\ change = "unchanged" => answer # Failed /\ last[s] # None /\ last[s].hash = answer
  BY DEF ChangeType
<1> HIDE DEF change
<1>4. snapshot \in Snapshots /\ snapshot.hash = answer /\ snapshot.change = change
  BY <1>3 DEF Snapshots
<1> HIDE DEF snapshot
<1>5. last' \in [Sources -> Snapshots \cup {None}] /\ shown' \in [Sources -> Pages \cup {None}]
  BY <1>1, <1>2, <1>4
<1>6. \A o \in Sources :
        /\ last'[o] = IF o = s THEN snapshot ELSE last[o]
        /\ shown'[o] = IF o = s /\ answer # Failed THEN answer ELSE shown[o]
  BY <1>1, <1>2
<1>7. LastSound(last', shown')
  BY <1>3, <1>4, <1>6 DEF LastSound
<1>8. change = "unchanged" => shown[s] = answer
  BY <1>3 DEF LastSound
<1> QED BY <1>4, <1>5, <1>6, <1>7, <1>8

\* What a source publishes is a page, and a page is a sequence of notices.
LEMMA PagesTyped ==
  ASSUME NEW s \in Sources
  PROVE  Publishes[s] \subseteq Pages /\ Publishes[s] \subseteq Seq(Candidates)
BY AgentAssumption DEF Pages

\* Where nothing but the history of the checks differs, nothing has to be shown.
LEMMA Restored ==
  ASSUME IInv, Undo, checking' \in [Sources -> Pages \cup {Failed, None}]
  PROVE  IInv'
<1>1. run' = None /\ settings' = settings
  BY DEF Undo
<1>2. CASE run = None
  <2>1. last' = last /\ shown' = shown /\ opportunities' = opportunities
    BY <1>2 DEF Undo
  <2> QED BY <1>1, <2>1 DEF IInv, TypeOK, RunSound
<1>3. CASE run # None
  <2>1. /\ last' = run.saved.last /\ shown' = run.saved.shown
        /\ opportunities' = run.saved.opportunities
    BY <1>3 DEF Undo
  <2>2. run.saved \in Saved
    BY <1>3 DEF IInv, TypeOK, Runs
  <2>3. /\ last' \in [Sources -> Snapshots \cup {None}]
        /\ shown' \in [Sources -> Pages \cup {None}]
        /\ opportunities' \in Seq(Opportunity)
    BY <2>1, <2>2 DEF Saved
  <2>4. LastSound(last', shown') /\ RowsSound(opportunities')
    BY <1>3, <2>1 DEF IInv, RunSound
  <2>5. TypeOK'
    BY <1>1, <2>3, <2>4 DEF IInv, TypeOK, LastSound
  <2> QED BY <1>1, <2>4, <2>5 DEF IInv, RunSound
<1> QED BY <1>2, <1>3

-----------------------------------------------------------------------------
\* A turn of a run ends with the snapshot of its answer.
LEMMA TurnKeeps ==
  ASSUME IInv, run # None,
         NEW s \in Sources, NEW answer \in Publishes[s] \cup {Failed}, TurnEnds(s, answer)
  PROVE  IInv'
<1> TypeOK /\ LastSound(last, shown) /\ RowsSound(opportunities) /\ RunSound
  BY DEF IInv
<1>1. /\ answer \in Pages \cup {Failed}
      /\ answer # Failed => answer \in Seq(Candidates)
  BY PagesTyped
<1>2. run \in Runs /\ RecordSnapshot(s, answer) /\ UNCHANGED <<settings, opportunities, checking>>
  BY DEF TurnEnds, TypeOK
<1>3. /\ last' \in [Sources -> Snapshots \cup {None}]
      /\ shown' \in [Sources -> Pages \cup {None}]
      /\ LastSound(last', shown')
  BY <1>1, <1>2, SnapshotSound
<1>4. /\ run' \in Runs /\ run'.source = s /\ ~run'.waiting
      /\ run'.loaded = run.loaded /\ run'.saved = run.saved
  <2> DEFINE page == IF answer = Failed THEN <<>> ELSE answer
  <2>1. page \in Seq(Candidates)
    BY <1>1
  <2> HIDE DEF page
  <2>2. run' = [run EXCEPT !.left = run.left \ {s}, !.source = s, !.waiting = FALSE,
                           !.page = page]
    BY DEF TurnEnds, LeftAfter, page
  <2> QED BY <1>2, <2>1, <2>2 DEF Runs
<1>5. TypeOK'
  BY <1>2, <1>3, <1>4 DEF TypeOK, LastSound
<1>6. RunSound'
  BY <1>2, <1>4 DEF RunSound
<1> QED BY <1>2, <1>3, <1>5, <1>6 DEF IInv

\* The steps of a run.
LEMMA RunKeeps ==
  ASSUME IInv, Run
  PROVE  IInv'
<1> TypeOK /\ LastSound(last, shown) /\ RowsSound(opportunities) /\ RunSound
  BY DEF IInv
<1> USE DEF IInv
<1>0. None \notin Runs
  BY AgentAssumption
<1>1. ASSUME NEW p \in Profiles, RunStart(p)
      PROVE  IInv'
  <2> DEFINE saved == [last |-> last, shown |-> shown, opportunities |-> opportunities]
  <2>1. saved \in Saved
    BY DEF TypeOK, Saved
  <2>2. /\ run' \in Runs /\ run'.saved = saved /\ run'.loaded = settings /\ run'.page = <<>>
        /\ ~run'.waiting
    BY <1>1, <2>1 DEF RunStart, TypeOK, Runs
  <2>3. UNCHANGED <<settings, last, opportunities, checking, shown>>
    BY <1>1 DEF RunStart
  <2>4. TypeOK'
    BY <2>2, <2>3 DEF TypeOK
  <2>5. Continues(opportunities, opportunities)
    BY DEF Continues, TypeOK
  <2>6. RunSound'
    BY <2>2, <2>3, <2>5 DEF RunSound
  <2> QED BY <2>3, <2>4, <2>6
<1>2. ASSUME NEW s \in Sources, RunHeldBack(s)
      PROVE  IInv'
  BY <1>2, TurnKeeps DEF RunHeldBack, NextSource
<1>3. ASSUME NEW answer \in Pages \cup {Failed}, RunAnswer(answer)
      PROVE  IInv'
  <2>1. run # None /\ run.source \in Sources
    BY <1>3 DEF RunAnswer, TypeOK
  <2> QED BY <1>3, <2>1, TurnKeeps DEF RunAnswer
<1>4. ASSUME NEW s \in Sources, RunAsk(s)
      PROVE  IInv'
  <2>1. /\ run # None /\ run \in Runs /\ run.page = <<>> /\ ~Blocked(run.loaded[s])
        /\ run' = [run EXCEPT !.source = s, !.waiting = TRUE]
        /\ UNCHANGED <<settings, last, opportunities, checking, shown>>
    BY <1>4 DEF RunAsk, NextSource, TypeOK
  <2>2. /\ run' \in Runs /\ run'.source = s
        /\ run'.loaded = run.loaded /\ run'.saved = run.saved
    BY <2>1 DEF Runs
  <2>3. TypeOK'
    BY <2>1, <2>2 DEF TypeOK
  <2>4. RunSound'
    BY <2>1, <2>2 DEF RunSound
  <2> QED BY <2>1, <2>3, <2>4
<1>5. ASSUME RunNotice
      PROVE  IInv'
  <2> DEFINE c == Head(run.page)
  <2>1. /\ run # None /\ run \in Runs /\ run.page # <<>> /\ run.source \in Sources
        /\ UNCHANGED <<settings, last, checking, shown>>
    BY <1>5 DEF RunNotice, TypeOK
  <2>2. run.page \in Seq(Candidates) /\ run.profile \in Profiles
    BY <2>1 DEF Runs
  <2>3. c \in Candidates /\ Tail(run.page) \in Seq(Candidates)
    BY <2>1, <2>2
  <2>4. /\ run' \in Runs /\ run'.source = run.source
        /\ run'.loaded = run.loaded /\ run'.saved = run.saved /\ run'.waiting = run.waiting
    BY <1>5, <2>1, <2>3 DEF RunNotice, Runs
  <2>5. /\ opportunities' \in Seq(Opportunity)
        /\ RowsSound(opportunities')
        /\ Continues(opportunities, opportunities')
    <3>1. opportunities \in Seq(Opportunity)
      BY DEF TypeOK
    <3>2. CASE opportunities' = opportunities
      BY <3>1, <3>2 DEF Continues
    <3>3. CASE opportunities' = Upsert(opportunities, run.source, run.profile, c)
      BY <3>1, <3>3, <2>1, <2>2, <2>3, UpsertSound
    <3> QED BY <1>5, <3>2, <3>3 DEF RunNotice
  <2>6. Continues(run.saved.opportunities, opportunities')
    <3>1. run.saved.opportunities \in Seq(Opportunity)
      BY <2>1 DEF Runs, Saved
    <3>2. Continues(run.saved.opportunities, opportunities)
      BY <2>1 DEF RunSound
    <3> QED BY <3>1, <3>2, <2>5 DEF Continues, TypeOK
  <2>7. TypeOK'
    BY <2>1, <2>4, <2>5 DEF TypeOK
  <2>8. RunSound'
    BY <2>1, <2>4, <2>6 DEF RunSound
  <2> QED BY <2>1, <2>5, <2>7, <2>8
<1>6. ASSUME RunCommit
      PROVE  IInv'
  BY <1>6 DEF RunCommit, TypeOK, RunSound
<1>7. ASSUME RunFails
      PROVE  IInv'
  <2>1. Undo /\ checking' \in [Sources -> Pages \cup {Failed, None}]
    BY <1>7 DEF RunFails, TypeOK
  <2> QED BY <2>1, Restored
<1> QED BY <1>1, <1>2, <1>3, <1>4, <1>5, <1>6, <1>7 DEF Run, RunStep

\* The steps of the checks: their snapshots are recorded while nobody runs.
LEMMA CheckKeeps ==
  ASSUME IInv, Check
  PROVE  IInv'
<1> TypeOK /\ LastSound(last, shown) /\ RowsSound(opportunities) /\ RunSound
  BY DEF IInv
<1>1. ASSUME NEW s \in Sources, NEW answer \in Publishes[s] \cup {Failed}, CheckStart(s, answer)
      PROVE  IInv'
  <2>1. answer \in Pages \cup {Failed}
    BY PagesTyped
  <2>2. /\ UNCHANGED <<settings, last, opportunities, run, shown>>
        /\ checking' = [checking EXCEPT ![s] = answer]
    BY <1>1 DEF CheckStart
  <2>3. TypeOK'
    BY <2>1, <2>2 DEF TypeOK
  <2> QED BY <2>2, <2>3 DEF IInv, RunSound
<1>2. ASSUME NEW s \in Sources, CheckRecord(s)
      PROVE  IInv'
  <2>1. /\ run = None /\ UNCHANGED <<settings, opportunities, run>>
        /\ checking' = [checking EXCEPT ![s] = None]
        /\ RecordSnapshot(s, checking[s]) /\ checking[s] \in Pages \cup {Failed}
    BY <1>2 DEF CheckRecord, Unlocked, TypeOK
  <2>2. /\ last' \in [Sources -> Snapshots \cup {None}]
        /\ shown' \in [Sources -> Pages \cup {None}]
        /\ LastSound(last', shown')
    BY <2>1, SnapshotSound
  <2>3. TypeOK'
    BY <2>1, <2>2 DEF TypeOK, LastSound
  <2> QED BY <2>1, <2>2, <2>3 DEF IInv, RunSound
<1>3. ASSUME NEW s \in Sources, CheckTimesOut(s)
      PROVE  IInv'
  <2>1. /\ UNCHANGED <<settings, last, opportunities, run, shown>>
        /\ checking' = [checking EXCEPT ![s] = None]
    BY <1>3 DEF CheckTimesOut
  <2>2. TypeOK'
    BY <2>1 DEF TypeOK
  <2> QED BY <2>1, <2>2 DEF IInv, RunSound
<1> QED BY <1>1, <1>2, <1>3 DEF Check, CheckEnds

\* The pages, which find the lock free.
LEMMA PageKeeps ==
  ASSUME IInv, Page
  PROVE  IInv'
<1> TypeOK /\ LastSound(last, shown) /\ RowsSound(opportunities) /\ RunSound
  BY DEF IInv
<1>1. ASSUME NEW s \in Sources, NEW flags \in Flags[s], UpdateSource(s, flags)
      PROVE  IInv'
  <2>1. /\ run = None /\ UNCHANGED <<last, opportunities, run, checking, shown>>
        /\ settings' = [settings EXCEPT ![s] = flags] /\ flags \in Settings
    BY <1>1, AgentAssumption DEF UpdateSource, Unlocked
  <2>2. TypeOK'
    BY <2>1 DEF TypeOK
  <2> QED BY <2>1, <2>2 DEF IInv, RunSound
<1>2. ASSUME NEW i \in DOMAIN opportunities, NEW status \in Statuses, ReviewOpportunity(i, status)
      PROVE  IInv'
  <2> DEFINE row == [opportunities[i] EXCEPT !.status = status]
  <2>1. /\ run = None /\ UNCHANGED <<settings, last, run, checking, shown>>
        /\ opportunities' = [opportunities EXCEPT ![i] = row]
    BY <1>2 DEF ReviewOpportunity, Unlocked, TypeOK
  <2>2. opportunities[i] \in Opportunity
    BY DEF TypeOK
  <2>3. /\ row \in Opportunity /\ row.source = opportunities[i].source
        /\ row.notice = opportunities[i].notice
        /\ row.signals = row.heard \cap SignalThemes
    BY <2>2 DEF Opportunity, RowsSound
  <2> HIDE DEF row
  <2>4. /\ opportunities' \in Seq(Opportunity)
        /\ DOMAIN opportunities' = DOMAIN opportunities
        /\ \A j \in DOMAIN opportunities :
             opportunities'[j] = IF j = i THEN row ELSE opportunities[j]
    BY <2>1, <2>3 DEF TypeOK
  <2>5. RowsSound(opportunities')
    BY <2>3, <2>4 DEF RowsSound
  <2>6. TypeOK'
    BY <2>1, <2>4 DEF TypeOK
  <2> QED BY <2>1, <2>5, <2>6 DEF IInv, RunSound
<1>3. ASSUME NEW i \in DOMAIN opportunities, NEW text \in Texts, AddDocument(i, text)
      PROVE  IInv'
  <2> DEFINE row == Extract(opportunities[i], Mentions[text], Corroborates[text])
  <2>1. /\ run = None /\ UNCHANGED <<settings, last, run, checking, shown>>
        /\ opportunities' = [opportunities EXCEPT ![i] = row]
    BY <1>3 DEF AddDocument, Unlocked
  <2>2. /\ opportunities[i] \in Opportunity
        /\ opportunities[i].signals = opportunities[i].heard \cap SignalThemes
    BY DEF TypeOK, RowsSound
  <2>3. /\ row \in Opportunity /\ row.source = opportunities[i].source
        /\ row.notice = opportunities[i].notice
        /\ row.signals = row.heard \cap SignalThemes
    BY <2>2, TextSound
  <2> HIDE DEF row
  <2>4. /\ opportunities' \in Seq(Opportunity)
        /\ DOMAIN opportunities' = DOMAIN opportunities
        /\ \A j \in DOMAIN opportunities :
             opportunities'[j] = IF j = i THEN row ELSE opportunities[j]
    BY <2>1, <2>3 DEF TypeOK
  <2>5. RowsSound(opportunities')
    BY <2>3, <2>4 DEF RowsSound
  <2>6. TypeOK'
    BY <2>1, <2>4 DEF TypeOK
  <2> QED BY <2>1, <2>5, <2>6 DEF IInv, RunSound
<1>4. ASSUME PurgeOpportunityWork
      PROVE  IInv'
  <2>1. /\ run = None /\ UNCHANGED <<settings, last, run, checking, shown>>
        /\ opportunities' = <<>>
    BY <1>4 DEF PurgeOpportunityWork, Unlocked
  <2>2. TypeOK' /\ RowsSound(opportunities')
    BY <2>1 DEF TypeOK, RowsSound
  <2> QED BY <2>1, <2>2 DEF IInv, RunSound
<1>5. ASSUME PurgeActivityHistory
      PROVE  IInv'
  <2>1. /\ run = None /\ UNCHANGED <<settings, opportunities, run, checking>>
        /\ last' = [s \in Sources |-> None] /\ shown' = [s \in Sources |-> None]
    BY <1>5 DEF PurgeActivityHistory, Unlocked
  <2>2. TypeOK' /\ LastSound(last', shown')
    BY <2>1 DEF TypeOK, LastSound
  <2> QED BY <2>1, <2>2 DEF IInv, RunSound
<1> QED BY <1>1, <1>2, <1>3, <1>4, <1>5 DEF Page

\* The process starts anew.
LEMMA RestartKeeps ==
  ASSUME IInv, Restart
  PROVE  IInv'
<1>1. Undo /\ checking' \in [Sources -> Pages \cup {Failed, None}]
  BY DEF Restart
<1> QED BY <1>1, Restored

-----------------------------------------------------------------------------
\* The inductive invariant: what the snapshots, the rows, and what a rollback
\* would bring back have to do with one another.
THEOREM AgentInvariant == Spec => []IInv
<1>1. Init => IInv
  <2> SUFFICES ASSUME Init PROVE IInv
    OBVIOUS
  <2>1. TypeOK
    BY DEF Init, TypeOK
  <2>2. LastSound(last, shown) /\ RowsSound(opportunities) /\ RunSound
    BY DEF Init, LastSound, RowsSound, RunSound
  <2> QED BY <2>1, <2>2 DEF IInv
<1>2. IInv /\ [Next]_vars => IInv'
  <2> SUFFICES ASSUME IInv, [Next]_vars PROVE IInv'
    OBVIOUS
  <2>1. CASE UNCHANGED vars
    BY <2>1 DEF vars, IInv, TypeOK, RunSound
  <2> QED BY <2>1, RunKeeps, CheckKeeps, PageKeeps, RestartKeeps DEF Next
<1> QED BY <1>1, <1>2, PTL DEF Spec

\* Type correctness of the watch agent.
THEOREM AgentTyped == Spec => []TypeOK
BY AgentInvariant, PTL DEF IInv

\* However often a notice is found, there is one opportunity for it.
THEOREM NoticesOnce == Spec => []NoticeOnce
<1>1. IInv => NoticeOnce
  BY DEF IInv, RowsSound, NoticeOnce
<1> QED BY <1>1, AgentInvariant, PTL

\* A prompt stands for exactly what the texts of the opportunity corroborated.
THEOREM PromptsFollowEvidence == Spec => []SignalsFollowEvidence
<1>1. IInv => SignalsFollowEvidence
  BY DEF IInv, RowsSound, SignalsFollowEvidence
<1> QED BY <1>1, AgentInvariant, PTL

\* What a step records says "unchanged" of the page last seen only: a snapshot is
\* recorded by a run or a check, and what else changes the snapshots says nothing.
THEOREM UnchangedIsTrue == Spec => UnchangedIsUnchanged
<1> DEFINE A == \A s \in Sources :
                  /\ last'[s] # last[s] /\ last'[s] # None /\ last'[s].change = "unchanged"
                  /\ run' # None \/ run = None
                  => shown[s] = last'[s].hash
<1>1. IInv /\ [Next]_vars => [A]_vars
  <2> SUFFICES ASSUME IInv, Next, NEW o \in Sources,
                      last'[o] # last[o], last'[o] # None, last'[o].change = "unchanged",
                      run' # None \/ run = None
               PROVE  shown[o] = last'[o].hash
    BY DEF vars
  <2> TypeOK /\ LastSound(last, shown)
    BY DEF IInv
  <2>1. ASSUME NEW s \in Sources, NEW answer \in Pages \cup {Failed}, RecordSnapshot(s, answer)
        PROVE  shown[o] = last'[o].hash
    BY <2>1, SnapshotSound
  <2>2. CASE Run
    <3>1. ASSUME NEW p \in Profiles, RunStart(p)
          PROVE  FALSE
      BY <3>1 DEF RunStart
    <3>2. ASSUME NEW s \in Sources, RunHeldBack(s)
          PROVE  shown[o] = last'[o].hash
      BY <3>2, <2>1 DEF RunHeldBack, TurnEnds
    <3>3. ASSUME NEW answer \in Pages \cup {Failed}, RunAnswer(answer)
          PROVE  shown[o] = last'[o].hash
      <4>1. run.source \in Sources /\ RecordSnapshot(run.source, answer)
        BY <3>3 DEF RunAnswer, TurnEnds, TypeOK
      <4> QED BY <4>1, <2>1
    <3>4. ASSUME NEW s \in Sources, RunAsk(s)
          PROVE  FALSE
      BY <3>4 DEF RunAsk
    <3>5. CASE RunNotice \/ RunCommit
      BY <3>5 DEF RunNotice, RunCommit
    <3>6. CASE RunFails
      BY <3>6 DEF RunFails, Undo
    <3> QED BY <2>2, <3>1, <3>2, <3>3, <3>4, <3>5, <3>6 DEF Run, RunStep
  <2>3. CASE Check
    <3>1. ASSUME NEW s \in Sources, CheckRecord(s)
          PROVE  shown[o] = last'[o].hash
      <4>1. RecordSnapshot(s, checking[s]) /\ checking[s] \in Pages \cup {Failed}
        BY <3>1 DEF CheckRecord, TypeOK
      <4> QED BY <4>1, <2>1
    <3>2. ASSUME NEW s \in Sources, NEW answer, CheckStart(s, answer) \/ CheckTimesOut(s)
          PROVE  FALSE
      BY <3>2 DEF CheckStart, CheckTimesOut
    <3> QED BY <2>3, <3>1, <3>2 DEF Check, CheckEnds
  <2>4. CASE Page
    BY <2>4 DEF Page, UpdateSource, ReviewOpportunity, AddDocument, PurgeOpportunityWork,
                PurgeActivityHistory
  <2>5. CASE Restart
    BY <2>5 DEF Restart, Undo
  <2> QED BY <2>2, <2>3, <2>4, <2>5 DEF Next
<1> QED BY <1>1, AgentInvariant, PTL DEF Spec, UnchangedIsUnchanged

\* The settings of a run are those of the sources while it lasts, so that what it
\* fetches is allowed at that moment.
THEOREM FetchesAllowed == Spec => NeverFetchedUnapproved
<1> DEFINE A == \A s \in Sources :
                  /\ run # None /\ run' # None
                  /\ last'[s] # last[s] /\ last'[s].hash # Failed
                  => ~Blocked(settings[s])
<1>1. IInv /\ [Next]_vars => [A]_vars
  <2> SUFFICES ASSUME IInv, Next, NEW o \in Sources, run # None, run' # None,
                      last'[o] # last[o], last'[o].hash # Failed
               PROVE  ~Blocked(settings[o])
    BY DEF vars
  <2> /\ TypeOK /\ LastSound(last, shown)
      /\ run.loaded = settings
      /\ run.waiting => ~Blocked(settings[run.source])
    BY DEF IInv, RunSound
  <2>1. ASSUME NEW s \in Sources, RunHeldBack(s) \/ RunAsk(s)
        PROVE  FALSE
    <3>1. RunHeldBack(s)
      BY <2>1 DEF RunAsk
    <3>2. RecordSnapshot(s, Failed)
      BY <3>1 DEF RunHeldBack, TurnEnds
    <3> QED BY <3>2, SnapshotSound
  <2>2. ASSUME NEW answer \in Pages \cup {Failed}, RunAnswer(answer)
        PROVE  ~Blocked(settings[o])
    <3>1. /\ run.waiting /\ run.source \in Sources /\ RecordSnapshot(run.source, answer)
      BY <2>2 DEF RunAnswer, TurnEnds, TypeOK
    <3>2. o = run.source
      BY <3>1, SnapshotSound
    <3> QED BY <3>1, <3>2
  <2>3. ASSUME NEW p \in Profiles, RunStart(p)
        PROVE  FALSE
    BY <2>3 DEF RunStart, Unlocked
  <2>4. CASE RunNotice \/ RunCommit
    BY <2>4 DEF RunNotice, RunCommit
  <2>5. CASE RunFails \/ Restart
    BY <2>5 DEF RunFails, Restart, Undo
  <2>6. CASE Check
    BY <2>6 DEF Check, CheckEnds, CheckStart, CheckRecord, CheckTimesOut, Unlocked
  <2>7. CASE Page
    BY <2>7 DEF Page, UpdateSource, ReviewOpportunity, AddDocument, PurgeOpportunityWork,
                PurgeActivityHistory, Unlocked
  <2> QED BY <2>1, <2>2, <2>3, <2>4, <2>5, <2>6, <2>7 DEF Next, Run, RunStep
<1> QED BY <1>1, AgentInvariant, PTL DEF Spec, NeverFetchedUnapproved

\* A run goes on from the rows it found without touching their decisions, and what
\* its rollback brings back has the same ones.
THEOREM DecisionsKept == Spec => DecisionsStand
<1> DEFINE A == (run # None \/ run' # None) =>
                  \A i \in DOMAIN opportunities \cap DOMAIN opportunities' :
                    opportunities'[i].status = opportunities[i].status
<1>1. IInv /\ [Next]_vars => [A]_vars
  <2> SUFFICES ASSUME IInv, Next, run # None \/ run' # None
               PROVE  \A i \in DOMAIN opportunities \cap DOMAIN opportunities' :
                        opportunities'[i].status = opportunities[i].status
    BY DEF vars
  <2> TypeOK /\ RowsSound(opportunities) /\ RunSound
    BY DEF IInv
  <2>1. CASE RunNotice
    <3>1. run # None /\ run \in Runs /\ run.page # <<>> /\ run.source \in Sources
      BY <2>1 DEF RunNotice, TypeOK
    <3>2. Head(run.page) \in Candidates /\ run.profile \in Profiles
      BY <3>1 DEF Runs
    <3>3. Continues(opportunities, opportunities')
      <4>1. opportunities \in Seq(Opportunity)
        BY DEF TypeOK
      <4>2. CASE opportunities' = opportunities
        BY <4>1, <4>2 DEF Continues
      <4>3. CASE opportunities'
                   = Upsert(opportunities, run.source, run.profile, Head(run.page))
        BY <4>1, <4>3, <3>1, <3>2, UpsertSound
      <4> QED BY <2>1, <4>2, <4>3 DEF RunNotice
    <3> QED BY <3>3 DEF Continues
  <2>2. CASE RunFails \/ Restart
    <3>1. CASE run = None
      BY <2>2, <3>1 DEF RunFails, Restart, Undo
    <3>2. CASE run # None
      <4>1. /\ opportunities' = run.saved.opportunities
            /\ Continues(run.saved.opportunities, opportunities)
        BY <2>2, <3>2 DEF RunFails, Restart, Undo, RunSound
      <4> QED BY <4>1 DEF Continues
    <3> QED BY <3>1, <3>2
  <2>3. CASE Run /\ ~RunNotice /\ ~RunFails
    BY <2>3 DEF Run, RunStep, RunStart, RunHeldBack, RunAsk, RunAnswer, TurnEnds,
                RunCommit
  <2>4. CASE Check
    BY <2>4 DEF Check, CheckEnds, CheckStart, CheckRecord, CheckTimesOut
  <2>5. CASE Page
    BY <2>5 DEF Page, UpdateSource, ReviewOpportunity, AddDocument, PurgeOpportunityWork,
                PurgeActivityHistory, Unlocked
  <2> QED BY <2>1, <2>2, <2>3, <2>4, <2>5 DEF Next
<1> QED BY <1>1, AgentInvariant, PTL DEF Spec, DecisionsStand
=============================================================================
