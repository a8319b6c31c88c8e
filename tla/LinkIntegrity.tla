--------------------------- MODULE LinkIntegrity ---------------------------
(***************************************************************************)
(* Links between records, and the foreign-key control that is switched on  *)
(* at startup after a clean scan (app/database.py, app/data_integrity.py,  *)
(* the lifespan and the record pages of app/main.py; ADR-0005 D1 to D4).   *)
(*                                                                         *)
(* One table of parents and one of children stand for any pair the models  *)
(* declare.  The page that saves a child runs on the event loop and writes *)
(* in one transaction; it does not look the parent up.  A delete page runs *)
(* in a thread: it queries the dependants first and deletes later, in      *)
(* transactions of its own, so that anything may be committed in between.  *)
(* The process may end at any point; what is committed stays.              *)
(***************************************************************************)
EXTENDS Naturals, Sequences

CONSTANTS
  MaxId,          \* bound of the parents' identifiers
  Children,       \* child rows that may exist
  Companions,     \* children no dependency rule lists: a project's
                  \* entitlement review, a period's submission status
  Unconstrained,  \* children whose link column has no REFERENCES clause
  Threads,        \* threads running a delete page
  MaxGen,         \* bound: times one identifier is handed out
  None,           \* a null link
  Gone            \* the child row does not exist

Parents == 1 .. MaxId

ASSUME LinkAssumption ==
  /\ MaxId \in Nat
  /\ MaxGen \in Nat
  /\ Companions \subseteq Children
  /\ Unconstrained \subseteq Children
  /\ None \notin Parents
  /\ Gone \notin Parents
  /\ None # Gone

VARIABLES
  live,       \* identifiers of the parents in the database
  link,       \* child -> the identifier in its link column
  phase,      \* "down", or how the last startup ended
  enforcing,  \* PRAGMA foreign_keys of the connections requests get
  warning,    \* INTEGRITY_WARNING is set: every page shows the banner
  setting,    \* ENFORCE_FOREIGN_KEYS
  thread,     \* what each delete thread is doing
  \* History, read by no action:
  gen,        \* parent identifier -> records that have had it so far
  born,       \* child -> which of them its link was saved for
  everOff     \* requests have been served without enforcement

store == <<live, link, gen, born>>
control == <<phase, enforcing, warning, setting, everOff>>
vars == <<live, link, phase, enforcing, warning, setting, thread,
          gen, born, everOff>>

Phases == {"down", "on", "withheld", "scan_failed"}

\* The steps of delete_or_block, delete_project and delete_accounting_period.
Script ==
  [plain   |-> <<"check", "delete">>,
   project |-> <<"check", "companion", "delete">>,
   period  |-> <<"check", "companion", "check", "delete">>]

DeleteRun ==
  [script : DOMAIN Script, parent : Parents \cup {None}, step : 0 .. 5]

Idle == [script |-> "plain", parent |-> None, step |-> 0]

Running == phase # "down"

Init ==
  /\ live = {}
  /\ link = [c \in Children |-> Gone]
  /\ phase = "down"
  /\ enforcing = FALSE
  /\ warning = FALSE
  /\ setting \in BOOLEAN
  /\ thread = [t \in Threads |-> Idle]
  /\ gen = [p \in Parents |-> 0]
  /\ born = [c \in Children |-> 0]
  /\ everOff = FALSE

-----------------------------------------------------------------------------
\* scan_orphans: every declared link, whether or not the schema enforces it.
Orphans == {c \in Children : link[c] \in Parents \ live}

\* Mutant of ScanOrphans: columns without a constraint only.
ScanUnenforced == Orphans \cap Unconstrained

ScanOrphans == Orphans

\* Mutant of Startup: the banner reports orphans and forgets the setting.
StartupWarnsOfOrphans ==
  /\ phase = "down"
  /\ enforcing' = (setting /\ ScanOrphans = {})
  /\ warning' = (ScanOrphans # {})
  /\ phase' = IF enforcing' THEN "on" ELSE "withheld"
  /\ everOff' = (everOff \/ ~enforcing')
  /\ UNCHANGED <<store, setting, thread>>

\* lifespan and apply_foreign_key_policy: scan with enforcement off, then
\* switch it on, or withhold it and say so.
Startup ==
  /\ phase = "down"
  /\ enforcing' = (setting /\ ScanOrphans = {})
  /\ warning' = (~setting \/ ScanOrphans # {})
  /\ phase' = IF enforcing' THEN "on" ELSE "withheld"
  /\ everOff' = (everOff \/ ~enforcing')
  /\ UNCHANGED <<store, setting, thread>>

\* An exception in the scan withholds the control and is only logged.
StartupScanFails ==
  /\ phase = "down"
  /\ enforcing' = FALSE
  /\ warning' = FALSE
  /\ phase' = "scan_failed"
  /\ everOff' = TRUE
  /\ UNCHANGED <<store, setting, thread>>

\* Shutdown or crash: threads end where they are, process state is lost.
Stop ==
  /\ Running
  /\ phase' = "down"
  /\ enforcing' = FALSE
  /\ warning' = FALSE
  /\ thread' = [t \in Threads |-> Idle]
  /\ UNCHANGED <<store, setting, everOff>>

ChangeSetting ==
  /\ phase = "down"
  /\ setting' = ~setting
  /\ UNCHANGED <<store, thread, phase, enforcing, warning, everOff>>

-----------------------------------------------------------------------------
\* A new parent, from its page or, before the scan, from the seeds.  SQLite
\* gives it the number after the largest in the table, which may have been
\* the number of a deleted record.
CreateParent(p) ==
  /\ \A q \in live : q < p
  /\ p = 1 \/ p - 1 \in live
  /\ gen[p] < MaxGen
  /\ live' = live \cup {p}
  /\ gen' = [gen EXCEPT ![p] = @ + 1]
  /\ UNCHANGED <<link, born, thread, control>>

\* The database accepts the link: the REFERENCES clause, where there is one.
Accepts(c, p) == enforcing /\ c \notin Unconstrained => p \in live

\* Create or update a child.  The page may be old: p need not exist any more.
SaveChild(c, p) ==
  /\ Running
  /\ Accepts(c, p)
  /\ link' = [link EXCEPT ![c] = p]
  /\ born' = [born EXCEPT ![c] = gen[p]]
  /\ UNCHANGED <<live, gen, thread, control>>

\* Mutant of UnlinkChild: a link left empty is stored as number 0.
UnlinkChildAsZero(c) ==
  /\ Running
  /\ link[c] # Gone
  /\ link' = [link EXCEPT ![c] = 0]
  /\ UNCHANGED <<live, gen, born, thread, control>>

\* Clear an optional link.
UnlinkChild(c) ==
  /\ Running
  /\ link[c] # Gone
  /\ link' = [link EXCEPT ![c] = None]
  /\ UNCHANGED <<live, gen, born, thread, control>>

DeleteChild(c) ==
  /\ Running
  /\ link[c] # Gone
  /\ link' = [link EXCEPT ![c] = Gone]
  /\ UNCHANGED <<live, gen, born, thread, control>>

-----------------------------------------------------------------------------
Referring(p) == {c \in Children : link[c] = p}

\* Thread t's next step is this one.
At(t, what) ==
  /\ Running
  /\ thread[t].step \in DOMAIN Script[thread[t].script]
  /\ Script[thread[t].script][thread[t].step] = what

Advance(t) == thread' = [thread EXCEPT ![t].step = @ + 1]
Finish(t) == thread' = [thread EXCEPT ![t] = Idle]

\* A delete page is posted; its parent may be gone already.
BeginDelete(t, script, p) ==
  /\ Running
  /\ thread[t] = Idle
  /\ thread' = [thread EXCEPT ![t] = [script |-> script, parent |-> p, step |-> 1]]
  /\ UNCHANGED <<store, control>>

\* The dependency queries: DEPENDENCY_RULES knows of every child but companions.
CheckPasses(t) ==
  /\ At(t, "check")
  /\ thread[t].parent \in live
  /\ Referring(thread[t].parent) \subseteq Companions
  /\ Advance(t)
  /\ UNCHANGED <<store, control>>

CheckBlocks(t) ==
  /\ At(t, "check")
  /\ \/ thread[t].parent \notin live
     \/ ~(Referring(thread[t].parent) \subseteq Companions)
  /\ Finish(t)
  /\ UNCHANGED <<store, control>>

\* The companion is deleted and committed on its own.
DropCompanion(t) ==
  /\ At(t, "companion")
  /\ \E c \in Companions :
       /\ link[c] = thread[t].parent
       /\ link' = [link EXCEPT ![c] = Gone]
  /\ Advance(t)
  /\ UNCHANGED <<live, gen, born, control>>

NoCompanion(t) ==
  /\ At(t, "companion")
  /\ Referring(thread[t].parent) \cap Companions = {}
  /\ Advance(t)
  /\ UNCHANGED <<store, control>>

\* Children the database will not let go of their parent.
Holding(p) == {c \in Referring(p) : enforcing /\ c \notin Unconstrained}

\* Mutant of DeleteParent: what the check found is relied upon.
DeleteParentUnheld(t) ==
  /\ At(t, "delete")
  /\ live' = live \ {thread[t].parent}
  /\ Finish(t)
  /\ UNCHANGED <<link, gen, born, control>>

\* DELETE and COMMIT.  The row may be gone; then nothing is deleted.
DeleteParent(t) ==
  /\ At(t, "delete")
  /\ Holding(thread[t].parent) = {}
  /\ live' = live \ {thread[t].parent}
  /\ Finish(t)
  /\ UNCHANGED <<link, gen, born, control>>

\* IntegrityError: rolled back, and the page answers 500.
DeleteRefused(t) ==
  /\ At(t, "delete")
  /\ Holding(thread[t].parent) # {}
  /\ Finish(t)
  /\ UNCHANGED <<store, control>>

DeletePage(t) ==
  \/ CheckPasses(t)
  \/ CheckBlocks(t)
  \/ DropCompanion(t)
  \/ NoCompanion(t)
  \/ DeleteParent(t)
  \/ DeleteRefused(t)

Next ==
  \/ Startup
  \/ StartupScanFails
  \/ Stop
  \/ ChangeSetting
  \/ \E p \in Parents : CreateParent(p)
  \/ \E c \in Children, p \in Parents : SaveChild(c, p)
  \/ \E c \in Children : UnlinkChild(c) \/ DeleteChild(c)
  \/ \E t \in Threads, script \in DOMAIN Script, p \in Parents :
       BeginDelete(t, script, p)
  \/ \E t \in Threads : DeletePage(t)

Spec == Init /\ [][Next]_vars

-----------------------------------------------------------------------------
TypeOK ==
  /\ live \subseteq Parents
  /\ link \in [Children -> Parents \cup {None, Gone}]
  /\ phase \in Phases
  /\ enforcing \in BOOLEAN
  /\ warning \in BOOLEAN
  /\ setting \in BOOLEAN
  /\ thread \in [Threads -> DeleteRun]
  /\ gen \in [Parents -> Nat]
  /\ born \in [Children -> Nat]
  /\ everOff \in BOOLEAN

Linked(c) == link[c] \in live \cup {None, Gone}

\* With enforcement on, every link the schema knows of leads to a record:
\* through delete pages that checked before the child was saved, saves that
\* name a deleted parent, crashes between two commits, and restarts.
EnforcedLinksHold ==
  enforcing => \A c \in Children \ Unconstrained : Linked(c)

\* As long as no request was ever served without enforcement, a child also
\* stays with the record it was saved for: its number is never handed to
\* another record behind its back.
ChildrenStayWithTheirParent ==
  ~everOff => \A c \in Children \ Unconstrained :
    Linked(c) /\ (link[c] \in live => born[c] = gen[link[c]])

\* D3.6: the operator is never unaware.  Pages that show no banner speak for
\* their links, for as long as they are served: whatever is saved and deleted
\* since the start, and whatever the last run left behind with its control
\* switched off, no link the schema knows of is broken behind a quiet page.
\* Only a scan that raised is quiet for another reason: it is logged.
QuietPagesAreTrue ==
  Running /\ ~warning /\ phase # "scan_failed" =>
    \A c \in Children \ Unconstrained : Linked(c)

-----------------------------------------------------------------------------
(* A statement of the documents that the code does not keep. *)

\* ADR-0005, Consequences: orphans become impossible to create on a clean
\* database, at two independent layers.
NoOrphansOnACleanDatabase == ~everOff => Orphans = {}
=============================================================================
