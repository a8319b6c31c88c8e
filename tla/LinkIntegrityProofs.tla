------------------------ MODULE LinkIntegrityProofs ------------------------
(***************************************************************************)
(* For every number of records, children and delete threads: links hold    *)
(* while the database enforces them, and a database that was never served  *)
(* without enforcement never gives a child another parent.                 *)
(*                                                                         *)
(* EnforcedLinksHold is inductive beside the types: the scan establishes   *)
(* it when it switches the control on, Accepts and Holding preserve it.    *)
(* ChildrenStayWithTheirParent is not: it needs Admitted, that requests    *)
(* served with the control off have left their mark in everOff.            *)
(***************************************************************************)
EXTENDS LinkIntegrity, TLAPS

Admitted == Running /\ ~everOff => enforcing

IInv ==
  /\ TypeOK
  /\ Admitted
  /\ EnforcedLinksHold
  /\ ChildrenStayWithTheirParent

\* A script has at most four steps, so that a thread's counter stays bounded.
LEMMA ScriptLength ==
  ASSUME NEW s \in DOMAIN Script, NEW i \in DOMAIN Script[s]
  PROVE  i \in 1 .. 4
  BY DEF Script

\* A thread serving no request is one of the thread states.
LEMMA IdleTyped == Idle \in DeleteRun
<1>1. "plain" \in DOMAIN Script
  BY DEF Script
<1>2. QED
  BY <1>1 DEF Idle, DeleteRun

\* The thread table keeps its type whatever a delete page does next.
LEMMA ThreadSteps ==
  ASSUME TypeOK, NEW t \in Threads,
         \/ Finish(t)
         \/ /\ thread[t].step \in DOMAIN Script[thread[t].script]
            /\ Advance(t)
  PROVE  thread' \in [Threads -> DeleteRun]
<1>1. thread[t] \in DeleteRun
  BY DEF TypeOK
<1>2. CASE Finish(t)
  BY <1>2, IdleTyped DEF Finish, TypeOK
<1>3. CASE /\ thread[t].step \in DOMAIN Script[thread[t].script]
           /\ Advance(t)
  <2>1. thread[t].step \in 1 .. 4
    BY <1>1, <1>3, ScriptLength DEF DeleteRun
  <2>2. [thread[t] EXCEPT !.step = @ + 1] \in DeleteRun
    BY <1>1, <2>1 DEF DeleteRun
  <2>3. thread' = [thread EXCEPT ![t] = [thread[t] EXCEPT !.step = @ + 1]]
    BY <1>3 DEF Advance, TypeOK
  <2>4. QED
    BY <2>2, <2>3 DEF TypeOK
<1>4. QED
  BY <1>2, <1>3

-----------------------------------------------------------------------------
\* The program starts with no link at all.
LEMMA InitEstablishes == Init => IInv
<1> SUFFICES ASSUME Init PROVE IInv
  OBVIOUS
<1>1. TypeOK
  BY IdleTyped DEF Init, TypeOK, Phases
<1>2. Admitted /\ EnforcedLinksHold /\ ChildrenStayWithTheirParent
  BY LinkAssumption DEF Init, Admitted, EnforcedLinksHold,
     ChildrenStayWithTheirParent, Linked, Running, Parents
<1>3. QED
  BY <1>1, <1>2 DEF IInv

\* The scan is what makes links good: enforcement comes on with none broken.
LEMMA ControlSteps ==
  ASSUME IInv, Startup \/ StartupScanFails \/ Stop \/ ChangeSetting
  PROVE  IInv'
<1> USE DEF IInv, TypeOK, Admitted, EnforcedLinksHold,
            ChildrenStayWithTheirParent, Linked, Running, Phases, store, control
<1>1. CASE Startup
  BY <1>1 DEF Startup, ScanOrphans, Orphans
<1>2. CASE StartupScanFails
  BY <1>2 DEF StartupScanFails
<1>3. CASE Stop
  BY <1>3, IdleTyped DEF Stop
<1>4. CASE ChangeSetting
  BY <1>4 DEF ChangeSetting
<1>5. QED
  BY <1>1, <1>2, <1>3, <1>4

\* A record takes a number no link carries, or links may be broken already.
LEMMA CreateParentStep ==
  ASSUME IInv, NEW p \in Parents, CreateParent(p)
  PROVE  IInv'
<1> USE DEF IInv, TypeOK, Admitted, EnforcedLinksHold,
            ChildrenStayWithTheirParent, Linked, Running, control
<1>1. p \notin live /\ p # None /\ p # Gone
  BY LinkAssumption DEF CreateParent, Parents
<1>2. TypeOK' /\ Admitted' /\ EnforcedLinksHold'
  BY DEF CreateParent
<1>3. ChildrenStayWithTheirParent'
  <2> SUFFICES ASSUME ~everOff', NEW c \in Children \ Unconstrained
               PROVE  /\ Linked(c)'
                      /\ (link[c] \in live => born[c] = gen[link[c]])'
    BY DEF CreateParent
  <2>1. link[c] # p
    BY <1>1 DEF CreateParent
  <2>2. QED
    BY <2>1 DEF CreateParent
<1>4. QED
  BY <1>2, <1>3

\* Saving, clearing and deleting children.
LEMMA ChildSteps ==
  ASSUME IInv, NEW c \in Children,
         \/ \E p \in Parents : SaveChild(c, p)
         \/ UnlinkChild(c)
         \/ DeleteChild(c)
  PROVE  IInv'
<1> USE DEF IInv, TypeOK, Admitted, EnforcedLinksHold,
            ChildrenStayWithTheirParent, Linked, Running, control
<1>1. CASE \E p \in Parents : SaveChild(c, p)
  BY <1>1 DEF SaveChild, Accepts
<1>2. CASE UnlinkChild(c)
  BY <1>2, LinkAssumption DEF UnlinkChild, Parents
<1>3. CASE DeleteChild(c)
  BY <1>3, LinkAssumption DEF DeleteChild, Parents
<1>4. QED
  BY <1>1, <1>2, <1>3

\* Posting a delete page touches only its thread.
LEMMA BeginDeleteStep ==
  ASSUME IInv, NEW t \in Threads, NEW s \in DOMAIN Script, NEW p \in Parents,
         BeginDelete(t, s, p)
  PROVE  IInv'
<1>1. [script |-> s, parent |-> p, step |-> 1] \in DeleteRun
  BY DEF DeleteRun
<1>2. TypeOK'
  BY <1>1 DEF BeginDelete, IInv, TypeOK, store, control
<1>3. QED
  BY <1>2 DEF BeginDelete, IInv, Admitted, EnforcedLinksHold,
     ChildrenStayWithTheirParent, Linked, Running, store, control

\* The steps of a delete page: only the last one removes a parent, and then no
\* constrained child refers to it.
LEMMA DeletePageStep ==
  ASSUME IInv, NEW t \in Threads, DeletePage(t)
  PROVE  IInv'
<1> USE DEF Admitted, EnforcedLinksHold, ChildrenStayWithTheirParent, Linked,
            Running, store, control
<1>t. thread' \in [Threads -> DeleteRun]
  <2>1. CASE CheckBlocks(t) \/ DeleteParent(t) \/ DeleteRefused(t)
    BY <2>1, ThreadSteps DEF IInv, CheckBlocks, DeleteParent, DeleteRefused
  <2>2. CASE CheckPasses(t)
    BY <2>2, ThreadSteps DEF IInv, CheckPasses, At
  <2>3. CASE DropCompanion(t) \/ NoCompanion(t)
    BY <2>3, ThreadSteps DEF IInv, DropCompanion, NoCompanion, At
  <2>4. QED
    BY <2>1, <2>2, <2>3 DEF DeletePage
<1>1. CASE CheckPasses(t)
  BY <1>1, <1>t DEF CheckPasses, IInv, TypeOK
<1>2. CASE CheckBlocks(t)
  BY <1>2, <1>t DEF CheckBlocks, IInv, TypeOK
<1>3. CASE DropCompanion(t)
  <2>1. PICK c \in Companions : link' = [link EXCEPT ![c] = Gone]
    BY <1>3 DEF DropCompanion
  <2>2. QED
    BY <1>3, <1>t, <2>1, LinkAssumption DEF DropCompanion, IInv, TypeOK, Parents
<1>4. CASE NoCompanion(t)
  BY <1>4, <1>t DEF NoCompanion, IInv, TypeOK
<1>5. CASE DeleteParent(t)
  <2>1. TypeOK'
    BY <1>5, <1>t DEF DeleteParent, IInv, TypeOK
  <2>2. enforcing => \A c \in Children \ Unconstrained : link[c] # thread[t].parent
    BY <1>5 DEF DeleteParent, Holding, Referring
  <2>3. QED
    BY <1>5, <2>1, <2>2 DEF DeleteParent, At, IInv
<1>6. CASE DeleteRefused(t)
  BY <1>6, <1>t DEF DeleteRefused, IInv, TypeOK
<1>7. QED
  BY <1>1, <1>2, <1>3, <1>4, <1>5, <1>6 DEF DeletePage

\* What the invariant names is all in vars.
LEMMA Stutter == IInv /\ UNCHANGED vars => IInv'
  BY DEF vars, IInv, TypeOK, Admitted, EnforcedLinksHold,
         ChildrenStayWithTheirParent, Linked, Running

\* The strengthened invariant holds of every reachable state.
THEOREM LinksInvariant == Spec => []IInv
<1>1. IInv /\ [Next]_vars => IInv'
  BY ControlSteps, CreateParentStep, ChildSteps, BeginDeleteStep,
     DeletePageStep, Stutter DEF Next
<1>2. QED
  BY <1>1, InitEstablishes, PTL DEF Spec

\* Type correctness of the link model.
THEOREM LinksTyped == Spec => []TypeOK
<1>1. IInv => TypeOK
  BY DEF IInv
<1>2. QED
  BY <1>1, LinksInvariant, PTL

\* While enforcement is on, no constrained link is broken, for any number of
\* records, of children and of delete pages running beside each other.
THEOREM LinksHoldUnderEnforcement == Spec => []EnforcedLinksHold
<1>1. IInv => EnforcedLinksHold
  BY DEF IInv
<1>2. QED
  BY <1>1, LinksInvariant, PTL

\* A child saved under enforcement is never attached to another record that was
\* given its parent's number.
THEOREM ChildrenNeverChangeHands == Spec => []ChildrenStayWithTheirParent
<1>1. IInv => ChildrenStayWithTheirParent
  BY DEF IInv
<1>2. QED
  BY <1>1, LinksInvariant, PTL

\* A start that shows no banner and did not fail has switched the control on, and
\* nothing switches it off before the process ends.
QuietIsEnforced == Running /\ ~warning /\ phase # "scan_failed" => enforcing

LEMMA QuietStep == IInv /\ QuietIsEnforced /\ [Next]_vars => QuietIsEnforced'
<1> SUFFICES ASSUME IInv, QuietIsEnforced, [Next]_vars PROVE QuietIsEnforced'
  OBVIOUS
<1>1. CASE Startup
  BY <1>1 DEF Startup, IInv, TypeOK, QuietIsEnforced
<1>2. CASE StartupScanFails \/ Stop
  BY <1>2 DEF StartupScanFails, Stop, QuietIsEnforced, Running
<1>3. CASE ChangeSetting
  BY <1>3 DEF ChangeSetting, QuietIsEnforced, Running
<1>4. ASSUME UNCHANGED control PROVE QuietIsEnforced'
  BY <1>4 DEF control, QuietIsEnforced, Running
<1>5. CASE \/ \E p \in Parents : CreateParent(p)
           \/ \E c \in Children, p \in Parents : SaveChild(c, p)
           \/ \E c \in Children : UnlinkChild(c) \/ DeleteChild(c)
  BY <1>4, <1>5 DEF CreateParent, SaveChild, UnlinkChild, DeleteChild
<1>6. CASE \E t \in Threads, script \in DOMAIN Script, p \in Parents :
             BeginDelete(t, script, p)
  BY <1>4, <1>6 DEF BeginDelete
<1>7. CASE \E t \in Threads : DeletePage(t)
  BY <1>4, <1>7 DEF DeletePage, CheckPasses, CheckBlocks, DropCompanion, NoCompanion,
     DeleteParent, DeleteRefused
<1>8. CASE UNCHANGED vars
  BY <1>4, <1>8 DEF vars, control
<1> QED BY <1>1, <1>2, <1>3, <1>5, <1>6, <1>7, <1>8 DEF Next

\* No constrained link is broken behind a page without the banner, through any
\* sequence of starts, settings, saves and delete pages.
THEOREM QuietPagesSpeakTrue == Spec => []QuietPagesAreTrue
<1>1. Init => QuietIsEnforced
  BY DEF Init, QuietIsEnforced, Running
<1>2. IInv /\ QuietIsEnforced => QuietPagesAreTrue
  BY DEF IInv, QuietIsEnforced, QuietPagesAreTrue, EnforcedLinksHold
<1> QED BY <1>1, <1>2, QuietStep, LinksInvariant, PTL DEF Spec
=============================================================================
