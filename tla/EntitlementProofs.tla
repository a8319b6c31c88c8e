------------------------- MODULE EntitlementProofs -------------------------
(***************************************************************************)
(* Proofs about entitlement reviews, for any number of projects, records   *)
(* and files.  A review follows the facts because a step that moves a      *)
(* project's position either leaves the project to the request that is     *)
(* under way, or leaves its mark in moved or failed: an import that does   *)
(* not touch a project has touched nothing its position is made from.      *)
(***************************************************************************)
EXTENDS Entitlement, TLAPS

\* What is yet to be synced is the current request's business.
PendingInScope == pending \subseteq scope

IInv == TypeOK /\ ReviewsHaveTheirProject /\ PendingInScope /\ ReviewsFollowFacts

-----------------------------------------------------------------------------
LEMMA DefaultTyped ==
  ASSUME NEW type \in CustomerTypes, NEW tax \in TaxStatuses
  PROVE  Default(type, tax) \in TaxStatuses
BY EntitlementAssumption DEF Default

\* A position is one of the statuses, whatever the answers are.
LEMMA PositionTyped ==
  ASSUME NEW p
  PROVE  Resolved(p) \in Statuses
<1>1. \A tax, intended, initiated, discovered, specified, another, grant :
        Assess(tax, intended, initiated, discovered, specified, another, grant) \in Statuses
  BY DEF Assess, Statuses
<1> QED BY <1>1 DEF Resolved

\* The records a project page saves.
LEMMA RecordsTyped ==
  ASSUME NEW s \in Solutions
  PROVE  /\ NewProject(s) \in ProjectRecord
         /\ \A own \in ProjectRecord \cup ProjectFacts : With(own, s) \in ProjectRecord
<1>1. NewProject(s) \in ProjectRecord
  BY DEF NewProject, ProjectRecord
<1>2. \A own \in ProjectRecord : With(own, s) \in ProjectRecord
  BY DEF With, ProjectRecord
<1>3. ASSUME NEW own \in ProjectFacts PROVE With(own, s) \in ProjectRecord
  <2>1. own \in [initiated : BOOLEAN, discovered : BOOLEAN,
                 specified : BOOLEAN, another : BOOLEAN, grant : BOOLEAN]
    BY EntitlementAssumption
  <2> QED BY <2>1 DEF With, ProjectRecord
<1> QED BY <1>1, <1>2, <1>3

-----------------------------------------------------------------------------
\* A position depends on the project, its solution and what that names.
LEMMA PositionKept ==
  ASSUME NEW p, project'[p] = project[p],
         LET s == project[p].solution
         IN  /\ solution'[s] = solution[s]
             /\ customer'[solution[s].customer] = customer[solution[s].customer]
             /\ solution[s].contract # None =>
                  contract'[solution[s].contract] = contract[solution[s].contract]
  PROVE  Resolved(p)' = Resolved(p)
BY DEF Resolved

\* A project page: everyone else's position stays, its own is to be synced.
LEMMA SaveKeeps ==
  ASSUME IInv, Quiet, NEW p \in Projects, NEW record \in ProjectRecord,
         SaveProject(p, record)
  PROVE  IInv'
<1>1. project' = [project EXCEPT ![p] = record] /\ record # None
  BY EntitlementAssumption DEF SaveProject
<1>2. TypeOK'
  BY <1>1 DEF SaveProject, IInv, TypeOK
<1>3. ReviewsHaveTheirProject'
  BY <1>1 DEF SaveProject, IInv, TypeOK, ReviewsHaveTheirProject, Live
<1>4. PendingInScope'
  BY DEF SaveProject, PendingInScope
<1>5. ReviewsFollowFacts'
  <2> SUFFICES ASSUME NEW q \in Live' \ (pending' \cup moved' \cup failed'), review'[q] # None
               PROVE  review'[q] = Resolved(q)'
    BY DEF ReviewsFollowFacts
  <2>1. q # p /\ q \in Projects /\ project'[q] = project[q]
    BY <1>1 DEF SaveProject, Live, IInv, TypeOK
  <2>2. Resolved(q)' = Resolved(q)
    BY <2>1, PositionKept DEF SaveProject
  <2>3. q \in Live \ (pending \cup moved \cup failed)
    BY <2>1 DEF SaveProject, Live, Quiet
  <2> QED BY <2>2, <2>3 DEF SaveProject, IInv, ReviewsFollowFacts
<1> QED BY <1>2, <1>3, <1>4, <1>5 DEF IInv

\* A page that does not sync leaves the projects it moved in moved.
LEMMA UnsyncedKeeps ==
  ASSUME IInv, TypeOK', UNCHANGED <<project, review, pending, deleting, failed, scope>>,
         moved' = moved \cup Moved
  PROVE  IInv'
<1>1. ReviewsHaveTheirProject' /\ PendingInScope'
  BY DEF IInv, ReviewsHaveTheirProject, PendingInScope, Live
<1>2. ReviewsFollowFacts'
  BY DEF IInv, ReviewsFollowFacts, Moved, Live
<1> QED BY <1>1, <1>2 DEF IInv

LEMMA RecordPagesKeep ==
  ASSUME IInv,
         \/ \E c \in Customers, form \in CustomerForms : UpdateCustomer(c, form)
         \/ \E k \in Contracts, form \in ContractForms : UpdateContract(k, form)
         \/ \E s \in Solutions, form \in SolutionForms : UpdateSolution(s, form)
  PROVE  IInv'
<1>m. Moved \subseteq Projects
  BY DEF Moved, Live
<1>1. ASSUME NEW c \in Customers, NEW form \in CustomerForms, UpdateCustomer(c, form)
      PROVE  IInv'
  <2>1. form.type \in CustomerTypes /\ form.tax \in TaxStatuses
    BY EntitlementAssumption
  <2>2. Default(form.type, form.tax) \in TaxStatuses
    BY <2>1, DefaultTyped
  <2>3. TypeOK'
    BY <1>1, <1>m, <2>1, <2>2 DEF UpdateCustomer, IInv, TypeOK
  <2> QED BY <1>1, <2>3, UnsyncedKeeps DEF UpdateCustomer
<1>2. ASSUME NEW k \in Contracts, NEW form \in ContractForms, UpdateContract(k, form)
      PROVE  IInv'
  <2>1. form \in [intended : BOOLEAN, described : BOOLEAN]
    BY EntitlementAssumption
  <2>2. TypeOK'
    BY <1>2, <1>m, <2>1 DEF UpdateContract, IInv, TypeOK
  <2> QED BY <1>2, <2>2, UnsyncedKeeps DEF UpdateContract
<1>3. ASSUME NEW s \in Solutions, NEW form \in SolutionForms, UpdateSolution(s, form)
      PROVE  IInv'
  <2>1. form \in [customer : Customers, contract : Contracts \cup {None}]
    BY EntitlementAssumption
  <2>2. TypeOK'
    BY <1>3, <1>m, <2>1 DEF UpdateSolution, IInv, TypeOK
  <2> QED BY <1>3, <2>2, UnsyncedKeeps DEF UpdateSolution
<1> QED BY <1>1, <1>2, <1>3

-----------------------------------------------------------------------------
\* What a file writes has its type.
LEMMA ImportTyped ==
  ASSUME IInv, NEW w \in Imports, Import(w)
  PROVE  TypeOK'
<1>1. WellFormed(w)
  BY EntitlementAssumption
<1>2. customer' \in [Customers -> [type : CustomerTypes, tax : TaxStatuses]]
  BY <1>1 DEF Import, Over, WellFormed, IInv, TypeOK
<1>3. contract' \in [Contracts -> [intended : BOOLEAN, described : BOOLEAN]]
  BY <1>1 DEF Import, Over, WellFormed, IInv, TypeOK
<1>4. solution' \in [Solutions -> [customer : Customers, contract : Contracts \cup {None}]]
  BY <1>1 DEF Import, Over, WellFormed, IInv, TypeOK
<1>5. project' \in [Projects -> ProjectRecord \cup {None}]
  BY <1>1 DEF Import, Over, WellFormed, IInv, TypeOK
<1>6. review' \in [Projects -> Statuses \cup {None}]
  BY <1>1 DEF Import, Over, WellFormed, IInv, TypeOK
<1>7. pending' \subseteq Projects /\ scope' \subseteq Projects
  BY DEF Import, ProjectsTouched, Concerned
<1>8. DOMAIN w.reviews \subseteq Projects
  BY <1>1 DEF Import, WellFormed, Live
<1> QED BY <1>2, <1>3, <1>4, <1>5, <1>6, <1>7, <1>8 DEF Import, IInv, TypeOK

\* A project no record of a file touches keeps its position.
LEMMA UntouchedKept ==
  ASSUME IInv, NEW w \in Imports, Import(w),
         NEW p \in Live' \ ProjectsTouched(w)
  PROVE  p \in Live /\ Resolved(p)' = Resolved(p)
<1> DEFINE s == project[p].solution
<1>1. p \in Projects /\ project'[p] # None
  BY DEF Live
<1>2. /\ p \notin DOMAIN w.projects
      /\ project'[p].solution \notin DOMAIN w.solutions
      /\ solution'[project'[p].solution].customer \notin DOMAIN w.customers
      /\ solution'[project'[p].solution].contract \notin DOMAIN w.contracts
  BY <1>1 DEF ProjectsTouched
<1>3. project'[p] = project[p]
  BY <1>1, <1>2 DEF Import, Over, IInv, TypeOK
<1>4. p \in Live /\ project[p] \in ProjectRecord
  BY <1>1, <1>3 DEF Live, IInv, TypeOK
<1>5. s \in Solutions
  BY <1>4 DEF ProjectRecord
<1>6. solution'[s] = solution[s]
  BY <1>2, <1>3, <1>5 DEF Import, Over, IInv, TypeOK
<1>7. solution[s].customer \in Customers /\ solution[s].contract \in Contracts \cup {None}
  BY <1>5 DEF IInv, TypeOK
<1>8. customer'[solution[s].customer] = customer[solution[s].customer]
  BY <1>2, <1>3, <1>6, <1>7 DEF Import, Over, IInv, TypeOK
<1>9. solution[s].contract # None =>
        contract'[solution[s].contract] = contract[solution[s].contract]
  BY <1>2, <1>3, <1>6, <1>7 DEF Import, Over, IInv, TypeOK
<1> QED BY <1>3, <1>4, <1>6, <1>8, <1>9, PositionKept

\* What an import recalculates is something its file is about.
LEMMA TouchedConcerned ==
  ASSUME NEW w
  PROVE  ProjectsTouched(w) \subseteq Concerned(w)
BY DEF ProjectsTouched, Concerned

LEMMA ImportKeeps ==
  ASSUME IInv, NEW w \in Imports, Import(w)
  PROVE  IInv'
<1>1. WellFormed(w)
  BY EntitlementAssumption
<1>2. TypeOK'
  BY ImportTyped
<1>3. ReviewsHaveTheirProject'
  <2> SUFFICES ASSUME NEW p \in Projects, project'[p] = None PROVE review'[p] = None
    BY DEF ReviewsHaveTheirProject, Live
  <2>1. p \notin DOMAIN w.projects
    BY <1>1, EntitlementAssumption DEF Import, Over, WellFormed, IInv, TypeOK
  <2>2. project[p] = None
    BY <2>1 DEF Import, Over, IInv, TypeOK
  <2>3. p \notin DOMAIN w.reviews
    BY <2>1, <2>2 DEF Import, Live
  <2> QED BY <2>2, <2>3 DEF Import, Over, IInv, TypeOK, ReviewsHaveTheirProject, Live
<1>4. PendingInScope'
  BY TouchedConcerned DEF Import, PendingInScope
<1>5. ReviewsFollowFacts'
  <2> SUFFICES ASSUME NEW p \in Live' \ (pending' \cup moved' \cup failed'), review'[p] # None
               PROVE  review'[p] = Resolved(p)'
    BY DEF ReviewsFollowFacts
  <2>1. p \in Live /\ Resolved(p)' = Resolved(p)
    BY UntouchedKept DEF Import
  <2>2. p \notin DOMAIN w.reviews /\ p \notin moved /\ p \notin failed /\ pending = {}
    BY DEF Import, Quiet
  <2>3. review'[p] = review[p]
    BY <2>1, <2>2 DEF Import, Over, IInv, TypeOK, Live
  <2> QED BY <2>1, <2>2, <2>3 DEF IInv, ReviewsFollowFacts
<1> QED BY <1>2, <1>3, <1>4, <1>5 DEF IInv

-----------------------------------------------------------------------------
\* The syncs, which write the review the facts lead to, or do not.
LEMMA SyncKeeps ==
  ASSUME IInv, NEW p \in Projects, Sync(p) \/ SyncFails(p)
  PROVE  IInv'
<1> USE DEF IInv, TypeOK, ReviewsHaveTheirProject, PendingInScope, Live, facts
<1>1. CASE Sync(p)
  <2>1. TypeOK' /\ ReviewsHaveTheirProject' /\ PendingInScope'
    BY <1>1, PositionTyped DEF Sync
  <2>2. \A q \in Projects : Resolved(q)' = Resolved(q)
    BY <1>1 DEF Sync, Resolved
  <2>3. ReviewsFollowFacts'
    BY <1>1, <2>2 DEF Sync, ReviewsFollowFacts
  <2> QED BY <2>1, <2>3
<1>2. CASE SyncFails(p)
  <2>1. TypeOK' /\ ReviewsHaveTheirProject' /\ PendingInScope'
    BY <1>2 DEF SyncFails
  <2>2. \A q \in Projects : Resolved(q)' = Resolved(q)
    BY <1>2 DEF SyncFails, Resolved
  <2>3. ReviewsFollowFacts'
    BY <1>2, <2>2 DEF SyncFails, ReviewsFollowFacts
  <2> QED BY <2>1, <2>3
<1> QED BY <1>1, <1>2

\* The delete thread, a crash and a stutter.
LEMMA OtherStepsKeep ==
  ASSUME IInv,
         \/ \E p \in Projects : DropReview(p) \/ DeleteProject(p)
         \/ Crash
         \/ UNCHANGED vars
  PROVE  IInv'
<1> USE DEF IInv, TypeOK, ReviewsHaveTheirProject, PendingInScope, Live, facts
<1>1. ASSUME NEW p \in Projects, DropReview(p)
      PROVE  IInv'
  <2>1. TypeOK' /\ ReviewsHaveTheirProject' /\ PendingInScope'
    BY <1>1 DEF DropReview
  <2>2. \A q \in Projects : Resolved(q)' = Resolved(q)
    BY <1>1 DEF DropReview, Resolved
  <2>3. ReviewsFollowFacts'
    BY <1>1, <2>2 DEF DropReview, ReviewsFollowFacts
  <2> QED BY <2>1, <2>3
<1>2. ASSUME NEW p \in Projects, DeleteProject(p)
      PROVE  IInv'
  <2>1. TypeOK' /\ ReviewsHaveTheirProject' /\ PendingInScope'
    BY <1>2 DEF DeleteProject
  <2>2. \A q \in Projects : project'[q] # None =>
          project'[q] = project[q] /\ Resolved(q)' = Resolved(q)
    BY <1>2 DEF DeleteProject, Resolved
  <2>3. ReviewsFollowFacts'
    BY <1>2, <2>2 DEF DeleteProject, ReviewsFollowFacts
  <2> QED BY <2>1, <2>3
<1>3. CASE Crash
  <2>1. TypeOK' /\ ReviewsHaveTheirProject' /\ PendingInScope'
    BY <1>3 DEF Crash
  <2>2. \A q \in Projects : Resolved(q)' = Resolved(q)
    BY <1>3 DEF Crash, Resolved
  <2>3. ReviewsFollowFacts'
    BY <1>3, <2>2 DEF Crash, ReviewsFollowFacts
  <2> QED BY <2>1, <2>3
<1>4. CASE UNCHANGED vars
  BY <1>4 DEF vars, ReviewsFollowFacts, Resolved
<1> QED BY <1>1, <1>2, <1>3, <1>4

\* No project, and so no review: the program starts with facts alone.
LEMMA InitKeeps == Init => IInv
<1> SUFFICES ASSUME Init PROVE IInv
  OBVIOUS
<1>1. /\ CustomerForms \subseteq [type : CustomerTypes, tax : TaxStatuses]
      /\ ContractForms \subseteq [intended : BOOLEAN, described : BOOLEAN]
      /\ SolutionForms \subseteq [customer : Customers, contract : Contracts \cup {None}]
  BY EntitlementAssumption
<1>2. TypeOK
  BY <1>1 DEF Init, TypeOK
<1>3. ReviewsHaveTheirProject /\ PendingInScope /\ ReviewsFollowFacts
  BY DEF Init, ReviewsHaveTheirProject, PendingInScope, ReviewsFollowFacts, Live
<1> QED BY <1>2, <1>3 DEF IInv

\* Every step keeps the invariant.
LEMMA StepKeeps == IInv /\ [Next]_vars => IInv'
<1> SUFFICES ASSUME IInv, [Next]_vars PROVE IInv'
  OBVIOUS
<1>1. ASSUME NEW p \in Projects, NEW s \in Solutions, CreateProject(p, s)
      PROVE  IInv'
  BY <1>1, RecordsTyped, SaveKeeps DEF CreateProject
<1>2. ASSUME NEW p \in Projects, NEW s \in Solutions, UpdateProject(p, s)
      PROVE  IInv'
  <2>1. project[p] \in ProjectRecord
    BY <1>2 DEF UpdateProject, Live, IInv, TypeOK
  <2> QED BY <1>2, <2>1, RecordsTyped, SaveKeeps DEF UpdateProject
<1>3. ASSUME NEW p \in Projects, NEW answers \in ProjectFacts, UpdateAssessment(p, answers)
      PROVE  IInv'
  <2>1. project[p].solution \in Solutions
    BY <1>3 DEF UpdateAssessment, Live, IInv, TypeOK, ProjectRecord
  <2> QED BY <1>3, <2>1, RecordsTyped, SaveKeeps DEF UpdateAssessment
<1> QED BY <1>1, <1>2, <1>3, RecordPagesKeep, ImportKeeps, SyncKeeps, OtherStepsKeep DEF Next

THEOREM ReviewsInvariant == Spec => []IInv
BY InitKeeps, StepKeeps, PTL DEF Spec

\* Type correctness of the reviews and the facts they come from.
THEOREM ReviewsTyped == Spec => []TypeOK
BY ReviewsInvariant, PTL DEF IInv

\* A stored review says what the facts lead to, unless a page that does not sync,
\* a failed sync or a crash has left it behind (ADR-0004 D6).
THEOREM ReviewsFollow == Spec => []ReviewsFollowFacts
BY ReviewsInvariant, PTL DEF IInv

\* A number that is used again never brings a review along: the database refuses
\* the delete of a project whose review was stored in between.
THEOREM ReviewsBelong == Spec => []ReviewsHaveTheirProject
BY ReviewsInvariant, PTL DEF IInv

\* No request recalculates a review its records do not concern (D6 guardrail 3).
THEOREM ImportsInScope == Spec => ImportStaysInScope
<1> DEFINE InScope == \A p \in Projects :
             review'[p] # review[p] /\ review'[p] # None => p \in scope \cup scope'
<1>1. IInv /\ [Next]_vars => [InScope]_vars
  <2> SUFFICES ASSUME IInv, Next, NEW p \in Projects, review'[p] # review[p],
                      review'[p] # None
               PROVE  p \in scope \cup scope'
    OBVIOUS
  <2>1. ASSUME UNCHANGED review PROVE FALSE
    BY <2>1
  <2>2. ASSUME NEW w \in Imports, Import(w)
        PROVE  p \in scope'
    <3>1. p \in DOMAIN w.reviews
      BY <2>2 DEF Import, Over, IInv, TypeOK
    <3> QED BY <2>2, <3>1 DEF Import, Concerned
  <2>3. ASSUME NEW q \in Projects, Sync(q)
        PROVE  p \in scope
    <3>1. p = q
      BY <2>3 DEF Sync, IInv, TypeOK
    <3> QED BY <2>3, <3>1 DEF Sync, IInv, PendingInScope
  <2>4. ASSUME NEW q \in Projects, DropReview(q)
        PROVE  FALSE
    BY <2>4 DEF DropReview, IInv, TypeOK
  <2>5. CASE \E q \in Projects, s \in Solutions : CreateProject(q, s) \/ UpdateProject(q, s)
    BY <2>1, <2>5 DEF CreateProject, UpdateProject, SaveProject
  <2>6. CASE \E q \in Projects, answers \in ProjectFacts : UpdateAssessment(q, answers)
    BY <2>1, <2>6 DEF UpdateAssessment, SaveProject
  <2>7. CASE \/ \E c \in Customers, form \in CustomerForms : UpdateCustomer(c, form)
             \/ \E k \in Contracts, form \in ContractForms : UpdateContract(k, form)
             \/ \E s \in Solutions, form \in SolutionForms : UpdateSolution(s, form)
    BY <2>1, <2>7 DEF UpdateCustomer, UpdateContract, UpdateSolution
  <2>8. CASE (\E q \in Projects : SyncFails(q) \/ DeleteProject(q)) \/ Crash
    BY <2>1, <2>8 DEF SyncFails, DeleteProject, Crash
  <2> QED BY <2>2, <2>3, <2>4, <2>5, <2>6, <2>7, <2>8 DEF Next
<1> QED BY <1>1, ReviewsInvariant, PTL DEF Spec, ImportStaysInScope
=============================================================================
