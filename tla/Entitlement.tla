---------------------------- MODULE Entitlement ----------------------------
(***************************************************************************)
(* A project's entitlement review and the facts it is derived from         *)
(* (app/services.py, the record pages of app/main.py, the resynchronising  *)
(* half of apply_import in app/data_management.py; ADR-0004 D6, ADR-0006   *)
(* D4).                                                                    *)
(*                                                                         *)
(* The facts are spread over a project, its solution, and the customer and *)
(* contract the solution names.  A page or an import commits the facts     *)
(* first and the reviews afterwards, one commit each: the process may end, *)
(* a write may fail, and a thread may delete a project in between.  Pages  *)
(* run on the event loop and never beside each other.  Link enforcement is *)
(* on (LinkIntegrity shows when it is not).                                *)
(***************************************************************************)
EXTENDS Naturals

CONSTANTS
  Customers, Contracts, Solutions,
  MaxProject,     \* bound: projects are numbered from 1
  CustomerTypes,
  DefaultTax,     \* customer_type_defaults of entitlement_rules.yml
  CustomerForms,  \* what the pages can submit
  SolutionForms,
  ContractForms,
  ProjectFacts,
  Imports,        \* what an import can write, dataset by dataset
  None

Projects == 1 .. MaxProject
TaxStatuses == {"yes", "no", "unknown"}
Statuses == {"blocked", "supplier_likely", "customer_likely", "ambiguous_tax_review"}

ProjectRecord ==
  [solution : Solutions, initiated : BOOLEAN, discovered : BOOLEAN,
   specified : BOOLEAN, another : BOOLEAN, grant : BOOLEAN]

\* Every record a file carries is one its dataset can hold.
WellFormed(w) ==
  /\ \A c \in DOMAIN w.customers :
       w.customers[c] \in [type : CustomerTypes, tax : TaxStatuses]
  /\ \A k \in DOMAIN w.contracts :
       w.contracts[k] \in [intended : BOOLEAN, described : BOOLEAN]
  /\ \A s \in DOMAIN w.solutions :
       w.solutions[s] \in [customer : Customers, contract : Contracts \cup {None}]
  /\ DOMAIN w.projects \subseteq Projects
  /\ \A p \in DOMAIN w.projects : w.projects[p] \in ProjectRecord
  /\ \A p \in DOMAIN w.reviews : w.reviews[p] \in Statuses

ASSUME EntitlementAssumption ==
  /\ MaxProject \in Nat
  /\ DefaultTax \in [CustomerTypes -> TaxStatuses]
  /\ CustomerForms \subseteq [type : CustomerTypes, tax : TaxStatuses]
  /\ ContractForms \subseteq [intended : BOOLEAN, described : BOOLEAN]
  /\ SolutionForms \subseteq [customer : Customers, contract : Contracts \cup {None}]
  /\ ProjectFacts \subseteq [initiated : BOOLEAN, discovered : BOOLEAN,
                             specified : BOOLEAN, another : BOOLEAN, grant : BOOLEAN]
  /\ \A w \in Imports : WellFormed(w)
  /\ None \notin Contracts /\ None \notin Projects /\ None \notin Statuses
  /\ None \notin ProjectRecord

VARIABLES
  customer, contract, solution,  \* the facts, by record
  project,   \* project -> its solution and its own facts, or None
  review,    \* project -> the stored assessment's status, or None
  pending,   \* projects whose review the current request has yet to sync
  deleting,  \* the project a delete thread is removing, or None
  \* History, read by no action:
  moved,     \* projects a page moved without syncing their review
  failed,    \* projects whose sync did not happen, or whose review was imported
  scope      \* projects the current request may recalculate

facts == <<customer, contract, solution, project>>
vars == <<customer, contract, solution, project, review, pending, deleting,
          moved, failed, scope>>

-----------------------------------------------------------------------------
\* Mutant of Default: a type without an entry has no fallback.
DefaultUnset(type, tax) == IF tax = "unknown" THEN None ELSE tax

\* default_corporation_tax_status, where the recorded status is unknown.
Default(type, tax) == IF tax = "unknown" THEN DefaultTax[type] ELSE tax

\* assess_entitlement
Assess(tax, intended, initiated, discovered, specified, another, grant) ==
  CASE another /\ specified -> "blocked"
    [] ~(another /\ specified) /\ tax = "no" ->
         IF intended \/ specified \/ grant
           THEN "ambiguous_tax_review" ELSE "supplier_likely"
    [] ~(another /\ specified) /\ tax # "no" /\ (discovered \/ initiated) /\ ~intended ->
         "supplier_likely"
    [] ~(another /\ specified) /\ tax = "yes" /\ intended /\ specified ->
         "customer_likely"
    [] OTHER -> "ambiguous_tax_review"

\* entitlement_facts_for_context: the position the facts alone lead to.  A
\* solution's contract speaks for the project where there is one.
Resolved(p) ==
  LET own == project[p]
      sold == solution[own.solution]
      buyer == customer[sold.customer]
      signed == sold.contract # None
  IN  Assess(Default(buyer.type, buyer.tax),
             signed /\ contract[sold.contract].intended,
             own.initiated, own.discovered,
             IF signed THEN contract[sold.contract].described ELSE own.specified,
             own.another, own.grant)

Live == {p \in Projects : project[p] # None}

With(own, s) == [solution |-> s, initiated |-> own.initiated,
                 discovered |-> own.discovered, specified |-> own.specified,
                 another |-> own.another, grant |-> own.grant]

NewProject(s) == [solution |-> s, initiated |-> FALSE, discovered |-> FALSE,
                  specified |-> FALSE, another |-> FALSE, grant |-> FALSE]

Init ==
  /\ customer \in [Customers -> CustomerForms]
  /\ contract \in [Contracts -> ContractForms]
  /\ solution \in [Solutions -> SolutionForms]
  /\ project = [p \in Projects |-> None]
  /\ review = [p \in Projects |-> None]
  /\ pending = {}
  /\ deleting = None
  /\ moved = {}
  /\ failed = {}
  /\ scope = {}

Quiet == pending = {}

-----------------------------------------------------------------------------
\* save_with_audit of a project; sync_entitlement_for_project comes next.
SaveProject(p, record) ==
  /\ project' = [project EXCEPT ![p] = record]
  /\ pending' = {p}
  /\ scope' = {p}
  /\ UNCHANGED <<customer, contract, solution, review, deleting, moved, failed>>

\* A row inserted gets the number one past the largest in the table.
NextNumber(p) == /\ p = 1 \/ p - 1 \in Live
                 /\ \A q \in Live : q < p

CreateProject(p, s) ==
  /\ Quiet
  /\ NextNumber(p)
  /\ SaveProject(p, NewProject(s))

\* update_project: of the facts, the page has the solution only.
UpdateProject(p, s) ==
  /\ Quiet
  /\ p \in Live
  /\ SaveProject(p, With(project[p], s))

\* update_project_assessment: the five answers of the page.
UpdateAssessment(p, answers) ==
  /\ Quiet
  /\ p \in Live
  /\ SaveProject(p, With(answers, project[p].solution))

\* Projects whose position the step moves, without anyone syncing them.
Moved == {p \in Live : Resolved(p)' # Resolved(p)}

\* update_customer, with apply_corporation_tax_default.  No review is synced.
UpdateCustomer(c, form) ==
  /\ Quiet
  /\ customer' = [customer EXCEPT ![c] =
                    [type |-> form.type, tax |-> Default(form.type, form.tax)]]
  /\ UNCHANGED <<contract, solution, project, review, pending, deleting, failed, scope>>
  /\ moved' = moved \cup Moved

UpdateContract(k, form) ==
  /\ Quiet
  /\ contract' = [contract EXCEPT ![k] = form]
  /\ UNCHANGED <<customer, solution, project, review, pending, deleting, failed, scope>>
  /\ moved' = moved \cup Moved

UpdateSolution(s, form) ==
  /\ Quiet
  /\ solution' = [solution EXCEPT ![s] = form]
  /\ UNCHANGED <<customer, contract, project, review, pending, deleting, failed, scope>>
  /\ moved' = moved \cup Moved

-----------------------------------------------------------------------------
Over(new, old) == [i \in DOMAIN old |-> IF i \in DOMAIN new THEN new[i] ELSE old[i]]

\* Mutants of ProjectsTouched: the contracts are forgotten; the whole table.
ProjectsTouchedNoContracts(w) ==
  {p \in Projects :
     \/ p \in DOMAIN w.projects
     \/ /\ project'[p] # None
        /\ \/ project'[p].solution \in DOMAIN w.solutions
           \/ solution'[project'[p].solution].customer \in DOMAIN w.customers}

ProjectsTouchedEvery(w) == {p \in Projects : project'[p] # None}

\* _projects_touched_by_import, on what the import has just committed.
ProjectsTouched(w) ==
  {p \in Projects :
     \/ p \in DOMAIN w.projects
     \/ /\ project'[p] # None
        /\ \/ project'[p].solution \in DOMAIN w.solutions
           \/ solution'[project'[p].solution].customer \in DOMAIN w.customers
           \/ solution'[project'[p].solution].contract \in DOMAIN w.contracts}

\* Projects an import has any business with, for ImportStaysInScope: a record
\* of theirs is in the file.
Concerned(w) ==
  {p \in Projects :
     \/ p \in DOMAIN w.projects
     \/ /\ project'[p] # None
        /\ LET s == project'[p].solution
           IN  \/ s \in DOMAIN w.solutions
               \/ solution'[s].customer \in DOMAIN w.customers
               \/ solution'[s].contract \in DOMAIN w.contracts
     \/ p \in DOMAIN w.reviews}

\* apply_import commits: created and updated rows of the fact datasets, and of
\* the reviews themselves, which can be imported like any other record.
Import(w) ==
  /\ Quiet
  /\ DOMAIN w.reviews \subseteq Live \cup DOMAIN w.projects
  /\ \A p \in DOMAIN w.projects \ Live : NextNumber(p)
  /\ customer' = Over(w.customers, customer)
  /\ contract' = Over(w.contracts, contract)
  /\ solution' = Over(w.solutions, solution)
  /\ project' = Over(w.projects, project)
  /\ review' = Over(w.reviews, review)
  /\ pending' = ProjectsTouched(w)
  /\ scope' = Concerned(w)
  /\ failed' = failed \cup DOMAIN w.reviews
  /\ UNCHANGED <<deleting, moved>>

\* sync_entitlement_for_project, for the smallest number first.
Sync(p) ==
  /\ p \in pending
  /\ \A q \in pending : p <= q
  /\ p \in Live
  /\ review' = [review EXCEPT ![p] = Resolved(p)]
  /\ pending' = pending \ {p}
  /\ moved' = moved \ {p}
  /\ failed' = failed \ {p}
  /\ scope' = scope \ {p}
  /\ UNCHANGED <<facts, deleting>>

\* It raises: the project is gone, a review it read is gone when it writes, or
\* the database stays locked.  A page answers 500; an import counts it.
SyncFails(p) ==
  /\ p \in pending
  /\ \A q \in pending : p <= q
  /\ pending' = pending \ {p}
  /\ failed' = failed \cup {p}
  /\ scope' = scope \ {p}
  /\ UNCHANGED <<facts, review, deleting, moved>>

-----------------------------------------------------------------------------
\* delete_project in its thread: the review goes first, in its own commit.
DropReview(p) ==
  /\ deleting = None
  /\ p \in Live
  /\ deleting' = p
  /\ review' = [review EXCEPT ![p] = None]
  /\ UNCHANGED <<facts, pending, moved, failed, scope>>

\* Mutant of DeleteProject: nothing holds the project once it was checked.
DeleteProjectUnheld(p) ==
  /\ deleting = p
  /\ deleting' = None
  /\ project' = [project EXCEPT ![p] = None]
  /\ UNCHANGED <<customer, contract, solution, review, pending, moved, failed, scope>>

\* Then the project, unless a review was stored for it meanwhile.
DeleteProject(p) ==
  /\ deleting = p
  /\ deleting' = None
  /\ project' = IF review[p] = None THEN [project EXCEPT ![p] = None] ELSE project
  /\ UNCHANGED <<customer, contract, solution, review, pending, moved, failed, scope>>

\* The process ends and starts again; what it had not synced stays as it is.
Crash ==
  /\ pending' = {}
  /\ deleting' = None
  /\ failed' = failed \cup pending
  /\ scope' = {}
  /\ UNCHANGED <<facts, review, moved>>

Next ==
  \/ \E p \in Projects, s \in Solutions : CreateProject(p, s) \/ UpdateProject(p, s)
  \/ \E p \in Projects, answers \in ProjectFacts : UpdateAssessment(p, answers)
  \/ \E c \in Customers, form \in CustomerForms : UpdateCustomer(c, form)
  \/ \E k \in Contracts, form \in ContractForms : UpdateContract(k, form)
  \/ \E s \in Solutions, form \in SolutionForms : UpdateSolution(s, form)
  \/ \E w \in Imports : Import(w)
  \/ \E p \in Projects : Sync(p) \/ SyncFails(p) \/ DropReview(p) \/ DeleteProject(p)
  \/ Crash

Spec == Init /\ [][Next]_vars

-----------------------------------------------------------------------------
TypeOK ==
  /\ customer \in [Customers -> [type : CustomerTypes, tax : TaxStatuses]]
  /\ contract \in [Contracts -> [intended : BOOLEAN, described : BOOLEAN]]
  /\ solution \in [Solutions -> [customer : Customers, contract : Contracts \cup {None}]]
  /\ project \in [Projects -> ProjectRecord \cup {None}]
  /\ review \in [Projects -> Statuses \cup {None}]
  /\ pending \subseteq Projects
  /\ deleting \in Projects \cup {None}
  /\ moved \subseteq Projects
  /\ failed \subseteq Projects
  /\ scope \subseteq Projects

\* A stored review says what the project's facts lead to, for every route that
\* syncs: once a project page or an import is through with a project, whichever
\* records of its chain were written and whatever was deleted meanwhile, only a
\* page that does not sync, a failed sync or a crash can leave it behind (D6).
ReviewsFollowFacts ==
  \A p \in Live \ (pending \cup moved \cup failed) :
    review[p] # None => review[p] = Resolved(p)

\* D6 guardrail 3: a request recalculates the reviews of projects it saved, or
\* of which its file carries a record, and of no other.
ImportStaysInScope ==
  [][\A p \in Projects :
       review'[p] # review[p] /\ review'[p] # None =>
         p \in scope \cup scope']_vars

\* A number given to a new project never brings the review of the project that
\* had it before.
ReviewsHaveTheirProject == \A p \in Projects \ Live : review[p] = None

-----------------------------------------------------------------------------
(* A statement of the documents that the code does not keep. *)

\* ADR-0006 D4.1: the recorded and the resolved wordings can never disagree for
\* the same facts.  Looked at between requests, no sync having failed.
RecordedAgreesWithResolved ==
  \A p \in Live \ (pending \cup failed) :
    review[p] # None => review[p] = Resolved(p)
=============================================================================
