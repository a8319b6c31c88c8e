----------------------------- MODULE ClaimRules -----------------------------
(***************************************************************************)
(* What the Hub derives from a claim's records, as operators               *)
(* (app/services.py with the rule files it reads): the amount of a cost    *)
(* line that qualifies, the warnings about it, a project's points, blockers*)
(* and rating, the projects an Additional Information Form has to describe,*)
(* and whether a period is ready for it.                                   *)
(*                                                                         *)
(* Amounts are whole numbers; a product above MaxFloat is a float that     *)
(* overflowed, and NotANumber stands for nan and both infinities.          *)
(* Rounding to pence is left out.                                          *)
(***************************************************************************)
EXTENDS Integers, Sequences, FiniteSets, Functions

CONSTANTS
  MaxFloat,    \* the largest product that is still a finite float
  NotANumber,
  Gone,        \* the record does not exist
  None         \* a date that was left empty

-----------------------------------------------------------------------------
(* Cost lines *)

Finite(x) == x # NotANumber

\* Mutant of QualifyingAmount: what is not a number is passed on.
QualifyingAmountUnguarded(gross, percentage) ==
  IF Finite(gross) /\ Finite(percentage) THEN (gross * percentage) \div 100 ELSE NotANumber

\* calculate_qualifying_amount
QualifyingAmount(gross, percentage) ==
  IF /\ Finite(gross) /\ Finite(percentage)
     /\ gross * percentage \in -MaxFloat .. MaxFloat
  THEN (gross * percentage) \div 100
  ELSE 0

\* What a line adds to its project's total in project_qualifying_spend: a
\* stored amount of 0 is calculated again.
Contribution(line) ==
  IF line.qualifying # 0 THEN line.qualifying
  ELSE QualifyingAmount(line.gross, line.percentage)

\* costs are the project's lines, by identifier.
ProjectSpend(costs) == SumFunction([l \in DOMAIN costs |-> Contribution(costs[l])])

\* Mutant of CostWarned: an apportionment over 100 is left to the form.
CostWarnedUpToAForm(line) ==
  \/ ~line.sound
  \/ ~Finite(line.gross) \/ ~Finite(line.percentage)
  \/ Finite(line.gross) /\ line.gross < 0
  \/ Finite(line.percentage) /\ line.percentage < 0
  \/ line.kind = "people_time" /\ line.hours <= 0

\* Whether cost_validation_warnings says anything about a line; ~sound stands
\* for its paid status, place, evidence, activity and name.
CostWarned(line) ==
  \/ ~line.sound
  \/ ~Finite(line.gross) \/ ~Finite(line.percentage)
  \/ Finite(line.gross) /\ line.gross < 0
  \/ Finite(line.percentage) /\ (line.percentage < 0 \/ line.percentage > 100)
  \/ line.kind = "people_time" /\ line.hours <= 0

-----------------------------------------------------------------------------
(* The order of the CT600 and the form, which two places check on their own *)

\* score_project_context
TimingRisk(submission) ==
  /\ submission # Gone
  /\ submission.ct600
  /\ \/ ~submission.aif
     \/ /\ submission.aifDate # None /\ submission.ct600Date # None
        /\ submission.aifDate > submission.ct600Date

\* build_aif_readiness
TimingWarned(submission) ==
  /\ submission # Gone
  /\ submission.ct600
  /\ \/ ~submission.aif
     \/ /\ submission.aifDate # None /\ submission.ct600Date # None
        /\ submission.ct600Date < submission.aifDate

-----------------------------------------------------------------------------
(* Scoring: facts are those of score_project_context, texts known by how long
   they are and by whether a negative term is found in them (ADR-0003). *)

\* eligibility_weights.yml, and what the thinner of two alternatives gets.
Weights ==
  [boundary |-> 10, field |-> 10, advance |-> 20, uncertainty |-> 20,
   resolution |-> 15, opinion |-> 10, costs |-> 10, entitlement |-> 5]

Green == 80
Amber == 60
Weak == 40

BoundaryPoints(f) ==
  CASE f.boundary = "missing" -> 0
    [] f.boundary = "open" -> 6
    [] f.boundary = "closed" -> Weights.boundary

\* The advance and the uncertainty are scored alike.
TextPoints(text, weight) ==
  CASE text = "missing" -> 0
    [] text = "thin" -> 10
    [] text = "explained" -> weight

MethodPoints(f) ==
  CASE f.method = "missing" -> 0
    [] f.method = "long" /\ f.activities -> Weights.resolution
    [] OTHER -> 8

CostPoints(costs) ==
  CASE DOMAIN costs = {} -> 0
    [] \E l \in DOMAIN costs : CostWarned(costs[l]) -> 5
    [] OTHER -> Weights.costs

EntitlementPoints(f) ==
  CASE f.entitlement = "supplier_likely" -> Weights.entitlement
    [] f.entitlement = "ambiguous_tax_review" -> 2
    [] f.entitlement = "customer_likely" -> 1
    [] f.entitlement = "blocked" -> 0

Points(f, costs) ==
  BoundaryPoints(f)
  + (IF f.field THEN Weights.field ELSE 0)
  + TextPoints(f.advance, Weights.advance)
  + TextPoints(f.uncertainty, Weights.uncertainty)
  + MethodPoints(f)
  + (IF "signed" \in f.opinions THEN Weights.opinion ELSE 0)
  + CostPoints(costs)
  + EntitlementPoints(f)

\* The blockers, by their codes in blockers.yml.
Blockers(f, costs, submission) ==
  {b \in {"missing_accounting_period", "missing_field", "missing_advance",
          "missing_uncertainty", "missing_competent_professional_signoff",
          "missing_evidence", "missing_costs", "entitlement_blocked", "aif_timing_risk"} :
     CASE b = "missing_accounting_period" -> ~f.period
       [] b = "missing_field" -> ~f.field
       [] b = "missing_advance" -> f.advance = "missing"
       [] b = "missing_uncertainty" -> f.uncertainty = "missing"
       [] b = "missing_competent_professional_signoff" -> "signed" \notin f.opinions
       [] b = "missing_evidence" -> f.evidence = {}
       [] b = "missing_costs" -> DOMAIN costs = {}
       [] b = "entitlement_blocked" -> f.entitlement = "blocked"
       [] b = "aif_timing_risk" -> f.period /\ TimingRisk(submission)}

\* Whether it adds a warning: less than full marks somewhere, negative wording
\* in what was written, or evidence of which none is strong.
Warned(f, costs) ==
  \/ f.boundary # "closed"
  \/ f.advance = "thin" \/ f.uncertainty = "thin"
  \/ f.negative /\ (f.advance # "missing" \/ f.uncertainty # "missing")
  \/ f.method # "long" \/ ~f.activities
  \/ f.evidence # {} /\ "strong" \notin f.evidence
  \/ \E l \in DOMAIN costs : CostWarned(costs[l])
  \/ f.entitlement \in {"ambiguous_tax_review", "customer_likely"}

\* Mutant of Score: warnings cost their points and nothing else.
ScoreUncapped(f, costs, submission) == Points(f, costs)

\* The score: warnings keep a project that nothing blocks below green.
Score(f, costs, submission) ==
  IF /\ Warned(f, costs)
     /\ Blockers(f, costs, submission) = {}
     /\ Points(f, costs) >= Green
  THEN Green - 1
  ELSE Points(f, costs)

Band(score) ==
  CASE score >= Green -> "green"
    [] score >= Amber /\ score < Green -> "amber"
    [] score >= Weak /\ score < Amber -> "weak"
    [] score < Weak -> "red"

Rating(f, costs, submission) ==
  IF Blockers(f, costs, submission) # {} THEN "red"
  ELSE Band(Score(f, costs, submission))

-----------------------------------------------------------------------------
(* AIF selection: projects are numbered in the order of their identifiers *)

MaxDescribeAll == 3
MinDescribed == 3
MaxDescribed == 10
Percentage == 50

Spend(projects, chosen) ==
  SumFunctionOnSet([i \in DOMAIN projects |-> projects[i].spend], chosen)

Total(projects) == Spend(projects, DOMAIN projects)

\* The first k in the order of falling spend, and of identifiers between equals.
Largest(projects, k) ==
  LET Before(i, j) == \/ projects[i].spend > projects[j].spend
                      \/ projects[i].spend = projects[j].spend /\ i < j
  IN  {j \in DOMAIN projects :
         Cardinality({i \in DOMAIN projects : Before(i, j)}) < k}

ReachesHalf(projects, chosen) ==
  100 * Spend(projects, chosen) >= Percentage * Total(projects)

\* Mutant of Described: goes on until half is exceeded.
DescribedPastHalf(projects) ==
  LET most == IF Len(projects) < MaxDescribed THEN Len(projects) ELSE MaxDescribed
      from[k \in Nat] ==
        IF k < most /\ 100 * Spend(projects, Largest(projects, k)) <= Percentage * Total(projects)
        THEN from[k + 1] ELSE k
  IN  from[MinDescribed]

\* How many the loop ends with: one more while they do not reach half, up to
\* all of them or, of more than ten, to ten.
Described(projects) ==
  LET most == IF Len(projects) < MaxDescribed THEN Len(projects) ELSE MaxDescribed
      from[k \in Nat] ==
        IF k < most /\ ~ReachesHalf(projects, Largest(projects, k)) THEN from[k + 1] ELSE k
  IN  from[MinDescribed]

\* aif_project_selection: the projects to describe.
Selection(projects) ==
  IF Len(projects) <= MaxDescribeAll THEN DOMAIN projects
  ELSE Largest(projects, Described(projects))

\* More than ten, and the ten largest do not reach half.
TopTenFallback(projects) ==
  /\ Len(projects) > MaxDescribed
  /\ ~ReachesHalf(projects, Largest(projects, MaxDescribed))

\* Mutant of AIFReady: no spend is half of no spend.
AIFReadyWithoutSpend(projects) ==
  LET chosen == Selection(projects)
  IN  /\ projects # <<>>
      /\ \A i \in chosen : projects[i].described
      /\ \/ Len(projects) <= MaxDescribeAll
         \/ TopTenFallback(projects)
         \/ ReachesHalf(projects, chosen)

\* Its "ready": none of its warnings.
AIFReady(projects) ==
  LET chosen == Selection(projects)
  IN  /\ projects # <<>>
      /\ Total(projects) > 0
      /\ \A i \in chosen : projects[i].described
      /\ \/ Len(projects) <= MaxDescribeAll
         \/ TopTenFallback(projects)
         \/ ReachesHalf(projects, chosen)

\* build_aif_readiness
PeriodReady(projects, companyComplete, submission) ==
  /\ AIFReady(projects)
  /\ companyComplete
  /\ ~TimingWarned(submission)
=============================================================================
