------------------------------- MODULE Claims -------------------------------
(***************************************************************************)
(* The records of one claim period and the pages that change them          *)
(* (app/main.py): the cost lines of a project, the project's assessment,   *)
(* activities, opinions and evidence, the period's other projects, the     *)
(* company and the submission status.  What the screens say about them is  *)
(* derived by ClaimRules each time it is shown.                            *)
(*                                                                         *)
(* An edit form of a cost line carries all its fields, as they were when   *)
(* the form was opened; between that and its post, other tabs, an import   *)
(* or a delete may have changed the line, or given its number to a new one.*)
(***************************************************************************)
EXTENDS ClaimRules, SequencesExt

CONSTANTS
  Lines,        \* cost lines the project may have
  Hours,        \* hours a form may post, an hour costing Rate
  Rate,
  Amounts, Percentages,  \* what a form may post, refused values included
  MaxMoney,     \* MAX_MONETARY_AMOUNT
  FileLines,    \* cost lines an import may bring
  Starts,       \* the scored project as it is when the behaviours begin
  Submissions,  \* what the readiness page may post
  Spends,       \* qualifying spends of the other projects
  MaxProjects   \* bound: the period's other projects

Kinds == {"people_time", "direct_cost"}
Money == Int \cup {NotANumber}

\* What a file says of a cost line, and the line it becomes.
Values == [kind : Kinds, hours : Int, gross : Money, percentage : Money, sound : BOOLEAN]
Line ==
  [kind : Kinds, hours : Int, gross : Money, percentage : Money, sound : BOOLEAN,
   qualifying : Int]

Facts ==
  [period : BOOLEAN, field : BOOLEAN, negative : BOOLEAN, described : BOOLEAN,
   activities : BOOLEAN, boundary : {"missing", "open", "closed"},
   advance : {"missing", "thin", "explained"}, uncertainty : {"missing", "thin", "explained"},
   method : {"missing", "short", "long"},
   opinions : SUBSET {"draft", "signed"}, evidence : SUBSET {"moderate", "strong"},
   entitlement : {"supplier_likely", "customer_likely", "ambiguous_tax_review", "blocked"}]

Filings ==
  [ct600 : BOOLEAN, aif : BOOLEAN, ct600Date : Int \cup {None}, aifDate : Int \cup {None}]

ASSUME ClaimAssumption ==
  /\ MaxMoney \in Nat /\ MaxFloat \in Nat /\ Rate \in Nat
  /\ Hours \subseteq Nat
  /\ Amounts \subseteq Money /\ Percentages \subseteq Money
  /\ FileLines \subseteq Values
  /\ Starts \subseteq Facts
  /\ Submissions \subseteq Filings
  /\ Spends \subseteq Int
  /\ NotANumber \notin Int /\ None \notin Int
  /\ Gone \notin Line \cup Filings

VARIABLES
  lines,       \* number -> cost line, or Gone
  form,        \* an edit form that is open: the line's number and what it shows
  facts,       \* the scored project, for score_project_context
  company,     \* whether the company's details are complete
  submission,  \* the period's submission status, or Gone
  portfolio,   \* the period's other projects, by their identifiers
  origin       \* history: where each line's gross cost comes from

vars == <<lines, form, facts, company, submission, portfolio, origin>>
others == <<facts, company, submission, portfolio>>

Posts == [kind : Kinds, hours : Hours, gross : Amounts, percentage : Percentages,
          sound : BOOLEAN]

Costs == [l \in {l \in Lines : lines[l] # Gone} |-> lines[l]]

\* The projects of the period; the scored one is the youngest.
Projects ==
  IF facts.period
  THEN Append(portfolio, [spend |-> ProjectSpend(Costs), described |-> facts.described])
  ELSE portfolio

Init ==
  /\ lines = [l \in Lines |-> Gone]
  /\ form = None
  /\ facts \in Starts
  /\ company = FALSE
  /\ submission = Gone
  /\ portfolio = <<>>
  /\ origin = [l \in Lines |-> "typed"]

-----------------------------------------------------------------------------
Calculated(line) == line.hours * Rate

\* Mutant of ResolvedGross: only an empty field is calculated.
ResolvedGrossOfEmpty(post, existing) ==
  IF post.kind = "people_time" /\ post.gross = 0 THEN Calculated(post) ELSE post.gross

\* resolve_people_time_gross: a posted figure that was the stored calculation is
\* a stale pre-fill and follows the hours; any other is an override.
ResolvedGross(post, existing) ==
  LET prefilled == /\ existing # Gone
                   /\ post.gross = existing.gross
                   /\ existing.gross = Calculated(existing)
  IN  IF post.kind = "people_time" /\ (post.gross = 0 \/ prefilled)
      THEN Calculated(post) ELSE post.gross

\* cost_line_from_form appends no error.
Accepted(post, existing) ==
  /\ post.gross \in 0 .. MaxMoney
  /\ post.percentage \in 0 .. 100
  /\ post.kind = "people_time" => ResolvedGross(post, existing) <= MaxMoney

LineOf(values, gross) ==
  [kind |-> values.kind, hours |-> values.hours, gross |-> gross,
   percentage |-> values.percentage, sound |-> values.sound,
   qualifying |-> QualifyingAmount(gross, values.percentage)]

\* Where a person would say the gross cost of the saved line comes from: shown
\* is what the form showed when it was opened.
OriginOf(l, shown, post) ==
  CASE post.kind = "people_time" /\ post.gross = 0 -> "calculated"
    [] post.kind # "people_time" \/ (post.gross # 0 /\ post.gross # shown.gross) -> "typed"
    [] OTHER -> IF shown # lines[l] THEN "outdated"
                ELSE IF shown.kind = "people_time" THEN origin[l] ELSE "typed"

\* add_project_cost
AddLine(l, post) ==
  /\ lines[l] = Gone
  /\ Accepted(post, Gone)
  /\ lines' = [lines EXCEPT ![l] = LineOf(post, ResolvedGross(post, Gone))]
  /\ origin' = [origin EXCEPT ![l] =
       IF post.kind = "people_time" /\ post.gross = 0 THEN "calculated" ELSE "typed"]
  /\ UNCHANGED <<form, others>>

OpenForm(l) ==
  /\ lines[l] # Gone
  /\ form' = [line |-> l, shown |-> lines[l]]
  /\ UNCHANGED <<lines, origin, others>>

\* update_cost_line, from a form that showed the given values; a line that is
\* gone, or a post with an error, changes nothing.
UpdateLine(l, shown, post) ==
  /\ lines[l] # Gone
  /\ Accepted(post, lines[l])
  /\ lines' = [lines EXCEPT ![l] = LineOf(post, ResolvedGross(post, lines[l]))]
  /\ origin' = [origin EXCEPT ![l] = OriginOf(l, shown, post)]
  /\ UNCHANGED others

\* The form that was left open is posted at last; it is closed either way.
PostForm(post) ==
  /\ form # None
  /\ UpdateLine(form.line, form.shown, post)
  /\ form' = None

\* Another tab opens the line and posts it with nothing in between.
EditLine(l, post) ==
  /\ UpdateLine(l, lines[l], post)
  /\ UNCHANGED form

DeleteLine(l) ==
  /\ lines[l] # Gone
  /\ lines' = [lines EXCEPT ![l] = Gone]
  /\ UNCHANGED <<form, origin, others>>

\* apply_import creates the line, or restores it; _derived_values.
ImportLine(l, values) ==
  /\ lines' = [lines EXCEPT ![l] = LineOf(values, values.gross)]
  /\ origin' = [origin EXCEPT ![l] = "file"]
  /\ UNCHANGED <<form, others>>

CostPages ==
  \/ \E l \in Lines :
       \/ \E post \in Posts : AddLine(l, post) \/ EditLine(l, post)
       \/ OpenForm(l)
       \/ DeleteLine(l)
       \/ \E values \in FileLines : ImportLine(l, values)
  \/ \E post \in Posts : PostForm(post)

-----------------------------------------------------------------------------
Assess(change) ==
  /\ facts' = change
  /\ UNCHANGED <<lines, form, company, submission, portfolio, origin>>

\* update_project_assessment with the sync of the entitlement review after it:
\* a post carries every field, one that changes several is several here.
Texts == {"missing", "thin", "explained"}
AssessProject ==
  \/ \E b \in BOOLEAN : \/ Assess([facts EXCEPT !.period = b])
                        \/ Assess([facts EXCEPT !.field = b])
                        \/ Assess([facts EXCEPT !.negative = b])
                        \/ Assess([facts EXCEPT !.described = b])
  \/ \E t \in Texts : \/ Assess([facts EXCEPT !.advance = t])
                      \/ Assess([facts EXCEPT !.uncertainty = t])
  \/ \E b \in {"missing", "open", "closed"} : Assess([facts EXCEPT !.boundary = b])
  \/ \E m \in {"missing", "short", "long"} : Assess([facts EXCEPT !.method = m])
  \/ \E e \in {"supplier_likely", "customer_likely", "ambiguous_tax_review", "blocked"} :
       Assess([facts EXCEPT !.entitlement = e])

\* Activities, which have no page: an import or the cleanup page.
ChangeActivities == \E b \in BOOLEAN : Assess([facts EXCEPT !.activities = b])

\* The competent professional and evidence pages: of records of one kind, the
\* first is added or the last is deleted.
ChangeOpinions ==
  \E status \in {"draft", "signed"} :
    \/ Assess([facts EXCEPT !.opinions = @ \cup {status}])
    \/ Assess([facts EXCEPT !.opinions = @ \ {status}])

ChangeEvidence ==
  \E strength \in {"moderate", "strong"} :
    \/ Assess([facts EXCEPT !.evidence = @ \cup {strength}])
    \/ Assess([facts EXCEPT !.evidence = @ \ {strength}])

ProjectPages == AssessProject \/ ChangeActivities \/ ChangeOpinions \/ ChangeEvidence

-----------------------------------------------------------------------------
UpdateCompany ==
  /\ company' = ~company
  /\ UNCHANGED <<lines, form, facts, submission, portfolio, origin>>

\* update_claim_period_submission: it creates the row if there is none.
UpdateSubmission(posted) ==
  /\ submission' = posted
  /\ UNCHANGED <<lines, form, facts, company, portfolio, origin>>

\* delete_accounting_period, when it finds no project, and one is linked to the
\* period after its first commit, so that the delete itself is refused.
LoseSubmission ==
  /\ Projects = <<>>
  /\ submission' = Gone
  /\ UNCHANGED <<lines, form, facts, company, portfolio, origin>>

Arrange(change) ==
  /\ portfolio' = change
  /\ UNCHANGED <<lines, form, facts, company, submission, origin>>

\* A project is created in the period or moved into it.
AddProject(spend) ==
  /\ Len(portfolio) < MaxProjects
  /\ Arrange(Append(portfolio, [spend |-> spend, described |-> FALSE]))

\* It is moved to another period or deleted.
RemoveProject(i) == Arrange(RemoveAt(portfolio, i))

\* Its assessment page says whether it is described in the form.
DescribeProject(i) == Arrange([portfolio EXCEPT ![i].described = ~@])

\* Its cost pages.
RecostProject(i, spend) == Arrange([portfolio EXCEPT ![i].spend = spend])

PeriodPages ==
  \/ UpdateCompany
  \/ \E posted \in Submissions : UpdateSubmission(posted)
  \/ LoseSubmission
  \/ \E spend \in Spends : AddProject(spend)
  \/ \E i \in DOMAIN portfolio :
       \/ RemoveProject(i)
       \/ DescribeProject(i)
       \/ \E spend \in Spends : RecostProject(i, spend)

Next == CostPages \/ ProjectPages \/ PeriodPages

Spec == Init /\ [][Next]_vars

-----------------------------------------------------------------------------
\* Every variable has its type: whatever a file brought, the amount that is
\* stored as qualifying is a number, and no larger than a float can be.
TypeOK ==
  /\ lines \in [Lines -> Line \cup {Gone}]
  /\ \A l \in DOMAIN Costs : Costs[l].qualifying \in -MaxFloat .. MaxFloat
  /\ form # None => form.line \in Lines /\ form.shown \in Line
  /\ facts \in Facts
  /\ company \in BOOLEAN
  /\ submission \in Filings \cup {Gone}
  /\ portfolio \in Seq([spend : Int, described : BOOLEAN])
  /\ origin \in [Lines -> {"typed", "calculated", "file", "outdated"}]

\* "Keep a people-time gross cost consistent with the hours and rates recorded on
\* it" (resolve_people_time_gross): a figure that nobody typed and no file brought
\* is the calculation of the hours the line has now, through any sequence of
\* edits, overrides, changes of kind and imports; all but the figure of a form
\* that was opened before someone else changed the line.
GrossExplained ==
  \A l \in DOMAIN Costs :
    origin[l] = "calculated" =>
      Costs[l].kind = "people_time" /\ Costs[l].gross = Calculated(Costs[l])

\* The product of a line's figures is no finite float, although they both are.
Overflows(line) ==
  /\ Finite(line.gross) /\ Finite(line.percentage)
  /\ line.gross * line.percentage \notin -MaxFloat .. MaxFloat

\* A green rating is earned: full marks, no blocker, an order of CT600 and form
\* that the readiness of the period finds no fault with either, and a spend that no
\* cost line distorts: each counts for its share, between nothing and its gross, but
\* for a line whose product overflows, which is left out (GuardIsNeverSilent).
GreenIsEarned ==
  Rating(facts, Costs, submission) = "green" =>
    /\ Score(facts, Costs, submission) = 100
    /\ facts.period /\ ~TimingWarned(submission)
    /\ "signed" \in facts.opinions /\ "strong" \in facts.evidence
    /\ \A l \in DOMAIN Costs :
         /\ Costs[l].sound
         /\ Costs[l].gross # NotANumber
         /\ ~Overflows(Costs[l]) =>
              /\ Contribution(Costs[l]) = (Costs[l].gross * Costs[l].percentage) \div 100
              /\ Contribution(Costs[l]) \in 0 .. Costs[l].gross

\* "Whenever this guard fires, cost_validation_warnings() surfaces the affected cost
\* line so the degrade is visible, never silent" (calculate_qualifying_amount): a line
\* that counts nothing because of its figures is warned about.
GuardIsNeverSilent ==
  \A l \in DOMAIN Costs :
    \/ ~Finite(Costs[l].gross) \/ ~Finite(Costs[l].percentage) \/ Overflows(Costs[l])
    => CostWarned(Costs[l])

\* The projects to describe are enough and no more: none is passed over for a
\* smaller one, beyond three each is needed to reach half of the spend, they are
\* never more than ten, and a period that is ready has described all of three
\* projects or less, or half of a spend that is not zero, or the ten largest where
\* ten do not reach half.  A refund in a file can make the spend of a project
\* negative, and the description of such a project takes from what the others
\* reach: then it is the projects to describe alone that count.
ReadyIsEarned ==
  LET projects == Projects
      chosen == Selection(projects)
      described == {i \in DOMAIN projects : projects[i].described}
      counted == IF \A i \in DOMAIN projects : projects[i].spend >= 0
                 THEN described ELSE described \cap chosen
  IN  /\ \A i \in chosen, j \in DOMAIN projects \ chosen :
           projects[i].spend >= projects[j].spend
      /\ Cardinality(chosen) > 3 =>
           \A i \in chosen : 2 * Spend(projects, chosen \ {i}) < Total(projects)
      /\ Cardinality(chosen) <= 10
      /\ PeriodReady(projects, company, submission) =>
           /\ Spend(projects, counted) > 0
           /\ \/ Cardinality(counted) = Len(projects)
              \/ /\ Cardinality(counted) >= 3
                 /\ 2 * Spend(projects, counted) >= Total(projects)
              \/ /\ Cardinality(counted) >= 10
                 /\ \A i \in chosen, j \in DOMAIN projects \ counted :
                      projects[i].spend >= projects[j].spend
=============================================================================
