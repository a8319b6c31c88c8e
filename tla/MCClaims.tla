------------------------------ MODULE MCClaims ------------------------------
(* The pages of the cost lines, of the project and of the period are        *)
(* exercised in turn: from a project whose file is complete, from an empty  *)
(* one, and from an empty period that grows to MaxProjects.                 *)
EXTENDS Claims, TLC

CONSTANT line

MCAmounts == {-2, 0, 2, 3, 4}
MCSpends == {-15, 0, 1, 4}

VARIABLE focus

EmptyProject ==
  [period |-> FALSE, boundary |-> "missing", field |-> FALSE, advance |-> "missing",
   uncertainty |-> "missing", negative |-> FALSE, method |-> "missing",
   activities |-> FALSE, opinions |-> {}, evidence |-> {},
   entitlement |-> "ambiguous_tax_review", described |-> FALSE]

CompleteProject ==
  [period |-> TRUE, boundary |-> "closed", field |-> TRUE, advance |-> "explained",
   uncertainty |-> "explained", negative |-> FALSE, method |-> "long",
   activities |-> TRUE, opinions |-> {"signed"}, evidence |-> {"strong"},
   entitlement |-> "supplier_likely", described |-> TRUE]

MCStarts == {EmptyProject, CompleteProject}

FileLine(kind, hours, gross, percentage) ==
  [kind |-> kind, hours |-> hours, gross |-> gross, percentage |-> percentage, sound |-> TRUE]

\* A refund, an apportionment of 200%, a figure that is none, one that overflows
\* when it is apportioned, and people's time that is not what its hours make.
MCFileLines ==
  {FileLine("direct_cost", 0, -2, 100), FileLine("direct_cost", 0, 2, 200),
   FileLine("direct_cost", 0, NotANumber, 100), FileLine("direct_cost", 0, MaxFloat, 100),
   FileLine("people_time", 1, 4, 100)}

Filing(ct600, aif, ct600Date, aifDate) ==
  [ct600 |-> ct600, aif |-> aif, ct600Date |-> ct600Date, aifDate |-> aifDate]

MCSubmissions ==
  {Filing(FALSE, TRUE, None, 1), Filing(TRUE, FALSE, 1, None), Filing(TRUE, TRUE, 1, 2),
   Filing(TRUE, TRUE, 2, 2), Filing(TRUE, TRUE, None, 1)}

\* Portfolios whose spend changes once, in the order of their identifiers.
Simple ==
  Cardinality({i \in 2 .. Len(portfolio) : portfolio[i].spend # portfolio[i - 1].spend}) <= 1

\* A cost line with nothing to say about it, and one that is unpaid.
PlainPost(sound) ==
  [kind |-> "direct_cost", hours |-> 0, gross |-> 2, percentage |-> 100, sound |-> sound]

\* The pages of a period that grew past Small projects: it is of a company whose
\* details are complete and has no submission status, and its projects are
\* described in the order of their identifiers.
Small == 5

SmallPeriod == PeriodPages /\ Len(portfolio') <= Small

LargePeriod ==
  /\ Len(portfolio) >= Small
  /\ company /\ submission = Gone
  /\ \/ /\ Len(portfolio) = Small => \A i \in DOMAIN portfolio : ~portfolio[i].described
        /\ \E spend \in Spends \ {0} : AddProject(spend)
     \/ RemoveProject(Len(portfolio))
     \/ LET missing == {i \in Selection(portfolio) : ~portfolio[i].described}
        IN  \E i \in missing : (\A j \in missing : i <= j) /\ DescribeProject(i)

MCInit ==
  /\ Init
  /\ focus \in {"costs", "project", "period"}
  /\ facts = IF focus = "costs" THEN CompleteProject ELSE EmptyProject

ProjectFile ==
  \/ ProjectPages /\ ~facts'.described
  \/ \E l \in Lines : \/ \E sound \in BOOLEAN : AddLine(l, PlainPost(sound))
                      \/ DeleteLine(l)
  \/ UpdateSubmission(Filing(TRUE, TRUE, 1, 2))

MCNext ==
  /\ \/ focus = "costs" /\ CostPages
     \/ focus = "project" /\ ProjectFile
     \/ focus = "period" /\ (SmallPeriod \/ LargePeriod) /\ Simple'
  /\ UNCHANGED focus

MCSpec == MCInit /\ [][MCNext]_<<vars, focus>>
=============================================================================
