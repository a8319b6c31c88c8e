---------------------------- MODULE ClaimsProofs ----------------------------
(***************************************************************************)
(* Proofs about the records of a claim period, for any number of lines,    *)
(* any figures a form or a file may bring and any limits.  A project is    *)
(* green only if nothing but an overflow distorts its spend: that takes    *)
(* what is stored as qualifying to be what is calculated from the line it  *)
(* is stored with.  GrossExplained takes the figure of every edit form     *)
(* that is up to date to be recognised as a pre-fill.                      *)
(*                                                                         *)
(* ReadyIsEarned needs no more of the state than its types.  It rests on   *)
(* what the selection is made of: the rank of a project is how many are    *)
(* ahead of it, every rank is taken once, so the k largest are k and the   *)
(* next one adds the project of rank k; the loop of Described ends with    *)
(* the first number that is enough; and the spends of the parts of a       *)
(* portfolio are sums (DataInduction).                                     *)
(***************************************************************************)
EXTENDS Claims, DataInduction

\* The amount of a line is that of its figures, and a figure that only the
\* program made is the calculation of its hours.
LinesSound ==
  \A l \in Lines : lines[l] # Gone =>
    /\ lines[l].qualifying = QualifyingAmount(lines[l].gross, lines[l].percentage)
    /\ origin[l] = "calculated" =>
         lines[l].kind = "people_time" /\ lines[l].gross = Calculated(lines[l])

IInv == TypeOK /\ LinesSound

-----------------------------------------------------------------------------
\* A post has its fields' types.
LEMMA PostTyped ==
  ASSUME NEW post \in Posts
  PROVE  /\ post.kind \in Kinds /\ post.hours \in Int /\ post.percentage \in Money
         /\ post.sound \in BOOLEAN
<1>1. /\ post.kind \in Kinds /\ post.hours \in Hours /\ post.percentage \in Percentages
      /\ post.sound \in BOOLEAN
  BY DEF Posts
<1>2. Hours \subseteq Int /\ Percentages \subseteq Money
  BY ClaimAssumption
<1> QED BY <1>1, <1>2

\* What is stored as qualifying is a finite number, whatever it is made from.
LEMMA AmountTyped ==
  ASSUME NEW gross \in Money, NEW percentage \in Money
  PROVE  QualifyingAmount(gross, percentage) \in -MaxFloat .. MaxFloat
<1> USE ClaimAssumption DEF Money, QualifyingAmount, Finite
<1>1. ASSUME gross # NotANumber, percentage # NotANumber
      PROVE  QualifyingAmount(gross, percentage) \in -MaxFloat .. MaxFloat
  <2> DEFINE product == gross * percentage
  <2>1. product \in Int
    BY <1>1
  <2> HIDE DEF product
  <2>2. product \in -MaxFloat .. MaxFloat => product \div 100 \in -MaxFloat .. MaxFloat
    BY <2>1
  <2>3. 0 \in -MaxFloat .. MaxFloat
    OBVIOUS
  <2> QED BY <1>1, <2>2, <2>3 DEF product
<1>2. ASSUME gross = NotANumber \/ percentage = NotANumber
      PROVE  QualifyingAmount(gross, percentage) \in -MaxFloat .. MaxFloat
  BY <1>2
<1> QED BY <1>1, <1>2

\* A share of up to all of a cost lies between nothing and the cost.
LEMMA AmountWithin ==
  ASSUME NEW gross \in Nat, NEW percentage \in 0 .. 100
  PROVE  QualifyingAmount(gross, percentage) \in 0 .. gross
<1> DEFINE product == gross * percentage
           rest == gross * (100 - percentage)
<1>1. product \in Int /\ rest \in Int /\ product >= 0 /\ rest >= 0
  OBVIOUS
<1>2. product + rest = 100 * gross
  OBVIOUS
<1>3. product <= 100 * gross
  <2> HIDE DEF product, rest
  <2> QED BY <1>1, <1>2
<1> HIDE DEF product, rest
<1>4. product \div 100 \in 0 .. gross
  BY <1>1, <1>3
<1> QED BY <1>4 DEF QualifyingAmount, product

\* The figure a post is saved with is a number.
LEMMA GrossTyped ==
  ASSUME NEW post \in Posts, NEW existing \in Line \cup {Gone}, Accepted(post, existing)
  PROVE  ResolvedGross(post, existing) \in Int
<1>1. post.hours \in Int
  BY PostTyped
<1>2. MaxMoney \in Nat /\ Rate \in Int
  BY ClaimAssumption
<1>3. post.gross \in Int
  BY <1>2 DEF Accepted
<1>4. Calculated(post) \in Int
  BY <1>1, <1>2 DEF Calculated
<1> QED BY <1>3, <1>4 DEF ResolvedGross

LEMMA LineTyped ==
  ASSUME NEW values, NEW gross \in Money,
         values.kind \in Kinds, values.hours \in Int, values.percentage \in Money,
         values.sound \in BOOLEAN
  PROVE  /\ LineOf(values, gross) \in Line
         /\ LineOf(values, gross).kind = values.kind
         /\ LineOf(values, gross).hours = values.hours
         /\ LineOf(values, gross).gross = gross
         /\ LineOf(values, gross).percentage = values.percentage
         /\ LineOf(values, gross).qualifying = QualifyingAmount(gross, values.percentage)
         /\ LineOf(values, gross).qualifying \in -MaxFloat .. MaxFloat
<1>1. QualifyingAmount(gross, values.percentage) \in -MaxFloat .. MaxFloat
  BY AmountTyped
<1>2. QualifyingAmount(gross, values.percentage) \in Int
  BY <1>1, ClaimAssumption
<1> QED BY <1>1, <1>2 DEF LineOf, Line

\* A line that is written with its own amount keeps the invariant of all lines.
LEMMA WriteLine ==
  ASSUME IInv, NEW l \in Lines, NEW values, NEW gross \in Money, NEW from,
         values.kind \in Kinds, values.hours \in Int, values.percentage \in Money,
         values.sound \in BOOLEAN,
         from \in {"typed", "calculated", "file", "outdated"},
         from = "calculated" => values.kind = "people_time" /\ gross = Calculated(values),
         lines' = [lines EXCEPT ![l] = LineOf(values, gross)],
         origin' = [origin EXCEPT ![l] = from],
         UNCHANGED others,
         form' = form \/ form' = None
  PROVE  IInv'
<1> DEFINE new == LineOf(values, gross)
<1>1. /\ new \in Line /\ new.kind = values.kind /\ new.hours = values.hours
      /\ new.gross = gross /\ new.percentage = values.percentage
      /\ new.qualifying = QualifyingAmount(gross, values.percentage)
      /\ new.qualifying \in -MaxFloat .. MaxFloat
  BY LineTyped
<1> HIDE DEF new
<1>2. lines' = [lines EXCEPT ![l] = new]
  BY DEF new
<1>3. TypeOK'
  BY <1>1, <1>2 DEF IInv, TypeOK, Costs, others
<1>4. LinesSound'
  BY <1>1, <1>2 DEF IInv, TypeOK, LinesSound, Calculated
<1> QED BY <1>3, <1>4 DEF IInv

\* Saving a form, whatever it showed: a figure that is called calculated is.
LEMMA FormKeeps ==
  ASSUME IInv, NEW l \in Lines, NEW shown \in Line, NEW post \in Posts,
         UpdateLine(l, shown, post), form' = form \/ form' = None
  PROVE  IInv'
<1> DEFINE gross == ResolvedGross(post, lines[l])
           from == OriginOf(l, shown, post)
<1>1. /\ post.kind \in Kinds /\ post.hours \in Int /\ post.percentage \in Money
      /\ post.sound \in BOOLEAN
  BY PostTyped
<1>2. lines[l] \in Line \cup {Gone} /\ lines[l] # Gone
      /\ origin[l] \in {"typed", "calculated", "file", "outdated"}
  BY DEF IInv, TypeOK, UpdateLine
<1>3. gross \in Int
  BY <1>2, GrossTyped DEF UpdateLine
<1>4. /\ from \in {"typed", "calculated", "file", "outdated"}
      /\ from = "calculated" => post.kind = "people_time" /\ gross = Calculated(post)
  <2>1. CASE post.kind = "people_time" /\ post.gross = 0
    BY <2>1 DEF OriginOf, ResolvedGross
  <2>2. CASE post.kind # "people_time" \/ (post.gross # 0 /\ post.gross # shown.gross)
    BY <2>2 DEF OriginOf
  <2>3. CASE post.kind = "people_time" /\ post.gross # 0 /\ post.gross = shown.gross
    <3>1. from = IF shown # lines[l] THEN "outdated"
                 ELSE IF shown.kind = "people_time" THEN origin[l] ELSE "typed"
      BY <2>3 DEF OriginOf
    <3>2. CASE from # "calculated"
      BY <1>2, <3>1, <3>2
    <3>3. CASE from = "calculated"
      <4>1. shown = lines[l] /\ origin[l] = "calculated"
        BY <3>1, <3>3
      <4>2. lines[l].gross = Calculated(lines[l])
        BY <1>2, <4>1 DEF IInv, LinesSound
      <4> QED BY <1>2, <2>3, <3>3, <4>1, <4>2 DEF ResolvedGross
    <3> QED BY <3>2, <3>3
  <2> QED BY <2>1, <2>2, <2>3
<1>5. /\ lines' = [lines EXCEPT ![l] = LineOf(post, gross)]
      /\ origin' = [origin EXCEPT ![l] = from] /\ UNCHANGED others
  BY DEF UpdateLine
<1>6. gross \in Money
  BY <1>3 DEF Money
<1> HIDE DEF gross, from
<1> QED BY <1>1, <1>4, <1>5, <1>6, WriteLine

-----------------------------------------------------------------------------
\* What a blocker code that is not raised says about the project.
LEMMA Unblocked ==
  ASSUME NEW f, NEW costs, NEW filing, Blockers(f, costs, filing) = {}
  PROVE  /\ f.period /\ f.field
         /\ f.advance # "missing" /\ f.uncertainty # "missing"
         /\ "signed" \in f.opinions /\ f.evidence # {}
         /\ DOMAIN costs # {} /\ f.entitlement # "blocked"
         /\ ~TimingRisk(filing)
<1> USE DEF Blockers
<1>1. f.period
  <2>1. "missing_accounting_period" \notin Blockers(f, costs, filing)
    OBVIOUS
  <2> QED BY <2>1
<1>2. f.field
  <2>1. "missing_field" \notin Blockers(f, costs, filing)
    OBVIOUS
  <2> QED BY <2>1
<1>3. f.advance # "missing"
  <2>1. "missing_advance" \notin Blockers(f, costs, filing)
    OBVIOUS
  <2> QED BY <2>1
<1>4. f.uncertainty # "missing"
  <2>1. "missing_uncertainty" \notin Blockers(f, costs, filing)
    OBVIOUS
  <2> QED BY <2>1
<1>5. "signed" \in f.opinions
  <2>1. "missing_competent_professional_signoff" \notin Blockers(f, costs, filing)
    OBVIOUS
  <2> QED BY <2>1
<1>6. f.evidence # {}
  <2>1. "missing_evidence" \notin Blockers(f, costs, filing)
    OBVIOUS
  <2> QED BY <2>1
<1>7. DOMAIN costs # {}
  <2>1. "missing_costs" \notin Blockers(f, costs, filing)
    OBVIOUS
  <2> QED BY <2>1
<1>8. f.entitlement # "blocked"
  <2>1. "entitlement_blocked" \notin Blockers(f, costs, filing)
    OBVIOUS
  <2> QED BY <2>1
<1>9. ~TimingRisk(filing)
  <2>1. "aif_timing_risk" \notin Blockers(f, costs, filing)
    OBVIOUS
  <2> QED BY <1>1, <2>1
<1> QED BY <1>1, <1>2, <1>3, <1>4, <1>5, <1>6, <1>7, <1>8, <1>9

\* Points are a number, and a project that nothing blocks or warns of has all.
LEMMA PointsTyped ==
  ASSUME NEW f \in Facts, NEW costs
  PROVE  Points(f, costs) \in Int
<1>1. BoundaryPoints(f) \in Int
  BY DEF BoundaryPoints, Facts, Weights
<1>2. TextPoints(f.advance, Weights.advance) \in Int
  BY DEF TextPoints, Facts, Weights
<1>3. TextPoints(f.uncertainty, Weights.uncertainty) \in Int
  BY DEF TextPoints, Facts, Weights
<1>4. MethodPoints(f) \in Int
  BY DEF MethodPoints, Weights
<1>5. CostPoints(costs) \in Int
  BY DEF CostPoints, Weights
<1>6. EntitlementPoints(f) \in Int
  BY DEF EntitlementPoints, Facts, Weights
<1>7. Weights.field \in Int /\ Weights.opinion \in Int
  BY DEF Weights
<1> QED BY <1>1, <1>2, <1>3, <1>4, <1>5, <1>6, <1>7 DEF Points

LEMMA FullMarks ==
  ASSUME NEW f \in Facts, NEW costs, NEW filing,
         Blockers(f, costs, filing) = {}, ~Warned(f, costs)
  PROVE  Points(f, costs) = 100
<1>1. /\ f.field /\ f.advance # "missing" /\ f.uncertainty # "missing"
      /\ "signed" \in f.opinions /\ DOMAIN costs # {} /\ f.entitlement # "blocked"
  BY Unblocked
<1>2. BoundaryPoints(f) = 10
  BY DEF BoundaryPoints, Warned, Weights
<1>3. TextPoints(f.advance, Weights.advance) = 20
  BY <1>1 DEF TextPoints, Warned, Facts, Weights
<1>4. TextPoints(f.uncertainty, Weights.uncertainty) = 20
  BY <1>1 DEF TextPoints, Warned, Facts, Weights
<1>5. MethodPoints(f) = 15
  BY DEF MethodPoints, Warned, Weights
<1>6. CostPoints(costs) = 10
  BY <1>1 DEF CostPoints, Warned, Weights
<1>7. EntitlementPoints(f) = 5
  BY <1>1 DEF EntitlementPoints, Warned, Facts, Weights
<1>8. Weights.field = 10 /\ Weights.opinion = 10
  BY DEF Weights
<1> QED BY <1>1, <1>2, <1>3, <1>4, <1>5, <1>6, <1>7, <1>8 DEF Points

\* Nothing blocks or warns of a green project: the cap is below green.
LEMMA GreenUnwarned ==
  ASSUME NEW f \in Facts, NEW costs, NEW filing, Rating(f, costs, filing) = "green"
  PROVE  /\ Blockers(f, costs, filing) = {} /\ ~Warned(f, costs)
         /\ Score(f, costs, filing) = 100
<1>1. Blockers(f, costs, filing) = {} /\ Band(Score(f, costs, filing)) = "green"
  BY DEF Rating
<1>2. Score(f, costs, filing) \in Int
  BY PointsTyped DEF Score, Green
<1>3. Score(f, costs, filing) >= Green
  BY <1>1, <1>2 DEF Band, Green, Amber, Weak
<1>4. ~Warned(f, costs)
  BY <1>1, <1>3, PointsTyped DEF Score, Green
<1>5. Score(f, costs, filing) = 100
  BY <1>1, <1>4, FullMarks DEF Score
<1> QED BY <1>1, <1>4, <1>5

\* The two places that judge the order of the CT600 and the form agree.
LEMMA TimingAgrees ==
  ASSUME NEW filing \in Filings \cup {Gone}
  PROVE  TimingRisk(filing) <=> TimingWarned(filing)
<1>1. CASE filing = Gone
  BY <1>1 DEF TimingRisk, TimingWarned
<1>2. CASE filing # Gone
  <2>1. /\ filing.aifDate \in Int \cup {None} /\ filing.ct600Date \in Int \cup {None}
    BY <1>2 DEF Filings
  <2>2. ASSUME filing.aifDate # None, filing.ct600Date # None
        PROVE  filing.aifDate > filing.ct600Date <=> filing.ct600Date < filing.aifDate
    BY <2>1, <2>2
  <2> QED BY <2>2 DEF TimingRisk, TimingWarned
<1> QED BY <1>1, <1>2

\* A line that draws no warning counts for its share, between nothing and its gross,
\* or its product overflows.
LEMMA UnwarnedWithin ==
  ASSUME NEW line \in Line, ~CostWarned(line),
         line.qualifying = QualifyingAmount(line.gross, line.percentage)
  PROVE  /\ line.sound /\ line.gross # NotANumber
         /\ ~Overflows(line) => /\ Contribution(line) = (line.gross * line.percentage) \div 100
                                /\ Contribution(line) \in 0 .. line.gross
<1>1. line.sound /\ line.gross # NotANumber /\ line.percentage # NotANumber
  BY DEF CostWarned, Finite
<1>2. line.gross \in Int /\ line.percentage \in Int
  BY <1>1 DEF Line, Money
<1>3. line.gross \in Nat /\ line.percentage \in 0 .. 100
  BY <1>1, <1>2 DEF CostWarned, Finite
<1>4. Contribution(line) = QualifyingAmount(line.gross, line.percentage)
  BY DEF Contribution
<1>5. ASSUME ~Overflows(line)
      PROVE  QualifyingAmount(line.gross, line.percentage)
               = (line.gross * line.percentage) \div 100
  BY <1>1, <1>5 DEF Overflows, QualifyingAmount, Finite
<1> QED BY <1>1, <1>3, <1>4, <1>5, AmountWithin

-----------------------------------------------------------------------------
\* The order of the selection, the projects ahead of one in it, and its rank.
Precedes(projects, i, j) ==
  \/ projects[i].spend > projects[j].spend
  \/ projects[i].spend = projects[j].spend /\ i < j

Ahead(projects, j) == {i \in DOMAIN projects : Precedes(projects, i, j)}
Rank(projects, j) == Cardinality(Ahead(projects, j))

Portfolios == Seq([spend : Int, described : BOOLEAN])

\* There are n numbers from 1 to n, and below n.
LEMMA CountUp ==
  ASSUME NEW n \in Nat
  PROVE  /\ IsFiniteSet(1 .. n) /\ Cardinality(1 .. n) = n
         /\ IsFiniteSet(0 .. n - 1) /\ Cardinality(0 .. n - 1) = n
<1>1. 0 \in Int /\ 1 \in Int /\ n \in Int /\ n - 1 \in Int
  OBVIOUS
<1>2. IsFiniteSet(1 .. n) /\ Cardinality(1 .. n) = IF 1 > n THEN 0 ELSE n - 1 + 1
  BY <1>1, FS_Interval
<1>3. IsFiniteSet(0 .. n - 1)
      /\ Cardinality(0 .. n - 1) = IF 0 > n - 1 THEN 0 ELSE (n - 1) - 0 + 1
  BY <1>1, FS_Interval
<1> QED BY <1>2, <1>3

\* A portfolio is a finite set of projects with spends.
LEMMA PortfolioTyped ==
  ASSUME NEW projects \in Portfolios
  PROVE  /\ Len(projects) \in Nat
         /\ DOMAIN projects = 1 .. Len(projects)
         /\ IsFiniteSet(DOMAIN projects)
         /\ Cardinality(DOMAIN projects) = Len(projects)
         /\ \A i \in DOMAIN projects : /\ i \in Nat
                                       /\ projects[i].spend \in Int
                                       /\ projects[i].described \in BOOLEAN
<1>1. Len(projects) \in Nat /\ DOMAIN projects = 1 .. Len(projects)
  BY DEF Portfolios
<1>2. IsFiniteSet(1 .. Len(projects)) /\ Cardinality(1 .. Len(projects)) = Len(projects)
  BY <1>1, CountUp
<1>3. \A i \in 1 .. Len(projects) : projects[i] \in [spend : Int, described : BOOLEAN]
  <2> DEFINE Project == [spend : Int, described : BOOLEAN]
  <2>1. projects \in Seq(Project)
    BY DEF Portfolios
  <2> HIDE DEF Project
  <2>2. \A i \in 1 .. Len(projects) : projects[i] \in Project
    BY <2>1
  <2> QED BY <2>2 DEF Project
<1> QED BY <1>1, <1>2, <1>3

\* The spends of the parts of a portfolio are sums.
LEMMA SpendAdds ==
  ASSUME NEW projects \in Portfolios
  PROVE  /\ \A S \in SUBSET DOMAIN projects : Spend(projects, S) \in Int
         /\ \A S \in SUBSET DOMAIN projects : \A i \in S :
              Spend(projects, S) = projects[i].spend + Spend(projects, S \ {i})
         /\ \A S \in SUBSET DOMAIN projects : \A T \in SUBSET S :
              Spend(projects, S) = Spend(projects, T) + Spend(projects, S \ T)
         /\ \A S \in SUBSET DOMAIN projects :
              (\A i \in S : projects[i].spend >= 0) => Spend(projects, S) >= 0
         /\ \A S \in SUBSET DOMAIN projects :
              (\A i \in S : projects[i].spend <= 0) => Spend(projects, S) <= 0
<1> DEFINE D == DOMAIN projects
           f == [i \in D |-> projects[i].spend]
<1>1. IsFiniteSet(D) /\ \A i \in D : f[i] = projects[i].spend /\ f[i] \in Int
  BY PortfolioTyped
<1>2. \A S : Spend(projects, S) = SumFunctionOnSet(f, S)
  BY DEF Spend
<1> HIDE DEF D, f
<1>3. \A S \in SUBSET D : SumFunctionOnSet(f, S) \in Int
  BY <1>1, SumTyped
<1>4. \A S \in SUBSET D : \A i \in S :
        SumFunctionOnSet(f, S) = f[i] + SumFunctionOnSet(f, S \ {i})
  BY <1>1, SumTakesOut
<1>5. \A S \in SUBSET D : \A T \in SUBSET S :
        SumFunctionOnSet(f, S) = SumFunctionOnSet(f, T) + SumFunctionOnSet(f, S \ T)
  <2> SUFFICES ASSUME NEW S \in SUBSET D
               PROVE  \A T \in SUBSET S :
                        SumFunctionOnSet(f, S) = SumFunctionOnSet(f, T) + SumFunctionOnSet(f, S \ T)
    OBVIOUS
  <2> QED BY <1>1, SumOfParts
<1>6. \A S \in SUBSET D : (\A i \in S : f[i] >= 0) => SumFunctionOnSet(f, S) >= 0
  BY <1>1, SumNotNegative
<1>7. \A S \in SUBSET D : (\A i \in S : f[i] <= 0) => SumFunctionOnSet(f, S) <= 0
  BY <1>1, SumNotPositive
<1>8. \A S \in SUBSET D : \A i \in S :
        Spend(projects, S) = projects[i].spend + Spend(projects, S \ {i})
  BY <1>1, <1>2, <1>4
<1>9. \A S \in SUBSET D : \A T \in SUBSET S :
        Spend(projects, S) = Spend(projects, T) + Spend(projects, S \ T)
  BY <1>2, <1>5
<1>10. \A S \in SUBSET D : (\A i \in S : projects[i].spend >= 0) => Spend(projects, S) >= 0
  BY <1>1, <1>2, <1>6
<1>11. \A S \in SUBSET D : (\A i \in S : projects[i].spend <= 0) => Spend(projects, S) <= 0
  BY <1>1, <1>2, <1>7
<1>12. \A S \in SUBSET D : Spend(projects, S) \in Int
  BY <1>2, <1>3
<1> QED BY <1>8, <1>9, <1>10, <1>11, <1>12 DEF D

\* The order is one: of two projects one is ahead, and ranks follow it.
LEMMA RanksOrder ==
  ASSUME NEW projects \in Portfolios
  PROVE  /\ \A i, j \in DOMAIN projects : Precedes(projects, i, j) =>
              Rank(projects, i) < Rank(projects, j)
         /\ \A i, j \in DOMAIN projects :
              i # j => Precedes(projects, i, j) \/ Precedes(projects, j, i)
         /\ \A j \in DOMAIN projects : Rank(projects, j) \in 0 .. Len(projects) - 1
<1> DEFINE D == DOMAIN projects
<1>1. /\ IsFiniteSet(D) /\ Cardinality(D) = Len(projects) /\ Len(projects) \in Nat
      /\ \A i \in D : i \in Nat /\ projects[i].spend \in Int
  BY PortfolioTyped
<1>2. \A j \in D : IsFiniteSet(Ahead(projects, j)) /\ Rank(projects, j) \in Nat
  <2> SUFFICES ASSUME NEW j \in D
               PROVE  IsFiniteSet(Ahead(projects, j)) /\ Rank(projects, j) \in Nat
    OBVIOUS
  <2>1. Ahead(projects, j) \in SUBSET D
    BY DEF Ahead
  <2>2. IsFiniteSet(Ahead(projects, j))
    BY <1>1, <2>1, FS_Subset
  <2> QED BY <2>2, FS_CardinalityType DEF Rank
<1>3. ASSUME NEW i \in D, NEW j \in D, Precedes(projects, i, j)
      PROVE  Rank(projects, i) < Rank(projects, j)
  <2>1. Ahead(projects, i) \in SUBSET Ahead(projects, j)
    BY <1>1, <1>3 DEF Ahead, Precedes
  <2>2. i \in Ahead(projects, j) /\ i \notin Ahead(projects, i)
    BY <1>1, <1>3 DEF Ahead, Precedes
  <2>3. /\ Cardinality(Ahead(projects, i)) <= Cardinality(Ahead(projects, j))
        /\ Cardinality(Ahead(projects, j)) # Cardinality(Ahead(projects, i))
    BY <1>2, <2>1, <2>2, FS_Subset
  <2> QED BY <1>2, <2>3 DEF Rank
<1>4. ASSUME NEW i \in D, NEW j \in D, i # j
      PROVE  Precedes(projects, i, j) \/ Precedes(projects, j, i)
  BY <1>1, <1>4 DEF Precedes
<1>5. ASSUME NEW j \in D PROVE Rank(projects, j) \in 0 .. Len(projects) - 1
  <2>1. Ahead(projects, j) \in SUBSET (D \ {j})
    BY <1>1 DEF Ahead, Precedes
  <2>2. IsFiniteSet(D \ {j}) /\ Cardinality(D \ {j}) = Len(projects) - 1
    BY <1>1, FS_RemoveElement
  <2>3. Cardinality(Ahead(projects, j)) <= Len(projects) - 1
    BY <2>1, <2>2, FS_Subset
  <2> QED BY <1>1, <1>2, <2>3 DEF Rank
<1> QED BY <1>3, <1>4, <1>5

\* Every rank is taken once, so that the k largest are k, and one more adds the
\* next in the order.
LEMMA LargestRanked ==
  ASSUME NEW projects \in Portfolios, NEW k \in 0 .. Len(projects)
  PROVE  /\ Largest(projects, k) = {j \in DOMAIN projects : Rank(projects, j) < k}
         /\ IsFiniteSet(Largest(projects, k))
         /\ Cardinality(Largest(projects, k)) = k
         /\ \A r \in 0 .. Len(projects) - 1 : \E x \in DOMAIN projects : Rank(projects, x) = r
<1> DEFINE D == DOMAIN projects
           n == Len(projects)
           rank == [j \in D |-> Rank(projects, j)]
           top == [j \in Largest(projects, k) |-> Rank(projects, j)]
<1>1. n \in Nat /\ IsFiniteSet(D) /\ Cardinality(D) = n
  BY PortfolioTyped
<1>2. Largest(projects, k) = {j \in D : Rank(projects, j) < k}
  BY DEF Largest, Rank, Ahead, Precedes
<1>3. \A i, j \in D : Rank(projects, i) = Rank(projects, j) => i = j
  <2> SUFFICES ASSUME NEW i \in D, NEW j \in D, Rank(projects, i) = Rank(projects, j), i # j
               PROVE  FALSE
    OBVIOUS
  <2>1. Rank(projects, i) < Rank(projects, j) \/ Rank(projects, j) < Rank(projects, i)
    BY RanksOrder
  <2>2. Rank(projects, i) \in Int /\ Rank(projects, j) \in Int
    BY <1>1, RanksOrder
  <2> QED BY <2>1, <2>2
<1>4. \A j \in D : Rank(projects, j) \in 0 .. n - 1
  BY RanksOrder
<1>5. rank \in Injection(D, 0 .. n - 1)
  BY <1>3, <1>4 DEF Injection, IsInjective
<1>6. IsFiniteSet(0 .. n - 1) /\ Cardinality(0 .. n - 1) = n
  BY <1>1, CountUp
<1>7. rank \in Surjection(D, 0 .. n - 1)
  <2> HIDE DEF rank
  <2> QED BY <1>1, <1>5, <1>6, FS_Injection
<1>8. \A r \in 0 .. n - 1 : \E x \in D : Rank(projects, x) = r
  BY <1>7 DEF Surjection
<1>9. IsFiniteSet(0 .. k - 1) /\ Cardinality(0 .. k - 1) = k
  BY <1>1, CountUp
<1>10. top \in Bijection(Largest(projects, k), 0 .. k - 1)
  <2>1. \A j \in Largest(projects, k) : j \in D /\ Rank(projects, j) \in 0 .. k - 1
    BY <1>1, <1>2, <1>4
  <2>2. top \in Injection(Largest(projects, k), 0 .. k - 1)
    BY <1>3, <2>1 DEF Injection, IsInjective
  <2>3. ASSUME NEW r \in 0 .. k - 1 PROVE \E x \in Largest(projects, k) : top[x] = r
    <3>1. r \in 0 .. n - 1 /\ r < k
      BY <1>1
    <3>2. PICK x \in D : Rank(projects, x) = r
      BY <1>8, <3>1
    <3>3. x \in Largest(projects, k)
      BY <1>2, <3>1, <3>2
    <3> QED BY <3>2, <3>3
  <2>4. top \in Surjection(Largest(projects, k), 0 .. k - 1)
    <3>1. top \in [Largest(projects, k) -> 0 .. k - 1]
      BY <2>1
    <3> QED BY <2>3, <3>1 DEF Surjection
  <2> QED BY <2>2, <2>4 DEF Bijection
<1>11. IsFiniteSet(Largest(projects, k))
  <2>1. Largest(projects, k) \in SUBSET D
    BY <1>2
  <2> QED BY <1>1, <2>1, FS_Subset
<1>12. Cardinality(Largest(projects, k)) = k
  <2>1. ExistsBijection(Largest(projects, k), 0 .. k - 1)
    BY <1>10 DEF ExistsBijection
  <2> QED BY <1>9, <1>11, <2>1, FS_Bijection
<1> QED BY <1>2, <1>8, <1>11, <1>12

\* No project is passed over for a smaller one.
LEMMA LargestSpendMost ==
  ASSUME NEW projects \in Portfolios, NEW k \in 0 .. Len(projects),
         NEW i \in Largest(projects, k), NEW j \in DOMAIN projects \ Largest(projects, k)
  PROVE  projects[i].spend >= projects[j].spend
<1>1. i \in DOMAIN projects /\ Rank(projects, i) < k /\ ~(Rank(projects, j) < k)
  BY LargestRanked
<1>2. Len(projects) \in Nat /\ projects[i].spend \in Int /\ projects[j].spend \in Int
  BY <1>1, PortfolioTyped
<1>3. Rank(projects, i) \in Int /\ Rank(projects, j) \in Int /\ k \in Int
  BY <1>1, <1>2, RanksOrder
<1>4. ~Precedes(projects, j, i)
  BY <1>1, <1>3, RanksOrder
<1> QED BY <1>2, <1>4 DEF Precedes

\* The largest of one more have one that spends least, and without it are the
\* largest of one less.
LEMMA LargestGrows ==
  ASSUME NEW projects \in Portfolios, NEW k \in 1 .. Len(projects)
  PROVE  \E x \in Largest(projects, k) :
           /\ Largest(projects, k) \ {x} = Largest(projects, k - 1)
           /\ \A i \in Largest(projects, k) : projects[i].spend >= projects[x].spend
<1>1. Len(projects) \in Nat /\ k \in 0 .. Len(projects) /\ k - 1 \in 0 .. Len(projects) - 1
      /\ k - 1 \in 0 .. Len(projects)
  BY PortfolioTyped
<1>2. /\ Largest(projects, k) = {j \in DOMAIN projects : Rank(projects, j) < k}
      /\ Largest(projects, k - 1) = {j \in DOMAIN projects : Rank(projects, j) < k - 1}
  BY <1>1, LargestRanked
<1>3. PICK x \in DOMAIN projects : Rank(projects, x) = k - 1
  BY <1>1, LargestRanked
<1>4. \A j \in DOMAIN projects : Rank(projects, j) \in Int
  BY <1>1, RanksOrder
<1>5. \A j \in DOMAIN projects : Rank(projects, j) = k - 1 => j = x
  <2> SUFFICES ASSUME NEW j \in DOMAIN projects, Rank(projects, j) = k - 1, j # x
               PROVE  FALSE
    OBVIOUS
  <2>1. Rank(projects, j) < Rank(projects, x) \/ Rank(projects, x) < Rank(projects, j)
    BY RanksOrder
  <2> QED BY <1>3, <1>4, <2>1
<1>6. x \in Largest(projects, k) /\ x \notin Largest(projects, k - 1)
  BY <1>1, <1>2, <1>3
<1>7. Largest(projects, k) \ {x} = Largest(projects, k - 1)
  BY <1>1, <1>2, <1>4, <1>5, <1>6
<1>8. \A i \in Largest(projects, k) : projects[i].spend >= projects[x].spend
  <2> SUFFICES ASSUME NEW i \in Largest(projects, k)
               PROVE  projects[i].spend >= projects[x].spend
    OBVIOUS
  <2>1. i \in DOMAIN projects /\ projects[i].spend \in Int /\ projects[x].spend \in Int
    BY <1>2, PortfolioTyped
  <2>2. CASE i = x
    BY <2>1, <2>2
  <2>3. CASE i # x
    <3>1. i \in Largest(projects, k - 1) /\ x \in DOMAIN projects \ Largest(projects, k - 1)
      BY <1>6, <1>7, <2>3
    <3> QED BY <1>1, <3>1, LargestSpendMost
  <2> QED BY <2>2, <2>3
<1> QED BY <1>6, <1>7, <1>8

-----------------------------------------------------------------------------
\* The loop of Described: where it goes on, and the function that it is.
MostDescribed(projects) ==
  IF Len(projects) < MaxDescribed THEN Len(projects) ELSE MaxDescribed
GoesOn(projects, k) ==
  k < MostDescribed(projects) /\ ~ReachesHalf(projects, Largest(projects, k))
IsLoop(projects, loop) ==
  loop = [k \in Nat |-> IF GoesOn(projects, k) THEN loop[k + 1] ELSE k]

\* There is such a function: it takes each number to the next where the loop stops.
LEMMA LoopExists ==
  ASSUME NEW projects \in Portfolios
  PROVE  \E loop : IsLoop(projects, loop)
<1> DEFINE Stops(k) == {m \in Nat : m >= k /\ ~GoesOn(projects, m)}
           Least(T) == CHOOSE m \in T : \A n \in T : m <= n
           loop == [k \in Nat |-> Least(Stops(k))]
<1>1. MostDescribed(projects) \in Nat
  BY PortfolioTyped DEF MostDescribed, MaxDescribed
<1>2. ASSUME NEW k \in Nat, GoesOn(projects, k)
      PROVE  Stops(k) = Stops(k + 1)
  BY <1>2
<1>3. ASSUME NEW k \in Nat, ~GoesOn(projects, k)
      PROVE  Least(Stops(k)) = k
  <2>1. k \in Stops(k) /\ \A m \in Stops(k) : k <= m
    BY <1>3
  <2>2. \A m \in Stops(k) : (\A n \in Stops(k) : m <= n) => m = k
    BY <2>1
  <2> QED BY <2>1, <2>2
<1>4. \A k \in Nat : loop[k] = IF GoesOn(projects, k) THEN loop[k + 1] ELSE k
  <2> SUFFICES ASSUME NEW k \in Nat
               PROVE  loop[k] = IF GoesOn(projects, k) THEN loop[k + 1] ELSE k
    OBVIOUS
  <2>1. loop[k] = Least(Stops(k)) /\ loop[k + 1] = Least(Stops(k + 1))
    OBVIOUS
  <2> HIDE DEF loop
  <2>2. CASE GoesOn(projects, k)
    BY <1>2, <2>1, <2>2
  <2>3. CASE ~GoesOn(projects, k)
    BY <1>3, <2>1, <2>3
  <2> QED BY <2>2, <2>3
<1>5. loop = [k \in Nat |-> loop[k]]
  OBVIOUS
<1> HIDE DEF loop
<1>6. IsLoop(projects, loop)
  BY <1>4, <1>5 DEF IsLoop
<1> QED BY <1>6

\* It ends with the first number from three on where it stops.
LEMMA DescribedStops ==
  ASSUME NEW projects \in Portfolios, Len(projects) > 3
  PROVE  /\ Described(projects) \in 3 .. MostDescribed(projects)
         /\ ~GoesOn(projects, Described(projects))
         /\ Described(projects) > 3 => GoesOn(projects, Described(projects) - 1)
<1> DEFINE loop == CHOOSE f : IsLoop(projects, f)
           most == MostDescribed(projects)
           Right(k) == /\ loop[k] \in Nat /\ loop[k] >= k /\ ~GoesOn(projects, loop[k])
                       /\ loop[k] > k => GoesOn(projects, loop[k] - 1)
           Near == {d \in Nat : \A k \in Nat : most - k <= d => Right(k)}
<1>1. Described(projects) = loop[3]
  BY DEF Described, MinDescribed, IsLoop, GoesOn, MostDescribed
<1>2. IsLoop(projects, loop)
  BY LoopExists
<1>3. \A k \in Nat : loop[k] = IF GoesOn(projects, k) THEN loop[k + 1] ELSE k
  <2> HIDE DEF loop
  <2> QED BY <1>2 DEF IsLoop
<1>4. most \in Nat /\ most > 3 /\ Len(projects) \in Nat
  BY PortfolioTyped DEF MostDescribed, MaxDescribed
<1>5. \A k \in Nat : GoesOn(projects, k) => k < most
  BY DEF GoesOn
<1> HIDE DEF loop, most
<1>6. \A k \in Nat : ~GoesOn(projects, k) => Right(k)
  BY <1>3
<1>7. 0 \in Near
  BY <1>4, <1>5, <1>6
<1>8. ASSUME NEW d \in Near PROVE d + 1 \in Near
  <2> SUFFICES ASSUME NEW k \in Nat, most - k <= d + 1 PROVE Right(k)
    OBVIOUS
  <2>1. CASE ~GoesOn(projects, k)
    BY <1>6, <2>1
  <2>2. CASE GoesOn(projects, k)
    <3>1. Right(k + 1)
      BY <1>4
    <3>2. loop[k] = loop[k + 1]
      BY <1>3, <2>2
    <3>3. loop[k] = k + 1 \/ loop[k] > k + 1
      BY <3>1, <3>2
    <3>4. CASE loop[k] = k + 1
      BY <2>2, <3>1, <3>2, <3>4
    <3>5. CASE loop[k] > k + 1
      BY <3>1, <3>2, <3>5
    <3> QED BY <3>3, <3>4, <3>5
  <2> QED BY <2>1, <2>2
<1>9. Near = Nat
  <2>1. Near \in SUBSET Nat
    OBVIOUS
  <2> HIDE DEF Near
  <2> QED BY <1>7, <1>8, <2>1, NatInductionOnSets
<1>10. Right(3)
  <2>1. most \in Near
    BY <1>4, <1>9
  <2> QED BY <1>4, <2>1
<1>11. loop[3] <= most
  <2>1. CASE loop[3] > 3
    <3>1. loop[3] - 1 \in Nat
      BY <1>10, <2>1
    <3>2. loop[3] - 1 < most
      BY <1>5, <1>10, <2>1, <3>1
    <3> QED BY <1>4, <1>10, <3>2
  <2>2. CASE ~(loop[3] > 3)
    BY <1>4, <1>10, <2>2
  <2> QED BY <2>1, <2>2
<1> QED BY <1>1, <1>4, <1>10, <1>11 DEF most

-----------------------------------------------------------------------------
\* The selection: how many projects it has, what it reaches, and that each of
\* more than three is needed.
LEMMA Selected ==
  ASSUME NEW projects \in Portfolios
  PROVE  LET chosen == Selection(projects)
         IN  /\ chosen \in SUBSET DOMAIN projects
             /\ IsFiniteSet(chosen) /\ Cardinality(chosen) \in 0 .. 10
             /\ \A i \in chosen, j \in DOMAIN projects \ chosen :
                  projects[i].spend >= projects[j].spend
             /\ Len(projects) <= 3 => chosen = DOMAIN projects
             /\ Len(projects) > 3 => Cardinality(chosen) >= 3
             /\ Cardinality(chosen) > 3 =>
                  \A i \in chosen : 2 * Spend(projects, chosen \ {i}) < Total(projects)
             /\ TopTenFallback(projects) =>
                  ReachesHalf(projects, chosen) \/ Cardinality(chosen) = 10
<1> DEFINE chosen == Selection(projects)
           D == DOMAIN projects
           m == Described(projects)
<1>1. Len(projects) \in Nat /\ IsFiniteSet(D) /\ Cardinality(D) = Len(projects)
  BY PortfolioTyped
<1>2. CASE Len(projects) <= 3
  <2>1. chosen = D
    BY <1>2 DEF Selection, MaxDescribeAll
  <2>2. ~TopTenFallback(projects)
    BY <1>1, <1>2 DEF TopTenFallback, MaxDescribed
  <2> HIDE DEF chosen
  <2>3. /\ chosen \in SUBSET D /\ IsFiniteSet(chosen) /\ D \ chosen = {}
        /\ Cardinality(chosen) \in 0 .. 10 /\ ~(Cardinality(chosen) > 3)
    BY <1>1, <1>2, <2>1
  <2> QED BY <1>1, <1>2, <2>1, <2>2, <2>3 DEF chosen
<1>3. CASE Len(projects) > 3
  <2>1. chosen = Largest(projects, m)
    BY <1>1, <1>3 DEF Selection, MaxDescribeAll
  <2>2. /\ m \in 3 .. MostDescribed(projects) /\ ~GoesOn(projects, m)
        /\ m > 3 => GoesOn(projects, m - 1)
    BY <1>3, DescribedStops
  <2>3. /\ MostDescribed(projects) \in Nat /\ MostDescribed(projects) <= 10
        /\ MostDescribed(projects) <= Len(projects)
        /\ Len(projects) > 10 => MostDescribed(projects) = 10
    BY <1>1 DEF MostDescribed, MaxDescribed
  <2> HIDE DEF chosen, m
  <2>4. m \in 0 .. Len(projects) /\ m \in 1 .. Len(projects) /\ m \in 3 .. 10
    BY <1>1, <2>2, <2>3
  <2>5. /\ chosen \in SUBSET D /\ IsFiniteSet(chosen) /\ Cardinality(chosen) = m
    BY <2>1, <2>4, LargestRanked
  <2>6. \A i \in chosen, j \in D \ chosen : projects[i].spend >= projects[j].spend
    BY <2>1, <2>4, LargestSpendMost
  <2>7. ASSUME m > 3, NEW i \in chosen
        PROVE  2 * Spend(projects, chosen \ {i}) < Total(projects)
    <3>1. PICK x \in chosen : /\ chosen \ {x} = Largest(projects, m - 1)
                              /\ projects[i].spend >= projects[x].spend
      BY <2>1, <2>4, LargestGrows
    <3>2. ~ReachesHalf(projects, chosen \ {x})
      BY <2>2, <2>7, <3>1 DEF GoesOn
    <3>3. /\ Spend(projects, chosen) = projects[i].spend + Spend(projects, chosen \ {i})
          /\ Spend(projects, chosen) = projects[x].spend + Spend(projects, chosen \ {x})
      BY <2>5, SpendAdds
    <3>4. /\ Spend(projects, chosen \ {i}) \in Int /\ Spend(projects, chosen \ {x}) \in Int
          /\ Total(projects) \in Int /\ projects[i].spend \in Int /\ projects[x].spend \in Int
      <4>1. /\ chosen \ {i} \in SUBSET D /\ chosen \ {x} \in SUBSET D /\ D \in SUBSET D
            /\ i \in D /\ x \in D
        BY <2>5
      <4> QED BY <4>1, SpendAdds, PortfolioTyped DEF Total
    <3>5. 100 * Spend(projects, chosen \ {x}) < 50 * Total(projects)
      BY <3>2, <3>4 DEF ReachesHalf, Percentage
    <3>6. Spend(projects, chosen \ {i}) <= Spend(projects, chosen \ {x})
      BY <3>1, <3>3, <3>4
    <3> QED BY <3>4, <3>5, <3>6
  <2>8. TopTenFallback(projects) => ReachesHalf(projects, chosen) \/ m = 10
    BY <1>1, <2>1, <2>2, <2>3, <2>4 DEF TopTenFallback, MaxDescribed, GoesOn
  <2> QED BY <1>1, <1>3, <2>4, <2>5, <2>6, <2>7, <2>8 DEF chosen
<1> QED BY <1>1, <1>2, <1>3

\* The spend of the selection of a period that is ready is not zero: were the ten
\* largest no more than nothing, so were the others, and the whole.
LEMMA SelectionSpends ==
  ASSUME NEW projects \in Portfolios, AIFReady(projects)
  PROVE  Spend(projects, Selection(projects)) > 0
<1> DEFINE chosen == Selection(projects)
           D == DOMAIN projects
           rest == D \ chosen
<1>1. /\ chosen \in SUBSET D /\ IsFiniteSet(chosen)
      /\ \A i \in chosen, j \in rest : projects[i].spend >= projects[j].spend
      /\ Len(projects) <= 3 => chosen = D
      /\ Len(projects) > 3 => Cardinality(chosen) >= 3
  BY Selected
<1>2. /\ Spend(projects, D) > 0 /\ D # {}
      /\ \/ Len(projects) <= 3
         \/ Len(projects) > 10
         \/ ReachesHalf(projects, chosen)
  BY PortfolioTyped DEF AIFReady, MaxDescribeAll, MaxDescribed, TopTenFallback, Total, Portfolios
<1>3. \A i \in D : projects[i].spend \in Int
  BY PortfolioTyped
<1>4. /\ Spend(projects, D) \in Int /\ Spend(projects, chosen) \in Int
      /\ Spend(projects, rest) \in Int
      /\ Spend(projects, D) = Spend(projects, chosen) + Spend(projects, rest)
  <2> HIDE DEF chosen
  <2>1. D \in SUBSET D /\ chosen \in SUBSET D /\ rest \in SUBSET D
    BY <1>1
  <2> QED BY <2>1, SpendAdds
<1>5. Len(projects) \in Nat /\ (Cardinality(chosen) >= 3 => chosen # {})
  <2> HIDE DEF chosen
  <2>1. chosen = {} => Cardinality(chosen) = 0
    BY FS_EmptySet
  <2>2. Len(projects) \in Nat
    BY PortfolioTyped
  <2> QED BY <2>1, <2>2
<1>6. CASE Len(projects) <= 3
  BY <1>1, <1>2, <1>6
<1>7. CASE ReachesHalf(projects, chosen)
  BY <1>2, <1>4, <1>7 DEF ReachesHalf, Percentage, Total
<1>8. CASE Len(projects) > 10
  <2> SUFFICES ASSUME ~(Spend(projects, chosen) > 0) PROVE FALSE
    OBVIOUS
  <2> HIDE DEF chosen
  <2>1. Spend(projects, rest) > 0
    BY <1>2, <1>4
  <2>2. PICK j \in rest : ~(projects[j].spend <= 0)
    <3>1. rest \in SUBSET D
      OBVIOUS
    <3> QED BY <1>4, <2>1, <3>1, SpendAdds
  <2>3. projects[j].spend > 0
    BY <1>3, <2>2
  <2>4. \A i \in chosen : projects[i].spend > 0
    BY <1>1, <1>3, <2>3
  <2>5. PICK y \in chosen : TRUE
    BY <1>1, <1>5, <1>8
  <2>6. Spend(projects, chosen) = projects[y].spend + Spend(projects, chosen \ {y})
    BY <1>1, SpendAdds
  <2>7. Spend(projects, chosen \ {y}) >= 0 /\ Spend(projects, chosen \ {y}) \in Int
    <3>1. chosen \ {y} \in SUBSET D /\ \A i \in chosen \ {y} : projects[i].spend >= 0
      BY <1>1, <1>3, <2>4
    <3> QED BY <3>1, SpendAdds
  <2> QED BY <1>1, <1>3, <1>4, <2>4, <2>6, <2>7
<1> QED BY <1>2, <1>6, <1>7, <1>8

\* What counts in a period that is ready has the selection in it, and spends no less.
LEMMA ReadyCounts ==
  ASSUME NEW projects \in Portfolios, AIFReady(projects)
  PROVE  LET chosen == Selection(projects)
             described == {i \in DOMAIN projects : projects[i].described}
             counted == IF \A i \in DOMAIN projects : projects[i].spend >= 0
                        THEN described ELSE described \cap chosen
         IN  /\ Spend(projects, counted) > 0
             /\ \/ Cardinality(counted) = Len(projects)
                \/ /\ Cardinality(counted) >= 3
                   /\ 2 * Spend(projects, counted) >= Total(projects)
                \/ /\ Cardinality(counted) >= 10
                   /\ \A i \in chosen, j \in DOMAIN projects \ counted :
                        projects[i].spend >= projects[j].spend
<1> DEFINE chosen == Selection(projects)
           D == DOMAIN projects
           described == {i \in D : projects[i].described}
           counted == IF \A i \in D : projects[i].spend >= 0
                      THEN described ELSE described \cap chosen
<1>1. /\ chosen \in SUBSET D /\ IsFiniteSet(chosen) /\ Cardinality(chosen) \in 0 .. 10
      /\ \A i \in chosen, j \in D \ chosen : projects[i].spend >= projects[j].spend
      /\ Len(projects) <= 3 => chosen = D
      /\ Len(projects) > 3 => Cardinality(chosen) >= 3
      /\ TopTenFallback(projects) => ReachesHalf(projects, chosen) \/ Cardinality(chosen) = 10
  BY Selected
<1>2. Spend(projects, chosen) > 0
  BY SelectionSpends
<1>3. /\ chosen \in SUBSET described
      /\ \/ Len(projects) <= 3
         \/ TopTenFallback(projects)
         \/ ReachesHalf(projects, chosen)
  <2>1. \A i \in chosen : projects[i].described
    BY DEF AIFReady
  <2>2. chosen \in SUBSET described
    <3> HIDE DEF chosen
    <3> QED BY <1>1, <2>1
  <2> QED BY <2>2 DEF AIFReady, MaxDescribeAll
<1>4. /\ Len(projects) \in Nat /\ IsFiniteSet(D) /\ Cardinality(D) = Len(projects)
      /\ \A i \in D : projects[i].spend \in Int
  BY PortfolioTyped
<1> HIDE DEF chosen
<1>5. /\ counted \in SUBSET D /\ chosen \in SUBSET counted
      /\ counted # chosen => \A i \in counted : projects[i].spend >= 0
  BY <1>1, <1>3
<1> HIDE DEF counted
<1>6. /\ Spend(projects, counted) \in Int /\ Spend(projects, chosen) \in Int
      /\ Total(projects) \in Int
  <2>1. D \in SUBSET D
    OBVIOUS
  <2> QED BY <1>1, <1>5, <2>1, SpendAdds DEF Total
<1>7. Spend(projects, counted) >= Spend(projects, chosen)
  <2>1. CASE counted = chosen
    BY <1>6, <2>1
  <2>2. CASE counted # chosen
    <3>1. /\ counted \ chosen \in SUBSET D
          /\ \A i \in counted \ chosen : projects[i].spend >= 0
      BY <1>5, <2>2
    <3>2. Spend(projects, counted \ chosen) >= 0 /\ Spend(projects, counted \ chosen) \in Int
      BY <3>1, SpendAdds
    <3>3. Spend(projects, counted) = Spend(projects, chosen) + Spend(projects, counted \ chosen)
      BY <1>5, SpendAdds
    <3> QED BY <1>6, <3>2, <3>3
  <2> QED BY <2>1, <2>2
<1>8. Spend(projects, counted) > 0
  BY <1>2, <1>6, <1>7
<1>9. /\ Cardinality(counted) \in Nat /\ Cardinality(counted) >= Cardinality(chosen)
  <2>1. IsFiniteSet(counted)
    BY <1>4, <1>5, FS_Subset
  <2> QED BY <1>5, <2>1, FS_CardinalityType, FS_Subset
<1>10. CASE Len(projects) <= 3
  <2>1. counted = D
    BY <1>1, <1>5, <1>10
  <2> QED BY <1>4, <1>8, <2>1 DEF counted, chosen
<1>11. CASE Len(projects) > 3 /\ ReachesHalf(projects, chosen)
  <2>1. 100 * Spend(projects, chosen) >= 50 * Total(projects)
    BY <1>11 DEF ReachesHalf, Percentage
  <2>2. 2 * Spend(projects, counted) >= Total(projects)
    BY <1>6, <1>7, <2>1
  <2>3. Cardinality(counted) >= 3
    BY <1>1, <1>9, <1>11
  <2> QED BY <1>8, <2>2, <2>3 DEF counted, chosen
<1>12. CASE Cardinality(chosen) = 10
  <2>1. Cardinality(counted) >= 10
    BY <1>9, <1>12
  <2>2. \A i \in chosen, j \in D \ counted : projects[i].spend >= projects[j].spend
    BY <1>1, <1>5
  <2> QED BY <1>8, <2>1, <2>2 DEF counted, chosen
<1> QED BY <1>1, <1>3, <1>4, <1>10, <1>11, <1>12

-----------------------------------------------------------------------------
\* A period starts without records.
LEMMA InitKeeps == Init => IInv
<1> SUFFICES ASSUME Init PROVE IInv
  OBVIOUS
<1>1. DOMAIN Costs = {}
  BY DEF Init, Costs
<1>2. facts \in Facts
  BY ClaimAssumption DEF Init
<1>3. <<>> \in Seq([spend : Int, described : BOOLEAN])
  OBVIOUS
<1>4. \A l \in DOMAIN Costs : Costs[l].qualifying \in -MaxFloat .. MaxFloat
  BY <1>1
<1>5. TypeOK
  BY <1>2, <1>3, <1>4 DEF Init, TypeOK
<1>6. LinesSound
  BY DEF Init, LinesSound
<1> QED BY <1>5, <1>6 DEF IInv

LEMMA AddLineKeeps ==
  ASSUME IInv, NEW l \in Lines, NEW post \in Posts, AddLine(l, post)
  PROVE  IInv'
<1> DEFINE gross == ResolvedGross(post, Gone)
           from == IF post.kind = "people_time" /\ post.gross = 0 THEN "calculated" ELSE "typed"
<1>1. /\ post.kind \in Kinds /\ post.hours \in Int /\ post.percentage \in Money
      /\ post.sound \in BOOLEAN
  BY PostTyped
<1>2. gross \in Money
  BY GrossTyped DEF AddLine, Money
<1>3. /\ from \in {"typed", "calculated", "file", "outdated"}
      /\ from = "calculated" => post.kind = "people_time" /\ gross = Calculated(post)
  BY DEF ResolvedGross
<1>4. /\ lines' = [lines EXCEPT ![l] = LineOf(post, gross)]
      /\ origin' = [origin EXCEPT ![l] = from] /\ UNCHANGED others /\ form' = form
  BY DEF AddLine
<1> HIDE DEF gross, from
<1> QED BY <1>1, <1>2, <1>3, <1>4, WriteLine

LEMMA ImportLineKeeps ==
  ASSUME IInv, NEW l \in Lines, NEW values \in FileLines, ImportLine(l, values)
  PROVE  IInv'
<1>1. values \in Values
  BY ClaimAssumption
<1>2. /\ values.kind \in Kinds /\ values.hours \in Int /\ values.percentage \in Money
      /\ values.sound \in BOOLEAN /\ values.gross \in Money
  BY <1>1 DEF Values
<1>3. /\ lines' = [lines EXCEPT ![l] = LineOf(values, values.gross)]
      /\ origin' = [origin EXCEPT ![l] = "file"] /\ UNCHANGED others /\ form' = form
  BY DEF ImportLine
<1> QED BY <1>2, <1>3, WriteLine

\* The pages of the cost lines.
LEMMA CostPagesKeep ==
  ASSUME IInv, CostPages
  PROVE  IInv'
<1>1. ASSUME NEW l \in Lines, NEW post \in Posts, AddLine(l, post)
      PROVE  IInv'
  BY <1>1, AddLineKeeps
<1>2. ASSUME NEW l \in Lines, NEW post \in Posts, EditLine(l, post)
      PROVE  IInv'
  <2>1. lines[l] \in Line
    BY <1>2 DEF EditLine, UpdateLine, IInv, TypeOK
  <2> QED BY <1>2, <2>1, FormKeeps DEF EditLine
<1>3. ASSUME NEW l \in Lines, OpenForm(l)
      PROVE  IInv'
  BY <1>3 DEF OpenForm, IInv, TypeOK, LinesSound, Costs, others
<1>4. ASSUME NEW l \in Lines, DeleteLine(l)
      PROVE  IInv'
  <2>1. TypeOK'
    BY <1>4 DEF DeleteLine, IInv, TypeOK, Costs, others
  <2>2. LinesSound'
    BY <1>4 DEF DeleteLine, IInv, TypeOK, LinesSound, Calculated
  <2> QED BY <2>1, <2>2 DEF IInv
<1>5. ASSUME NEW l \in Lines, NEW values \in FileLines, ImportLine(l, values)
      PROVE  IInv'
  BY <1>5, ImportLineKeeps
<1>6. ASSUME NEW post \in Posts, PostForm(post)
      PROVE  IInv'
  <2>1. form.line \in Lines /\ form.shown \in Line
    BY <1>6 DEF PostForm, IInv, TypeOK
  <2> QED BY <1>6, <2>1, FormKeeps DEF PostForm
<1> QED BY <1>1, <1>2, <1>3, <1>4, <1>5, <1>6 DEF CostPages

\* What a project page assigns is a fact, and leaves the lines alone.
LEMMA AssessKeeps ==
  ASSUME IInv, NEW change \in Facts, Assess(change)
  PROVE  IInv'
<1>1. TypeOK'
  BY DEF Assess, IInv, TypeOK, Costs
<1>2. LinesSound'
  BY DEF Assess, IInv, LinesSound, Calculated
<1> QED BY <1>1, <1>2 DEF IInv

LEMMA ProjectPagesKeep ==
  ASSUME IInv, ProjectPages
  PROVE  IInv'
<1>1. facts \in Facts
  BY DEF IInv, TypeOK
<1>2. PICK change \in Facts : Assess(change)
  <2>1. CASE AssessProject
    BY <1>1, <2>1 DEF AssessProject, Facts, Texts
  <2>2. CASE ChangeActivities
    BY <1>1, <2>2 DEF ChangeActivities, Facts
  <2>3. CASE ChangeOpinions
    BY <1>1, <2>3 DEF ChangeOpinions, Facts
  <2>4. CASE ChangeEvidence
    BY <1>1, <2>4 DEF ChangeEvidence, Facts
  <2> QED BY <2>1, <2>2, <2>3, <2>4 DEF ProjectPages
<1> QED BY <1>2, AssessKeeps

\* The pages of the period, which leave the project and its lines alone.
LEMMA PeriodPagesKeep ==
  ASSUME IInv, PeriodPages
  PROVE  IInv'
<1> DEFINE Project == [spend : Int, described : BOOLEAN]
<1>1. portfolio \in Seq(Project)
  BY DEF IInv, TypeOK
<1>d. ASSUME NEW i \in DOMAIN portfolio
      PROVE  i \in 1 .. Len(portfolio) /\ portfolio[i] \in Project
  <2> HIDE DEF Project
  <2> QED BY <1>1, <1>d
<1>2. LinesSound /\ UNCHANGED <<lines, form, facts, origin>> => LinesSound'
  BY DEF LinesSound, Calculated
<1>3. ASSUME UNCHANGED <<lines, form, facts, origin>>, company' \in BOOLEAN,
             submission' \in Filings \cup {Gone}, portfolio' \in Seq(Project)
      PROVE  IInv'
  BY <1>2, <1>3 DEF IInv, TypeOK, Costs
<1>4. CASE UpdateCompany
  BY <1>3, <1>4 DEF UpdateCompany, IInv, TypeOK
<1>5. ASSUME NEW posted \in Submissions, UpdateSubmission(posted)
      PROVE  IInv'
  <2>1. posted \in Filings
    BY ClaimAssumption
  <2> QED BY <1>3, <1>5, <2>1 DEF UpdateSubmission, IInv, TypeOK
<1>6. CASE LoseSubmission
  BY <1>3, <1>6 DEF LoseSubmission, IInv, TypeOK
<1>7. ASSUME NEW change \in Seq(Project), Arrange(change)
      PROVE  IInv'
  BY <1>3, <1>7 DEF Arrange, IInv, TypeOK
<1>8. ASSUME NEW spend \in Spends, AddProject(spend)
      PROVE  IInv'
  <2>1. [spend |-> spend, described |-> FALSE] \in Project
    BY ClaimAssumption
  <2>2. Append(portfolio, [spend |-> spend, described |-> FALSE]) \in Seq(Project)
    BY <1>1, <2>1
  <2> QED BY <1>7, <1>8, <2>2 DEF AddProject
<1>9. ASSUME NEW i \in DOMAIN portfolio, RemoveProject(i)
      PROVE  IInv'
  <2> HIDE DEF Project
  <2>1. i \in 1 .. Len(portfolio)
    BY <1>1
  <2>2. SubSeq(portfolio, 1, i - 1) \in Seq(Project)
    BY <1>1, <2>1
  <2>3. SubSeq(portfolio, i + 1, Len(portfolio)) \in Seq(Project)
    BY <1>1, <2>1
  <2>4. RemoveAt(portfolio, i) \in Seq(Project)
    BY <2>2, <2>3 DEF RemoveAt
  <2> QED BY <1>7, <1>9, <2>4 DEF RemoveProject
<1>10. ASSUME NEW i \in DOMAIN portfolio, DescribeProject(i)
       PROVE  IInv'
  <2> DEFINE new == [portfolio[i] EXCEPT !.described = ~@]
  <2>1. portfolio[i] \in Project
    BY <1>d
  <2>2. new \in Project
    BY <2>1
  <2> HIDE DEF new, Project
  <2>3. [portfolio EXCEPT ![i] = new] \in Seq(Project)
    BY <1>1, <2>2
  <2> QED BY <1>7, <1>10, <2>3 DEF DescribeProject, new
<1>11. ASSUME NEW i \in DOMAIN portfolio, NEW spend \in Spends, RecostProject(i, spend)
       PROVE  IInv'
  <2>1. spend \in Int
    BY ClaimAssumption
  <2> DEFINE new == [portfolio[i] EXCEPT !.spend = spend]
  <2>2. portfolio[i] \in Project
    BY <1>d
  <2>3. new \in Project
    BY <2>1, <2>2
  <2> HIDE DEF new, Project
  <2>4. [portfolio EXCEPT ![i] = new] \in Seq(Project)
    BY <1>1, <2>3
  <2> QED BY <1>7, <1>11, <2>4 DEF RecostProject, new
<1> QED BY <1>4, <1>5, <1>6, <1>8, <1>9, <1>10, <1>11 DEF PeriodPages

\* The inductive invariant of the period.
THEOREM ClaimsInvariant == Spec => []IInv
<1>1. IInv /\ [Next]_vars => IInv'
  <2> SUFFICES ASSUME IInv, [Next]_vars PROVE IInv'
    OBVIOUS
  <2>1. CASE Next
    BY <2>1, CostPagesKeep, ProjectPagesKeep, PeriodPagesKeep DEF Next
  <2>2. CASE UNCHANGED vars
    BY <2>2 DEF vars, IInv, TypeOK, LinesSound, Costs, Calculated
  <2> QED BY <2>1, <2>2
<1> QED BY <1>1, InitKeeps, PTL DEF Spec

\* Every variable has its type, and no stored amount is infinite or "nan"
\* whatever a file or a form brings (calculate_qualifying_amount).
THEOREM ClaimsTyped == Spec => []TypeOK
BY ClaimsInvariant, PTL DEF IInv

\* A figure that only the program made follows the hours, through any edits
\* (resolve_people_time_gross).
THEOREM GrossFollowsHours == Spec => []GrossExplained
<1>1. IInv => GrossExplained
  BY DEF IInv, LinesSound, GrossExplained, Costs
<1> QED BY <1>1, ClaimsInvariant, PTL

\* A green rating is earned (score_project_context, cost_validation_warnings): for
\* all figures and any order of pages.
THEOREM GreenEarned == Spec => []GreenIsEarned
<1>1. IInv => GreenIsEarned
  <2> SUFFICES ASSUME IInv, Rating(facts, Costs, submission) = "green"
               PROVE  /\ Score(facts, Costs, submission) = 100
                      /\ facts.period /\ ~TimingWarned(submission)
                      /\ "signed" \in facts.opinions /\ "strong" \in facts.evidence
                      /\ \A l \in DOMAIN Costs :
                           /\ Costs[l].sound
                           /\ Costs[l].gross # NotANumber
                           /\ ~Overflows(Costs[l]) =>
                                /\ Contribution(Costs[l])
                                     = (Costs[l].gross * Costs[l].percentage) \div 100
                                /\ Contribution(Costs[l]) \in 0 .. Costs[l].gross
    BY DEF GreenIsEarned
  <2>1. facts \in Facts /\ submission \in Filings \cup {Gone}
    BY DEF IInv, TypeOK
  <2>2. /\ Blockers(facts, Costs, submission) = {} /\ ~Warned(facts, Costs)
        /\ Score(facts, Costs, submission) = 100
    BY <2>1, GreenUnwarned
  <2>3. /\ facts.period /\ "signed" \in facts.opinions /\ facts.evidence # {}
        /\ ~TimingRisk(submission)
    BY <2>2, Unblocked
  <2>4. "strong" \in facts.evidence
    BY <2>2, <2>3 DEF Warned
  <2>5. ~TimingWarned(submission)
    BY <2>1, <2>3, TimingAgrees
  <2>6. ASSUME NEW l \in DOMAIN Costs
        PROVE  /\ Costs[l].sound
               /\ Costs[l].gross # NotANumber
               /\ ~Overflows(Costs[l]) =>
                    /\ Contribution(Costs[l])
                         = (Costs[l].gross * Costs[l].percentage) \div 100
                    /\ Contribution(Costs[l]) \in 0 .. Costs[l].gross
    <3>1. l \in Lines /\ lines[l] # Gone /\ Costs[l] = lines[l]
      BY <2>6 DEF Costs
    <3>2. Costs[l] \in Line
          /\ Costs[l].qualifying = QualifyingAmount(Costs[l].gross, Costs[l].percentage)
      BY <3>1 DEF IInv, TypeOK, LinesSound
    <3>3. ~CostWarned(Costs[l])
      BY <2>2 DEF Warned
    <3> QED BY <3>2, <3>3, UnwarnedWithin
  <2> QED BY <2>2, <2>3, <2>4, <2>5, <2>6
<1> QED BY <1>1, ClaimsInvariant, PTL

-----------------------------------------------------------------------------
\* A project has finitely many cost lines: each page brings one at the most.
LinesFinite == IsFiniteSet(DOMAIN Costs)

LEMMA LinesStayFinite == Spec => []LinesFinite
<1>1. Init => LinesFinite
  <2> SUFFICES ASSUME Init PROVE LinesFinite
    OBVIOUS
  <2>1. DOMAIN Costs = {}
    BY DEF Init, Costs
  <2> QED BY <2>1, FS_EmptySet DEF LinesFinite
<1>2. IInv /\ LinesFinite /\ [Next]_vars => LinesFinite'
  <2> SUFFICES ASSUME IInv, LinesFinite, [Next]_vars PROVE LinesFinite'
    OBVIOUS
  <2>1. lines \in [Lines -> Line \cup {Gone}]
    BY DEF IInv, TypeOK
  <2>2. \/ lines' = lines
        \/ \E l \in Lines : \E v : lines' = [lines EXCEPT ![l] = v]
    <3>1. CASE CostPages
      <4>1. ASSUME NEW l \in Lines, NEW post \in Posts, AddLine(l, post) \/ EditLine(l, post)
            PROVE  \E v : lines' = [lines EXCEPT ![l] = v]
        BY <4>1 DEF AddLine, EditLine, UpdateLine
      <4>2. ASSUME NEW l \in Lines, OpenForm(l) PROVE lines' = lines
        BY <4>2 DEF OpenForm
      <4>3. ASSUME NEW l \in Lines, DeleteLine(l)
            PROVE  \E v : lines' = [lines EXCEPT ![l] = v]
        BY <4>3 DEF DeleteLine
      <4>4. ASSUME NEW l \in Lines, NEW values \in FileLines, ImportLine(l, values)
            PROVE  \E v : lines' = [lines EXCEPT ![l] = v]
        BY <4>4 DEF ImportLine
      <4>5. ASSUME NEW post \in Posts, PostForm(post)
            PROVE  \E l \in Lines : \E v : lines' = [lines EXCEPT ![l] = v]
        BY <4>5 DEF PostForm, UpdateLine, IInv, TypeOK
      <4> QED BY <3>1, <4>1, <4>2, <4>3, <4>4, <4>5 DEF CostPages
    <3>2. CASE ProjectPages
      BY <3>2 DEF ProjectPages, AssessProject, ChangeActivities, ChangeOpinions,
                  ChangeEvidence, Assess
    <3>3. CASE PeriodPages
      BY <3>3 DEF PeriodPages, UpdateCompany, UpdateSubmission, LoseSubmission, AddProject,
                  RemoveProject, DescribeProject, RecostProject, Arrange
    <3>4. CASE UNCHANGED vars
      BY <3>4 DEF vars
    <3> QED BY <3>1, <3>2, <3>3, <3>4 DEF Next
  <2>3. CASE lines' = lines
    BY <2>3 DEF LinesFinite, Costs
  <2>4. ASSUME NEW l \in Lines, NEW v, lines' = [lines EXCEPT ![l] = v]
        PROVE  LinesFinite'
    <3>1. (DOMAIN Costs)' \in SUBSET (DOMAIN Costs \cup {l})
      BY <2>1, <2>4 DEF Costs
    <3>2. IsFiniteSet(DOMAIN Costs \cup {l})
      BY FS_AddElement DEF LinesFinite
    <3> QED BY <3>1, <3>2, FS_Subset DEF LinesFinite
  <2> QED BY <2>2, <2>3, <2>4
<1> QED BY <1>1, <1>2, ClaimsInvariant, PTL DEF Spec

\* The projects of a period have spends, the scored one's among them.
LEMMA ProjectsTyped ==
  ASSUME IInv, LinesFinite
  PROVE  Projects \in Portfolios
<1> DEFINE Project == [spend : Int, described : BOOLEAN]
           part == [l \in DOMAIN Costs |-> Contribution(Costs[l])]
<1>1. \A l \in DOMAIN Costs : part[l] \in Int
  <2> SUFFICES ASSUME NEW l \in DOMAIN Costs PROVE Contribution(Costs[l]) \in Int
    OBVIOUS
  <2>1. /\ Costs[l].qualifying \in Int
        /\ Costs[l].qualifying = QualifyingAmount(Costs[l].gross, Costs[l].percentage)
    BY ClaimAssumption DEF Costs, IInv, TypeOK, LinesSound, Line
  <2> QED BY <2>1 DEF Contribution
<1>2. ProjectSpend(Costs) = SumFunctionOnSet(part, DOMAIN Costs)
  BY DEF ProjectSpend, SumFunction, SumFunctionOnSet, FoldFunction
<1> HIDE DEF part
<1>3. ProjectSpend(Costs) \in Int
  BY <1>1, <1>2, SumTyped DEF LinesFinite
<1>4. facts.described \in BOOLEAN
  BY DEF IInv, TypeOK, Facts
<1>5. [spend |-> ProjectSpend(Costs), described |-> facts.described] \in Project
  BY <1>3, <1>4
<1>6. portfolio \in Seq(Project)
  BY DEF IInv, TypeOK
<1> HIDE DEF Project
<1>7. Projects \in Seq(Project)
  BY <1>5, <1>6 DEF Projects
<1> QED BY <1>7 DEF Portfolios, Project

\* The projects to describe are enough and no more, and a period that is ready has
\* described them (aif_project_selection, build_aif_readiness): for any number of
\* projects and any spends, refunds included.
THEOREM ReadyEarned == Spec => []ReadyIsEarned
<1>1. IInv /\ LinesFinite => ReadyIsEarned
  <2> SUFFICES ASSUME IInv, LinesFinite PROVE ReadyIsEarned
    OBVIOUS
  <2>1. Projects \in Portfolios
    BY ProjectsTyped
  <2>2. PeriodReady(Projects, company, submission) => AIFReady(Projects)
    BY DEF PeriodReady
  <2> DEFINE chosen == Selection(Projects)
             described == {i \in DOMAIN Projects : Projects[i].described}
             counted == IF \A i \in DOMAIN Projects : Projects[i].spend >= 0
                        THEN described ELSE described \cap chosen
  <2>3. /\ \A i \in chosen, j \in DOMAIN Projects \ chosen :
             Projects[i].spend >= Projects[j].spend
        /\ Cardinality(chosen) > 3 =>
             \A i \in chosen : 2 * Spend(Projects, chosen \ {i}) < Total(Projects)
        /\ Cardinality(chosen) \in 0 .. 10
    BY <2>1, Selected
  <2>4. AIFReady(Projects) =>
          /\ Spend(Projects, counted) > 0
          /\ \/ Cardinality(counted) = Len(Projects)
             \/ /\ Cardinality(counted) >= 3
                /\ 2 * Spend(Projects, counted) >= Total(Projects)
             \/ /\ Cardinality(counted) >= 10
                /\ \A i \in chosen, j \in DOMAIN Projects \ counted :
                     Projects[i].spend >= Projects[j].spend
    BY <2>1, ReadyCounts
  <2>5. Cardinality(chosen) <= 10
    BY <2>3
  <2> QED BY <2>2, <2>3, <2>4, <2>5, Zenon DEF ReadyIsEarned
<1> QED BY <1>1, ClaimsInvariant, LinesStayFinite, PTL
=============================================================================
