------------------------ MODULE ReferenceSeedProofs ------------------------
(***************************************************************************)
(* Proofs about starts, for any tree of units, any list of renames,        *)
(* reference customers and demo commits.  A start may end anywhere and the *)
(* next one begins with what is there, so that what the sentinel says has  *)
(* to be known of the start that writes it: it alone has passed the tree   *)
(* and the customers (Passed), since no page is served meanwhile.          *)
(***************************************************************************)
EXTENDS ReferenceSeed, SequenceTheorems, TLAPS

TreeThere == \A i \in DOMAIN Tree : HasUnit(Tree[i].name)
ReferencesThere == \A i \in DOMAIN References : Held(Row(References[i]))

\* What the step a start is at tells of the steps before it.
Passed ==
  /\ Starting => calls # <<>>
  /\ phase \in {"rename", "units", "customers", "mark"} => sentinels = 0
  /\ phase = "demo" => sentinels = 1
  /\ phase = "units" => \A i \in DOMAIN Tree : i < at => HasUnit(Tree[i].name)
  /\ phase \in {"customers", "mark"} => TreeThere
  /\ phase = "mark" => ReferencesThere

\* A start that failed has left a company, and none of the later ones goes as far.
Failing ==
  /\ phase = "demo" /\ at > 1 => "company" \in demo /\ failures = 0
  /\ failures = 1 /\ phase # "serving" => "company" \in demo

IInv == RecordsTyped /\ Passed /\ SentinelOnce /\ Failing /\ FailsOnce

Rows(names) == [name : CustomerNames, unit : names \cup {None}]
UnitsTyped(u) == DOMAIN u \subseteq UnitNames /\ u \in [DOMAIN u -> DOMAIN u \cup {None}]
CustomersTyped(c, names) == IsABag(c) /\ BagToSet(c) \subseteq Rows(names)

-----------------------------------------------------------------------------
(* Bags *)

LEMMA EmptyIsBag == IsABag(EmptyBag) /\ BagToSet(EmptyBag) = {}
BY DEF IsABag, EmptyBag, SetToBag, BagToSet

\* Rows that are added to a bag are in it, and the others stay as they were.
LEMMA Added ==
  ASSUME NEW B, IsABag(B), NEW S
  PROVE  /\ IsABag(B (+) SetToBag(S))
         /\ BagToSet(B (+) SetToBag(S)) = BagToSet(B) \cup S
         /\ B \sqsubseteq (B (+) SetToBag(S))
         /\ BagToSet((B (+) SetToBag(S)) (-) B) \subseteq S
<1> DEFINE C == B (+) SetToBag(S)
<1>1. /\ DOMAIN C = DOMAIN B \cup S
      /\ \A e \in DOMAIN C : C[e] = (IF e \in DOMAIN B THEN B[e] ELSE 0)
                                    + (IF e \in S THEN 1 ELSE 0)
      /\ C = [e \in DOMAIN C |-> C[e]]
  BY DEF SetToBag, (+)
<1>2. \A e \in DOMAIN B : B[e] \in Nat /\ B[e] > 0
  BY DEF IsABag
<1> HIDE DEF C
<1>3. \A e \in DOMAIN C : C[e] \in Nat /\ C[e] > 0
  BY <1>1, <1>2
<1>4. IsABag(C)
  BY <1>1, <1>3 DEF IsABag
<1>5. B \sqsubseteq C
  BY <1>1, <1>2 DEF \sqsubseteq
<1>6. BagToSet(C (-) B) \subseteq S
  <2> SUFFICES ASSUME NEW e \in DOMAIN (C (-) B), e \notin S PROVE FALSE
    BY DEF BagToSet
  <2>1. e \in DOMAIN C /\ (IF e \in DOMAIN B THEN C[e] - B[e] ELSE C[e]) > 0
    BY DEF (-)
  <2>2. e \in DOMAIN B /\ C[e] = B[e] + 0
    BY <1>1, <2>1
  <2> QED BY <1>2, <2>1, <2>2
<1> QED BY <1>1, <1>4, <1>5, <1>6 DEF BagToSet, C

\* One of each row of a set is taken out of a bag.
LEMMA Removed ==
  ASSUME NEW B, IsABag(B), NEW S
  PROVE  /\ IsABag(B (-) SetToBag(S))
         /\ BagToSet(B (-) SetToBag(S)) \subseteq BagToSet(B)
         /\ \A e \in BagToSet(B) \ S :
              e \in BagToSet(B (-) SetToBag(S)) /\ (B (-) SetToBag(S))[e] = B[e]
<1> DEFINE C == B (-) SetToBag(S)
           remains(e) == IF e \in S THEN B[e] - 1 ELSE B[e]
<1>1. \A e \in DOMAIN B : B[e] \in Nat /\ B[e] > 0
  BY DEF IsABag
<1>2. C = [e \in {d \in DOMAIN B : remains(d) > 0} |-> remains(e)]
  BY DEF SetToBag, (-)
<1> HIDE DEF C
<1>3. IsABag(C)
  BY <1>1, <1>2 DEF IsABag
<1> QED BY <1>1, <1>2, <1>3 DEF BagToSet, C

\* A step that leaves a bag alone adds nothing to it.
LEMMA Same ==
  ASSUME NEW B, IsABag(B)
  PROVE  B \sqsubseteq B /\ BagToSet(B (-) B) = {}
<1>1. \A e \in DOMAIN B : B[e] \in Nat /\ B[e] - B[e] = 0
  BY DEF IsABag
<1> QED BY <1>1 DEF \sqsubseteq, BagToSet, (-)

-----------------------------------------------------------------------------
(* Units and their customers under a new name *)

LEMMA UnitsRenamed ==
  ASSUME UnitsTyped(units), NEW old \in DOMAIN units, NEW new \in UnitNames, ~HasUnit(new)
  PROVE  /\ UnitsTyped(RenamedUnits(old, new))
         /\ DOMAIN RenamedUnits(old, new) = (DOMAIN units \ {old}) \cup {new}
<1>1. None # old /\ None # new
  BY SeedAssumption DEF UnitsTyped
<1> QED BY <1>1 DEF UnitsTyped, RenamedUnits, Renamed, HasUnit

LEMMA CustomersRenamed ==
  ASSUME UnitsTyped(units), CustomersTyped(customers, DOMAIN units),
         NEW old \in DOMAIN units, NEW new \in UnitNames, ~HasUnit(new)
  PROVE  CustomersTyped(RenamedCustomers(customers, old, new), (DOMAIN units \ {old}) \cup {new})
<1> DEFINE was(row) == [row EXCEPT !.unit = Renamed(@, new, old)]
           now(row) == [row EXCEPT !.unit = Renamed(@, old, new)]
           rows == {now(row) : row \in BagToSet(customers)}
<1>1. None # old /\ None # new /\ old # new
  BY SeedAssumption DEF UnitsTyped, HasUnit
<1>2. ASSUME NEW row \in BagToSet(customers)
      PROVE  now(row) \in Rows((DOMAIN units \ {old}) \cup {new}) /\ was(now(row)) = row
  <2>1. row \in Rows(DOMAIN units)
    BY DEF CustomersTyped
  <2>2. row.unit # new
    BY <1>1, <2>1 DEF Rows, HasUnit
  <2> QED BY <1>1, <2>1, <2>2 DEF Rows, Renamed
<1>3. RenamedCustomers(customers, old, new) = [row \in rows |-> customers[was(row)]]
  BY DEF RenamedCustomers
<1> HIDE DEF now, was
<1>4. \A row \in rows : was(row) \in DOMAIN customers
  BY <1>2 DEF BagToSet
<1>5. \A e \in DOMAIN customers : customers[e] \in {n \in Nat : n > 0}
  BY DEF CustomersTyped, IsABag
<1>6. IsABag(RenamedCustomers(customers, old, new))
  BY <1>3, <1>4, <1>5 DEF IsABag
<1>7. BagToSet(RenamedCustomers(customers, old, new)) \subseteq Rows((DOMAIN units \ {old}) \cup {new})
  BY <1>2, <1>3 DEF BagToSet
<1> QED BY <1>6, <1>7 DEF CustomersTyped

-----------------------------------------------------------------------------
(* A start *)

LEMMA CallsStep ==
  ASSUME calls \in Calls, calls # <<>>
  PROVE  /\ Tail(calls) \in Calls
         /\ Len(calls) # 1 => Tail(calls) # <<>>
<1> DEFINE Names == {"reference", "demo"}
<1>1. ASSUME NEW name \in Names
      PROVE  Tail(<<name>>) = <<>> /\ Len(<<name>>) = 1
  <2>1. <<name>> \in Seq(Names) /\ <<name>> # <<>> /\ Len(<<name>>) = 1
    OBVIOUS
  <2>2. Tail(<<name>>) \in Seq(Names) /\ Len(Tail(<<name>>)) = 0
    BY <2>1
  <2> QED BY <2>1, <2>2, EmptySeq
<1>2. Tail(<<"reference", "demo">>) = <<"demo">>
  <2> DEFINE both == <<"reference", "demo">>
  <2>1. both \in Seq(Names) /\ both # <<>> /\ Len(both) = 2 /\ both[2] = "demo"
    OBVIOUS
  <2> HIDE DEF both
  <2>2. Tail(both) \in Seq(Names) /\ Len(Tail(both)) = 1 /\ Tail(both)[1] = "demo"
    BY <2>1
  <2> DEFINE rest == Tail(both)
  <2>3. rest \in Seq(Names) /\ Len(rest) = 1 /\ rest[1] = "demo"
    BY <2>2
  <2> HIDE DEF rest
  <2>4. rest = <<"demo">>
    BY <2>3
  <2> QED BY <2>4 DEF both, rest
<1>3. calls \in {<<"reference">>, <<"demo">>, <<"reference", "demo">>}
  BY DEF Calls
<1>4. <<"demo">> # <<>>
  OBVIOUS
<1> HIDE DEF Names
<1>5. "reference" \in Names /\ "demo" \in Names
  BY DEF Names
<1> QED BY <1>1, <1>2, <1>3, <1>4, <1>5 DEF Calls

\* The return of a call leads to the next one, or to the first request.
LEMMA ReturnStep ==
  ASSUME calls \in Calls, calls # <<>>, Return
  PROVE  /\ calls' \in Calls /\ at' = 1 /\ phase' \in {"serving", "guard"}
         /\ phase' # "serving" => calls' # <<>>
BY CallsStep DEF Return, Goto

LEMMA SeededStep ==
  ASSUME calls \in Calls, calls # <<>>, SeededUnits
  PROVE  /\ calls' \in Calls /\ at' = 1 /\ phase' \in {"serving", "guard", "demo"}
         /\ phase' # "serving" => calls' # <<>>
BY ReturnStep DEF SeededUnits, Goto

\* Steps that leave the records alone: typed if the control is.
LEMMA RecordsKept ==
  ASSUME RecordsTyped, UNCHANGED <<units, customers>>,
         phase' \in Phases, at' \in Nat \ {0}, calls' \in Calls,
         sentinels' \in Nat, claimant' \in BOOLEAN, demo' \subseteq Stages,
         failures' \in Nat, cut' \in BOOLEAN
  PROVE  RecordsTyped'
BY DEF RecordsTyped

LEMMA StartKeeps ==
  ASSUME IInv, NEW todo \in Calls, Start(todo)
  PROVE  IInv'
<1> USE DEF Phases, Starting
<1>1. RecordsTyped'
  BY RecordsKept DEF Start, Goto, database, IInv, RecordsTyped
<1>2. Passed'
  BY DEF Start, Goto, Passed
<1>3. SentinelOnce' /\ Failing' /\ FailsOnce'
  BY DEF Start, Goto, database, IInv, SentinelOnce, Failing, FailsOnce
<1> QED BY <1>1, <1>2, <1>3 DEF IInv

LEMMA GuardKeeps ==
  ASSUME IInv, Guard
  PROVE  IInv'
<1> USE DEF Phases, Starting
<1>0. calls \in Calls /\ calls # <<>>
  BY DEF Guard, IInv, RecordsTyped, Passed
<1>1. CASE ReferenceSeedComplete
  <2>1. /\ calls' \in Calls /\ at' = 1 /\ phase' \in {"serving", "guard", "demo"}
        /\ phase' # "serving" => calls' # <<>>
    BY <1>0, <1>1, SeededStep DEF Guard
  <2>2. sentinels = 1
    BY <1>1 DEF ReferenceSeedComplete, IInv, SentinelOnce, RecordsTyped
  <2>3. RecordsTyped'
    BY <2>1, RecordsKept DEF Guard, database, IInv, RecordsTyped
  <2>4. Passed' /\ SentinelOnce' /\ Failing' /\ FailsOnce'
    BY <2>1, <2>2 DEF Guard, database, IInv, Passed, SentinelOnce, Failing, FailsOnce
  <2> QED BY <2>3, <2>4 DEF IInv
<1>2. CASE ~ReferenceSeedComplete
  <2>1. phase' = "rename" /\ at' = 1 /\ calls' = calls
    BY <1>2 DEF Guard, Goto
  <2>2. sentinels = 0
    BY <1>2 DEF ReferenceSeedComplete, IInv, RecordsTyped
  <2>3. RecordsTyped'
    BY <2>1, RecordsKept DEF Guard, database, IInv, RecordsTyped
  <2>4. Passed' /\ SentinelOnce' /\ Failing' /\ FailsOnce'
    BY <1>0, <2>1, <2>2 DEF Guard, database, IInv, Passed, SentinelOnce, Failing, FailsOnce
  <2> QED BY <2>3, <2>4 DEF IInv
<1> QED BY <1>1, <1>2

\* Renaming and seeding units comes before anything is said about them.
LEMMA RenameKeeps ==
  ASSUME IInv, Rename
  PROVE  IInv'
<1> USE DEF Phases, Starting
<1>0. calls # <<>> /\ sentinels = 0
  BY DEF Rename, IInv, Passed
<1>1. CASE at > Len(Renames)
  <2>1. phase' = "units" /\ at' = 1 /\ UNCHANGED <<units, customers, calls>>
    BY <1>1 DEF Rename, Goto
  <2>2. RecordsTyped'
    BY <2>1, RecordsKept DEF Rename, IInv, RecordsTyped
  <2>3. \A i \in DOMAIN Tree : ~(i < 1)
    BY SeedAssumption
  <2>4. Passed' /\ SentinelOnce' /\ Failing' /\ FailsOnce'
    BY <1>0, <2>1, <2>3 DEF Rename, IInv, Passed, SentinelOnce, Failing, FailsOnce
  <2> QED BY <2>2, <2>4 DEF IInv
<1>2. CASE ~(at > Len(Renames))
  <2> DEFINE old == Renames[at][1]
             new == Renames[at][2]
  <2>1. at \in Nat \ {0}
    BY DEF IInv, RecordsTyped
  <2>2. at' = at + 1 /\ UNCHANGED <<phase, calls>>
    BY <1>2 DEF Rename
  <2>3. new \in UnitNames
    <3>1. Renames \in Seq(UnitNames \X NamesIn(Tree)) /\ NamesIn(Tree) \subseteq UnitNames
      BY SeedAssumption DEF UnitNames
    <3>2. Renames[at] \in UnitNames \X NamesIn(Tree)
      BY <1>2, <2>1, <3>1
    <3> QED BY <3>1, <3>2
  <2>4. \/ UNCHANGED <<units, customers>>
        \/ /\ HasUnit(old) /\ ~HasUnit(new)
           /\ units' = RenamedUnits(old, new) /\ customers' = RenamedCustomers(customers, old, new)
    BY <1>2 DEF Rename
  <2> HIDE DEF old, new
  <2>5. UnitsTyped(units) /\ CustomersTyped(customers, DOMAIN units)
    BY DEF IInv, RecordsTyped, UnitsTyped, CustomersTyped, Rows
  <2>6. UnitsTyped(units') /\ CustomersTyped(customers', DOMAIN units')
    <3>1. CASE UNCHANGED <<units, customers>>
      BY <2>5, <3>1
    <3>2. CASE /\ HasUnit(old) /\ ~HasUnit(new)
               /\ units' = RenamedUnits(old, new) /\ customers' = RenamedCustomers(customers, old, new)
      BY <2>3, <2>5, <3>2, UnitsRenamed, CustomersRenamed DEF HasUnit
    <3> QED BY <2>4, <3>1, <3>2
  <2>7. RecordsTyped'
    BY <2>1, <2>2, <2>6 DEF Rename, IInv, RecordsTyped, UnitsTyped, CustomersTyped, Rows
  <2>8. Passed' /\ SentinelOnce' /\ Failing' /\ FailsOnce'
    BY <1>0, <2>2 DEF Rename, IInv, Passed, SentinelOnce, Failing, FailsOnce
  <2> QED BY <2>7, <2>8 DEF IInv
<1> QED BY <1>1, <1>2

\* Units are seeded parents first.
LEMMA SeedUnitKeeps ==
  ASSUME IInv, SeedUnit
  PROVE  IInv'
<1> USE DEF Phases, Starting
<1>0. calls # <<>> /\ sentinels = 0 /\ at \in Nat \ {0}
      /\ \A i \in DOMAIN Tree : i < at => HasUnit(Tree[i].name)
  BY DEF SeedUnit, IInv, Passed, RecordsTyped
<1>t. /\ Tree \in Seq([name : UnitNames, parent : UnitNames \cup {None}])
      /\ \A i \in DOMAIN Tree :
           Tree[i].parent = None \/ \E j \in 1 .. i - 1 : Tree[j].name = Tree[i].parent
  BY SeedAssumption
<1>1. CASE at > Len(Tree)
  <2>1. phase' = "customers" /\ at' = 1 /\ UNCHANGED <<units, customers, calls>>
    BY <1>1 DEF SeedUnit, AfterUnits, Goto
  <2>2. RecordsTyped'
    BY <2>1, RecordsKept DEF SeedUnit, IInv, RecordsTyped
  <2>3. TreeThere
    BY <1>0, <1>1, <1>t DEF TreeThere
  <2>4. Passed' /\ SentinelOnce' /\ Failing' /\ FailsOnce'
    BY <1>0, <2>1, <2>3 DEF SeedUnit, IInv, Passed, SentinelOnce, Failing, FailsOnce,
       TreeThere, HasUnit
  <2> QED BY <2>2, <2>4 DEF IInv
<1>2. CASE ~(at > Len(Tree))
  <2> DEFINE name == Tree[at].name
             parent == Tree[at].parent
             added == [n \in DOMAIN units \cup {name} |-> IF HasUnit(n) THEN units[n] ELSE parent]
  <2>1. /\ at' = at + 1 /\ UNCHANGED <<phase, calls, customers>>
        /\ units' = IF HasUnit(name) THEN units ELSE added
    BY <1>2 DEF SeedUnit
  <2>2. at \in DOMAIN Tree /\ name \in UnitNames /\ parent \in UnitNames \cup {None}
    <3> HIDE DEF name, parent
    <3>1. at \in 1 .. Len(Tree) /\ DOMAIN Tree = 1 .. Len(Tree)
      BY <1>0, <1>2, <1>t
    <3>2. Tree[at] \in [name : UnitNames, parent : UnitNames \cup {None}]
      BY <1>t, <3>1, ElementOfSeq
    <3> QED BY <3>1, <3>2 DEF name, parent
  <2>3. parent \in DOMAIN units \cup {None}
    <3>1. CASE parent = None
      BY <3>1
    <3>2. CASE parent # None
      <4>1. PICK j \in 1 .. at - 1 : Tree[j].name = parent
        BY <1>t, <2>2, <3>2
      <4>2. j \in DOMAIN Tree /\ j < at
        BY <1>0, <1>2, <1>t, <4>1
      <4> QED BY <1>0, <4>1, <4>2 DEF HasUnit
    <3> QED BY <3>1, <3>2
  <2>4. UnitsTyped(units)
    BY DEF IInv, RecordsTyped, UnitsTyped
  <2> HIDE DEF name, parent
  <2>5. UnitsTyped(units') /\ DOMAIN units' = DOMAIN units \cup {name}
    BY <2>1, <2>2, <2>3, <2>4 DEF UnitsTyped, HasUnit
  <2>6. RecordsTyped'
    BY <1>0, <2>1, <2>5 DEF SeedUnit, IInv, RecordsTyped, UnitsTyped
  <2>7. \A i \in DOMAIN Tree : i < at' => HasUnit(Tree[i].name)'
    <3> SUFFICES ASSUME NEW i \in DOMAIN Tree, i < at + 1 PROVE Tree[i].name \in DOMAIN units'
      BY <2>1 DEF HasUnit
    <3>1. i < at \/ i = at
      BY <1>0, <1>t
    <3> QED BY <1>0, <2>5, <3>1 DEF HasUnit, name
  <2>8. Passed' /\ SentinelOnce' /\ Failing' /\ FailsOnce'
    BY <1>0, <2>1, <2>7 DEF SeedUnit, IInv, Passed, SentinelOnce, Failing, FailsOnce
  <2> QED BY <2>6, <2>8 DEF IInv
<1> QED BY <1>1, <1>2

\* Adding rows of units that are there.
LEMMA CustomersAdded ==
  ASSUME CustomersTyped(customers, DOMAIN units), NEW S, S \subseteq Rows(DOMAIN units)
  PROVE  CustomersTyped(customers (+) SetToBag(S), DOMAIN units)
BY Added DEF CustomersTyped

\* What is missing is of the tree, and nothing is missing afterwards.
LEMMA MissingRows ==
  /\ Missing \subseteq Rows(DOMAIN units)
  /\ TreeThere => \A i \in DOMAIN References :
       Row(References[i]) \in Missing \/ Held(Row(References[i]))
<1>1. Missing \subseteq Rows(DOMAIN units)
  <2> SUFFICES ASSUME NEW i \in DOMAIN References, HasUnit(Row(References[i]).unit)
               PROVE  Row(References[i]) \in Rows(DOMAIN units)
    BY DEF Missing
  <2>1. References[i].name \in CustomerNames
    BY DEF CustomerNames, ReferenceNames, NamesIn
  <2> QED BY <2>1 DEF Row, Rows, HasUnit
<1>2. ASSUME TreeThere, NEW i \in DOMAIN References
      PROVE  Row(References[i]) \in Missing \/ Held(Row(References[i]))
  <2>1. References[i].unit \in NamesIn(Tree)
    BY SeedAssumption
  <2>2. HasUnit(Row(References[i]).unit)
    BY <1>2, <2>1 DEF NamesIn, TreeThere, Row
  <2> QED BY <2>2 DEF Missing
<1> QED BY <1>1, <1>2

LEMMA SeedCustomersKeeps ==
  ASSUME IInv, SeedCustomers
  PROVE  IInv'
<1> USE DEF Phases, Starting
<1>0. calls # <<>> /\ sentinels = 0 /\ TreeThere
  BY DEF SeedCustomers, IInv, Passed
<1>1. phase' = "mark" /\ at' = 1 /\ UNCHANGED <<calls, units>>
      /\ customers' = customers (+) SetToBag(Missing)
  BY DEF SeedCustomers, Goto
<1>2. CustomersTyped(customers, DOMAIN units)
  BY DEF IInv, RecordsTyped, CustomersTyped, Rows
<1>3. CustomersTyped(customers', DOMAIN units)
  BY <1>1, <1>2, MissingRows, CustomersAdded
<1>4. RecordsTyped'
  BY <1>1, <1>3 DEF SeedCustomers, IInv, RecordsTyped, CustomersTyped, Rows
<1>5. BagToSet(customers') = BagToSet(customers) \cup Missing
  BY <1>1, <1>2, Added DEF CustomersTyped
<1>6. ReferencesThere'
  BY <1>0, <1>5, MissingRows DEF ReferencesThere, Held, BagIn
<1>7. TreeThere'
  BY <1>0, <1>1 DEF TreeThere, HasUnit
<1>8. Passed' /\ SentinelOnce' /\ Failing' /\ FailsOnce'
  BY <1>0, <1>1, <1>6, <1>7 DEF SeedCustomers, IInv, Passed, SentinelOnce, Failing, FailsOnce
<1> QED BY <1>4, <1>8 DEF IInv

\* The sentinel, by a start that has found none.
LEMMA MarkKeeps ==
  ASSUME IInv, Mark
  PROVE  IInv'
<1> USE DEF Phases, Starting
<1>0. calls \in Calls /\ calls # <<>> /\ sentinels = 0
  BY DEF Mark, IInv, Passed, RecordsTyped
<1>1. /\ calls' \in Calls /\ at' = 1 /\ phase' \in {"serving", "guard", "demo"}
      /\ phase' # "serving" => calls' # <<>>
  BY <1>0, SeededStep DEF Mark
<1>2. sentinels' = 1
  BY <1>0 DEF Mark
<1>3. RecordsTyped'
  BY <1>1, <1>2, RecordsKept DEF Mark, IInv, RecordsTyped
<1>4. Passed' /\ SentinelOnce' /\ Failing' /\ FailsOnce'
  BY <1>1, <1>2 DEF Mark, IInv, Passed, SentinelOnce, Failing, FailsOnce
<1> QED BY <1>3, <1>4 DEF IInv

LEMMA SkipDemoKeeps ==
  ASSUME IInv, SkipDemo
  PROVE  IInv'
<1> USE DEF Phases, Starting
<1>0. calls \in Calls /\ calls # <<>> /\ sentinels = 1
  BY DEF SkipDemo, IInv, Passed, RecordsTyped
<1>1. /\ calls' \in Calls /\ at' = 1 /\ phase' \in {"serving", "guard"}
      /\ phase' # "serving" => calls' # <<>>
  BY <1>0, ReturnStep DEF SkipDemo
<1>2. RecordsTyped'
  BY <1>1, RecordsKept DEF SkipDemo, database, IInv, RecordsTyped
<1>3. Passed' /\ SentinelOnce' /\ Failing' /\ FailsOnce'
  BY <1>0, <1>1 DEF SkipDemo, database, IInv, Passed, SentinelOnce, Failing, FailsOnce
<1> QED BY <1>2, <1>3 DEF IInv

\* The demo's commits, of which the company's is the first.
LEMMA SeedDemoKeeps ==
  ASSUME IInv, SeedDemo
  PROVE  IInv'
<1> USE DEF Phases, Starting
<1>0. /\ calls \in Calls /\ calls # <<>> /\ sentinels = 1 /\ at \in Nat \ {0}
      /\ at > 1 => "company" \in demo /\ failures = 0
      /\ failures = 1 => "company" \in demo
      /\ failures \in Nat /\ failures <= 1
  BY DEF SeedDemo, IInv, Passed, RecordsTyped, Failing, FailsOnce
<1>s. DemoStages # <<>> => DemoStages[1] = "company"
  BY SeedAssumption
<1>1. CASE at > Len(DemoStages)
  <2>1. /\ calls' \in Calls /\ at' = 1 /\ phase' \in {"serving", "guard"}
        /\ phase' # "serving" => calls' # <<>>
    BY <1>0, <1>1, ReturnStep DEF SeedDemo
  <2>2. UNCHANGED <<demo, customers>>
    BY <1>1 DEF SeedDemo
  <2>3. RecordsTyped'
    BY <2>1, <2>2, RecordsKept DEF SeedDemo, IInv, RecordsTyped
  <2>4. Passed' /\ SentinelOnce' /\ Failing' /\ FailsOnce'
    BY <1>0, <2>1, <2>2 DEF SeedDemo, IInv, Passed, SentinelOnce, Failing, FailsOnce
  <2> QED BY <2>3, <2>4 DEF IInv
<1>2. CASE ~(at > Len(DemoStages))
  <2>1. /\ at' = at + 1 /\ UNCHANGED <<phase, calls>>
        /\ demo' = demo \cup {DemoStages[at]}
        /\ \/ UNCHANGED customers
           \/ /\ DemoUnitsThere
              /\ customers' = customers (+)
                   SetToBag({Row(DemoCustomers[i]) : i \in DOMAIN DemoCustomers})
    BY <1>2 DEF SeedDemo
  <2>2. at \in 1 .. Len(DemoStages) /\ DemoStages[at] \in Stages /\ DemoStages # <<>>
    BY <1>0, <1>2, SeedAssumption DEF Stages
  <2>3. "company" \in demo' /\ failures = 0
    <3>1. CASE at > 1
      BY <1>0, <2>1, <3>1
    <3>2. CASE at = 1
      <4>1. "company" \notin demo
        BY <3>2 DEF SeedDemo, CompanyThere
      <4>2. DemoStages[at] = "company"
        BY <1>s, <2>2, <3>2
      <4>3. failures # 1
        BY <1>0, <4>1
      <4> QED BY <1>0, <2>1, <4>2, <4>3
    <3> QED BY <1>0, <3>1, <3>2
  <2>4. CustomersTyped(customers, DOMAIN units)
    BY DEF IInv, RecordsTyped, CustomersTyped, Rows
  <2>5. CustomersTyped(customers', DOMAIN units)
    <3>1. CASE DemoUnitsThere
      <4>1. {Row(DemoCustomers[i]) : i \in DOMAIN DemoCustomers} \subseteq Rows(DOMAIN units)
        BY <3>1 DEF DemoUnitsThere, HasUnit, Row, Rows, CustomerNames, NamesIn
      <4> QED BY <2>1, <2>4, <4>1, CustomersAdded
    <3> QED BY <2>1, <2>4, <3>1
  <2>6. RecordsTyped'
    BY <1>0, <2>1, <2>2, <2>5 DEF SeedDemo, IInv, RecordsTyped, CustomersTyped, Rows
  <2>7. Passed' /\ SentinelOnce' /\ Failing' /\ FailsOnce'
    BY <1>0, <2>1, <2>3 DEF SeedDemo, IInv, Passed, SentinelOnce, Failing, FailsOnce
  <2> QED BY <2>6, <2>7 DEF IInv
<1> QED BY <1>1, <1>2

\* The demo fails after its company is there, for the first time.
LEMMA DemoFailsKeeps ==
  ASSUME IInv, DemoFails
  PROVE  IInv'
<1> USE DEF Phases, Starting
<1>1. at # 1
  BY SeedAssumption DEF DemoFails
<1>2. at \in Nat \ {0} /\ phase = "demo"
  BY DEF DemoFails, IInv, RecordsTyped
<1>3. "company" \in demo /\ failures = 0
  BY <1>1, <1>2 DEF IInv, Failing
<1>4. phase' = "down" /\ at' = 1 /\ calls' = <<>> /\ failures' = 1
  BY <1>3 DEF DemoFails, Goto
<1>5. RecordsTyped'
  BY <1>4, RecordsKept DEF DemoFails, database, IInv, RecordsTyped, Calls
<1>6. Passed' /\ SentinelOnce' /\ Failing' /\ FailsOnce'
  BY <1>3, <1>4 DEF DemoFails, database, IInv, Passed, SentinelOnce, Failing, FailsOnce
<1> QED BY <1>5, <1>6 DEF IInv

LEMMA EndsKeep ==
  ASSUME IInv, Interrupt \/ Stop
  PROVE  IInv'
<1> USE DEF Phases, Starting
<1>1. RecordsTyped'
  <2>1. CASE Interrupt
    BY <2>1, RecordsKept DEF Interrupt, Goto, database, IInv, RecordsTyped, Calls
  <2>2. CASE Stop
    BY <2>2, RecordsKept DEF Stop, Goto, database, IInv, RecordsTyped
  <2> QED BY <2>1, <2>2
<1>2. Passed' /\ SentinelOnce' /\ Failing' /\ FailsOnce'
  BY DEF Interrupt, Stop, Goto, database, IInv, Passed, SentinelOnce, Failing, FailsOnce, RecordsTyped
<1> QED BY <1>1, <1>2 DEF IInv

-----------------------------------------------------------------------------
(* The pages *)

\* What a page changes is typed, and nothing the starts rely on.
LEMMA PageKeeps ==
  ASSUME IInv, Page, UNCHANGED sentinels,
         UnitsTyped(units'), CustomersTyped(customers', DOMAIN units'),
         claimant' \in BOOLEAN, demo' \subseteq demo
  PROVE  IInv'
<1> USE DEF Starting
<1>1. RecordsTyped'
  BY DEF Page, IInv, RecordsTyped, UnitsTyped, CustomersTyped, Rows
<1>2. demo' # {} => sentinels' = 1
  BY DEF IInv, SentinelOnce
<1>3. Passed' /\ SentinelOnce' /\ Failing' /\ FailsOnce'
  BY <1>2 DEF Page, IInv, Passed, SentinelOnce, Failing, FailsOnce
<1> QED BY <1>1, <1>3 DEF IInv

LEMMA UnitPagesKeep ==
  ASSUME IInv, NEW u \in DOMAIN units,
         (\E name \in OtherNames : RenameUnit(u, name)) \/ DeleteUnit(u)
  PROVE  IInv'
<1>1. UnitsTyped(units) /\ CustomersTyped(customers, DOMAIN units) /\ claimant \in BOOLEAN
  BY DEF IInv, RecordsTyped, UnitsTyped, CustomersTyped, Rows
<1>2. ASSUME NEW name \in OtherNames, RenameUnit(u, name)
      PROVE  IInv'
  <2>1. name \in UnitNames /\ ~HasUnit(name)
    BY <1>2 DEF UnitNames, RenameUnit
  <2>2. UnitsTyped(units') /\ CustomersTyped(customers', DOMAIN units')
    BY <1>1, <1>2, <2>1, UnitsRenamed, CustomersRenamed DEF RenameUnit
  <2> QED BY <1>1, <1>2, <2>2, PageKeeps DEF RenameUnit
<1>3. CASE DeleteUnit(u)
  <2>1. UnitsTyped(units') /\ DOMAIN units' = DOMAIN units \ {u}
    BY <1>1, <1>3 DEF UnitsTyped, DeleteUnit
  <2>2. ASSUME NEW row \in BagToSet(customers)
        PROVE  row \in Rows(DOMAIN units \ {u})
    <3>1. row \in Rows(DOMAIN units) /\ row.unit # u
      BY <1>1, <1>3 DEF CustomersTyped, DeleteUnit
    <3> QED BY <3>1 DEF Rows
  <2>3. CustomersTyped(customers', DOMAIN units')
    BY <1>1, <1>3, <2>1, <2>2 DEF CustomersTyped, DeleteUnit
  <2> QED BY <1>1, <1>3, <2>1, <2>3, PageKeeps DEF DeleteUnit
<1> QED BY <1>2, <1>3

LEMMA CustomerPagesKeep ==
  ASSUME IInv,
         \/ \E name \in ReferenceNames, unit \in DOMAIN units :
              CreateCustomer([name |-> name, unit |-> unit])
         \/ \E row \in Own, name \in OtherNames : EditCustomer(row, name, row.unit)
         \/ \E row \in Own, unit \in DOMAIN units \cup {None} : EditCustomer(row, row.name, unit)
         \/ \E row \in Own : DeleteCustomer(row)
         \/ \E S \in SUBSET Own : Cleanup(S)
  PROVE  IInv'
<1>1. UnitsTyped(units) /\ CustomersTyped(customers, DOMAIN units) /\ claimant \in BOOLEAN
  BY DEF IInv, RecordsTyped, UnitsTyped, CustomersTyped, Rows
<1>2. ASSUME Page, UNCHANGED <<units, sentinels, claimant, demo>>,
             CustomersTyped(customers', DOMAIN units)
      PROVE  IInv'
  BY <1>1, <1>2, PageKeeps
<1>3. \A row \in Own : row \in Rows(DOMAIN units)
  BY <1>1 DEF Own, CustomersTyped
<1>4. \A S : CustomersTyped(customers (-) SetToBag(S), DOMAIN units)
  BY <1>1, Removed DEF CustomersTyped
<1>5. ASSUME NEW name \in ReferenceNames, NEW unit \in DOMAIN units,
             CreateCustomer([name |-> name, unit |-> unit])
      PROVE  IInv'
  <2>1. [name |-> name, unit |-> unit] \in Rows(DOMAIN units)
    BY DEF Rows, CustomerNames
  <2>2. CustomersTyped(customers', DOMAIN units)
    BY <1>1, <1>5, <2>1, CustomersAdded DEF CreateCustomer
  <2> QED BY <1>2, <1>5, <2>2 DEF CreateCustomer
<1>6. ASSUME NEW row \in Own, NEW name \in CustomerNames, NEW unit \in DOMAIN units \cup {None},
             EditCustomer(row, name, unit)
      PROVE  IInv'
  <2>1. [name |-> name, unit |-> unit] \in Rows(DOMAIN units)
    BY DEF Rows
  <2>2. CustomersTyped(customers', DOMAIN units)
    BY <1>4, <1>6, <2>1, Added DEF EditCustomer, CustomersTyped
  <2> QED BY <1>2, <1>6, <2>2 DEF EditCustomer
<1>7. ASSUME NEW row \in Own, DeleteCustomer(row)
      PROVE  IInv'
  BY <1>2, <1>4, <1>7 DEF DeleteCustomer
<1>8. ASSUME NEW S \in SUBSET Own, Cleanup(S)
      PROVE  IInv'
  BY <1>2, <1>4, <1>8 DEF Cleanup
<1>9. OtherNames \subseteq CustomerNames
      /\ \A row \in Own : row.name \in CustomerNames /\ row.unit \in DOMAIN units \cup {None}
  BY <1>3 DEF CustomerNames, Rows
<1> QED BY <1>5, <1>6, <1>7, <1>8, <1>9

LEMMA PurgePagesKeep ==
  ASSUME IInv, CreateCompany \/ PurgeClaimWork \/ PurgeAllWorkingData
  PROVE  IInv'
<1>1. UnitsTyped(units) /\ CustomersTyped(customers, DOMAIN units)
  BY DEF IInv, RecordsTyped, UnitsTyped, CustomersTyped, Rows
<1>2. CASE CreateCompany
  BY <1>1, <1>2, PageKeeps DEF CreateCompany
<1>3. CASE PurgeClaimWork
  BY <1>1, <1>3, PageKeeps DEF PurgeClaimWork
<1>4. CASE PurgeAllWorkingData
  <2>1. CustomersTyped(ReferenceRows, DOMAIN units)
    BY <1>1 DEF CustomersTyped, ReferenceRows, IsABag, BagToSet
  <2> QED BY <1>1, <1>4, <2>1, PageKeeps DEF PurgeAllWorkingData
<1> QED BY <1>2, <1>3, <1>4

-----------------------------------------------------------------------------
LEMMA InitKeeps == Init => IInv
<1> SUFFICES ASSUME Init PROVE IInv
  OBVIOUS
<1>1. DOMAIN units \subseteq UnitNames /\ units \in [DOMAIN units -> DOMAIN units \cup {None}]
  BY SeedAssumption DEF Init
<1>2. RecordsTyped
  <2>1. customers = EmptyBag
    BY DEF Init
  <2>2. IsABag(customers) /\ BagToSet(customers) = {}
    BY <2>1, EmptyIsBag
  <2>3. phase \in Phases /\ calls \in Calls /\ at \in Nat \ {0} /\ sentinels \in Nat /\ failures \in Nat
    BY DEF Init, Phases, Calls
  <2>4. claimant \in BOOLEAN /\ demo \subseteq Stages /\ cut \in BOOLEAN
    BY DEF Init
  <2>5. BagToSet(customers) \subseteq [name : CustomerNames, unit : DOMAIN units \cup {None}]
    BY <2>2
  <2> QED BY <1>1, <2>2, <2>3, <2>4, <2>5 DEF RecordsTyped
<1>3. Passed /\ SentinelOnce /\ Failing /\ FailsOnce
  BY DEF Init, Passed, SentinelOnce, Failing, FailsOnce, Starting
<1> QED BY <1>2, <1>3 DEF IInv

LEMMA StepKeeps == IInv /\ [Next]_vars => IInv'
<1> SUFFICES ASSUME IInv, [Next]_vars PROVE IInv'
  OBVIOUS
<1>1. CASE \/ \E todo \in Calls : Start(todo)
           \/ Guard \/ Rename \/ SeedUnit \/ SeedCustomers \/ Mark
           \/ SkipDemo \/ SeedDemo \/ DemoFails \/ Interrupt \/ Stop
  BY <1>1, StartKeeps, GuardKeeps, RenameKeeps, SeedUnitKeeps, SeedCustomersKeeps, MarkKeeps,
     SkipDemoKeeps, SeedDemoKeeps, DemoFailsKeeps, EndsKeep
<1>2. CASE \/ \E u \in DOMAIN units, name \in OtherNames : RenameUnit(u, name)
           \/ \E u \in DOMAIN units : DeleteUnit(u)
  BY <1>2, UnitPagesKeep
<1>3. CASE UNCHANGED vars
  BY <1>3 DEF vars, database, IInv, RecordsTyped, Passed, SentinelOnce, Failing, FailsOnce, Starting,
     TreeThere, ReferencesThere, HasUnit, Held, BagIn
<1> QED BY <1>1, <1>2, <1>3, CustomerPagesKeep, PurgePagesKeep DEF Next

THEOREM SeedInvariant == Spec => []IInv
BY InitKeeps, StepKeeps, PTL DEF Spec

\* There is one sentinel at most, and no demo without it (ADR-0005 D5).
THEOREM OneSentinel == Spec => []SentinelOnce
BY SeedInvariant, PTL DEF IInv

\* A start fails once at most between two requests (seed_demo_data).
THEOREM StartsFailOnce == Spec => []FailsOnce
BY SeedInvariant, PTL DEF IInv

\* The sentinel is written over a whole seed (record_reference_seed).
THEOREM MarkIsOverAWholeSeed == Spec => MarkedWhenWhole
<1> DEFINE Whole == sentinels' > sentinels =>
             /\ \A i \in DOMAIN Tree : HasUnit(Tree[i].name)
             /\ \A i \in DOMAIN References : Held(Row(References[i]))
<1>1. IInv /\ [Next]_vars => [Whole]_vars
  <2> SUFFICES ASSUME IInv, Next, sentinels' > sentinels
               PROVE  TreeThere /\ ReferencesThere
    BY DEF TreeThere, ReferencesThere
  <2>1. CASE Mark
    BY <2>1 DEF Mark, IInv, Passed
  <2>2. sentinels \in Nat
    BY DEF IInv, RecordsTyped
  <2>3. UNCHANGED sentinels => FALSE
    BY <2>2
  <2>4. Next => Mark \/ UNCHANGED sentinels
    BY DEF Next, Start, Guard, Rename, SeedUnit, SeedCustomers, SkipDemo, SeedDemo, DemoFails,
       Interrupt, Stop, RenameUnit, DeleteUnit, CreateCustomer, EditCustomer, DeleteCustomer,
       CreateCompany, Cleanup, PurgeClaimWork, PurgeAllWorkingData, database
  <2> QED BY <2>1, <2>3, <2>4
<1> QED BY <1>1, SeedInvariant, PTL DEF Spec, MarkedWhenWhole

\* Once the sentinel is there, a start leaves the operator's records alone
\* (reference_seed_complete).
THEOREM RecordsLeft == Spec => StartLeavesRecords
<1> DEFINE Left == Starting /\ sentinels > 0 =>
             /\ units' = units
             /\ customers \sqsubseteq customers'
             /\ \A row \in BagToSet(customers' (-) customers) :
                  row.name \in NamesIn(DemoCustomers)
<1>1. IInv /\ [Next]_vars => [Left]_vars
  <2> SUFFICES ASSUME IInv, Next, Starting, sentinels > 0
               PROVE  /\ units' = units
                      /\ customers \sqsubseteq customers'
                      /\ \A row \in BagToSet(customers' (-) customers) :
                           row.name \in NamesIn(DemoCustomers)
    OBVIOUS
  <2>0. IsABag(customers)
    BY DEF IInv, RecordsTyped
  <2>1. phase \notin {"rename", "units", "customers", "mark", "down", "serving"}
    BY DEF IInv, Passed, RecordsTyped, Starting
  <2>2. SeedDemo \/ UNCHANGED <<units, customers>>
    BY <2>1 DEF Next, Start, Guard, Rename, SeedUnit, SeedCustomers, Mark, SkipDemo, DemoFails,
       Interrupt, Stop, RenameUnit, DeleteUnit, CreateCustomer, EditCustomer, DeleteCustomer,
       CreateCompany, Cleanup, PurgeClaimWork, PurgeAllWorkingData, database, Page
  <2>3. CASE UNCHANGED <<units, customers>>
    BY <2>0, <2>3, Same
  <2>4. CASE SeedDemo /\ ~UNCHANGED customers
    <3> DEFINE rows == {Row(DemoCustomers[i]) : i \in DOMAIN DemoCustomers}
    <3>1. customers' = customers (+) SetToBag(rows) /\ units' = units
      BY <2>4 DEF SeedDemo
    <3>2. \A row \in rows : row.name \in NamesIn(DemoCustomers)
      BY DEF Row, NamesIn
    <3> HIDE DEF rows
    <3> QED BY <2>0, <3>1, <3>2, Added
  <2> QED BY <2>2, <2>3, <2>4 DEF SeedDemo
<1> QED BY <1>1, SeedInvariant, PTL DEF Spec, StartLeavesRecords

-----------------------------------------------------------------------------
(* What starts add to the customers that the pages left *)

\* A bag of customers after starts, over the bag the pages left.
OnceMore(now, before) ==
  /\ before \sqsubseteq now
  /\ \A row \in BagToSet(now) :
       \/ row.name \in NamesIn(DemoCustomers)
       \/ now[row] = 1
       \/ BagIn(row, before) /\ before[row] = now[row]

LEMMA NothingMore ==
  ASSUME NEW B, IsABag(B)
  PROVE  OnceMore(B, B)
BY Same DEF OnceMore, BagIn

\* Rows of the demo and rows that are not there may be added.
LEMMA MoreAdded ==
  ASSUME NEW B, IsABag(B), NEW before, IsABag(before), OnceMore(B, before), NEW S,
         \A row \in S : row.name \in NamesIn(DemoCustomers) \/ ~BagIn(row, B)
  PROVE  OnceMore(B (+) SetToBag(S), before)
<1> DEFINE C == B (+) SetToBag(S)
<1>1. /\ DOMAIN C = DOMAIN B \cup S
      /\ \A e \in DOMAIN C : C[e] = (IF e \in DOMAIN B THEN B[e] ELSE 0)
                                    + (IF e \in S THEN 1 ELSE 0)
  BY DEF SetToBag, (+)
<1>2. /\ \A e \in DOMAIN B : B[e] \in Nat /\ B[e] > 0
      /\ \A e \in DOMAIN before : before[e] \in Nat /\ before[e] > 0
  BY DEF IsABag
<1> HIDE DEF C
<1>3. \A e \in DOMAIN before : e \in DOMAIN B /\ before[e] <= B[e]
  BY DEF OnceMore, \sqsubseteq
<1>4. before \sqsubseteq C
  BY <1>1, <1>2, <1>3 DEF \sqsubseteq
<1>5. ASSUME NEW row \in DOMAIN C, row.name \notin NamesIn(DemoCustomers), C[row] # 1
      PROVE  BagIn(row, before) /\ before[row] = C[row]
  <2>1. row \in DOMAIN B /\ row \notin S
    BY <1>1, <1>2, <1>5 DEF BagIn, BagToSet
  <2>2. C[row] = B[row]
    BY <1>1, <1>2, <2>1
  <2> QED BY <1>5, <2>1, <2>2 DEF OnceMore, BagToSet
<1> QED BY <1>4, <1>5 DEF OnceMore, BagToSet, C

\* A unit's new name does not bring two rows together.
LEMMA MoreRenamed ==
  ASSUME UnitsTyped(units), CustomersTyped(customers, DOMAIN units),
         NEW old \in DOMAIN units, NEW new \in UnitNames, ~HasUnit(new),
         IsABag(left), OnceMore(customers, left)
  PROVE  LET before == RenamedCustomers(left, old, new)
         IN  IsABag(before) /\ OnceMore(RenamedCustomers(customers, old, new), before)
<1> DEFINE was(row) == [row EXCEPT !.unit = Renamed(@, new, old)]
           now(row) == [row EXCEPT !.unit = Renamed(@, old, new)]
           b == RenamedCustomers(left, old, new)
           c == RenamedCustomers(customers, old, new)
<1>1. None # old /\ None # new /\ old # new
  BY SeedAssumption DEF UnitsTyped, HasUnit
<1>2. ASSUME NEW row \in BagToSet(customers)
      PROVE  now(row).name = row.name /\ was(now(row)) = row
  <2>1. row \in Rows(DOMAIN units)
    BY DEF CustomersTyped
  <2>2. row.unit # new
    BY <1>1, <2>1 DEF Rows, HasUnit
  <2> QED BY <1>1, <2>1, <2>2 DEF Rows, Renamed
<1>3. /\ b = [row \in {now(row) : row \in BagToSet(left)} |-> left[was(row)]]
      /\ c = [row \in {now(row) : row \in BagToSet(customers)} |-> customers[was(row)]]
  BY DEF RenamedCustomers
<1> HIDE DEF now, was, b, c
<1>4. /\ \A e \in BagToSet(left) : e \in BagToSet(customers) /\ left[e] <= customers[e]
      /\ \A e \in BagToSet(left) : left[e] \in Nat /\ left[e] > 0
      /\ \A e \in BagToSet(customers) : customers[e] \in Nat /\ customers[e] > 0
  BY DEF OnceMore, \sqsubseteq, BagToSet, IsABag, CustomersTyped
<1>5. /\ DOMAIN b = {now(row) : row \in BagToSet(left)}
      /\ DOMAIN c = {now(row) : row \in BagToSet(customers)}
      /\ \A row \in BagToSet(left) : b[now(row)] = left[row]
      /\ \A row \in BagToSet(customers) : c[now(row)] = customers[row]
  BY <1>2, <1>3, <1>4
<1>6. IsABag(b)
  <2>1. \A e \in DOMAIN b : b[e] \in {n \in Nat : n > 0}
    BY <1>4, <1>5
  <2> QED BY <1>3, <1>5, <2>1 DEF IsABag
<1>7. b \sqsubseteq c
  <2>1. \A e \in DOMAIN b : e \in DOMAIN c /\ b[e] <= c[e]
    BY <1>4, <1>5
  <2> QED BY <2>1 DEF \sqsubseteq
<1>8. ASSUME NEW e \in DOMAIN c, e.name \notin NamesIn(DemoCustomers), c[e] # 1
      PROVE  e \in DOMAIN b /\ b[e] = c[e]
  <2>1. PICK row \in BagToSet(customers) : e = now(row)
    BY <1>5
  <2>2. row.name \notin NamesIn(DemoCustomers) /\ customers[row] # 1
    BY <1>2, <1>5, <1>8, <2>1
  <2>3. row \in BagToSet(left) /\ left[row] = customers[row]
    BY <2>2 DEF OnceMore, BagIn
  <2> QED BY <1>4, <1>5, <2>1, <2>3
<1> QED BY <1>6, <1>7, <1>8 DEF OnceMore, BagIn, BagToSet, b, c

LeftInv == IsABag(left) /\ (phase # "serving" => OnceMore(customers, left))

\* Entering or leaving a call changes no customer.
LEMMA RememberedStep ==
  ASSUME LeftInv, Remember, UNCHANGED customers, phase # "serving"
  PROVE  LeftInv'
BY EmptyIsBag DEF LeftInv, Remember

LEMMA LeftStep == IInv /\ LeftInv /\ [Next]_vars => LeftInv'
<1> SUFFICES ASSUME IInv, LeftInv, [Next]_vars PROVE LeftInv'
  OBVIOUS
<1>0. /\ UnitsTyped(units) /\ CustomersTyped(customers, DOMAIN units) /\ IsABag(customers)
      /\ at \in Nat \ {0}
  BY DEF IInv, RecordsTyped, UnitsTyped, CustomersTyped, Rows
<1>1. CASE (\E todo \in Calls : Start(todo)) \/ Guard \/ Mark \/ SkipDemo
  BY <1>1, RememberedStep DEF Start, Guard, Mark, SkipDemo, database
<1>2. CASE Rename
  <2>1. CASE UNCHANGED <<customers, left>>
    BY <1>2, <2>1 DEF Rename, LeftInv
  <2>2. CASE ~UNCHANGED <<customers, left>>
    <3> DEFINE old == Renames[at][1]
               new == Renames[at][2]
    <3>1. /\ ~(at > Len(Renames)) /\ HasUnit(old) /\ ~HasUnit(new)
          /\ customers' = RenamedCustomers(customers, old, new)
          /\ left' = RenamedCustomers(left, old, new)
      BY <1>2, <2>2 DEF Rename
    <3>2. new \in UnitNames
      <4>1. Renames \in Seq(UnitNames \X NamesIn(Tree)) /\ NamesIn(Tree) \subseteq UnitNames
        BY SeedAssumption DEF UnitNames
      <4>2. Renames[at] \in UnitNames \X NamesIn(Tree)
        BY <1>0, <3>1, <4>1
      <4> QED BY <4>1, <4>2
    <3>3. OnceMore(customers, left) /\ IsABag(left)
      BY <1>2 DEF Rename, LeftInv
    <3> HIDE DEF old, new
    <3> QED BY <1>0, <3>1, <3>2, <3>3, MoreRenamed DEF HasUnit, LeftInv
  <2> QED BY <2>1, <2>2
<1>3. CASE SeedUnit \/ DemoFails \/ Interrupt
  <2>1. UNCHANGED <<customers, left>> /\ phase # "serving"
    BY <1>3 DEF SeedUnit, DemoFails, Interrupt, database
  <2> QED BY <2>1 DEF LeftInv
<1>4. CASE SeedCustomers
  <2>1. \A row \in Missing : ~BagIn(row, customers)
    BY DEF Missing, Held
  <2>2. OnceMore(customers', left)
    BY <1>0, <1>4, <2>1, MoreAdded DEF SeedCustomers, LeftInv
  <2> QED BY <1>4, <2>2 DEF SeedCustomers, LeftInv
<1>5. CASE SeedDemo
  <2>1. CASE UNCHANGED customers
    BY <1>5, <2>1, RememberedStep DEF SeedDemo
  <2>2. CASE ~UNCHANGED customers
    <3> DEFINE rows == {Row(DemoCustomers[i]) : i \in DOMAIN DemoCustomers}
    <3>1. customers' = customers (+) SetToBag(rows) /\ phase' = phase /\ phase = "demo"
      BY <1>5, <2>2 DEF SeedDemo
    <3>2. \A row \in rows : row.name \in NamesIn(DemoCustomers)
      BY DEF Row, NamesIn
    <3>3. left' = left
      BY <1>5, <3>1 DEF SeedDemo, Remember
    <3> HIDE DEF rows
    <3>4. OnceMore(customers', left)
      BY <1>0, <3>1, <3>2, MoreAdded DEF LeftInv
    <3> QED BY <3>3, <3>4 DEF LeftInv
  <2> QED BY <2>1, <2>2
<1>6. CASE Stop
  <2>1. customers' = customers /\ left' = customers
    BY <1>6 DEF Stop, database
  <2>2. OnceMore(customers, customers)
    BY <1>0, NothingMore
  <2> QED BY <1>0, <2>1, <2>2 DEF LeftInv
<1>7. CASE Page
  BY <1>7 DEF Page, LeftInv
<1>8. CASE UNCHANGED vars
  BY <1>8 DEF vars, database, LeftInv
<1>9. \/ \E todo \in Calls : Start(todo)
      \/ Guard \/ Rename \/ SeedUnit \/ SeedCustomers \/ Mark
      \/ SkipDemo \/ SeedDemo \/ DemoFails \/ Interrupt \/ Stop
      \/ Page \/ UNCHANGED vars
  BY DEF Next, RenameUnit, DeleteUnit, CreateCustomer, EditCustomer, DeleteCustomer,
     CreateCompany, Cleanup, PurgeClaimWork, PurgeAllWorkingData
<1> QED BY <1>1, <1>2, <1>3, <1>4, <1>5, <1>6, <1>7, <1>8, <1>9

LEMMA LeftInvariant == Spec => []LeftInv
<1>1. Init => LeftInv
  BY EmptyIsBag, NothingMore DEF Init, LeftInv
<1> QED BY <1>1, LeftStep, SeedInvariant, PTL DEF Spec

\* Starts remove no customer and, the demo's apart, leave none there twice that was
\* not: for any tree, renames and references, and however many starts in a row are
\* interrupted, wherever (seed_reference_customers).
THEOREM StartsAddOnce == Spec => []AddedOnce
<1>1. LeftInv => AddedOnce
  BY DEF LeftInv, AddedOnce, OnceMore
<1> QED BY <1>1, LeftInvariant, PTL

\* Type correctness: units are known by name, customers are rows of units there are.
THEOREM SeedTyped == Spec => []TypeOK
<1>1. IInv /\ LeftInv => TypeOK
  BY DEF IInv, LeftInv, TypeOK
<1> QED BY <1>1, SeedInvariant, LeftInvariant, PTL

-----------------------------------------------------------------------------
(* The demo, where no start ended early *)

\* A start that seeds the demo has made every commit before the one it is at;
\* and otherwise a demo that has its company has all of its commits.
DemoInv ==
  ~cut =>
    IF phase = "demo" /\ at > 1
      THEN \A i \in DOMAIN DemoStages : i < at => DemoStages[i] \in demo
      ELSE "company" \in demo => demo = Stages

LEMMA DemoStep == IInv /\ DemoInv /\ [Next]_vars => DemoInv'
<1> SUFFICES ASSUME IInv, DemoInv, [Next]_vars PROVE DemoInv'
  OBVIOUS
<1>0. at \in Nat \ {0} /\ demo \subseteq Stages /\ calls \in Calls /\ (Starting => calls # <<>>)
      /\ DemoStages \in Seq(Stages)
  BY SeedAssumption DEF IInv, RecordsTyped, Passed
<1>1. CASE SeedDemo
  <2>1. CASE at > Len(DemoStages)
    <3>1. at' = 1 /\ demo' = demo
      BY <1>0, <1>1, <2>1, ReturnStep DEF SeedDemo, Starting
    <3>2. ~cut => demo = Stages
      <4>1. CASE at > 1
        BY <1>0, <1>1, <2>1, <4>1 DEF SeedDemo, DemoInv, Stages
      <4>2. CASE at = 1
        BY <1>0, <2>1, <4>2, SeedAssumption DEF Stages
      <4> QED BY <1>0, <4>1, <4>2
    <3> QED BY <1>1, <3>1, <3>2 DEF SeedDemo, DemoInv
  <2>2. CASE ~(at > Len(DemoStages))
    <3>1. phase' = "demo" /\ at' = at + 1 /\ cut' = cut /\ demo' = demo \cup {DemoStages[at]}
      BY <1>1, <2>2 DEF SeedDemo
    <3>2. ASSUME ~cut, NEW i \in DOMAIN DemoStages, i < at + 1
          PROVE  DemoStages[i] \in demo'
      <4>1. CASE i = at
        BY <3>1, <4>1
      <4>2. CASE i < at
        <5>1. at > 1 /\ phase = "demo"
          BY <1>0, <1>1, <4>2 DEF SeedDemo
        <5> QED BY <3>1, <3>2, <4>2, <5>1 DEF DemoInv
      <4> QED BY <1>0, <3>2, <4>1, <4>2
    <3> QED BY <1>0, <3>1, <3>2 DEF DemoInv
  <2> QED BY <2>1, <2>2
<1>2. CASE DemoFails \/ Interrupt
  BY <1>2 DEF DemoFails, Interrupt, DemoInv
<1>3. CASE SkipDemo
  <2>1. at = 1 /\ at' = 1 /\ UNCHANGED <<demo, cut>>
    BY <1>0, <1>3, ReturnStep DEF SkipDemo, database, Starting
  <2> QED BY <2>1 DEF DemoInv
<1>4. ASSUME phase # "demo", UNCHANGED <<demo, cut>>, phase' # "demo" \/ at' = 1
      PROVE  DemoInv'
  BY <1>4 DEF DemoInv
<1>5. CASE Guard \/ Mark
  <2>1. phase # "demo" /\ UNCHANGED <<demo, cut>>
    BY <1>5 DEF Guard, Mark, database
  <2>2. phase' # "demo" \/ at' = 1
    BY <1>0, <1>5, SeededStep DEF Guard, Mark, Goto, Starting
  <2> QED BY <1>4, <2>1, <2>2
<1>6. CASE (\E todo \in Calls : Start(todo)) \/ Rename \/ SeedUnit \/ SeedCustomers \/ Stop
  <2>1. phase # "demo" /\ UNCHANGED <<demo, cut>>
    BY <1>6 DEF Start, Rename, SeedUnit, SeedCustomers, Stop, database
  <2>2. phase' # "demo"
    BY <1>6 DEF Start, Rename, SeedUnit, AfterUnits, SeedCustomers, Stop, Goto
  <2> QED BY <1>4, <2>1, <2>2
<1>7. CASE Page /\ (UNCHANGED demo \/ "company" \notin demo')
  BY <1>7 DEF Page, DemoInv
<1>8. CASE UNCHANGED vars
  BY <1>8 DEF vars, database, DemoInv
<1>9. CASE CreateCompany \/ PurgeClaimWork \/ PurgeAllWorkingData
  <2>1. Page /\ (UNCHANGED demo \/ "company" \notin demo')
    BY <1>9 DEF CreateCompany, PurgeClaimWork, PurgeAllWorkingData
  <2> QED BY <1>7, <2>1
<1>10. CASE Page /\ UNCHANGED demo
  BY <1>7, <1>10
<1>11. \/ SeedDemo \/ DemoFails \/ Interrupt \/ SkipDemo \/ Guard \/ Mark
       \/ \E todo \in Calls : Start(todo)
       \/ Rename \/ SeedUnit \/ SeedCustomers \/ Stop
       \/ CreateCompany \/ PurgeClaimWork \/ PurgeAllWorkingData
       \/ (Page /\ UNCHANGED demo)
       \/ UNCHANGED vars
  BY DEF Next, RenameUnit, DeleteUnit, CreateCustomer, EditCustomer, DeleteCustomer, Cleanup
<1> QED BY <1>1, <1>2, <1>3, <1>5, <1>6, <1>7, <1>8, <1>9, <1>10, <1>11

\* A demo that is served with its company is whole, for any list of commits, unless
\* a start ended early (seed_demo_data).
THEOREM DemoComesWhole == Spec => []DemoIsWhole
<1>1. Init => DemoInv
  BY DEF Init, DemoInv
<1>2. DemoInv => DemoIsWhole
  BY DEF DemoInv, DemoIsWhole
<1> QED BY <1>1, <1>2, DemoStep, SeedInvariant, PTL DEF Spec
=============================================================================
