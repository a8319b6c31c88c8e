---------------------------- MODULE ImportProofs ----------------------------
(***************************************************************************)
(* Proofs about imports, for every database, every file of any length and  *)
(* every interleaving with the record pages.                               *)
(*                                                                         *)
(* Both loops of app/data_management.py are folds over the rows of a file. *)
(* The first part shows that a fold is its turns, one after the other; the *)
(* second what one turn of build_import_plan does and, by induction, what  *)
(* a plan says (Planning); the third the same of apply_import's write loop *)
(* (Writing).  Importing puts the two together, and is all that the        *)
(* invariant and the properties of Import know of an import.               *)
(***************************************************************************)
EXTENDS Import, DataInduction

-----------------------------------------------------------------------------
(* What the two folds over a file's rows compute: the turns, one by one *)

Untouched == [rows |-> <<>>, seen |-> {}, remap |-> [k \in {} |-> None]]

\* The turns of build_import_plan's loop, from none to all of the rows.
PlanTurns(db0, mode, file, acc) ==
  /\ acc[0] = Untouched
  /\ \A n \in 1 .. Len(file) : acc[n] = PlanStep(db0, mode, file, acc[n - 1], file[n])

\* A number of the set that no other exceeds is its Max.
LEMMA LargestIs ==
  ASSUME NEW s \in SUBSET Int, NEW m \in s, \A x \in s : x <= m
  PROVE  Max(s) = m
<1>1. \A x \in s : (\A y \in s : x >= y) <=> x = m
  OBVIOUS
<1>2. \E x \in s : \A y \in s : x >= y
  OBVIOUS
<1>3. Max(s) \in s /\ \A y \in s : Max(s) >= y
  BY <1>2 DEF Max
<1> QED BY <1>1, <1>3

\* BuildPlan is the rows its last turn leaves.
LEMMA PlanIsItsTurns ==
  ASSUME NEW db0, NEW mode, NEW file \in Seq(Rows)
  PROVE  \E acc : /\ PlanTurns(db0, mode, file, acc)
                  /\ BuildPlan(db0, mode, file) = acc[Len(file)].rows
<1> DEFINE
      Turn(g, s) == PlanStep(db0, mode, file, g[s \ {Max(s)}], file[Max(s)])
      Fold(g, n) == [s \in SUBSET (1 .. n) |-> IF s = {} THEN Untouched ELSE Turn(g, s)]
      Folds == {n \in Nat : \E g : g = Fold(g, n)}
      iter == CHOOSE g : g = Fold(g, Len(file))
<1>1. DOMAIN file = 1 .. Len(file) /\ Len(file) \in Nat
  OBVIOUS
<1>2. BuildPlan(db0, mode, file) = iter[1 .. Len(file)].rows
  BY <1>1 DEF BuildPlan, FoldLeft, MapThenFoldSet, Untouched
<1>3. 0 \in Folds
  <2> DEFINE g == [s \in SUBSET (1 .. 0) |-> Untouched]
  <2>1. \A s \in SUBSET (1 .. 0) : s = {}
    OBVIOUS
  <2>2. g = Fold(g, 0)
    BY <2>1
  <2> QED BY <2>2
<1>4. \A n \in Folds : n + 1 \in Folds
  <2> SUFFICES ASSUME NEW n \in Folds PROVE n + 1 \in Folds
    OBVIOUS
  <2>n. n \in Nat
    OBVIOUS
  <2>g. PICK g : g = Fold(g, n)
    OBVIOUS
  <2> DEFINE h == [s \in SUBSET (1 .. n + 1) |->
                     IF n + 1 \in s
                     THEN PlanStep(db0, mode, file, g[s \ {n + 1}], file[n + 1])
                     ELSE g[s]]
  <2>1. ASSUME NEW s \in SUBSET (1 .. n + 1)
        PROVE  h[s] = IF s = {} THEN Untouched ELSE Turn(h, s)
    <3>1. CASE n + 1 \in s
      <4>1. Max(s) = n + 1 /\ s # {}
        BY <3>1, LargestIs
      <4>2. s \ {n + 1} \in SUBSET (1 .. n + 1) /\ n + 1 \notin s \ {n + 1}
        OBVIOUS
      <4>3. h[s \ {n + 1}] = g[s \ {n + 1}]
        BY <4>2
      <4> QED BY <3>1, <4>1, <4>3
    <3>2. CASE n + 1 \notin s
      <4>1. s \in SUBSET (1 .. n)
        BY <3>2
      <4>2. s \ {Max(s)} \in SUBSET (1 .. n + 1) /\ n + 1 \notin s \ {Max(s)}
        BY <3>2
      <4>3. h[s \ {Max(s)}] = g[s \ {Max(s)}] /\ h[s] = g[s]
        BY <3>2, <4>2
      <4>4. g[s] = IF s = {} THEN Untouched ELSE Turn(g, s)
        BY <4>1, <2>g
      <4> QED BY <4>3, <4>4
    <3> QED BY <3>1, <3>2
  <2>2. h = Fold(h, n + 1)
    <3> HIDE DEF Turn
    <3> QED BY <2>1
  <2> HIDE DEF h, Fold
  <2>3. \E k : k = Fold(k, n + 1)
    BY <2>2
  <2> QED BY <2>n, <2>3
<1>5. \E g : g = Fold(g, Len(file))
  <2>1. Folds \in SUBSET Nat
    OBVIOUS
  <2> HIDE DEF Folds
  <2>2. Folds = Nat
    BY <1>3, <1>4, <2>1, NatInductionOnSets
  <2> QED BY <1>1, <2>2 DEF Folds
<1>6. iter = Fold(iter, Len(file))
  BY <1>5
<1> HIDE DEF iter
<1> DEFINE acc == [n \in 0 .. Len(file) |-> iter[1 .. n]]
<1>7. acc[0] = Untouched
  BY <1>1, <1>6
<1>8. ASSUME NEW n \in 1 .. Len(file)
      PROVE  acc[n] = PlanStep(db0, mode, file, acc[n - 1], file[n])
  <2>1. Max(1 .. n) = n
    <3>1. 1 .. n \in SUBSET Int /\ n \in 1 .. n /\ \A x \in 1 .. n : x <= n
      BY <1>1
    <3> QED BY <3>1, LargestIs
  <2>2. (1 .. n) \ {n} = 1 .. n - 1 /\ 1 .. n # {} /\ 1 .. n \in SUBSET (1 .. Len(file))
    BY <1>1
  <2>3. iter[1 .. n] = Turn(iter, 1 .. n)
    BY <1>6, <2>2
  <2>4. Turn(iter, 1 .. n) = PlanStep(db0, mode, file, iter[1 .. n - 1], file[n])
    BY <2>1, <2>2
  <2>5. acc[n] = iter[1 .. n] /\ acc[n - 1] = iter[1 .. n - 1]
    BY <1>1
  <2> HIDE DEF acc, Turn
  <2> QED BY <2>3, <2>4, <2>5
<1> HIDE DEF acc
<1>9. PlanTurns(db0, mode, file, acc)
  BY <1>7, <1>8 DEF PlanTurns
<1>10. BuildPlan(db0, mode, file) = acc[Len(file)].rows
  BY <1>1, <1>2 DEF acc
<1> QED BY <1>9, <1>10

\* The turns of apply_import's loop.
Unwritten(db0) == [ok |-> TRUE, db |-> db0, remap |-> [k \in {} |-> None]]
WriteTurn(acc, row) == IF acc.ok THEN WriteRow(acc, row) ELSE acc
WriteTurns(db0, rows, acc) ==
  /\ acc[0] = Unwritten(db0)
  /\ \A n \in 1 .. Len(rows) : acc[n] = WriteTurn(acc[n - 1], rows[n])

\* WriteRows is what the last turn of the write loop leaves.
LEMMA WritesAreTheirTurns ==
  ASSUME NEW db0, NEW rows \in Seq(PlannedRows)
  PROVE  \E acc : /\ WriteTurns(db0, rows, acc)
                  /\ WriteRows(db0, rows) = acc[Len(rows)]
<1> DEFINE
      Turn(g, s) == WriteTurn(g[s \ {Max(s)}], rows[Max(s)])
      Fold(g, n) == [s \in SUBSET (1 .. n) |-> IF s = {} THEN Unwritten(db0) ELSE Turn(g, s)]
      Folds == {n \in Nat : \E g : g = Fold(g, n)}
      iter == CHOOSE g : g = Fold(g, Len(rows))
<1>1. DOMAIN rows = 1 .. Len(rows) /\ Len(rows) \in Nat
  OBVIOUS
<1>2. WriteRows(db0, rows) = iter[1 .. Len(rows)]
  BY <1>1 DEF WriteRows, FoldLeft, MapThenFoldSet, Unwritten, WriteTurn
<1>3. 0 \in Folds
  <2> DEFINE g == [s \in SUBSET (1 .. 0) |-> Unwritten(db0)]
  <2>1. \A s \in SUBSET (1 .. 0) : s = {}
    OBVIOUS
  <2>2. g = Fold(g, 0)
    BY <2>1
  <2> QED BY <2>2
<1>4. \A n \in Folds : n + 1 \in Folds
  <2> SUFFICES ASSUME NEW n \in Folds PROVE n + 1 \in Folds
    OBVIOUS
  <2>n. n \in Nat
    OBVIOUS
  <2>g. PICK g : g = Fold(g, n)
    OBVIOUS
  <2> DEFINE h == [s \in SUBSET (1 .. n + 1) |->
                     IF n + 1 \in s
                     THEN WriteTurn(g[s \ {n + 1}], rows[n + 1])
                     ELSE g[s]]
  <2>1. ASSUME NEW s \in SUBSET (1 .. n + 1)
        PROVE  h[s] = IF s = {} THEN Unwritten(db0) ELSE Turn(h, s)
    <3>1. CASE n + 1 \in s
      <4>1. Max(s) = n + 1 /\ s # {}
        BY <3>1, LargestIs
      <4>2. s \ {n + 1} \in SUBSET (1 .. n + 1) /\ n + 1 \notin s \ {n + 1}
        OBVIOUS
      <4>3. h[s \ {n + 1}] = g[s \ {n + 1}]
        BY <4>2
      <4> QED BY <3>1, <4>1, <4>3
    <3>2. CASE n + 1 \notin s
      <4>1. s \in SUBSET (1 .. n)
        BY <3>2
      <4>2. s \ {Max(s)} \in SUBSET (1 .. n + 1) /\ n + 1 \notin s \ {Max(s)}
        BY <3>2
      <4>3. h[s \ {Max(s)}] = g[s \ {Max(s)}] /\ h[s] = g[s]
        BY <3>2, <4>2
      <4>4. g[s] = IF s = {} THEN Unwritten(db0) ELSE Turn(g, s)
        BY <4>1, <2>g
      <4> QED BY <4>3, <4>4
    <3> QED BY <3>1, <3>2
  <2>2. h = Fold(h, n + 1)
    <3> HIDE DEF Turn
    <3> QED BY <2>1
  <2> HIDE DEF h, Fold
  <2>3. \E k : k = Fold(k, n + 1)
    BY <2>2
  <2> QED BY <2>n, <2>3
<1>5. \E g : g = Fold(g, Len(rows))
  <2>1. Folds \in SUBSET Nat
    OBVIOUS
  <2> HIDE DEF Folds
  <2>2. Folds = Nat
    BY <1>3, <1>4, <2>1, NatInductionOnSets
  <2> QED BY <1>1, <2>2 DEF Folds
<1>6. iter = Fold(iter, Len(rows))
  BY <1>5
<1> HIDE DEF iter
<1> DEFINE acc == [n \in 0 .. Len(rows) |-> iter[1 .. n]]
<1>7. acc[0] = Unwritten(db0)
  BY <1>1, <1>6
<1>8. ASSUME NEW n \in 1 .. Len(rows)
      PROVE  acc[n] = WriteTurn(acc[n - 1], rows[n])
  <2>1. Max(1 .. n) = n
    <3>1. 1 .. n \in SUBSET Int /\ n \in 1 .. n /\ \A x \in 1 .. n : x <= n
      BY <1>1
    <3> QED BY <3>1, LargestIs
  <2>2. (1 .. n) \ {n} = 1 .. n - 1 /\ 1 .. n # {} /\ 1 .. n \in SUBSET (1 .. Len(rows))
    BY <1>1
  <2>3. iter[1 .. n] = Turn(iter, 1 .. n)
    BY <1>6, <2>2
  <2>4. Turn(iter, 1 .. n) = WriteTurn(iter[1 .. n - 1], rows[n])
    BY <2>1, <2>2
  <2>5. acc[n] = iter[1 .. n] /\ acc[n - 1] = iter[1 .. n - 1]
    BY <1>1
  <2> HIDE DEF acc, Turn
  <2> QED BY <2>3, <2>4, <2>5
<1> HIDE DEF acc
<1>9. WriteTurns(db0, rows, acc)
  BY <1>7, <1>8 DEF WriteTurns
<1>10. WriteRows(db0, rows) = acc[Len(rows)]
  BY <1>1, <1>2 DEF acc
<1> QED BY <1>9, <1>10
-----------------------------------------------------------------------------
(* Planning one row *)

Values == [name : Texts \cup {Absent}, note : Texts, link : Ids \cup {None}]

\* The first of several records is one of them.
LEMMA FirstIsOneOf ==
  ASSUME NEW ids \in SUBSET Nat, ids # {}
  PROVE  First(ids) \in ids
<1>1. \E i \in ids : \A j \in ids : i <= j
  BY LeastNumber
<1> QED BY <1>1 DEF First

\* A match is a live record, by its name unless identifiers are restored; where
\* there is none, no record has the key.
LEMMA Matching ==
  ASSUME NEW db0, IsDb(db0), NEW mode, NEW d \in Datasets, NEW id \in Ids \cup {None},
         NEW name, NEW link
  PROVE  LET e == FindExisting(db0, mode, d, id, name, link)
         IN  /\ e = None \/ e \in DOMAIN db0[d]
             /\ mode # "restore" /\ e # None =>
                  db0[d][e].name = name
             /\ e = None /\ name \notin {Absent, Blank} => KeyMatches(db0, d, name, link) = {}
<1> DEFINE matches == KeyMatches(db0, d, name, link)
           e == FindExisting(db0, mode, d, id, name, link)
<1>1. DOMAIN db0[d] \subseteq Nat /\ None \notin DOMAIN db0[d]
  BY ImportAssumption DEF IsDb, Ids
<1>2. matches \subseteq DOMAIN db0[d] /\ \A i \in matches : db0[d][i].name = name
  BY DEF KeyMatches
<1>3. matches # {} => First(matches) \in matches
  BY <1>1, <1>2, FirstIsOneOf
<1>4. CASE mode = "restore" /\ id \in DOMAIN db0[d]
  BY <1>1, <1>4 DEF FindExisting
<1>5. CASE ~(mode = "restore" /\ id \in DOMAIN db0[d])
  <2>1. e = IF name \in {Absent, Blank} \/ matches = {} THEN None ELSE First(matches)
    BY <1>5 DEF FindExisting
  <2> HIDE DEF e, matches
  <2> QED BY <1>1, <1>2, <1>3, <2>1 DEF e, matches
<1> QED BY <1>4, <1>5

\* Merged values have a new record's or the stored one's type, and every column
\* the row has.
LEMMA Merging ==
  ASSUME NEW db0, IsDb(db0), NEW d \in Datasets, NEW e \in DOMAIN db0[d] \cup {None},
         NEW row \in Rows
  PROVE  LET values == Merge(db0, d, e, row)
         IN  /\ values \in Values
             /\ row.name # Absent => values.name = row.name
             /\ row.link # Absent => values.link = row.link
             /\ e = None /\ row.link = Absent => values.link = None
             /\ e = None => values.name = row.name
<1> DEFINE base == IF e = None THEN [name |-> Absent, note |-> Blank, link |-> None]
                   ELSE db0[d][e]
           values == Merge(db0, d, e, row)
<1>1. base \in Values
  BY ImportAssumption DEF IsDb, Records, Links, Values
<1>2. values = [c \in Columns |-> IF row[c] = Absent THEN base[c] ELSE row[c]]
  BY DEF Merge
<1>3. /\ row.name \in Texts \cup {Absent} /\ row.note \in Texts \cup {Absent}
      /\ row.link \in Ids \cup {None, Absent}
  BY DEF Rows
<1>4. /\ values.name = IF row.name = Absent THEN base.name ELSE row.name
      /\ values.note = IF row.note = Absent THEN base.note ELSE row.note
      /\ values.link = IF row.link = Absent THEN base.link ELSE row.link
  BY <1>2 DEF Columns
<1>5. values \in Values
  <2>1. values = [name |-> values.name, note |-> values.note, link |-> values.link]
    BY <1>2 DEF Columns
  <2>2. values.name \in Texts \cup {Absent} /\ values.note \in Texts
        /\ values.link \in Ids \cup {None}
    BY <1>1, <1>3, <1>4 DEF Values
  <2> HIDE DEF values
  <2> QED BY <2>1, <2>2 DEF Values
<1> QED BY <1>4, <1>5, <1>3

\* The row of the file that alone declares the number a link names, if there
\* is one.
LEMMA OneDeclarer ==
  ASSUME NEW file \in Seq(Rows), NEW t, NEW x
  PROVE  LET parents == Declarers(file, t, x)
         IN  /\ Cardinality(parents) = 1 => \E j \in DOMAIN file : parents = {j}
             /\ Cardinality(parents) = 0 => parents = {}
<1> DEFINE parents == Declarers(file, t, x)
<1>1. parents \subseteq 1 .. Len(file) /\ DOMAIN file = 1 .. Len(file) /\ Len(file) \in Int
  BY DEF Declarers
<1>2. IsFiniteSet(parents)
  BY <1>1, FS_Interval, FS_Subset
<1>3. Cardinality(parents) = 1 => \E j : parents = {j}
  BY <1>2, FS_Singleton
<1>4. Cardinality(parents) = 0 => parents = {}
  BY <1>2, FS_EmptySet
<1> HIDE DEF parents
<1> QED BY <1>1, <1>3, <1>4 DEF parents

\* What the plan says of the row's link.
LinkFrom(file, remap, f, r) ==
  LET t == Target[f.ds]
      parents == Declarers(file, t, f.link)
  IN  /\ r.source = "none" => f.link \in {Absent, None}
      /\ r.source # "none" => f.link \notin {Absent, None}
      /\ r.source = "hub" => parents = {} /\ r.parent = f.link
      /\ r.source = "file" =>
           /\ \E j \in DOMAIN file : parents = {j}
           /\ r.parent = IF <<t, f.link>> \in DOMAIN remap
                           THEN remap[<<t, f.link>>] ELSE None

\* What the plan says of the rest of the row.
RowFrom(db0, mode, f, r) ==
  /\ r.ds = f.ds /\ r.declared = f.id
  /\ r.existing # None => r.existing \in DOMAIN db0[r.ds]
  /\ r.existing # None /\ mode # "restore" => db0[r.ds][r.existing].name = f.name
  /\ mode # "restore" => r.key = None
  /\ f.name # Absent => r.values.name = f.name
  /\ f.link # Absent => r.values.link = f.link
  /\ r.existing = None =>
       /\ r.values.name = f.name
       /\ f.link = Absent => r.values.link = None
  /\ r.status # "error" =>
       /\ r.values.name \notin {Absent, Blank}
       /\ r.ds \in LinkRequired => r.values.link # None
       /\ r.source # "error"
       /\ r.status = "create" <=> r.existing = None
       /\ r.existing = None =>
            KeyMatches(db0, r.ds, f.name, IF r.parent # None THEN r.parent ELSE f.link) = {}
  /\ r.status = "update" => mode # "add_only"

\* PlanRow plans a row as RowFrom and LinkFrom say.
LEMMA PlannedRow ==
  ASSUME NEW db0, IsDb(db0), NEW mode, NEW file \in Seq(Rows), NEW f \in Rows,
         NEW acc, \A k \in DOMAIN acc.remap : acc.remap[k] \in Ids \cup {None}
  PROVE  LET r == PlanRow(db0, mode, file, acc, f)
         IN  r \in PlannedRows /\ RowFrom(db0, mode, f, r) /\ LinkFrom(file, acc.remap, f, r)
<1> DEFINE d == f.ds
           t == Target[d]
           link == PlanLink(db0, file, acc.remap, f)
           match == MatchLink(link, f)
           existing == FindExisting(db0, mode, d, f.id, f.name, match)
           values == Merge(db0, d, existing, f)
           changed == IF existing = None THEN {} ELSE Changed(db0, d, existing, values, link)
           bad == \/ link.source = "error"
                  \/ Invalid(d, values)
                  \/ Identity(d, values) \in acc.seen
           key == IF mode # "restore" THEN None ELSE IF f.id # None THEN f.id ELSE existing
           r == PlanRow(db0, mode, file, acc, f)
<1>1. r = [ds |-> d, declared |-> f.id, existing |-> existing, key |-> key,
           values |-> values, source |-> link.source, parent |-> link.resolved,
           changed |-> changed, status |-> Status(mode, bad, existing, changed)]
  BY DEF PlanRow
<1>2. /\ d \in Datasets /\ t \in Datasets /\ f.id \in Ids \cup {None}
      /\ f.link \in Ids \cup {None, Absent}
  BY DEF Rows, Target, Datasets
<1>3. /\ link.source \in {"none", "file", "hub", "error"}
      /\ link.resolved \in Ids \cup {None}
      /\ LinkFrom(file, acc.remap, f, [source |-> link.source, parent |-> link.resolved])
  <2> DEFINE parents == Declarers(file, t, f.link)
             linked == f.link \notin {Absent, None}
  <2>0. link = CASE ~linked -> NoLink
                 [] linked /\ Cardinality(parents) = 1 ->
                      [source |-> "file",
                       resolved |-> IF <<t, f.link>> \in DOMAIN acc.remap
                                      THEN acc.remap[<<t, f.link>>] ELSE None]
                 [] linked /\ Cardinality(parents) = 0 /\ f.link \in DOMAIN db0[t] ->
                      [source |-> "hub", resolved |-> f.link]
                 [] OTHER -> [source |-> "error", resolved |-> None]
    BY DEF PlanLink
  <2>1. /\ Cardinality(parents) = 1 => \E j \in DOMAIN file : parents = {j}
        /\ Cardinality(parents) = 0 => parents = {}
    BY OneDeclarer
  <2> HIDE DEF link, d, parents
  <2>2. CASE f.link \in {Absent, None}
    <3>1. ~linked
      BY <2>2
    <3> HIDE DEF linked
    <3>2. link = [source |-> "none", resolved |-> None]
      BY <2>0, <3>1 DEF NoLink
    <3> QED BY <3>2, <2>2 DEF LinkFrom
  <2>3. CASE f.link \notin {Absent, None} /\ Cardinality(parents) = 1
    <3>1. link = [source |-> "file",
                  resolved |-> IF <<t, f.link>> \in DOMAIN acc.remap
                                 THEN acc.remap[<<t, f.link>>] ELSE None]
      BY <2>0, <2>3
    <3> QED BY <3>1, <2>1, <2>3 DEF LinkFrom, d, parents
  <2>4. CASE f.link \notin {Absent, None} /\ Cardinality(parents) = 0 /\ f.link \in DOMAIN db0[t]
    <3>1. link = [source |-> "hub", resolved |-> f.link]
      BY <2>0, <2>4
    <3> QED BY <3>1, <2>1, <2>4, <1>2 DEF LinkFrom, d, parents
  <2>5. CASE /\ f.link \notin {Absent, None} /\ Cardinality(parents) # 1
             /\ ~(Cardinality(parents) = 0 /\ f.link \in DOMAIN db0[t])
    <3>1. link = [source |-> "error", resolved |-> None]
      BY <2>0, <2>5
    <3> QED BY <3>1, <2>5 DEF LinkFrom
  <2> QED BY <2>2, <2>3, <2>4, <2>5
<1> HIDE DEF link
<1>4. /\ existing = None \/ existing \in DOMAIN db0[d]
      /\ mode # "restore" /\ existing # None => db0[d][existing].name = f.name
      /\ existing = None /\ f.name \notin {Absent, Blank} =>
           KeyMatches(db0, d, f.name, match) = {}
  BY <1>2, Matching
<1> HIDE DEF existing
<1>5. existing \in Ids \cup {None}
  BY <1>2, <1>4 DEF IsDb
<1>6. /\ values \in Values
      /\ f.name # Absent => values.name = f.name
      /\ f.link # Absent => values.link = f.link
      /\ existing = None /\ f.link = Absent => values.link = None
      /\ existing = None => values.name = f.name
  <2>1. existing \in DOMAIN db0[d] \cup {None}
    BY <1>4
  <2> HIDE DEF d
  <2>2. d \in Datasets
    BY <1>2
  <2> QED BY <2>1, <2>2, Merging
<1> HIDE DEF values
<1>7. changed \in SUBSET Columns
  BY DEF Changed, Columns
<1> HIDE DEF changed
<1>8. /\ key \in Ids \cup {None}
      /\ mode # "restore" => key = None
  BY <1>2, <1>5
<1> HIDE DEF key
<1>9. /\ Status(mode, bad, existing, changed) \in {"create", "skip", "update", "error"}
      /\ Status(mode, bad, existing, changed) # "error" =>
           ~bad /\ (Status(mode, bad, existing, changed) = "create" <=> existing = None)
      /\ Status(mode, bad, existing, changed) = "update" => mode # "add_only"
  <2> HIDE DEF bad
  <2>1. CASE bad
    BY <2>1 DEF Status
  <2>2. CASE ~bad /\ existing = None
    BY <2>2 DEF Status
  <2>3. CASE ~bad /\ existing # None /\ (mode = "add_only" \/ changed = {})
    BY <2>3 DEF Status
  <2>4. CASE ~bad /\ existing # None /\ ~(mode = "add_only" \/ changed = {})
    BY <2>4 DEF Status
  <2> QED BY <2>1, <2>2, <2>3, <2>4
<1>10. ~bad => /\ link.source # "error"
               /\ values.name \notin {Absent, Blank}
               /\ d \in LinkRequired => values.link # None
  BY DEF Invalid
<1> DEFINE status == Status(mode, bad, existing, changed)
<1>11. r \in PlannedRows
  <2> HIDE DEF status, d, r
  <2>1. r = [ds |-> d, declared |-> f.id, existing |-> existing, key |-> key,
           values |-> values, source |-> link.source, parent |-> link.resolved,
           changed |-> changed, status |-> status]
    BY <1>1 DEF status, d
  <2>2. d \in Datasets /\ status \in {"create", "skip", "update", "error"}
    BY <1>2, <1>9 DEF d, status
  <2> QED BY <2>1, <2>2, <1>2, <1>3, <1>5, <1>6, <1>7, <1>8 DEF PlannedRows, Values
<1>12. match = IF link.resolved # None THEN link.resolved ELSE f.link
  BY DEF MatchLink
<1> HIDE DEF match, bad
<1>13. RowFrom(db0, mode, f, r)
  BY <1>1, <1>4, <1>6, <1>8, <1>9, <1>10, <1>12 DEF RowFrom
<1>14. LinkFrom(file, acc.remap, f, r)
  BY <1>1, <1>3 DEF LinkFrom
<1> QED BY <1>11, <1>13, <1>14

-----------------------------------------------------------------------------
(* The plan of a file *)

\* What the plan remembers of the first n rows: under the identifier each of
\* them declares, the record a row that declares it was matched with.
RemapFrom(file, rows, n, remap) ==
  /\ \A k \in DOMAIN remap : \E j \in 1 .. n :
       k = <<file[j].ds, file[j].id>> /\ remap[k] = rows[j].existing
  /\ \A j \in 1 .. n : <<file[j].ds, file[j].id>> \in DOMAIN remap

\* A link into the file has the record its parent's row was matched with, if
\* that row comes before.
ParentFrom(file, rows, k) ==
  LET f == file[k]
      r == rows[k]
      parents == Declarers(file, Target[f.ds], f.link)
  IN  /\ r.source = "none" => f.link \in {Absent, None}
      /\ r.source # "none" => f.link \notin {Absent, None}
      /\ r.source = "hub" => parents = {} /\ r.parent = f.link
      /\ r.source = "file" =>
           \E j \in DOMAIN file :
             parents = {j} /\ r.parent = IF j < k THEN rows[j].existing ELSE None

PlannedUpTo(db0, mode, file, n, rows) ==
  /\ rows \in Seq(PlannedRows) /\ Len(rows) = n
  /\ \A k \in 1 .. n : RowFrom(db0, mode, file[k], rows[k]) /\ ParentFrom(file, rows, k)

\* One turn of the planning loop.
LEMMA PlanTurn ==
  ASSUME NEW db0, IsDb(db0), NEW mode, NEW file \in Seq(Rows),
         NEW n \in Nat, n < Len(file), NEW a,
         PlannedUpTo(db0, mode, file, n, a.rows), RemapFrom(file, a.rows, n, a.remap)
  PROVE  LET b == PlanStep(db0, mode, file, a, file[n + 1])
         IN  /\ PlannedUpTo(db0, mode, file, n + 1, b.rows)
             /\ RemapFrom(file, b.rows, n + 1, b.remap)
<1> DEFINE f == file[n + 1]
           r == PlanRow(db0, mode, file, a, f)
           b == PlanStep(db0, mode, file, a, f)
           at == <<f.ds, f.id>>
<1>1. f \in Rows /\ DOMAIN file = 1 .. Len(file) /\ Len(file) \in Nat
  OBVIOUS
<1>2. /\ a.rows \in Seq(PlannedRows) /\ Len(a.rows) = n
      /\ \A k \in 1 .. n : RowFrom(db0, mode, file[k], a.rows[k]) /\ ParentFrom(file, a.rows, k)
  BY DEF PlannedUpTo
<1>3. \A k \in DOMAIN a.remap : a.remap[k] \in Ids \cup {None}
  <2>1. \A j \in 1 .. n : a.rows[j] \in PlannedRows
    BY <1>2
  <2>2. \A j \in 1 .. n : a.rows[j].existing \in Ids \cup {None}
    BY <2>1 DEF PlannedRows
  <2> QED BY <2>2 DEF RemapFrom
<1>4. r \in PlannedRows /\ RowFrom(db0, mode, f, r) /\ LinkFrom(file, a.remap, f, r)
  BY <1>1, <1>3, PlannedRow
<1>5. /\ b.rows = Append(a.rows, r)
      /\ b.remap = [k \in DOMAIN a.remap \cup {at} |->
                      IF k = at THEN r.existing ELSE a.remap[k]]
  BY DEF PlanStep
<1> HIDE DEF r, b
<1>6. /\ b.rows \in Seq(PlannedRows) /\ Len(b.rows) = n + 1
      /\ \A k \in 1 .. n : b.rows[k] = a.rows[k]
      /\ b.rows[n + 1] = r
  BY <1>2, <1>4, <1>5
<1>7. ParentFrom(file, b.rows, n + 1)
  <2> DEFINE t == Target[f.ds]
             parents == Declarers(file, t, f.link)
  <2>1. ASSUME NEW j \in DOMAIN file, parents = {j}
        PROVE  (IF <<t, f.link>> \in DOMAIN a.remap THEN a.remap[<<t, f.link>>] ELSE None)
                 = IF j < n + 1 THEN b.rows[j].existing ELSE None
    <3>1. \A i \in DOMAIN file : file[i].ds = t /\ file[i].id = f.link <=> i = j
      BY <2>1 DEF Declarers
    <3>2. CASE j < n + 1
      <4>1. j \in 1 .. n
        BY <1>1, <3>2
      <4>2. <<t, f.link>> \in DOMAIN a.remap
        BY <3>1, <4>1 DEF RemapFrom
      <4>3. PICK i \in 1 .. n : /\ <<t, f.link>> = <<file[i].ds, file[i].id>>
                                /\ a.remap[<<t, f.link>>] = a.rows[i].existing
        BY <4>2 DEF RemapFrom
      <4>4. i = j
        BY <1>1, <3>1, <4>3
      <4> QED BY <1>6, <3>2, <4>1, <4>2, <4>3, <4>4
    <3>3. CASE ~(j < n + 1)
      <4>1. <<t, f.link>> \notin DOMAIN a.remap
        <5> SUFFICES ASSUME <<t, f.link>> \in DOMAIN a.remap PROVE FALSE
          OBVIOUS
        <5>1. PICK i \in 1 .. n : <<t, f.link>> = <<file[i].ds, file[i].id>>
          BY DEF RemapFrom
        <5>2. i = j
          BY <1>1, <3>1, <5>1
        <5> QED BY <3>3, <5>2
      <4> QED BY <3>3, <4>1
    <3> QED BY <3>2, <3>3
  <2> QED BY <1>4, <1>6, <2>1 DEF LinkFrom, ParentFrom
<1>8. ASSUME NEW k \in 1 .. n
      PROVE  ParentFrom(file, b.rows, k)
  <2>1. ParentFrom(file, a.rows, k) /\ b.rows[k] = a.rows[k]
    BY <1>2, <1>6
  <2>2. \A j \in DOMAIN file : j < k => b.rows[j] = a.rows[j]
    BY <1>1, <1>6
  <2> QED BY <2>1, <2>2 DEF ParentFrom
<1>9. PlannedUpTo(db0, mode, file, n + 1, b.rows)
  <2>1. \A k \in 1 .. n + 1 : k \in 1 .. n \/ k = n + 1
    OBVIOUS
  <2>2. \A k \in 1 .. n + 1 : RowFrom(db0, mode, file[k], b.rows[k])
    BY <1>2, <1>4, <1>6, <2>1
  <2>3. \A k \in 1 .. n + 1 : ParentFrom(file, b.rows, k)
    BY <1>7, <1>8, <2>1
  <2> QED BY <1>6, <2>2, <2>3 DEF PlannedUpTo
<1>10. RemapFrom(file, b.rows, n + 1, b.remap)
  <2>1. DOMAIN b.remap = DOMAIN a.remap \cup {at}
    BY <1>5
  <2>2. ASSUME NEW k \in DOMAIN b.remap
        PROVE  \E j \in 1 .. n + 1 :
                 k = <<file[j].ds, file[j].id>> /\ b.remap[k] = b.rows[j].existing
    <3>1. CASE k = at
      <4>1. b.remap[k] = r.existing /\ n + 1 \in 1 .. n + 1
        BY <1>5, <3>1
      <4> QED BY <1>6, <3>1, <4>1
    <3>2. CASE k # at
      <4>1. k \in DOMAIN a.remap /\ b.remap[k] = a.remap[k]
        BY <1>5, <3>2
      <4>2. PICK j \in 1 .. n : k = <<file[j].ds, file[j].id>> /\ a.remap[k] = a.rows[j].existing
        BY <4>1 DEF RemapFrom
      <4> QED BY <1>6, <4>1, <4>2
    <3> QED BY <3>1, <3>2
  <2>3. \A j \in 1 .. n + 1 : <<file[j].ds, file[j].id>> \in DOMAIN b.remap
    <3>1. \A j \in 1 .. n + 1 : j \in 1 .. n \/ j = n + 1
      OBVIOUS
    <3> QED BY <2>1, <3>1 DEF RemapFrom
  <2> QED BY <2>2, <2>3 DEF RemapFrom
<1> QED BY <1>9, <1>10 DEF b

\* No row of a plan without errors writes a key that an earlier row has written.
ToldApart(rows, n) ==
  \A k, l \in 1 .. n :
    k < l /\ rows[l].status # "error" =>
      Identity(rows[k].ds, rows[k].values) # Identity(rows[l].ds, rows[l].values)

SeenFrom(rows, n, seen) ==
  /\ \A k \in 1 .. n : Identity(rows[k].ds, rows[k].values) \in seen
  /\ ToldApart(rows, n)

\* One turn of the planning loop refuses a key it has seen and remembers its own.
LEMMA SeenTurn ==
  ASSUME NEW db0, IsDb(db0), NEW mode, NEW file \in Seq(Rows), NEW n \in Nat, NEW a, NEW f,
         Len(a.rows) = n, a.rows \in Seq(PlannedRows), SeenFrom(a.rows, n, a.seen),
         PlanStep(db0, mode, file, a, f).rows \in Seq(PlannedRows)
  PROVE  LET b == PlanStep(db0, mode, file, a, f) IN SeenFrom(b.rows, n + 1, b.seen)
<1> DEFINE r == PlanRow(db0, mode, file, a, f)
           b == PlanStep(db0, mode, file, a, f)
           new == Identity(r.ds, r.values)
<1>1. b.rows = Append(a.rows, r) /\ b.seen = a.seen \cup {new}
  BY DEF PlanStep, PlanRow
<1>2. r.status # "error" => new \notin a.seen
  BY DEF PlanRow, Status
<1> HIDE DEF r, b
<1>3. (\A k \in 1 .. n : b.rows[k] = a.rows[k]) /\ b.rows[n + 1] = r
  BY <1>1
<1>4. \A k \in 1 .. n + 1 : k \in 1 .. n \/ k = n + 1
  OBVIOUS
<1>5. \A k \in 1 .. n + 1 : Identity(b.rows[k].ds, b.rows[k].values) \in b.seen
  BY <1>1, <1>3, <1>4 DEF SeenFrom
<1>6. ASSUME NEW k \in 1 .. n + 1, NEW l \in 1 .. n + 1, k < l, b.rows[l].status # "error"
      PROVE  Identity(b.rows[k].ds, b.rows[k].values) # Identity(b.rows[l].ds, b.rows[l].values)
  <2>1. k \in 1 .. n /\ b.rows[k] = a.rows[k]
    BY <1>3, <1>6
  <2>2. CASE l = n + 1
    BY <1>2, <1>3, <1>6, <2>1, <2>2 DEF SeenFrom
  <2>3. CASE l \in 1 .. n
    BY <1>3, <1>6, <2>1, <2>3 DEF SeenFrom, ToldApart
  <2> QED BY <1>4, <2>2, <2>3
<1> QED BY <1>5, <1>6 DEF SeenFrom, ToldApart, b

\* Every row of a plan is planned by the rules, whatever the file: the rest of
\* the proofs knows build_import_plan by this.
LEMMA Planning ==
  ASSUME NEW db0, IsDb(db0), NEW mode, NEW file \in Seq(Rows)
  PROVE  LET rows == BuildPlan(db0, mode, file)
         IN  PlannedUpTo(db0, mode, file, Len(file), rows) /\ ToldApart(rows, Len(file))
<1>1. PICK acc : /\ PlanTurns(db0, mode, file, acc)
                 /\ BuildPlan(db0, mode, file) = acc[Len(file)].rows
  BY PlanIsItsTurns
<1> DEFINE Good(n) == /\ PlannedUpTo(db0, mode, file, n, acc[n].rows)
                      /\ RemapFrom(file, acc[n].rows, n, acc[n].remap)
                      /\ SeenFrom(acc[n].rows, n, acc[n].seen)
           S == {n \in 0 .. Len(file) : Good(n)}
<1>2. 0 \in S
  <2>1. acc[0].rows = <<>> /\ DOMAIN acc[0].remap = {}
    BY <1>1 DEF PlanTurns, Untouched
  <2>2. PlannedUpTo(db0, mode, file, 0, acc[0].rows)
    BY <2>1 DEF PlannedUpTo
  <2>3. RemapFrom(file, acc[0].rows, 0, acc[0].remap)
    BY <2>1 DEF RemapFrom
  <2>4. SeenFrom(acc[0].rows, 0, acc[0].seen)
    BY DEF SeenFrom, ToldApart
  <2> QED BY <2>2, <2>3, <2>4
<1>3. ASSUME NEW n \in 0 .. Len(file) - 1, n \in S
      PROVE  n + 1 \in S
  <2>1. n \in Nat /\ n < Len(file) /\ n + 1 \in 1 .. Len(file)
    OBVIOUS
  <2>2. acc[n + 1] = PlanStep(db0, mode, file, acc[n], file[n + 1])
    BY <1>1, <2>1 DEF PlanTurns
  <2>3. Good(n)
    BY <1>3
  <2>4. /\ PlannedUpTo(db0, mode, file, n + 1, acc[n + 1].rows)
        /\ RemapFrom(file, acc[n + 1].rows, n + 1, acc[n + 1].remap)
    BY <2>1, <2>2, <2>3, PlanTurn
  <2>5. SeenFrom(acc[n + 1].rows, n + 1, acc[n + 1].seen)
    <3>1. /\ Len(acc[n].rows) = n /\ acc[n].rows \in Seq(PlannedRows)
          /\ acc[n + 1].rows \in Seq(PlannedRows)
      BY <2>3, <2>4 DEF PlannedUpTo
    <3> QED BY <2>1, <2>2, <2>3, <3>1, SeenTurn
  <2> QED BY <2>1, <2>4, <2>5
<1>4. Len(file) \in Nat
  OBVIOUS
<1>5. \A n \in 0 .. Len(file) : n \in S
  <2> HIDE DEF S
  <2> QED BY <1>2, <1>3, <1>4, InductionUpTo
<1>6. Good(Len(file))
  BY <1>4, <1>5
<1> QED BY <1>1, <1>6 DEF SeenFrom

-----------------------------------------------------------------------------
(* Writing one row *)

\* The identifier the database gives a new record is a number it gives.
LEMMA NextIdIsOne ==
  ASSUME NEW x, IsDb(x), NEW d \in Datasets
  PROVE  NextId(x[d]) \in Ids
<1> DEFINE used == {0} \cup DOMAIN x[d]
<1>1. used \in SUBSET Nat /\ used # {}
  BY DEF IsDb, Ids
<1>2. IsFiniteSet(used)
  BY FS_Singleton, FS_Union DEF IsDb
<1>3. PICK m \in used : \A n \in used : n <= m
  BY <1>1, <1>2, FiniteMaximum
<1>4. Max(used) = m
  BY <1>1, <1>3, LargestIs
<1>5. m \in Nat
  BY <1>1
<1> QED BY <1>4, <1>5 DEF NextId, Ids

\* What a plan without errors gives the write loop.
Writable(db0, rows) ==
  /\ rows \in Seq(PlannedRows)
  /\ \A k \in 1 .. Len(rows) :
       /\ rows[k].status \in {"create", "skip", "update"}
       /\ rows[k].status = "create" <=> rows[k].existing = None
       /\ rows[k].existing # None => rows[k].existing \in DOMAIN db0[rows[k].ds]
       /\ rows[k].values.name \notin {Absent, Blank}
       /\ rows[k].ds \in LinkRequired => rows[k].values.link # None

\* The record that a row was written to, as the database has it.
Wrote(db0, db1, row, id) ==
  IF row.existing # None THEN id = row.existing
  ELSE /\ id \in DOMAIN db1[row.ds] \ DOMAIN db0[row.ds]
       /\ db1[row.ds][id].name = row.values.name

\* Where a new record written for row k is linked.
LinkWritten(db0, db1, rows, k, link) ==
  LET row == rows[k]
      asked == row.values.link
  IN  /\ asked = None => link = None
      /\ asked # None /\ row.source # "file" => link = asked
      /\ asked # None /\ row.source = "file" =>
           \E j \in 1 .. k - 1 : /\ rows[j].ds = Target[row.ds]
                                 /\ rows[j].declared = asked
                                 /\ Wrote(db0, db1, rows[j], link)

OldRecords(db0, db1, rows, n) ==
  \A d \in Datasets : \A i \in DOMAIN db0[d] :
    \/ db1[d][i] = db0[d][i]
    \/ \E k \in 1 .. n : /\ rows[k].ds = d /\ rows[k].existing = i
                         /\ rows[k].status = "update"
                         /\ db1[d][i].name = rows[k].values.name

NewRecords(db0, db1, rows, n) ==
  \A d \in Datasets : \A i \in DOMAIN db1[d] \ DOMAIN db0[d] :
    \E k \in 1 .. n : /\ rows[k].ds = d /\ rows[k].status = "create"
                      /\ db1[d][i].name = rows[k].values.name
                      /\ LinkWritten(db0, db1, rows, k, db1[d][i].link)

\* Two new records of a table come from two rows.
OneRowEach(db0, db1, rows, n) ==
  \A d \in Datasets : \A i, j \in DOMAIN db1[d] \ DOMAIN db0[d] :
    i # j => \E k, l \in 1 .. n :
      /\ k # l /\ rows[k].ds = d /\ rows[l].ds = d
      /\ rows[k].values.name = db1[d][i].name
      /\ rows[l].values.name = db1[d][j].name

Remembered(db0, db1, rows, n, remap) ==
  \A key \in DOMAIN remap : \E j \in 1 .. n :
    /\ key = <<rows[j].ds, rows[j].declared>>
    /\ Wrote(db0, db1, rows[j], remap[key])

\* What the loop has done to the database after n rows, none of which failed.
WrittenUpTo(db0, rows, n, w) ==
  /\ w = [ok |-> w.ok, db |-> w.db, remap |-> w.remap]
  /\ IsDb(w.db) /\ LinksLead(w.db)
  /\ \A d \in Datasets : DOMAIN db0[d] \subseteq DOMAIN w.db[d]
  /\ OldRecords(db0, w.db, rows, n)
  /\ NewRecords(db0, w.db, rows, n)
  /\ OneRowEach(db0, w.db, rows, n)
  /\ Remembered(db0, w.db, rows, n, w.remap)

\* No table loses a record, and what this import added stays as it was added.
Grows(db0, db1, db2) ==
  \A d \in Datasets :
    /\ DOMAIN db1[d] \subseteq DOMAIN db2[d]
    /\ \A i \in DOMAIN db1[d] \ DOMAIN db0[d] : db2[d][i] = db1[d][i]

\* The record a row was written to stays that while tables only grow.
LEMMA WroteStays ==
  ASSUME NEW db0, NEW db1, NEW db2, Grows(db0, db1, db2),
         NEW row \in PlannedRows, NEW id, Wrote(db0, db1, row, id)
  PROVE  Wrote(db0, db2, row, id)
<1>1. row.ds \in Datasets
  BY DEF PlannedRows
<1> QED BY <1>1 DEF Wrote, Grows

\* So does the parent of a new record.
LEMMA LinkWrittenStays ==
  ASSUME NEW db0, NEW db1, NEW db2, Grows(db0, db1, db2),
         NEW rows \in Seq(PlannedRows), NEW k \in 1 .. Len(rows), NEW link,
         LinkWritten(db0, db1, rows, k, link)
  PROVE  LinkWritten(db0, db2, rows, k, link)
<1>1. \A j \in 1 .. k - 1 : rows[j] \in PlannedRows
  OBVIOUS
<1> QED BY <1>1, WroteStays DEF LinkWritten

\* The link a row is written with: none where it asks for none, and otherwise
\* a live record: the one asked for, or the one its parent's row was written to.
LEMMA Resolving ==
  ASSUME NEW acc, IsDb(acc.db), NEW row \in PlannedRows, ResolvedLink(acc, row) # Absent
  PROVE  LET link == ResolvedLink(acc, row)
             asked == row.values.link
             at == <<Target[row.ds], asked>>
         IN  /\ asked = None => link = None
             /\ asked # None => link \in DOMAIN acc.db[Target[row.ds]]
             /\ asked # None /\ row.source # "file" => link = asked
             /\ asked # None /\ row.source = "file" =>
                  at \in DOMAIN acc.remap /\ link = acc.remap[at]
<1> DEFINE t == Target[row.ds]
           asked == row.values.link
           resolved == IF row.source # "file" THEN asked
                       ELSE IF <<t, asked>> \in DOMAIN acc.remap
                              THEN acc.remap[<<t, asked>>] ELSE Absent
           link == ResolvedLink(acc, row)
<1>1. link = CASE asked = None -> None
               [] asked # None /\ resolved \in DOMAIN acc.db[t] -> resolved
               [] OTHER -> Absent
  BY DEF ResolvedLink
<1>2. Absent \notin DOMAIN acc.db[t]
  <2>1. t \in Datasets
    BY DEF PlannedRows, Target, Datasets
  <2> QED BY <2>1, ImportAssumption DEF IsDb, Ids
<1> HIDE DEF link, t, asked
<1>3. CASE asked = None
  <2>1. link = None
    <3> HIDE DEF resolved
    <3> QED BY <1>1, <1>3
  <2> QED BY <1>3, <2>1 DEF link, asked
<1>4. CASE asked # None
  <2>1. link = resolved /\ resolved \in DOMAIN acc.db[t]
    <3> HIDE DEF resolved
    <3>1. link # Absent
      BY DEF link
    <3> QED BY <1>1, <1>4, <3>1
  <2> QED BY <1>2, <1>4, <2>1 DEF link, t, asked
<1> QED BY <1>3, <1>4

\* The turn from a to b writes the row's values, with this link, to record id.
WritesTo(a, row, link, b, id) ==
  LET d == row.ds IN
  /\ row.existing # None => id = row.existing
  /\ row.existing = None => id \notin DOMAIN a.db[d]
  /\ b = [ok |-> a.ok,
          db |-> [a.db EXCEPT ![d] = [i \in DOMAIN a.db[d] \cup {id} |->
                                        IF i = id THEN [row.values EXCEPT !.link = link]
                                        ELSE a.db[d][i]]],
          remap |-> Remember(a, row, id)]

\* A row that is written changes its own record only, and that record is the
\* one it names, or one that no table had before.
LEMMA WritingARow ==
  ASSUME NEW db0, IsDb(db0), NEW rows, Writable(db0, rows),
         NEW n \in Nat, n < Len(rows), NEW a, WrittenUpTo(db0, rows, n, a),
         rows[n + 1].status # "skip", WriteRow(a, rows[n + 1]).ok
  PROVE  LET row == rows[n + 1]
             link == ResolvedLink(a, row)
         IN  /\ link # Absent
             /\ \E id \in Ids : WritesTo(a, row, link, WriteRow(a, row), id)
<1> DEFINE row == rows[n + 1]
           d == row.ds
           link == ResolvedLink(a, row)
           undisclosed == /\ row.existing # None
                          /\ link # a.db[d][row.existing].link
                          /\ "link" \notin row.changed
           id == CASE row.existing # None -> row.existing
                   [] row.existing = None /\ row.key # None -> row.key
                   [] OTHER -> NextId(a.db[d])
           taken == \/ row.existing = None /\ id \in DOMAIN a.db[d]
                    \/ /\ d \in UniqueName
                       /\ \E i \in DOMAIN a.db[d] \ {id} :
                            a.db[d][i].name = row.values.name
           record == [row.values EXCEPT !.link = link]
           table == [i \in DOMAIN a.db[d] \cup {id} |->
                       IF i = id THEN record ELSE a.db[d][i]]
           b == WriteRow(a, row)
<1>1. b = IF link = Absent \/ undisclosed \/ taken THEN Failed(a)
          ELSE [a EXCEPT !.db = [a.db EXCEPT ![d] = table], !.remap = Remember(a, row, id)]
  BY DEF WriteRow
<1>2. a = [ok |-> a.ok, db |-> a.db, remap |-> a.remap] /\ IsDb(a.db)
  BY DEF WrittenUpTo
<1>3. /\ row \in PlannedRows /\ d \in Datasets
      /\ row.existing \in Ids \cup {None} /\ row.key \in Ids \cup {None}
  <2>1. row \in PlannedRows
    BY DEF Writable
  <2> QED BY <2>1 DEF PlannedRows
<1>4. id \in Ids
  <2>1. CASE row.existing # None
    BY <1>3, <2>1
  <2>2. CASE row.existing = None /\ row.key # None
    BY <1>3, <2>2
  <2>3. CASE row.existing = None /\ row.key = None
    <3>1. id = NextId(a.db[d])
      BY <2>3
    <3> QED BY <1>2, <1>3, <3>1, NextIdIsOne
  <2> QED BY <2>1, <2>2, <2>3
<1>5. row.existing # None => id = row.existing
  OBVIOUS
<1> HIDE DEF id, link, b, undisclosed
<1>6. ~Failed(a).ok
  BY <1>2 DEF Failed
<1>7. ~(link = Absent \/ undisclosed \/ taken)
  <2> HIDE DEF taken, table
  <2> QED BY <1>1, <1>6 DEF b
<1>8. b = [ok |-> a.ok, db |-> [a.db EXCEPT ![d] = table], remap |-> Remember(a, row, id)]
  <2> HIDE DEF taken, table
  <2>1. b = [a EXCEPT !.db = [a.db EXCEPT ![d] = table], !.remap = Remember(a, row, id)]
    BY <1>1, <1>7
  <2> QED BY <1>2, <2>1
<1>9. WritesTo(a, row, link, b, id)
  BY <1>5, <1>7, <1>8 DEF WritesTo
<1> QED BY <1>4, <1>7, <1>9 DEF b, link

\* One turn of the write loop that does not fail.
LEMMA WrittenTurn ==
  ASSUME NEW db0, IsDb(db0), NEW rows, Writable(db0, rows),
         NEW n \in Nat, n < Len(rows), NEW a, WrittenUpTo(db0, rows, n, a),
         WriteRow(a, rows[n + 1]).ok
  PROVE  WrittenUpTo(db0, rows, n + 1, WriteRow(a, rows[n + 1]))
<1> DEFINE row == rows[n + 1]
           d == row.ds
           t == Target[d]
           link == ResolvedLink(a, row)
           b == WriteRow(a, row)
<1>1. /\ rows \in Seq(PlannedRows) /\ row \in PlannedRows /\ d \in Datasets
      /\ row.status \in {"create", "skip", "update"}
      /\ row.status = "create" <=> row.existing = None
      /\ row.existing # None => row.existing \in DOMAIN db0[d]
      /\ row.values.name \notin {Absent, Blank}
      /\ d \in LinkRequired => row.values.link # None
  <2>1. n + 1 \in 1 .. Len(rows)
    BY DEF Writable
  <2>2. rows \in Seq(PlannedRows) /\ row \in PlannedRows
    BY <2>1 DEF Writable
  <2> QED BY <2>1, <2>2 DEF Writable, PlannedRows
<1>2. t \in Datasets
  BY <1>1 DEF Target, Datasets
<1>3. /\ a = [ok |-> a.ok, db |-> a.db, remap |-> a.remap]
      /\ IsDb(a.db) /\ LinksLead(a.db)
      /\ \A e \in Datasets : DOMAIN db0[e] \subseteq DOMAIN a.db[e]
      /\ OldRecords(db0, a.db, rows, n)
      /\ NewRecords(db0, a.db, rows, n)
      /\ OneRowEach(db0, a.db, rows, n)
      /\ Remembered(db0, a.db, rows, n, a.remap)
  BY DEF WrittenUpTo
<1>4. 1 .. n \subseteq 1 .. n + 1 /\ n + 1 \in 1 .. n + 1 /\ n + 1 \in 1 .. Len(rows)
  BY <1>1
<1>r. ASSUME NEW db1, NEW remap, NEW id, Grows(db0, a.db, db1), Wrote(db0, db1, row, id),
             remap = Remember(a, row, id)
      PROVE  Remembered(db0, db1, rows, n + 1, remap)
  <2>1. ASSUME NEW k \in DOMAIN remap
        PROVE  \E j \in 1 .. n + 1 : /\ k = <<rows[j].ds, rows[j].declared>>
                                     /\ Wrote(db0, db1, rows[j], remap[k])
    <3>1. CASE row.declared # None /\ k = <<d, row.declared>>
      <4>1. remap[k] = id
        BY <1>r, <3>1 DEF Remember
      <4> QED BY <1>4, <1>r, <3>1, <4>1
    <3>2. CASE ~(row.declared # None /\ k = <<d, row.declared>>)
      <4>1. k \in DOMAIN a.remap /\ remap[k] = a.remap[k]
        BY <1>r, <3>2 DEF Remember
      <4>2. PICK j \in 1 .. n : /\ k = <<rows[j].ds, rows[j].declared>>
                                /\ Wrote(db0, a.db, rows[j], a.remap[k])
        BY <1>3, <4>1 DEF Remembered
      <4>3. rows[j] \in PlannedRows
        BY <1>1, <1>4
      <4>4. Wrote(db0, db1, rows[j], remap[k])
        BY <1>r, <4>1, <4>2, <4>3, WroteStays
      <4> QED BY <1>4, <4>2, <4>4
    <3> QED BY <3>1, <3>2
  <2> QED BY <2>1 DEF Remembered
<1>5. CASE row.status = "skip"
  <2>1. b = [ok |-> a.ok, db |-> a.db, remap |-> Remember(a, row, row.existing)]
    <3>1. b = [a EXCEPT !.remap = Remember(a, row, row.existing)]
      BY <1>5 DEF WriteRow
    <3> QED BY <1>3, <3>1
  <2>2. Grows(db0, a.db, a.db)
    BY DEF Grows
  <2>3. Wrote(db0, a.db, row, row.existing)
    BY <1>1, <1>5 DEF Wrote
  <2>4. Remembered(db0, a.db, rows, n + 1, Remember(a, row, row.existing))
    BY <1>r, <2>2, <2>3
  <2>5. OldRecords(db0, a.db, rows, n + 1)
    BY <1>3, <1>4 DEF OldRecords
  <2>6. NewRecords(db0, a.db, rows, n + 1)
    BY <1>3, <1>4 DEF NewRecords
  <2>7. OneRowEach(db0, a.db, rows, n + 1)
    BY <1>3, <1>4 DEF OneRowEach
  <2> HIDE DEF b
  <2>8. WrittenUpTo(db0, rows, n + 1, b)
    BY <1>3, <2>1, <2>4, <2>5, <2>6, <2>7 DEF WrittenUpTo
  <2> QED BY <2>8 DEF b
<1>6. CASE row.status # "skip"
  <2>l. link # Absent
    BY <1>6, WritingARow
  <2>p. PICK id \in Ids : WritesTo(a, row, link, b, id)
    BY <1>6, WritingARow
  <2> DEFINE record == [row.values EXCEPT !.link = link]
  <2>id. /\ row.existing # None => id = row.existing
         /\ row.existing = None => id \notin DOMAIN a.db[d]
    BY <2>p DEF WritesTo
  <2>1. /\ DOMAIN a.db = Datasets /\ DOMAIN b.db = Datasets
        /\ DOMAIN b.db[d] = DOMAIN a.db[d] \cup {id}
        /\ b.db[d][id] = record
        /\ \A i \in DOMAIN a.db[d] \ {id} : b.db[d][i] = a.db[d][i]
        /\ \A e \in Datasets \ {d} : b.db[e] = a.db[e]
        /\ b.remap = Remember(a, row, id)
        /\ b = [ok |-> b.ok, db |-> b.db, remap |-> b.remap]
    <3> HIDE DEF b
    <3>1. DOMAIN a.db = Datasets
      BY <1>3 DEF IsDb
    <3> DEFINE table == [i \in DOMAIN a.db[d] \cup {id} |->
                           IF i = id THEN record ELSE a.db[d][i]]
    <3>2. b = [ok |-> a.ok, db |-> [a.db EXCEPT ![d] = table], remap |-> Remember(a, row, id)]
      BY <2>p DEF WritesTo
    <3>3. b.db = [a.db EXCEPT ![d] = table]
      BY <3>2
    <3>4. b.db[d] = table /\ \A e \in Datasets \ {d} : b.db[e] = a.db[e]
      <4> HIDE DEF table, d
      <4>1. d \in Datasets
        BY <1>1
      <4> QED BY <3>1, <3>3, <4>1
    <3>5. DOMAIN b.db = Datasets
      <4> HIDE DEF table, d
      <4> QED BY <3>1, <3>3
    <3>6. DOMAIN table = DOMAIN a.db[d] \cup {id}
      OBVIOUS
    <3>7. table[id] = record /\ \A i \in DOMAIN a.db[d] \ {id} : table[i] = a.db[d][i]
      <4> HIDE DEF record
      <4> QED OBVIOUS
    <3> HIDE DEF table, record
    <3>8. b.remap = Remember(a, row, id) /\ b = [ok |-> b.ok, db |-> b.db, remap |-> b.remap]
      BY <3>2
    <3> QED BY <3>1, <3>4, <3>5, <3>6, <3>7, <3>8
  <2>2. /\ row.values.link = None => link = None
        /\ row.values.link # None => link \in DOMAIN a.db[t]
        /\ row.values.link # None /\ row.source # "file" => link = row.values.link
        /\ row.values.link # None /\ row.source = "file" =>
             /\ <<t, row.values.link>> \in DOMAIN a.remap
             /\ link = a.remap[<<t, row.values.link>>]
    BY <1>1, <1>3, <2>l, Resolving
  <2> HIDE DEF b, link
  <2>3. record \in Records(d) /\ record.name = row.values.name /\ record.link = link
    <3>1. /\ row.values \in [name : Texts \cup {Absent}, note : Texts, link : Ids \cup {None}]
          /\ row.values.name \in Texts \ {Blank}
      BY <1>1 DEF PlannedRows
    <3>2. link \in Ids \cup {None}
      BY <1>2, <1>3, <2>2 DEF IsDb
    <3>3. None \notin Ids
      BY ImportAssumption DEF Ids
    <3>4. d \in LinkRequired => link \in Ids
      BY <1>1, <1>2, <1>3, <2>2 DEF IsDb
    <3>5. link \in Links(d)
      BY <3>2, <3>4 DEF Links
    <3>6. record = [name |-> row.values.name, note |-> row.values.note, link |-> link]
      BY <3>1
    <3> QED BY <3>1, <3>5, <3>6 DEF Records
  <2> HIDE DEF record
  <2>4. \A e \in Datasets : DOMAIN a.db[e] \subseteq DOMAIN b.db[e]
    BY <2>1
  <2>5. Grows(db0, a.db, b.db)
    <3>1. id \notin DOMAIN a.db[d] \ DOMAIN db0[d]
      BY <1>1, <2>id
    <3> QED BY <2>1, <2>4, <3>1 DEF Grows
  <2>6. IsDb(b.db)
    <3>1. IsFiniteSet(DOMAIN b.db[d])
      <4>1. IsFiniteSet(DOMAIN a.db[d])
        BY <1>1, <1>3 DEF IsDb
      <4> HIDE DEF d
      <4>2. IsFiniteSet(DOMAIN a.db[d] \cup {id})
        BY <4>1, FS_AddElement
      <4> QED BY <2>1, <4>2
    <3>2. \A i \in DOMAIN b.db[d] : b.db[d][i] \in Records(d)
      BY <1>1, <1>3, <2>1, <2>3 DEF IsDb
    <3> QED BY <1>3, <2>1, <3>1, <3>2 DEF IsDb
  <2>7. LinksLead(b.db)
    <3>1. ASSUME NEW e \in Datasets, NEW i \in DOMAIN b.db[e], b.db[e][i].link # None
          PROVE  b.db[e][i].link \in DOMAIN b.db[Target[e]]
      <4>1. Target[e] \in Datasets
        BY DEF Target, Datasets
      <4>2. CASE e = d /\ i = id
        BY <1>2, <2>1, <2>2, <2>3, <2>4, <3>1, <4>2
      <4>3. CASE ~(e = d /\ i = id)
        <5>1. i \in DOMAIN a.db[e] /\ b.db[e][i] = a.db[e][i]
          BY <2>1, <4>3
        <5> QED BY <1>3, <2>4, <3>1, <4>1, <5>1 DEF LinksLead
      <4> QED BY <4>2, <4>3
    <3> QED BY <3>1 DEF LinksLead
  <2>8. OldRecords(db0, b.db, rows, n + 1)
    <3>1. ASSUME NEW e \in Datasets, NEW i \in DOMAIN db0[e]
          PROVE  \/ b.db[e][i] = db0[e][i]
                 \/ \E k \in 1 .. n + 1 : /\ rows[k].ds = e /\ rows[k].existing = i
                                          /\ rows[k].status = "update"
                                          /\ b.db[e][i].name = rows[k].values.name
      <4>1. CASE e = d /\ i = id
        <5>1. row.existing = id /\ row.status = "update"
          BY <1>1, <1>3, <1>6, <2>id, <3>1, <4>1
        <5> QED BY <1>4, <2>1, <2>3, <4>1, <5>1
      <4>2. CASE ~(e = d /\ i = id)
        <5>1. b.db[e][i] = a.db[e][i]
          BY <1>3, <2>1, <3>1, <4>2
        <5> QED BY <1>3, <1>4, <3>1, <5>1 DEF OldRecords
      <4> QED BY <4>1, <4>2
    <3> QED BY <3>1 DEF OldRecords
  <2>9. NewRecords(db0, b.db, rows, n + 1)
    <3>1. ASSUME NEW e \in Datasets, NEW i \in DOMAIN b.db[e] \ DOMAIN db0[e]
          PROVE  \E k \in 1 .. n + 1 : /\ rows[k].ds = e /\ rows[k].status = "create"
                                       /\ b.db[e][i].name = rows[k].values.name
                                       /\ LinkWritten(db0, b.db, rows, k, b.db[e][i].link)
      <4>1. CASE e = d /\ i = id
        <5>1. row.status = "create"
          BY <1>1, <2>id, <3>1, <4>1
        <5>2. LinkWritten(db0, b.db, rows, n + 1, link)
          <6>1. ASSUME row.values.link # None, row.source = "file"
                PROVE  \E j \in 1 .. n : /\ rows[j].ds = t
                                         /\ rows[j].declared = row.values.link
                                         /\ Wrote(db0, b.db, rows[j], link)
            <7>1. /\ <<t, row.values.link>> \in DOMAIN a.remap
                  /\ link = a.remap[<<t, row.values.link>>]
              BY <2>2, <6>1
            <7>2. PICK j \in 1 .. n :
                    /\ <<t, row.values.link>> = <<rows[j].ds, rows[j].declared>>
                    /\ Wrote(db0, a.db, rows[j], link)
              BY <1>3, <7>1 DEF Remembered
            <7>3. rows[j] \in PlannedRows
              BY <1>1, <1>4
            <7>4. Wrote(db0, b.db, rows[j], link)
              BY <2>5, <7>2, <7>3, WroteStays
            <7> QED BY <7>2, <7>4
          <6>2. n + 1 - 1 = n
            OBVIOUS
          <6> QED BY <2>2, <6>1, <6>2 DEF LinkWritten
        <5> QED BY <1>4, <2>1, <2>3, <4>1, <5>1, <5>2
      <4>2. CASE ~(e = d /\ i = id)
        <5>1. i \in DOMAIN a.db[e] \ DOMAIN db0[e] /\ b.db[e][i] = a.db[e][i]
          BY <2>1, <3>1, <4>2
        <5>2. PICK k \in 1 .. n : /\ rows[k].ds = e /\ rows[k].status = "create"
                                  /\ a.db[e][i].name = rows[k].values.name
                                  /\ LinkWritten(db0, a.db, rows, k, a.db[e][i].link)
          BY <1>3, <5>1 DEF NewRecords
        <5>3. k \in 1 .. Len(rows)
          BY <1>1
        <5>4. LinkWritten(db0, b.db, rows, k, b.db[e][i].link)
          BY <1>1, <2>5, <5>1, <5>2, <5>3, LinkWrittenStays
        <5> QED BY <1>4, <5>1, <5>2, <5>4
      <4> QED BY <4>1, <4>2
    <3> QED BY <3>1 DEF NewRecords
  <2>10. Wrote(db0, b.db, row, id)
    <3>1. row.existing = None => id \notin DOMAIN db0[d]
      BY <1>1, <1>3, <2>id
    <3> QED BY <2>id, <2>1, <2>3, <3>1 DEF Wrote
  <2>11. Remembered(db0, b.db, rows, n + 1, b.remap)
    BY <1>r, <2>1, <2>5, <2>10
  <2>12. \A e \in Datasets : DOMAIN db0[e] \subseteq DOMAIN b.db[e]
    BY <1>3, <2>4
  <2>13. OneRowEach(db0, b.db, rows, n + 1)
    <3>1. ASSUME NEW i \in DOMAIN a.db[d] \ DOMAIN db0[d], i # id, row.existing = None
          PROVE  \E k \in 1 .. n : rows[k].ds = d /\ rows[k].values.name = a.db[d][i].name
      BY <1>1, <1>3, <3>1 DEF NewRecords
    <3>2. ASSUME NEW e \in Datasets, NEW i \in DOMAIN b.db[e] \ DOMAIN db0[e],
                 NEW j \in DOMAIN b.db[e] \ DOMAIN db0[e], i # j
          PROVE  \E k, l \in 1 .. n + 1 :
                   /\ k # l /\ rows[k].ds = e /\ rows[l].ds = e
                   /\ rows[k].values.name = b.db[e][i].name
                   /\ rows[l].values.name = b.db[e][j].name
      <4>0. \A k \in 1 .. n : k # n + 1
        OBVIOUS
      <4>1. CASE e = d /\ i = id
        <5>1. row.existing = None /\ j \in DOMAIN a.db[d] \ DOMAIN db0[d] /\ j # id
          BY <1>1, <2>id, <2>1, <3>2, <4>1
        <5>2. PICK l \in 1 .. n : rows[l].ds = d /\ rows[l].values.name = a.db[d][j].name
          BY <3>1, <5>1
        <5> QED BY <1>4, <2>1, <2>3, <4>0, <4>1, <5>1, <5>2
      <4>2. CASE e = d /\ j = id
        <5>1. row.existing = None /\ i \in DOMAIN a.db[d] \ DOMAIN db0[d] /\ i # id
          BY <1>1, <2>id, <2>1, <3>2, <4>2
        <5>2. PICK k \in 1 .. n : rows[k].ds = d /\ rows[k].values.name = a.db[d][i].name
          BY <3>1, <5>1
        <5> QED BY <1>4, <2>1, <2>3, <4>0, <4>2, <5>1, <5>2
      <4>3. CASE ~(e = d /\ id \in {i, j})
        <5>1. /\ i \in DOMAIN a.db[e] \ DOMAIN db0[e] /\ b.db[e][i] = a.db[e][i]
              /\ j \in DOMAIN a.db[e] \ DOMAIN db0[e] /\ b.db[e][j] = a.db[e][j]
          BY <2>1, <3>2, <4>3
        <5> QED BY <1>3, <1>4, <3>2, <5>1 DEF OneRowEach
      <4> QED BY <4>1, <4>2, <4>3
    <3> QED BY <3>2 DEF OneRowEach
  <2>14. WrittenUpTo(db0, rows, n + 1, b)
    BY <2>1, <2>6, <2>7, <2>8, <2>9, <2>11, <2>12, <2>13 DEF WrittenUpTo
  <2> QED BY <2>14 DEF b
<1> QED BY <1>5, <1>6

-----------------------------------------------------------------------------
(* Writing a plan *)

\* If the loop reaches its end, everything it has written is as WrittenUpTo says.
LEMMA Writing ==
  ASSUME NEW db0, IsDb(db0), LinksLead(db0), NEW rows, Writable(db0, rows),
         WriteRows(db0, rows).ok
  PROVE  WrittenUpTo(db0, rows, Len(rows), WriteRows(db0, rows))
<1>1. rows \in Seq(PlannedRows) /\ Len(rows) \in Nat
  BY DEF Writable
<1>2. PICK acc : WriteTurns(db0, rows, acc) /\ WriteRows(db0, rows) = acc[Len(rows)]
  BY <1>1, WritesAreTheirTurns
<1> DEFINE S == {n \in 0 .. Len(rows) : acc[n].ok => WrittenUpTo(db0, rows, n, acc[n])}
<1>3. 0 \in S
  <2>1. acc[0] = [ok |-> TRUE, db |-> db0, remap |-> [k \in {} |-> None]]
    BY <1>2 DEF WriteTurns, Unwritten
  <2>2. OldRecords(db0, acc[0].db, rows, 0)
    BY <2>1 DEF OldRecords
  <2>3. NewRecords(db0, acc[0].db, rows, 0)
    BY <2>1 DEF NewRecords
  <2>4. Remembered(db0, acc[0].db, rows, 0, acc[0].remap)
    BY <2>1 DEF Remembered
  <2>5. OneRowEach(db0, acc[0].db, rows, 0)
    BY <2>1 DEF OneRowEach
  <2>6. WrittenUpTo(db0, rows, 0, acc[0])
    BY <2>1, <2>2, <2>3, <2>4, <2>5 DEF WrittenUpTo
  <2> QED BY <1>1, <2>6
<1>4. ASSUME NEW n \in 0 .. Len(rows) - 1, n \in S
      PROVE  n + 1 \in S
  <2>1. n \in Nat /\ n < Len(rows) /\ n + 1 \in 1 .. Len(rows)
    BY <1>1
  <2>2. acc[n + 1] = WriteTurn(acc[n], rows[n + 1])
    BY <1>2, <2>1 DEF WriteTurns
  <2>3. ASSUME acc[n + 1].ok
        PROVE  WrittenUpTo(db0, rows, n + 1, acc[n + 1])
    <3>1. acc[n].ok
      BY <2>2, <2>3 DEF WriteTurn
    <3>2. acc[n + 1] = WriteRow(acc[n], rows[n + 1])
      BY <2>2, <3>1 DEF WriteTurn
    <3>3. WrittenUpTo(db0, rows, n, acc[n])
      BY <1>4, <3>1
    <3> QED BY <2>1, <2>3, <3>2, <3>3, WrittenTurn
  <2> QED BY <2>1, <2>3
<1>5. \A n \in 0 .. Len(rows) : n \in S
  <2> HIDE DEF S
  <2> QED BY <1>1, <1>3, <1>4, InductionUpTo
<1>6. acc[Len(rows)].ok => WrittenUpTo(db0, rows, Len(rows), acc[Len(rows)])
  BY <1>1, <1>5
<1> QED BY <1>2, <1>6

-----------------------------------------------------------------------------
(* Applying a preview *)

\* What an import that commits has done: it has planned the payload again, and
\* written that plan.
Imported(db0, mode, shown, rows, db1) ==
  /\ PlannedUpTo(db0, mode, Payload(shown), Len(Payload(shown)), rows)
  /\ Writable(db0, rows)
  /\ IdentityDisclosed(rows, shown)
  /\ \A d \in Datasets : DOMAIN db0[d] \subseteq DOMAIN db1[d]
  /\ OldRecords(db0, db1, rows, Len(rows))
  /\ NewRecords(db0, db1, rows, Len(rows))
  /\ ToldApart(rows, Len(rows))
  /\ OneRowEach(db0, db1, rows, Len(rows))

\* A payload is a file: every row has its columns.
LEMMA PayloadIsAFile ==
  ASSUME NEW shown \in Seq(PlannedRows)
  PROVE  /\ Payload(shown) \in Seq(Rows) /\ Len(Payload(shown)) = Len(shown)
         /\ \A k \in 1 .. Len(shown) :
              LET f == Payload(shown)[k]
                  r == shown[k]
              IN  /\ f.ds = r.ds /\ f.name = r.values.name /\ f.link = r.values.link
                  /\ f.id = IF r.declared # None THEN r.declared ELSE r.key
                  /\ f.link # Absent
<1> DEFINE row(k) == [ds |-> shown[k].ds,
                      id |-> IF shown[k].declared # None THEN shown[k].declared
                             ELSE shown[k].key,
                      name |-> shown[k].values.name,
                      note |-> shown[k].values.note,
                      link |-> shown[k].values.link]
<1>1. DOMAIN shown = 1 .. Len(shown) /\ Len(shown) \in Nat
  OBVIOUS
<1>2. ASSUME NEW k \in 1 .. Len(shown)
      PROVE  row(k) \in Rows /\ row(k).link # Absent
  <2>1. shown[k] \in PlannedRows
    BY <1>1
  <2> QED BY <2>1, ImportAssumption DEF PlannedRows, Rows, Ids
<1>3. Payload(shown) = [k \in 1 .. Len(shown) |-> row(k)]
  BY <1>1 DEF Payload
<1>4. \A k \in 1 .. Len(shown) : Payload(shown)[k] = row(k)
  BY <1>3
<1>5. Payload(shown) \in Seq(Rows) /\ Len(Payload(shown)) = Len(shown)
  <2> HIDE DEF row
  <2> QED BY <1>1, <1>2, <1>3
<1>6. ASSUME NEW k \in 1 .. Len(shown)
      PROVE  LET f == Payload(shown)[k]
                 r == shown[k]
             IN  /\ f.ds = r.ds /\ f.name = r.values.name /\ f.link = r.values.link
                 /\ f.id = IF r.declared # None THEN r.declared ELSE r.key
                 /\ f.link # Absent
  <2>1. Payload(shown)[k] = row(k) /\ row(k).link # Absent
    BY <1>2, <1>4
  <2> QED BY <2>1
<1> QED BY <1>5, <1>6

\* An import leaves the database as it was or as Imported says; either way it
\* is a database whose links lead somewhere.
LEMMA Importing ==
  ASSUME NEW db0, IsDb(db0), LinksLead(db0), NEW mode, NEW shown \in Seq(PlannedRows)
  PROVE  LET db1 == ApplyImport(db0, mode, shown).db
         IN  /\ IsDb(db1) /\ LinksLead(db1)
             /\ db1 = db0 \/ \E rows : Imported(db0, mode, shown, rows, db1)
<1> DEFINE file == Payload(shown)
           rows == BuildPlan(db0, mode, file)
           written == WriteRows(db0, rows)
           x == ApplyImport(db0, mode, shown)
           refused == HasErrors(rows) \/ ~IdentityDisclosed(rows, shown) \/ ~written.ok
<1>1. x = IF refused THEN [ok |-> FALSE, db |-> db0] ELSE [ok |-> TRUE, db |-> written.db]
  BY DEF ApplyImport
<1>2. file \in Seq(Rows)
  BY PayloadIsAFile
<1>3. PlannedUpTo(db0, mode, file, Len(file), rows) /\ ToldApart(rows, Len(file))
  BY <1>2, Planning
<1> HIDE DEF x, rows, file, written
<1>4. CASE refused
  BY <1>1, <1>4 DEF x
<1>5. CASE ~refused
  <2>1. x.db = written.db /\ IdentityDisclosed(rows, shown) /\ written.ok
    BY <1>1, <1>5
  <2>2. Writable(db0, rows)
    <3>1. rows \in Seq(PlannedRows) /\ Len(rows) = Len(file)
      BY <1>3 DEF PlannedUpTo
    <3>2. ASSUME NEW k \in 1 .. Len(rows)
          PROVE  /\ rows[k].status \in {"create", "skip", "update"}
                 /\ rows[k].status = "create" <=> rows[k].existing = None
                 /\ rows[k].existing # None => rows[k].existing \in DOMAIN db0[rows[k].ds]
                 /\ rows[k].values.name \notin {Absent, Blank}
                 /\ rows[k].ds \in LinkRequired => rows[k].values.link # None
      <4>1. rows[k] \in PlannedRows /\ rows[k].status # "error"
        BY <1>5, <3>1 DEF HasErrors
      <4>2. RowFrom(db0, mode, file[k], rows[k])
        BY <1>3, <3>1 DEF PlannedUpTo
      <4> QED BY <4>1, <4>2 DEF RowFrom, PlannedRows
    <3> QED BY <3>1, <3>2 DEF Writable
  <2>3. WrittenUpTo(db0, rows, Len(rows), written)
    BY <2>1, <2>2, Writing DEF written
  <2>4. Imported(db0, mode, shown, rows, x.db)
    <3>1. Len(rows) = Len(file)
      BY <1>3 DEF PlannedUpTo
    <3> QED BY <1>3, <2>1, <2>2, <2>3, <3>1 DEF Imported, WrittenUpTo, file
  <2>5. IsDb(x.db) /\ LinksLead(x.db)
    BY <2>1, <2>3 DEF WrittenUpTo
  <2> QED BY <2>4, <2>5 DEF x
<1> QED BY <1>4, <1>5

-----------------------------------------------------------------------------
(* The inductive invariant *)

\* What a preview says of its rows whatever has become of the database since.
PreviewSound ==
  preview # NoPreview =>
    /\ preview.mode \in Modes
    /\ \A k \in 1 .. Len(preview.rows) :
         LET r == preview.rows[k]
             f == preview.file[k]
         IN  /\ r.ds = f.ds /\ r.declared = f.id
             /\ r.status # "error"
             /\ r.values.name \notin {Absent, Blank}
             /\ preview.mode # "restore" => r.key = None
             /\ r.status = "create" =>
                  r.values.link = IF f.link = Absent THEN None ELSE f.link

IInv == TypeOK /\ NeverDangle /\ PreviewSound

\* The databases a run starts from satisfy the invariant.
LEMMA InitIInv == Init => IInv
<1> SUFFICES ASSUME Init PROVE IInv
  OBVIOUS
<1> USE ImportAssumption DEF Init
<1>1. IsDb(db) /\ NeverDangle
  BY DEF NeverDangle
<1>2. PreviewSound
  BY DEF PreviewSound
<1>3. TypeOK
  BY <1>1 DEF TypeOK, NoPreview
<1> QED BY <1>1, <1>2, <1>3 DEF IInv

\* Preview: what it shows is planned from the file.
LEMMA PreviewStep ==
  ASSUME IInv, NEW mode \in ImportModes, NEW file \in Files, Preview(mode, file)
  PROVE  IInv'
<1> DEFINE rows == BuildPlan(db, mode, file)
<1>1. /\ IsDb(db) /\ LinksLead(db) /\ file \in Seq(Rows) /\ mode \in Modes
      /\ previews \in 0 .. MaxPreviews /\ edits \in 0 .. MaxEdits
      /\ MaxPreviews \in Nat
  BY ImportAssumption DEF IInv, TypeOK, NeverDangle
<1>2. PlannedUpTo(db, mode, file, Len(file), rows)
  BY <1>1, Planning
<1>3. /\ preview' = [mode |-> mode, file |-> file, rows |-> rows]
      /\ ~HasErrors(rows) /\ previews < MaxPreviews /\ previews' = previews + 1
      /\ db' = db /\ edits' = edits
  BY DEF Preview
<1> HIDE DEF rows
<1>4. rows \in Seq(PlannedRows) /\ Len(rows) = Len(file)
  BY <1>2 DEF PlannedUpTo
<1>5. TypeOK'
  BY <1>1, <1>3, <1>4 DEF TypeOK
<1>6. NeverDangle'
  BY <1>1, <1>3 DEF NeverDangle
<1>7. PreviewSound'
  <2>1. ASSUME NEW k \in 1 .. Len(rows)
        PROVE  /\ rows[k].ds = file[k].ds /\ rows[k].declared = file[k].id
               /\ rows[k].status # "error"
               /\ rows[k].values.name \notin {Absent, Blank}
               /\ mode # "restore" => rows[k].key = None
               /\ rows[k].status = "create" =>
                    rows[k].values.link = IF file[k].link = Absent THEN None ELSE file[k].link
    <3>1. RowFrom(db, mode, file[k], rows[k]) /\ rows[k].status # "error"
      BY <1>2, <1>3, <1>4 DEF PlannedUpTo, HasErrors
    <3> QED BY <3>1 DEF RowFrom
  <2> QED BY <1>1, <1>3, <2>1 DEF PreviewSound
<1> QED BY <1>5, <1>6, <1>7 DEF IInv

\* Apply: Importing, and no preview afterwards.
LEMMA ApplyStep ==
  ASSUME IInv, Apply
  PROVE  IInv'
<1>1. /\ IsDb(db) /\ LinksLead(db) /\ preview.rows \in Seq(PlannedRows)
      /\ previews \in 0 .. MaxPreviews /\ edits \in 0 .. MaxEdits
  BY DEF IInv, TypeOK, NeverDangle
<1>2. /\ db' = ApplyImport(db, preview.mode, preview.rows).db
      /\ preview' = NoPreview /\ previews' = previews /\ edits' = edits
  BY DEF Apply
<1>3. IsDb(db') /\ LinksLead(db')
  BY <1>1, <1>2, Importing
<1>4. TypeOK'
  BY <1>1, <1>2, <1>3 DEF TypeOK, NoPreview
<1> QED BY <1>2, <1>3, <1>4 DEF IInv, NeverDangle, PreviewSound

\* A request of the record pages that leaves a database whose links lead
\* somewhere keeps the invariant.
LEMMA EditStep ==
  ASSUME IInv, NEW db1, Edit(db1), IsDb(db1), LinksLead(db1)
  PROVE  IInv'
<1>1. /\ db' = db1 /\ preview' = preview /\ previews' = previews
      /\ edits' = edits + 1 /\ edits < MaxEdits /\ MaxEdits \in Nat
  BY ImportAssumption DEF Edit
<1> QED BY <1>1 DEF IInv, TypeOK, NeverDangle, PreviewSound

\* Create and Update: the record that is stored has its parent.
LEMMA StoreStep ==
  ASSUME IInv, NEW d \in Datasets, NEW id \in Ids, NEW record \in Records(d),
         Storable(d, id, record), Edit([db EXCEPT ![d] = Table(d, id, record)])
  PROVE  IInv'
<1> DEFINE db1 == [db EXCEPT ![d] = Table(d, id, record)]
<1>1. IsDb(db) /\ LinksLead(db)
  BY DEF IInv, TypeOK, NeverDangle
<1>2. /\ DOMAIN db1 = Datasets
      /\ DOMAIN db1[d] = DOMAIN db[d] \cup {id}
      /\ db1[d][id] = record
      /\ \A i \in DOMAIN db[d] \ {id} : db1[d][i] = db[d][i]
      /\ \A e \in Datasets \ {d} : db1[e] = db[e]
  BY <1>1 DEF IsDb, Table
<1> HIDE DEF db1
<1>3. IsFiniteSet(DOMAIN db1[d])
  BY <1>1, <1>2, FS_AddElement DEF IsDb
<1>4. IsDb(db1)
  BY <1>1, <1>2, <1>3 DEF IsDb
<1>5. LinksLead(db1)
  <2>1. \A e \in Datasets : DOMAIN db[e] \subseteq DOMAIN db1[e]
    BY <1>2
  <2>2. ASSUME NEW e \in Datasets, NEW i \in DOMAIN db1[e], db1[e][i].link # None
        PROVE  db1[e][i].link \in DOMAIN db1[Target[e]]
    <3>1. Target[e] \in Datasets
      BY DEF Target, Datasets
    <3>2. CASE e = d /\ i = id
      BY <1>2, <2>1, <2>2, <3>1, <3>2 DEF Storable
    <3>3. CASE ~(e = d /\ i = id)
      <4>1. i \in DOMAIN db[e] /\ db1[e][i] = db[e][i]
        BY <1>2, <3>3
      <4> QED BY <1>1, <2>1, <2>2, <3>1, <4>1 DEF LinksLead
    <3> QED BY <3>2, <3>3
  <2> QED BY <2>2 DEF LinksLead
<1> QED BY <1>4, <1>5, EditStep DEF db1

\* Delete: no record leads to the one deleted.
LEMMA DeleteStep ==
  ASSUME IInv, NEW d \in Datasets, NEW id \in DOMAIN db[d], Delete(d, id)
  PROVE  IInv'
<1> DEFINE db1 == [db EXCEPT ![d] = [i \in DOMAIN db[d] \ {id} |-> db[d][i]]]
<1>1. IsDb(db) /\ LinksLead(db)
  BY DEF IInv, TypeOK, NeverDangle
<1>2. /\ DOMAIN db1 = Datasets
      /\ DOMAIN db1[d] = DOMAIN db[d] \ {id}
      /\ \A i \in DOMAIN db[d] \ {id} : db1[d][i] = db[d][i]
      /\ \A e \in Datasets \ {d} : db1[e] = db[e]
  BY <1>1 DEF IsDb
<1>d. /\ \A c \in Datasets : Target[c] = d => \A i \in DOMAIN db[c] : db[c][i].link # id
      /\ Edit(db1)
  BY DEF Delete
<1> HIDE DEF db1
<1>3. IsFiniteSet(DOMAIN db1[d])
  BY <1>1, <1>2, FS_Subset DEF IsDb
<1>4. IsDb(db1)
  BY <1>1, <1>2, <1>3 DEF IsDb
<1>5. LinksLead(db1)
  <2>1. ASSUME NEW e \in Datasets, NEW i \in DOMAIN db1[e], db1[e][i].link # None
        PROVE  db1[e][i].link \in DOMAIN db1[Target[e]]
    <3>1. Target[e] \in Datasets
      BY DEF Target, Datasets
    <3>2. i \in DOMAIN db[e] /\ db1[e][i] = db[e][i]
      BY <1>2
    <3>3. db[e][i].link \in DOMAIN db[Target[e]]
      BY <1>1, <2>1, <3>2 DEF LinksLead
    <3> QED BY <1>2, <1>d, <3>1, <3>2, <3>3
  <2> QED BY <2>1 DEF LinksLead
<1> QED BY <1>4, <1>5, <1>d, EditStep

\* Every request keeps the invariant.
LEMMA NextIInv == IInv /\ [Next]_vars => IInv'
<1> SUFFICES ASSUME IInv, [Next]_vars PROVE IInv'
  OBVIOUS
<1>0. IsDb(db) /\ \A d \in Datasets : FormRecords[d] \subseteq Records(d)
  BY ImportAssumption DEF IInv, TypeOK
<1>1. CASE UNCHANGED vars
  BY <1>1 DEF vars, IInv, TypeOK, NeverDangle, PreviewSound
<1>2. ASSUME NEW mode \in ImportModes, NEW file \in Files, Preview(mode, file)
      PROVE  IInv'
  BY <1>2, PreviewStep
<1>3. CASE Apply
  BY <1>3, ApplyStep
<1>4. ASSUME NEW d \in Datasets, NEW record \in FormRecords[d], Create(d, record)
      PROVE  IInv'
  <2>1. NextId(db[d]) \in Ids
    BY <1>0, NextIdIsOne
  <2> QED BY <1>0, <1>4, <2>1, StoreStep DEF Create
<1>5. ASSUME NEW d \in Datasets, NEW id \in DOMAIN db[d], NEW record \in FormRecords[d],
             Update(d, id, record)
      PROVE  IInv'
  <2>1. id \in Ids
    BY <1>0 DEF IsDb
  <2> QED BY <1>0, <1>5, <2>1, StoreStep DEF Update
<1>6. ASSUME NEW d \in Datasets, NEW id \in DOMAIN db[d], Delete(d, id)
      PROVE  IInv'
  BY <1>6, DeleteStep
<1> QED BY <1>1, <1>2, <1>3, <1>4, <1>5, <1>6 DEF Next

\* The inductive invariant holds throughout.
THEOREM ImportInvariant == Spec => []IInv
BY InitIInv, NextIInv, PTL DEF Spec

\* Type correctness: tables hold whole records, previews whole rows.
THEOREM ImportTyped == Spec => []TypeOK
<1>1. IInv => TypeOK
  BY DEF IInv
<1> QED BY <1>1, ImportInvariant, PTL

\* L2 and L4: after any import and any edit, every link leads to a record.
THEOREM LinksNeverDangle == Spec => []NeverDangle
<1>1. IInv => NeverDangle
  BY DEF IInv
<1> QED BY <1>1, ImportInvariant, PTL

-----------------------------------------------------------------------------
(* What an import may do, step by step *)

\* A preview is spent by apply_data_import and nothing else.
LEMMA OnlyApplyApplies ==
  ASSUME [Next]_vars, Applying
  PROVE  Apply
<1>1. \A mode \in ImportModes, file \in Files : ~Preview(mode, file)
  <2> SUFFICES ASSUME NEW mode \in ImportModes, NEW file \in Files, Preview(mode, file)
               PROVE  FALSE
    OBVIOUS
  <2>1. preview'.mode = mode
    BY DEF Preview
  <2> QED BY <2>1, ImportAssumption DEF Applying, NoPreview
<1>2. preview' # preview
  BY DEF Applying
<1> QED BY <1>1, <1>2 DEF Next, Create, Update, Delete, Edit, vars

\* The step that spends a preview leaves the database alone or imports.
LEMMA Applied ==
  ASSUME IInv, [Next]_vars, Applying
  PROVE  /\ IsDb(db) /\ LinksLead(db)
         /\ preview.rows \in Seq(PlannedRows)
         /\ \/ db' = db
            \/ \E rows : Imported(db, preview.mode, preview.rows, rows, db')
<1>1. IsDb(db) /\ LinksLead(db) /\ preview.rows \in Seq(PlannedRows)
  BY DEF IInv, TypeOK, NeverDangle
<1>2. db' = ApplyImport(db, preview.mode, preview.rows).db
  BY OnlyApplyApplies DEF Apply
<1> QED BY <1>1, <1>2, Importing

\* Row k of the second plan is row k of the preview, planned again.
ShownRow(db0, mode, shown, rows, k) ==
  LET file == Payload(shown) IN
  /\ Len(rows) = Len(shown) /\ Len(file) = Len(shown)
  /\ k \in DOMAIN shown
  /\ rows[k] \in PlannedRows /\ shown[k] \in PlannedRows
  /\ RowFrom(db0, mode, file[k], rows[k])
  /\ ParentFrom(file, rows, k)
  /\ rows[k].ds = shown[k].ds
  /\ rows[k].status # "error"
  /\ file[k].name = shown[k].values.name
  /\ file[k].link = shown[k].values.link
  /\ rows[k].values.link = shown[k].values.link

\* Every row that an import writes is.
LEMMA ImportedRow ==
  ASSUME NEW db0, NEW mode, NEW shown \in Seq(PlannedRows), NEW rows, NEW db1,
         Imported(db0, mode, shown, rows, db1), NEW k \in 1 .. Len(rows)
  PROVE  ShownRow(db0, mode, shown, rows, k)
<1> DEFINE f == Payload(shown)[k]
<1>1. /\ PlannedUpTo(db0, mode, Payload(shown), Len(Payload(shown)), rows)
      /\ Writable(db0, rows)
  BY DEF Imported
<1>2. Payload(shown) \in Seq(Rows) /\ Len(Payload(shown)) = Len(shown)
  BY PayloadIsAFile
<1>3. Len(rows) = Len(shown) /\ rows \in Seq(PlannedRows)
  BY <1>1, <1>2 DEF PlannedUpTo
<1>4. k \in 1 .. Len(shown) /\ k \in DOMAIN shown /\ shown[k] \in PlannedRows
  BY <1>3
<1>5. RowFrom(db0, mode, f, rows[k]) /\ ParentFrom(Payload(shown), rows, k)
  BY <1>1, <1>2, <1>3 DEF PlannedUpTo
<1>6. f.ds = shown[k].ds /\ f.name = shown[k].values.name /\ f.link = shown[k].values.link
      /\ f.link # Absent
  BY <1>4, PayloadIsAFile
<1>7. rows[k].status # "error"
  BY <1>1 DEF Writable
<1>8. rows[k] \in PlannedRows
  BY <1>3
<1> QED BY <1>2, <1>3, <1>4, <1>5, <1>6, <1>7, <1>8 DEF RowFrom, ShownRow

\* A live record that an import changes was named by a row of its preview.
LEMMA OnlyNamedStep ==
  ASSUME IInv, [Next]_vars, Applying, NEW d \in Datasets, NEW i \in DOMAIN db[d],
         db'[d][i] # db[d][i]
  PROVE  \E k \in DOMAIN preview.rows :
           preview.rows[k].ds = d /\ preview.rows[k].existing = i
<1>1. preview.rows \in Seq(PlannedRows)
  BY Applied
<1>2. PICK rows : Imported(db, preview.mode, preview.rows, rows, db')
  BY Applied
<1>3. PICK k \in 1 .. Len(rows) : /\ rows[k].ds = d /\ rows[k].existing = i
                                  /\ rows[k].status = "update"
  BY <1>2 DEF Imported, OldRecords
<1>4. k \in DOMAIN preview.rows /\ rows[k].ds = preview.rows[k].ds
  <2>1. ShownRow(db, preview.mode, preview.rows, rows, k)
    BY <1>1, <1>2, ImportedRow
  <2> QED BY <2>1 DEF ShownRow
<1>5. rows[k].existing = preview.rows[k].existing
  <2>1. DOMAIN rows = 1 .. Len(rows)
    BY <1>2 DEF Imported, Writable
  <2> QED BY <1>2, <1>3, <2>1 DEF Imported, IdentityDisclosed
<1> QED BY <1>3, <1>4, <1>5

\* An import changes only records that its preview named.
THEOREM ImportChangesNamedRecords == Spec => OnlyNamedRecordsChange
<1>1. IInv /\ [Next]_vars =>
        [Applying => \A d \in Datasets : \A i \in DOMAIN db[d] :
           db'[d][i] # db[d][i] =>
             \E k \in DOMAIN preview.rows :
               preview.rows[k].ds = d /\ preview.rows[k].existing = i]_vars
  BY OnlyNamedStep
<1> QED BY <1>1, ImportInvariant, PTL DEF Spec, OnlyNamedRecordsChange

\* In the mode "add_only" a live record stays as it was.
LEMMA AddOnlyStep ==
  ASSUME IInv, [Next]_vars, Applying, preview.mode = "add_only",
         NEW d \in Datasets, NEW i \in DOMAIN db[d]
  PROVE  i \in DOMAIN db'[d] /\ db'[d][i] = db[d][i]
<1>1. preview.rows \in Seq(PlannedRows)
  BY Applied
<1>2. CASE db' = db
  BY <1>2
<1>3. ASSUME NEW rows, Imported(db, preview.mode, preview.rows, rows, db')
      PROVE  i \in DOMAIN db'[d] /\ db'[d][i] = db[d][i]
  <2>1. \A k \in 1 .. Len(rows) : rows[k].status # "update"
    <3>1. \A k \in 1 .. Len(rows) : ShownRow(db, preview.mode, preview.rows, rows, k)
      BY <1>1, <1>3, ImportedRow
    <3> QED BY <3>1 DEF ShownRow, RowFrom
  <2> QED BY <1>3, <2>1 DEF Imported, OldRecords
<1> QED BY <1>2, <1>3, Applied

\* An import in the mode "add_only" leaves every live record as it was.
THEOREM AddOnlyAdds == Spec => AddOnlyKeepsRecords
<1>1. IInv /\ [Next]_vars =>
        [Applying /\ preview.mode = "add_only" =>
           \A d \in Datasets : \A i \in DOMAIN db[d] :
             i \in DOMAIN db'[d] /\ db'[d][i] = db[d][i]]_vars
  BY AddOnlyStep
<1> QED BY <1>1, ImportInvariant, PTL DEF Spec, AddOnlyKeepsRecords

\* The key of a record that an import adds, links followed, was free.
LEMMA NewKey ==
  ASSUME NEW db0, IsDb(db0), LinksLead(db0), NEW mode, NEW shown \in Seq(PlannedRows),
         NEW rows, NEW db1, Imported(db0, mode, shown, rows, db1),
         NEW d \in Datasets, NEW i \in DOMAIN db1[d] \ DOMAIN db0[d]
  PROVE  KeyMatches(db0, d, db1[d][i].name, db1[d][i].link) = {}
<1> DEFINE file == Payload(shown)
           name == db1[d][i].name
           link == db1[d][i].link
           t == Target[d]
<1>1. PICK k \in 1 .. Len(rows) : /\ rows[k].ds = d /\ rows[k].status = "create"
                                  /\ name = rows[k].values.name
                                  /\ LinkWritten(db0, db1, rows, k, link)
  BY DEF Imported, NewRecords
<1> DEFINE row == rows[k]
           asked == row.values.link
<1> HIDE DEF name, link
<1>2. /\ row \in PlannedRows /\ row.status # "error"
      /\ RowFrom(db0, mode, file[k], row) /\ ParentFrom(file, rows, k)
      /\ asked = file[k].link
  <2>1. ShownRow(db0, mode, shown, rows, k)
    BY ImportedRow
  <2> QED BY <2>1 DEF ShownRow
<1>3. /\ name = file[k].name
      /\ KeyMatches(db0, d, name, IF row.parent # None THEN row.parent ELSE asked) = {}
      /\ d \in LinkRequired => asked # None
      /\ row.source # "error" /\ file[k].ds = d
  BY <1>1, <1>2 DEF RowFrom
<1>4. CASE d \notin LinkInKey
  BY <1>3, <1>4 DEF KeyMatches, name, link
<1>5. CASE d \in LinkInKey
  <2>1. asked # None
    BY <1>3, <1>5 DEF LinkInKey, LinkRequired
  <2>2. CASE row.source # "file"
    <3>1. link = asked /\ row.source = "hub"
      <4>1. link = asked
        BY <1>1, <2>1, <2>2 DEF LinkWritten
      <4>2. row.source \in {"none", "file", "hub", "error"} /\ asked \in Ids \cup {None}
        BY <1>2 DEF PlannedRows
      <4>3. asked \notin {Absent, None}
        BY <2>1, <4>2, ImportAssumption DEF Ids
      <4>4. row.source # "none"
        BY <1>2, <4>3 DEF ParentFrom
      <4> QED BY <1>3, <2>2, <4>1, <4>2, <4>4
    <3>2. row.parent = asked
      BY <1>2, <3>1 DEF ParentFrom
    <3> QED BY <1>3, <3>1, <3>2 DEF name, link
  <2>3. CASE row.source = "file"
    <3>1. PICK j \in 1 .. k - 1 : /\ rows[j].ds = t /\ rows[j].declared = asked
                                  /\ Wrote(db0, db1, rows[j], link)
      BY <1>1, <2>1, <2>3 DEF LinkWritten
    <3>2. PICK p \in DOMAIN file : /\ Declarers(file, t, asked) = {p}
                                   /\ row.parent = IF p < k THEN rows[p].existing ELSE None
      BY <1>2, <1>3, <2>3 DEF ParentFrom
    <3>3. p = j /\ j < k /\ p < k
      <4>1. j \in 1 .. Len(rows) /\ Len(rows) \in Int /\ j < k
        BY DEF Imported, Writable
      <4>2. RowFrom(db0, mode, file[j], rows[j]) /\ Len(file) = Len(rows)
        <5>1. ShownRow(db0, mode, shown, rows, j)
          BY <4>1, ImportedRow
        <5> QED BY <5>1 DEF ShownRow
      <4>3. j \in Declarers(file, t, asked)
        <5>1. DOMAIN file = 1 .. Len(file)
          BY PayloadIsAFile
        <5> QED BY <3>1, <4>1, <4>2, <5>1 DEF Declarers, RowFrom
      <4> QED BY <3>2, <4>1, <4>3
    <3>4. CASE rows[j].existing # None
      <4>1. link = rows[j].existing /\ row.parent = rows[j].existing
        BY <3>1, <3>2, <3>3, <3>4 DEF Wrote
      <4> QED BY <1>3, <3>4, <4>1 DEF name, link
    <3>5. CASE rows[j].existing = None
      <4>1. link \notin DOMAIN db0[t]
        BY <3>1, <3>5 DEF Wrote
      <4>2. ASSUME NEW m \in DOMAIN db0[d] PROVE db0[d][m].link # link
        <5>1. db0[d][m] \in Records(d) /\ d \in LinkRequired
          BY <1>5 DEF IsDb, LinkInKey, LinkRequired
        <5>2. db0[d][m].link # None
          BY <5>1, ImportAssumption DEF Records, Links, Ids
        <5> QED BY <4>1, <5>2 DEF LinksLead
      <4> QED BY <1>5, <4>2 DEF KeyMatches, name, link
    <3> QED BY <3>4, <3>5
  <2> QED BY <2>2, <2>3
<1> QED BY <1>4, <1>5

\* Two of these rows write a key with this name under different numbers.
ApartIn(shown, d, name) ==
  /\ d \in LinkInKey
  /\ \E k, l \in DOMAIN shown :
       /\ shown[k].ds = d /\ shown[k].values.name = name
       /\ shown[l].ds = d /\ shown[l].values.name = name
       /\ shown[k].values.link # shown[l].values.link

\* A record that an import adds shares its key with no other record, unless two
\* rows of the file write the key apart.
LEMMA NewKeyOnce ==
  ASSUME NEW db0, IsDb(db0), LinksLead(db0), NEW mode, NEW shown \in Seq(PlannedRows),
         \A k \in DOMAIN shown : shown[k].values.name # Absent,
         NEW rows, NEW db1, Imported(db0, mode, shown, rows, db1),
         NEW d \in Datasets, NEW i \in DOMAIN db1[d] \ DOMAIN db0[d],
         NEW j \in KeyMatches(db1, d, db1[d][i].name, db1[d][i].link) \ {i}
  PROVE  ApartIn(shown, d, db1[d][i].name)
<1> DEFINE name == db1[d][i].name
<1>1. j \in DOMAIN db1[d] /\ db1[d][j].name = name /\ j # i
  BY DEF KeyMatches
<1>2. PICK k, l \in 1 .. Len(rows) : /\ k # l /\ rows[k].ds = d /\ rows[l].ds = d
                                     /\ rows[k].values.name = name
                                     /\ rows[l].values.name = name
  <2>1. CASE j \notin DOMAIN db0[d]
    BY <1>1, <2>1 DEF Imported, OneRowEach
  <2>2. CASE j \in DOMAIN db0[d]
    <3>1. db1[d][j] # db0[d][j]
      <4>1. KeyMatches(db0, d, name, db1[d][i].link) = {}
        BY NewKey
      <4>2. d \in LinkInKey => db1[d][j].link = db1[d][i].link
        BY DEF KeyMatches
      <4> HIDE DEF name
      <4> QED BY <1>1, <2>2, <4>1, <4>2 DEF KeyMatches
    <3>2. PICK l \in 1 .. Len(rows) : /\ rows[l].ds = d /\ rows[l].status = "update"
                                      /\ rows[l].values.name = name
      BY <1>1, <2>2, <3>1 DEF Imported, OldRecords
    <3>3. PICK k \in 1 .. Len(rows) : /\ rows[k].ds = d /\ rows[k].status = "create"
                                      /\ rows[k].values.name = name
      BY DEF Imported, NewRecords
    <3> QED BY <3>2, <3>3
  <2> QED BY <2>1, <2>2
<1>3. /\ rows[k].status # "error" /\ rows[l].status # "error"
      /\ k \in DOMAIN shown /\ l \in DOMAIN shown
      /\ shown[k].ds = d /\ shown[l].ds = d
      /\ rows[k].values.link = shown[k].values.link
      /\ rows[l].values.link = shown[l].values.link
      /\ shown[k].values.name = name /\ shown[l].values.name = name
  <2>1. ShownRow(db0, mode, shown, rows, k) /\ ShownRow(db0, mode, shown, rows, l)
    BY ImportedRow
  <2>2. shown[k].values.name # Absent /\ shown[l].values.name # Absent
    BY <2>1 DEF ShownRow
  <2> HIDE DEF name
  <2> QED BY <1>2, <2>1, <2>2 DEF ShownRow, RowFrom
<1>4. Identity(d, rows[k].values) # Identity(d, rows[l].values)
  <2>1. ToldApart(rows, Len(rows)) /\ (k < l \/ l < k)
    BY <1>2 DEF Imported
  <2> QED BY <1>2, <1>3, <2>1 DEF ToldApart
<1> QED BY <1>2, <1>3, <1>4 DEF Identity, ApartIn

\* No import adds a record under a natural key that is taken, or under one key
\* two records whose rows the file does not tell apart by their numbers.
THEOREM KeysAreAddedOnce == Spec => NoKeyAddedTwice
<1>1. ASSUME IInv, [Next]_vars, Applying, NEW d \in Datasets,
             NEW i \in DOMAIN db'[d] \ DOMAIN db[d]
      PROVE  LET record == db'[d][i] IN
             /\ KeyMatches(db, d, record.name, record.link) = {}
             /\ \/ KeyMatches(db', d, record.name, record.link) = {i}
                \/ WrittenApart(d, record.name)
  <2>1. PICK rows : Imported(db, preview.mode, preview.rows, rows, db')
    BY <1>1, Applied
  <2>2. KeyMatches(db, d, db'[d][i].name, db'[d][i].link) = {}
    BY <1>1, <2>1, Applied, NewKey
  <2>3. i \in KeyMatches(db', d, db'[d][i].name, db'[d][i].link)
    BY DEF KeyMatches
  <2>4. ASSUME NEW j \in KeyMatches(db', d, db'[d][i].name, db'[d][i].link) \ {i}
        PROVE  WrittenApart(d, db'[d][i].name)
    <3>1. \A k \in DOMAIN preview.rows : preview.rows[k].values.name # Absent
      <4>1. preview.rows \in Seq(PlannedRows)
        BY <1>1, Applied
      <4> QED BY <1>1, <4>1 DEF IInv, PreviewSound, Applying
    <3>2. ApartIn(preview.rows, d, db'[d][i].name)
      <4>1. IsDb(db) /\ LinksLead(db) /\ preview.rows \in Seq(PlannedRows)
        BY <1>1, Applied
      <4>2. i \in DOMAIN db'[d] \ DOMAIN db[d]
        BY <1>1
      <4> QED BY <2>1, <2>4, <3>1, <4>1, <4>2, NewKeyOnce
    <3> QED BY <3>2 DEF ApartIn, WrittenApart, RowsFor
  <2> QED BY <2>2, <2>3, <2>4
<1>2. IInv /\ [Next]_vars =>
        [Applying => \A d \in Datasets : \A i \in DOMAIN db'[d] \ DOMAIN db[d] :
           LET record == db'[d][i] IN
           /\ KeyMatches(db, d, record.name, record.link) = {}
           /\ \/ KeyMatches(db', d, record.name, record.link) = {i}
              \/ WrittenApart(d, record.name)]_vars
  BY <1>1
<1> QED BY <1>2, ImportInvariant, PTL DEF Spec, NoKeyAddedTwice

\* What the payload of a default import declares is what the file declared.
LEMMA SameDeclarers ==
  ASSUME IInv, preview # NoPreview, preview.mode # "restore", NEW t, NEW x
  PROVE  Declarers(Payload(preview.rows), t, x) = Declarers(preview.file, t, x)
<1> DEFINE shown == preview.rows
           file == Payload(shown)
<1>1. /\ shown \in Seq(PlannedRows) /\ preview.file \in Seq(Rows)
      /\ Len(shown) = Len(preview.file)
  BY DEF IInv, TypeOK
<1>2. file \in Seq(Rows) /\ Len(file) = Len(shown)
  BY <1>1, PayloadIsAFile
<1>3. DOMAIN file = 1 .. Len(shown) /\ DOMAIN preview.file = 1 .. Len(shown)
  BY <1>1, <1>2
<1>4. ASSUME NEW k \in 1 .. Len(shown)
      PROVE  file[k].ds = preview.file[k].ds /\ file[k].id = preview.file[k].id
  <2>1. /\ shown[k].ds = preview.file[k].ds /\ shown[k].declared = preview.file[k].id
        /\ shown[k].key = None
    BY DEF IInv, PreviewSound
  <2>2. /\ file[k].ds = shown[k].ds
        /\ file[k].id = IF shown[k].declared # None THEN shown[k].declared ELSE shown[k].key
    BY <1>1, PayloadIsAFile
  <2> QED BY <2>1, <2>2
<1> HIDE DEF file, shown
<1> QED BY <1>3, <1>4 DEF Declarers, file, shown

\* The record a row of a default import was written to bears the name shown.
LEMMA WrittenUnderItsName ==
  ASSUME IInv, preview # NoPreview, preview.mode # "restore",
         NEW rows, NEW db1, Imported(db, preview.mode, preview.rows, rows, db1),
         NEW j \in 1 .. Len(rows), NEW id, Wrote(db, db1, rows[j], id)
  PROVE  db1[rows[j].ds][id].name = preview.rows[j].values.name
<1> DEFINE shown == preview.rows
           file == Payload(shown)
           mode == preview.mode
<1>1. shown \in Seq(PlannedRows)
  BY DEF IInv, TypeOK
<1>2. ASSUME NEW k \in 1 .. Len(rows)
      PROVE  /\ rows[k] \in PlannedRows /\ RowFrom(db, mode, file[k], rows[k])
             /\ file[k].name = shown[k].values.name
             /\ rows[k].values.name = shown[k].values.name
  <2>1. ShownRow(db, mode, shown, rows, k)
    BY <1>1, ImportedRow
  <2>2. shown[k].values.name # Absent
    <3>1. k \in 1 .. Len(shown)
      BY <1>1, <2>1 DEF ShownRow
    <3> QED BY <3>1 DEF IInv, PreviewSound
  <2> QED BY <2>1, <2>2 DEF ShownRow, RowFrom
<1>3. CASE rows[j].existing # None
  <2> DEFINE d == rows[j].ds
  <2>1. /\ id = rows[j].existing /\ id \in DOMAIN db[d] /\ d \in Datasets
        /\ db[d][id].name = shown[j].values.name
    BY <1>2, <1>3 DEF Wrote, RowFrom, PlannedRows
  <2> HIDE DEF d
  <2>2. CASE db1[d][id] = db[d][id]
    BY <2>1, <2>2 DEF d
  <2>3. ASSUME NEW k \in 1 .. Len(rows), rows[k].ds = d, rows[k].existing = id,
               db1[d][id].name = rows[k].values.name
        PROVE  db1[d][id].name = shown[j].values.name
    <3>1. rows[k].existing # None
      BY <1>3, <2>1, <2>3
    <3>2. db[d][id].name = file[k].name
      BY <1>2, <2>3, <3>1 DEF RowFrom
    <3> QED BY <1>2, <2>1, <2>3, <3>2
  <2> QED BY <2>1, <2>2, <2>3 DEF Imported, OldRecords, d
<1>4. CASE rows[j].existing = None
  BY <1>2, <1>4 DEF Wrote
<1> QED BY <1>3, <1>4

\* A new record is written under the parent that the file names.
LEMMA ParentStep ==
  ASSUME IInv, [Next]_vars, Applying, preview.mode # "restore", NEW d \in Datasets,
         NEW i \in DOMAIN db'[d] \ DOMAIN db[d],
         \A k \in RowsFor(d, db'[d][i].name) : preview.rows[k].status = "create"
  PROVE  \E k \in RowsFor(d, db'[d][i].name) : BelongsTo(d, k, db'[d][i].link)
<1> DEFINE shown == preview.rows
           file == Payload(shown)
           mode == preview.mode
           t == Target[d]
           name == db'[d][i].name
           link == db'[d][i].link
<1>1. shown \in Seq(PlannedRows) /\ preview # NoPreview
  BY DEF IInv, TypeOK, Applying
<1>2. PICK rows : Imported(db, mode, shown, rows, db')
  BY Applied
<1>3. PICK k \in 1 .. Len(rows) : /\ rows[k].ds = d /\ rows[k].status = "create"
                                  /\ name = rows[k].values.name
                                  /\ LinkWritten(db, db', rows, k, link)
  BY <1>2 DEF Imported, NewRecords
<1>4. ShownRow(db, mode, shown, rows, k)
  BY <1>1, <1>2, ImportedRow
<1> DEFINE row == rows[k]
           asked == row.values.link
<1> HIDE DEF name, link
<1>5. k \in RowsFor(d, name) /\ k \in 1 .. Len(shown)
  <2>1. /\ row.existing = None /\ rows[k].ds = shown[k].ds /\ k \in DOMAIN shown
        /\ file[k].name = shown[k].values.name
    BY <1>3, <1>4 DEF ShownRow, RowFrom
  <2>2. name = shown[k].values.name
    BY <1>3, <1>4, <2>1 DEF ShownRow, RowFrom
  <2> QED BY <1>1, <1>3, <2>1, <2>2 DEF RowsFor
<1>6. /\ asked = IF preview.file[k].link = Absent THEN None ELSE preview.file[k].link
      /\ asked = file[k].link
      /\ ParentFrom(file, rows, k) /\ RowFrom(db, mode, file[k], row)
      /\ row.source # "error" /\ file[k].ds = d /\ row \in PlannedRows
  <2>1. shown[k].status = "create"
    BY <1>5 DEF name
  <2>2. shown[k].values.link = IF preview.file[k].link = Absent THEN None
                               ELSE preview.file[k].link
    BY <1>1, <1>5, <2>1 DEF IInv, PreviewSound
  <2>3. /\ row.source # "error" /\ file[k].ds = d
    BY <1>3, <1>4 DEF ShownRow, RowFrom
  <2> QED BY <1>4, <2>2, <2>3 DEF ShownRow
<1>7. BelongsTo(d, k, link)
  <2> DEFINE wanted == preview.file[k].link
             parents == Declarers(preview.file, t, wanted)
             under == \E p \in parents : db'[t][link].name = shown[p].values.name
  <2>0. BelongsTo(d, k, link) =
          CASE wanted \in {Absent, None} -> link = None
            [] wanted \notin {Absent, None} /\ parents = {} -> link = wanted
            [] OTHER -> under
    BY DEF BelongsTo
  <2> HIDE DEF parents, under, wanted
  <2>1. CASE wanted \in {Absent, None}
    <3>1. asked = None
      BY <1>6, <2>1 DEF wanted
    <3>2. link = None
      BY <1>3, <3>1 DEF LinkWritten
    <3> QED BY <2>0, <2>1, <3>2
  <2>2. CASE wanted \notin {Absent, None}
    <3>1. asked = wanted
      BY <1>6, <2>2 DEF wanted
    <3>2. Declarers(file, t, asked) = parents
      BY <1>1, <3>1, SameDeclarers DEF parents
    <3>3. row.source \in {"hub", "file"}
      BY <1>6, <2>2, <3>1 DEF ParentFrom, PlannedRows
    <3>4. CASE row.source = "hub"
      <4>1. parents = {}
        BY <1>6, <3>2, <3>4 DEF ParentFrom
      <4>2. link = wanted
        BY <1>3, <2>2, <3>1, <3>4 DEF LinkWritten
      <4> QED BY <2>0, <2>2, <4>1, <4>2
    <3>5. CASE row.source = "file"
      <4>1. PICK p \in DOMAIN file : parents = {p}
        BY <1>6, <3>2, <3>5 DEF ParentFrom
      <4>2. PICK j \in 1 .. k - 1 : /\ rows[j].ds = t /\ rows[j].declared = asked
                                    /\ Wrote(db, db', rows[j], link)
        BY <1>3, <2>2, <3>1, <3>5 DEF LinkWritten
      <4>3. j \in 1 .. Len(rows)
        BY <1>2 DEF Imported, Writable
      <4>4. ShownRow(db, mode, shown, rows, j)
        BY <1>1, <1>2, <4>3, ImportedRow
      <4>5. j \in Declarers(file, t, asked)
        <5>1. DOMAIN file = 1 .. Len(file)
          BY <1>1, PayloadIsAFile
        <5> QED BY <4>2, <4>3, <4>4, <5>1 DEF ShownRow, Declarers, RowFrom
      <4>6. db'[t][link].name = shown[j].values.name
        <5> DEFINE db1 == db'
        <5>1. Imported(db, mode, shown, rows, db1) /\ Wrote(db, db1, rows[j], link)
          BY <1>2, <4>2
        <5> HIDE DEF db1
        <5>2. db1[rows[j].ds][link].name = shown[j].values.name
          BY <1>1, <4>3, <5>1, WrittenUnderItsName
        <5> QED BY <4>2, <5>2 DEF db1
      <4>7. under
        BY <3>2, <4>5, <4>6 DEF under
      <4> QED BY <2>0, <2>2, <4>1, <4>7
    <3> QED BY <3>3, <3>4, <3>5
  <2> QED BY <2>1, <2>2
<1> QED BY <1>5, <1>7 DEF name, link

\* A record that a default preview showed as new is stored under the parent
\* its file names.
THEOREM ParentsFoundByName == Spec => NewRecordsUnderTheirParent
<1>1. IInv /\ [Next]_vars =>
        [Applying /\ preview.mode # "restore" =>
           \A d \in Datasets : \A i \in DOMAIN db'[d] \ DOMAIN db[d] :
             LET record == db'[d][i]
                 rows == RowsFor(d, record.name)
             IN  (\A k \in rows : preview.rows[k].status = "create") =>
                   \E k \in rows : BelongsTo(d, k, record.link)]_vars
  BY ParentStep
<1> QED BY <1>1, ImportInvariant, PTL DEF Spec, NewRecordsUnderTheirParent
=============================================================================
