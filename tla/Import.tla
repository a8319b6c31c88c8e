------------------------------ MODULE Import ------------------------------
(***************************************************************************)
(* An import as the operator drives it: preview a file, look at the rows,  *)
(* apply.  Between the two requests the pages that create, edit and delete *)
(* records stay open, in this browser or in another.  Each request of this *)
(* module is one transaction; PreviewStore shows that a preview is applied *)
(* at most once, LinkIntegrity what happens inside the delete handlers.    *)
(***************************************************************************)
EXTENDS ImportPlan

CONSTANTS
  Texts,        \* what a name or a note may say, Blank among it
  InitialDbs,   \* databases the runs start from
  Files,        \* uploaded files, as sequences of rows
  ImportModes,  \* modes offered: "restore" only where the operator enabled it
  FormRecords,  \* records a form can submit, per dataset
  MaxPreviews,  \* bound: previews requested
  MaxEdits      \* bound: requests of the record pages

Ids == Nat \ {0}
Links(d) == IF d \in LinkRequired THEN Ids ELSE Ids \cup {None}
Records(d) == [name : Texts \ {Blank}, note : Texts, link : Links(d)]

\* A row of a file, and what a preview makes of it.
Rows == [ds : Datasets, id : Ids \cup {None}, name : Texts \cup {Absent},
         note : Texts \cup {Absent}, link : Ids \cup {None, Absent}]
PlannedRows ==
  [ds : Datasets, declared : Ids \cup {None}, existing : Ids \cup {None},
   key : Ids \cup {None},
   values : [name : Texts \cup {Absent}, note : Texts, link : Ids \cup {None}],
   source : {"none", "file", "hub", "error"}, parent : Ids \cup {None},
   changed : SUBSET Columns, status : {"create", "skip", "update", "error"}]

IsDb(x) ==
  /\ DOMAIN x = Datasets
  /\ \A d \in Datasets :
       /\ IsFiniteSet(DOMAIN x[d]) /\ DOMAIN x[d] \subseteq Ids
       /\ \A i \in DOMAIN x[d] : x[d][i] \in Records(d)

\* Every link leads to a record.
LinksLead(x) ==
  \A d \in Datasets : \A i \in DOMAIN x[d] :
    x[d][i].link # None => x[d][i].link \in DOMAIN x[Target[d]]

ASSUME ImportAssumption ==
  /\ Blank \in Texts /\ Absent \notin Texts
  /\ None \notin Nat \cup Modes \cup {Absent} /\ Absent \notin Nat
  /\ \A x \in InitialDbs : IsDb(x) /\ LinksLead(x)
  /\ Files \subseteq Seq(Rows)
  /\ \A d \in Datasets : FormRecords[d] \subseteq Records(d)
  /\ ImportModes \subseteq Modes
  /\ MaxPreviews \in Nat
  /\ MaxEdits \in Nat

VARIABLES
  db,        \* dataset -> identifier -> record
  preview,   \* what the operator was last shown and has not applied
  previews,  \* previews requested so far
  edits      \* record-page requests so far

vars == <<db, preview, previews, edits>>

NoPreview == [mode |-> None, file |-> <<>>, rows |-> <<>>]

Init ==
  /\ db \in InitialDbs
  /\ preview = NoPreview
  /\ previews = 0
  /\ edits = 0

\* preview_data_import.  A plan with errors carries no payload to apply.
Preview(mode, file) ==
  LET rows == BuildPlan(db, mode, file) IN
  /\ previews < MaxPreviews
  /\ ~HasErrors(rows)
  /\ preview' = [mode |-> mode, file |-> file, rows |-> rows]
  /\ previews' = previews + 1
  /\ UNCHANGED <<db, edits>>

\* apply_data_import: the preview is spent, whatever becomes of the import.
Apply ==
  /\ preview # NoPreview
  /\ db' = ApplyImport(db, preview.mode, preview.rows).db
  /\ preview' = NoPreview
  /\ UNCHANGED <<previews, edits>>

Table(d, id, record) ==
  [i \in DOMAIN db[d] \cup {id} |-> IF i = id THEN record ELSE db[d][i]]

\* The database's own constraints, link enforcement being on.
Storable(d, id, record) ==
  /\ record.link # None => record.link \in DOMAIN db[Target[d]]
  /\ d \in UniqueName => \A i \in DOMAIN db[d] \ {id} : db[d][i].name # record.name

Edit(db1) ==
  /\ edits < MaxEdits
  /\ edits' = edits + 1
  /\ db' = db1
  /\ UNCHANGED <<preview, previews>>

\* create_business_unit, create_customer, create_contract
Create(d, record) ==
  LET id == NextId(db[d]) IN
  /\ Storable(d, id, record)
  /\ Edit([db EXCEPT ![d] = Table(d, id, record)])

\* update_business_unit, update_customer, update_contract
Update(d, id, record) ==
  /\ id \in DOMAIN db[d]
  /\ record # db[d][id]
  /\ Storable(d, id, record)
  /\ Edit([db EXCEPT ![d] = Table(d, id, record)])

\* delete_or_block, its dependency check and its delete taken together
Delete(d, id) ==
  /\ id \in DOMAIN db[d]
  /\ \A c \in Datasets : Target[c] = d =>
       \A i \in DOMAIN db[c] : db[c][i].link # id
  /\ Edit([db EXCEPT ![d] = [i \in DOMAIN db[d] \ {id} |-> db[d][i]]])

Next ==
  \/ \E mode \in ImportModes, file \in Files : Preview(mode, file)
  \/ Apply
  \/ \E d \in Datasets : \E record \in FormRecords[d] : Create(d, record)
  \/ \E d \in Datasets : \E id \in DOMAIN db[d], record \in FormRecords[d] :
       Update(d, id, record)
  \/ \E d \in Datasets : \E id \in DOMAIN db[d] : Delete(d, id)

Spec == Init /\ [][Next]_vars

-----------------------------------------------------------------------------
TypeOK ==
  /\ IsDb(db)
  /\ preview.mode \in Modes \cup {None}
  /\ preview.file \in Seq(Rows) /\ preview.rows \in Seq(PlannedRows)
  /\ Len(preview.rows) = Len(preview.file)
  /\ previews \in 0 .. MaxPreviews
  /\ edits \in 0 .. MaxEdits

\* D2.1 L2 and L4, "never dangle": no import, whatever happened to the
\* database since its preview, stores a link to a record that is not there.
NeverDangle == LinksLead(db)

Applying == preview # NoPreview /\ preview' = NoPreview

\* D1.5: a live record that an import changes is one that the preview named
\* as the record its row refers to, even when records were renamed or deleted
\* and their identifiers reused in between.
OnlyNamedRecordsChange ==
  [][Applying =>
       \A d \in Datasets : \A i \in DOMAIN db[d] :
         db'[d][i] # db[d][i] =>
           \E k \in DOMAIN preview.rows :
             preview.rows[k].ds = d /\ preview.rows[k].existing = i]_vars

\* "Add only" adds: it changes and removes no live record.
AddOnlyKeepsRecords ==
  [][Applying /\ preview.mode = "add_only" =>
       \A d \in Datasets : \A i \in DOMAIN db[d] :
         i \in DOMAIN db'[d] /\ db'[d][i] = db[d][i]]_vars

\* The rows of the preview that a new record of this name can come from.
RowsFor(d, name) ==
  {k \in DOMAIN preview.rows : /\ preview.rows[k].ds = d
                               /\ preview.rows[k].values.name = name}

\* Where the file says a new record belongs.
BelongsTo(d, k, link) ==
  LET asked == preview.file[k].link
      parents == Declarers(preview.file, Target[d], asked)
  IN  CASE asked \in {Absent, None} -> link = None
        [] asked \notin {Absent, None} /\ parents = {} -> link = asked
        [] OTHER -> \E p \in parents :
             db'[Target[d]][link].name = preview.rows[p].values.name

\* D2.1 L1: a record the preview of a default import showed as new is stored
\* under the parent its file names, found by the parent's name and not by the
\* file's number for it.
NewRecordsUnderTheirParent ==
  [][Applying /\ preview.mode # "restore" =>
       \A d \in Datasets : \A i \in DOMAIN db'[d] \ DOMAIN db[d] :
         LET record == db'[d][i]
             rows == RowsFor(d, record.name)
         IN  (\A k \in rows : preview.rows[k].status = "create") =>
               \E k \in rows : BelongsTo(d, k, record.link)]_vars

\* Two rows of the file write a key with this name under different numbers.
WrittenApart(d, name) ==
  /\ d \in LinkInKey
  /\ \E k, l \in RowsFor(d, name) :
       preview.rows[k].values.link # preview.rows[l].values.link

\* An import adds no record under a natural key that a live record has, and
\* none under a key that the same import gives another record, the links in a
\* key being followed to the records they lead to (D1).  Rows of one file are
\* told apart by their keys as the file writes them, so one case is left: two
\* rows whose different numbers lead to one parent add its contract twice.
NoKeyAddedTwice ==
  [][Applying =>
       \A d \in Datasets : \A i \in DOMAIN db'[d] \ DOMAIN db[d] :
         LET record == db'[d][i] IN
         /\ KeyMatches(db, d, record.name, record.link) = {}
         /\ \/ KeyMatches(db', d, record.name, record.link) = {i}
            \/ WrittenApart(d, record.name)]_vars

-----------------------------------------------------------------------------
(* Statements of the documents that the code does not keep. *)

\* ADR-0004 D1.6 (1): a row disclosed as "skip" or "no change" results in no
\* write of any kind.
SkippedRowsUntouched ==
  [][Applying =>
       \A k \in DOMAIN preview.rows :
         LET d == preview.rows[k].ds
             i == preview.rows[k].existing
         IN  preview.rows[k].status = "skip" => db'[d][i] = db[d][i]]_vars

\* README: an identifier in the file never selects the record to update.  A
\* row that refers to a parent in the file by its identifier updates, if any,
\* a record of the live parent that the file's parent row was matched with.
NeverSelectedByIdentifier ==
  [][preview' # preview /\ preview' # NoPreview /\ preview'.mode # "restore" =>
       \A k \in DOMAIN preview'.rows :
         LET row == preview'.rows[k] IN
         row.ds \in LinkInKey /\ row.source = "file" /\ row.status = "update" =>
           row.parent = db[row.ds][row.existing].link]_vars
=============================================================================
