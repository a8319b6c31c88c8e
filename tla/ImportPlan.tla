---------------------------- MODULE ImportPlan ----------------------------
(***************************************************************************)
(* Planning and writing a data import (app/data_management.py,             *)
(* build_import_plan and apply_import; ADR-0004 D1, D2).                   *)
(*                                                                         *)
(* Three of the Hub's datasets stand for all of them: business units (one  *)
(* optional link, to their own dataset), customers (one optional link that *)
(* is not part of the natural key) and contracts (one required link that   *)
(* is).  A record is its name, one other column, and its link.  A file is  *)
(* the sequence of its rows, in the order of DATASETS; a row leaves out a  *)
(* column with Absent and its identifier with None.                        *)
(***************************************************************************)
EXTENDS Naturals, FiniteSets, Sequences, SequencesExt

CONSTANTS None, Absent, Blank

Datasets == {"units", "customers", "contracts"}
Target == [units |-> "units", customers |-> "units", contracts |-> "customers"]
LinkInKey == {"contracts"}
LinkRequired == {"contracts"}
UniqueName == {"units"}   \* BusinessUnit.name has a unique index
Columns == {"name", "note", "link"}

Modes == {"add_only", "add_update", "restore"}

\* session.exec(query).first(): SQLite scans in rowid order.
First(ids) == CHOOSE i \in ids : \A j \in ids : i <= j

\* rowid of a new record: one past the largest in the table.
NextId(table) == 1 + Max({0} \cup DOMAIN table)

\* len(declared_index[(target, x)]): rows of the file that declare x.
Declarers(file, t, x) == {i \in DOMAIN file : file[i].ds = t /\ file[i].id = x}

\* The live records with this natural key.
KeyMatches(db, d, name, link) ==
  {i \in DOMAIN db[d] : /\ db[d][i].name = name
                        /\ d \in LinkInKey => db[d][i].link = link}

\* _find_existing: by identifier when restoring, else by the natural key.
FindExisting(db, mode, d, id, name, link) ==
  IF mode = "restore" /\ id \in DOMAIN db[d] THEN id
  ELSE LET matches == KeyMatches(db, d, name, link)
       IN  IF name \in {Absent, Blank} \/ matches = {} THEN None ELSE First(matches)

NoLink == [source |-> "none", resolved |-> None]

\* Mutant of PlanLink: a live record with the number wins over the file's row.
PlanLinkLiveFirst(db, file, remap, row) ==
  LET t == Target[row.ds]
      parents == Cardinality(Declarers(file, t, row.link))
      linked == row.link \notin {Absent, None}
      live == row.link \in DOMAIN db[t]
  IN  CASE ~linked -> NoLink
        [] linked /\ live -> [source |-> "hub", resolved |-> row.link]
        [] linked /\ ~live /\ parents = 1 ->
             [source |-> "file", resolved |-> IF <<t, row.link>> \in DOMAIN remap
                                                THEN remap[<<t, row.link>>] ELSE None]
        [] OTHER -> [source |-> "error", resolved |-> None]

\* _plan_links: which parent the row's link points at.  One row of the file
\* that declares the number wins over a live record that has it.
PlanLink(db, file, remap, row) ==
  LET t == Target[row.ds]
      parents == Cardinality(Declarers(file, t, row.link))
      linked == row.link \notin {Absent, None}
  IN  CASE ~linked -> NoLink
        [] linked /\ parents = 1 ->
             [source |-> "file", resolved |-> IF <<t, row.link>> \in DOMAIN remap
                                                THEN remap[<<t, row.link>>] ELSE None]
        [] linked /\ parents = 0 /\ row.link \in DOMAIN db[t] ->
             [source |-> "hub", resolved |-> row.link]
        [] OTHER -> [source |-> "error", resolved |-> None]

\* Mutant of MatchLink: the number in the file takes part in the key.
MatchLinkAsDeclared(link, row) == row.link

\* The link a natural key is matched with: where it leads, when that is known.
MatchLink(link, row) == IF link.resolved # None THEN link.resolved ELSE row.link

\* The file's columns over the stored ones, or over a new record's defaults.
Merge(db, d, existing, row) ==
  LET base == IF existing = None
                THEN [name |-> Absent, note |-> Blank, link |-> None]
                ELSE db[d][existing]
  IN  [c \in Columns |-> IF row[c] = Absent THEN base[c] ELSE row[c]]

\* Mutant of Invalid: a blank name is text enough.
InvalidNameless(d, values) ==
  \/ values.name = Absent
  \/ d \in LinkRequired /\ values.link = None

\* Pydantic's and _required_text_issues' refusals.
Invalid(d, values) ==
  \/ values.name \in {Absent, Blank}
  \/ d \in LinkRequired /\ values.link = None

\* Mutant of Identity: rows are the same only where every column is.
IdentityOfWholeRow(d, values) == <<d, values>>

\* What tells two rows of a file apart: the natural key as the FILE writes
\* it, declared numbers and all.
Identity(d, values) ==
  <<d, values.name, IF d \in LinkInKey THEN values.link ELSE None>>

\* _changed_fields: columns that move.  A link is compared where it leads.
Changed(db, d, existing, values, link) ==
  LET stored == db[d][existing]
      moves == IF link.source = "none" THEN values.link # stored.link
               ELSE link.resolved # stored.link \/ link.resolved = None
  IN  {c \in {"name", "note"} : values[c] # stored[c]}
        \cup (IF moves THEN {"link"} ELSE {})

\* Mutant of Status: the mode is not looked at.
StatusIgnoresMode(mode, bad, existing, changed) ==
  CASE bad -> "error"
    [] ~bad /\ existing = None -> "create"
    [] ~bad /\ existing # None /\ changed = {} -> "skip"
    [] OTHER -> "update"

\* What the import will do with the row.
Status(mode, bad, existing, changed) ==
  CASE bad -> "error"
    [] ~bad /\ existing = None -> "create"
    [] ~bad /\ existing # None /\ (mode = "add_only" \/ changed = {}) -> "skip"
    [] OTHER -> "update"

\* The row as the preview shows it and the payload carries it.
PlanRow(db, mode, file, acc, row) ==
  LET d == row.ds
      link == PlanLink(db, file, acc.remap, row)
      existing == FindExisting(db, mode, d, row.id, row.name, MatchLink(link, row))
      values == Merge(db, d, existing, row)
      changed == IF existing = None THEN {}
                 ELSE Changed(db, d, existing, values, link)
      bad == \/ link.source = "error"
             \/ Invalid(d, values)
             \/ Identity(d, values) \in acc.seen
      key == IF mode # "restore" THEN None
             ELSE IF row.id # None THEN row.id ELSE existing
  IN  [ds |-> d, declared |-> row.id, existing |-> existing, key |-> key,
       values |-> values, source |-> link.source, parent |-> link.resolved,
       changed |-> changed,
       status |-> Status(mode, bad, existing, changed)]

PlanStep(db, mode, file, acc, row) ==
  LET planned == PlanRow(db, mode, file, acc, row)
      at == <<row.ds, row.id>>
  IN  [rows |-> Append(acc.rows, planned),
       seen |-> acc.seen \cup {Identity(row.ds, planned.values)},
       remap |-> [k \in DOMAIN acc.remap \cup {at} |->
                    IF k = at THEN planned.existing ELSE acc.remap[k]]]

\* build_import_plan: the rows, planned in order.
BuildPlan(db, mode, file) ==
  FoldLeft(LAMBDA acc, row : PlanStep(db, mode, file, acc, row),
           [rows |-> <<>>, seen |-> {}, remap |-> [k \in {} |-> None]],
           file).rows

HasErrors(rows) == \E i \in DOMAIN rows : rows[i].status = "error"

\* The payload's rows read back as a file: whole merged records, every column
\* present, under the declared identifier (_payload_entry, apply_import).
Payload(rows) ==
  [i \in DOMAIN rows |->
     [ds |-> rows[i].ds,
      id |-> IF rows[i].declared # None THEN rows[i].declared ELSE rows[i].key,
      name |-> rows[i].values.name,
      note |-> rows[i].values.note,
      link |-> rows[i].values.link]]

\* Mutant of IdentityDisclosed: D1.5 is displayed and not enforced.
IdentityNotChecked(rows, shown) == TRUE

\* ADR-0004 D1.5: a row may only update the record the preview named.
IdentityDisclosed(rows, shown) ==
  \A i \in DOMAIN rows :
    rows[i].status = "update" => rows[i].existing = shown[i].existing

Failed(acc) == [acc EXCEPT !.ok = FALSE]

\* Mutant of ResolvedLink: the declared number is written as it stands.
ResolvedLinkAsDeclared(acc, row) == row.values.link

\* _resolve_links: the identifier to write, Absent when there is none.
ResolvedLink(acc, row) ==
  LET t == Target[row.ds]
      declared == row.values.link
      resolved == IF row.source # "file" THEN declared
                  ELSE IF <<t, declared>> \in DOMAIN acc.remap
                         THEN acc.remap[<<t, declared>>] ELSE Absent
  IN  CASE declared = None -> None
        [] declared # None /\ resolved \in DOMAIN acc.db[t] -> resolved
        [] OTHER -> Absent

Remember(acc, row, id) ==
  IF row.declared = None THEN acc.remap
  ELSE LET at == <<row.ds, row.declared>>
       IN  [k \in DOMAIN acc.remap \cup {at} |-> IF k = at THEN id ELSE acc.remap[k]]

\* One turn of apply_import's write loop.
WriteRow(acc, row) ==
  LET d == row.ds
      link == ResolvedLink(acc, row)
      undisclosed == /\ row.existing # None
                     /\ link # acc.db[d][row.existing].link
                     /\ "link" \notin row.changed
      id == CASE row.existing # None -> row.existing
              [] row.existing = None /\ row.key # None -> row.key
              [] OTHER -> NextId(acc.db[d])
      taken == \/ row.existing = None /\ id \in DOMAIN acc.db[d]
               \/ /\ d \in UniqueName
                  /\ \E i \in DOMAIN acc.db[d] \ {id} :
                       acc.db[d][i].name = row.values.name
      record == [row.values EXCEPT !.link = link]
      table == [i \in DOMAIN acc.db[d] \cup {id} |->
                  IF i = id THEN record ELSE acc.db[d][i]]
  IN  IF row.status = "skip"
        THEN [acc EXCEPT !.remap = Remember(acc, row, row.existing)]
      ELSE IF link = Absent \/ undisclosed \/ taken
        THEN Failed(acc)
      ELSE [acc EXCEPT !.db = [acc.db EXCEPT ![d] = table],
                       !.remap = Remember(acc, row, id)]

\* apply_import's write loop: the first row that cannot be written ends it.
WriteRows(db, rows) ==
  FoldLeft(LAMBDA acc, row : IF acc.ok THEN WriteRow(acc, row) ELSE acc,
           [ok |-> TRUE, db |-> db, remap |-> [k \in {} |-> None]],
           rows)

\* apply_import: the database after the transaction, and whether it committed.
ApplyImport(db, mode, shown) ==
  LET rows == BuildPlan(db, mode, Payload(shown))
      written == WriteRows(db, rows)
  IN  IF HasErrors(rows) \/ ~IdentityDisclosed(rows, shown) \/ ~written.ok
        THEN [ok |-> FALSE, db |-> db]
        ELSE [ok |-> TRUE, db |-> written.db]
=============================================================================
