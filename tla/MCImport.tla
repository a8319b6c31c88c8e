----------------------------- MODULE MCImport -----------------------------
(* Small databases, files of one row per dataset or two of one, and every  *)
(* collision between the identifiers of the file and those of the Hub.     *)
EXTENDS Import, TLC

CONSTANTS north, south, acme, brit, newco, main, x

Record(name, note, link) == [name |-> name, note |-> note, link |-> link]
Row(d, id, name, note, link) ==
  [ds |-> d, id |-> id, name |-> name, note |-> note, link |-> link]

Db(units, customers, contracts) ==
  [units |-> units, customers |-> customers, contracts |-> contracts]

Units == <<Record(north, Blank, None)>>
Customers == <<Record(acme, Blank, 1), Record(brit, Blank, None)>>

MCInitialDbs ==
  { Db(Units, Customers, <<Record(main, Blank, 2)>>),
    Db(Units, Customers, <<Record(main, Blank, 1)>>),
    Db(<<>>, <<>>, <<>>) }

UnitRows == {<<>>} \cup {<<Row("units", id, name, Absent, Absent)>> :
                           id \in {None, 1}, name \in {north, south}}
CustomerRows == {<<>>} \cup {<<Row("customers", id, name, note, link)>> :
                               id \in {None, 2}, name \in {acme, newco},
                               note \in {Absent, x}, link \in {Absent, None, 1}}
ContractRows == {<<>>} \cup {<<Row("contracts", None, main, Absent, link)>> :
                               link \in {1, 2}}
PairRows == {<<Row("customers", 1, acme, Absent, Absent),
               Row("contracts", None, main, x, 1),
               Row("contracts", None, main, Absent, 2)>>,
             <<Row("customers", None, newco, Absent, Absent),
               Row("customers", None, newco, x, Absent)>>,
             <<Row("customers", 5, brit, Absent, Absent),
               Row("contracts", None, newco, Absent, 5),
               Row("contracts", None, newco, x, 2)>>,
             <<Row("units", None, Blank, x, None)>>,
             <<Row("units", 1, south, Absent, 2),
               Row("units", 2, north, Absent, Absent)>>,
             <<Row("units", 2, south, Absent, Absent),
               Row("units", 1, north, Absent, 2)>>}

MCFiles == {u \o c \o k : u \in UnitRows, c \in CustomerRows, k \in ContractRows}
             \cup PairRows

MCFormRecords ==
  [units |-> {Record(south, Blank, None)},
   customers |-> {Record(brit, x, None), Record(acme, Blank, None)},
   contracts |-> {Record(main, x, 1)}]
=============================================================================
