-------------------------- MODULE MCReferenceSeed --------------------------
(* Three units of the tree and one old name, the reference customer that   *)
(* two of them have, and two of the demo's customers.                      *)
EXTENDS ReferenceSeed

MCTree == <<[name |-> "Transport", parent |-> None],
            [name |-> "Rail", parent |-> "Transport"],
            [name |-> "SCADA", parent |-> "Transport"]>>
MCRenames == << <<"Scada", "SCADA">> >>
MCReferences == <<[name |-> "National Rail", unit |-> "Rail"],
                  [name |-> "National Rail", unit |-> "SCADA"]>>
MCDemoStages == <<"company", "customers", "contracts", "review">>
MCDemoCustomers == <<[name |-> "MetroRail", unit |-> "Rail"]>>

\* A new database, one with the old name, and one with both.
MCEarlier ==
  {[u \in {} |-> None],
   [u \in {"Transport", "Scada"} |-> None],
   [u \in {"SCADA", "Scada"} |-> None]}
=============================================================================
