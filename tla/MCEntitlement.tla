--------------------------- MODULE MCEntitlement ---------------------------
(* Two projects under two solutions, one with a contract, of one customer.  *)
EXTENDS Entitlement, TLC

CONSTANTS acme, frame, plain, framed, authority, operator

Answers(initiated, another) ==
  [initiated |-> initiated, discovered |-> FALSE, specified |-> FALSE,
   another |-> another, grant |-> FALSE]

MCDefaultTax == authority :> "no" @@ operator :> "unknown"
MCCustomerForms == {[type |-> authority, tax |-> "unknown"],
                    [type |-> operator, tax |-> "yes"]}
MCContractForms == {[intended |-> TRUE, described |-> TRUE],
                    [intended |-> FALSE, described |-> FALSE]}
MCSolutionForms == {[customer |-> acme, contract |-> frame],
                    [customer |-> acme, contract |-> None]}
MCProjectFacts == {Answers(TRUE, TRUE)}

Nothing == [i \in {} |-> None]
Writes(customers, contracts, solutions, projects, reviews) ==
  [customers |-> customers, contracts |-> contracts, solutions |-> solutions,
   projects |-> projects, reviews |-> reviews]

\* One file for each dataset, and one more number.
Files ==
  { Writes(acme :> [type |-> operator, tax |-> "yes"], Nothing, Nothing, Nothing, Nothing),
    Writes(Nothing, frame :> [intended |-> TRUE, described |-> TRUE],
           Nothing, Nothing, Nothing),
    Writes(Nothing, Nothing, plain :> [customer |-> acme, contract |-> frame],
           Nothing, Nothing),
    Writes(Nothing, Nothing, Nothing, 1 :> With(Answers(TRUE, TRUE), framed), Nothing),
    Writes(Nothing, Nothing, Nothing, 2 :> With(Answers(TRUE, TRUE), plain), Nothing),
    Writes(Nothing, Nothing, Nothing, Nothing, 1 :> "supplier_likely") }

MCImports == {w \in Files : WellFormed(w)}
=============================================================================
