-------------------------- MODULE MCLinkIntegrity --------------------------
(* One parent number, handed out up to MaxGen times, a constrained child, a *)
(* child whose column was added by ALTER TABLE and a companion; two delete  *)
(* pages at a time.  That one number is always reused, which is the hardest *)
(* case for the links.                                                      *)
EXTENDS LinkIntegrity, TLC

CONSTANTS costLine, customer, review, t1, t2

Symmetry == Permutations({t1, t2})
=============================================================================
