-------------------------- MODULE MCPreviewStore --------------------------
(* A small instance of PreviewStore: more previews than the store may track, *)
(* a clock that outruns their lifetime, one payload nobody can read.         *)
EXTENDS PreviewStore, TLC

CONSTANTS n1, n2, n3, planA, planB, garbled

Symmetry == Permutations({n1, n2, n3}) \cup Permutations({planA, planB})
=============================================================================
