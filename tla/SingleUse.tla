----------------------------- MODULE SingleUse -----------------------------
(***************************************************************************)
(* What ADR-0004 D4 promises of an import preview, with nothing said of    *)
(* how it is kept: a preview that has been handed out may be redeemed      *)
(* while it is open, redeeming closes it for good, and only a redeemed     *)
(* preview can be written to the database, at most once.  The Hub may      *)
(* close an open preview whenever it likes (expiry, eviction, restart).    *)
(***************************************************************************)
CONSTANT Nonces

VARIABLES
  ever,     \* previews handed out so far
  open,     \* those that can still be redeemed
  pending,  \* the preview redeemed and not yet written: at most one
  done      \* those whose import has been committed

absVars == <<ever, open, pending, done>>

Init ==
  /\ ever = {}
  /\ open = {}
  /\ pending = {}
  /\ done = {}

Issue(n) ==
  /\ n \notin ever
  /\ ever' = ever \cup {n}
  /\ open' \in SUBSET (open \cup {n})
  /\ UNCHANGED <<pending, done>>

Redeem(n) ==
  /\ pending = {}
  /\ n \in open
  /\ open' \in SUBSET (open \ {n})
  /\ pending' \in {{}, {n}}
  /\ UNCHANGED <<ever, done>>

Write(n) ==
  /\ pending = {n}
  /\ n \notin done
  /\ pending' = {}
  /\ done' = done \cup {n}
  /\ UNCHANGED <<ever, open>>

Close ==
  /\ open' \in SUBSET open
  /\ pending' \in SUBSET pending
  /\ UNCHANGED <<ever, done>>

Next ==
  \/ \E n \in Nonces : Issue(n) \/ Redeem(n) \/ Write(n)
  \/ Close

Spec == Init /\ [][Next]_absVars
=============================================================================
