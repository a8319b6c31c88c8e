------------------------- MODULE PreviewStoreProofs -------------------------
(***************************************************************************)
(* For every set of nonces, every lifetime and every capacity: a preview   *)
(* is written at most once, and what is written is what was shown.         *)
(*                                                                         *)
(* None of these is inductive alone.  AppliedOnce needs the preview being  *)
(* written not to be in the ledger yet, which needs a popped nonce never   *)
(* to be tracked again, which needs every tracked or popped nonce to be    *)
(* one that was handed out: the chain Tracked, Popped, NeverRevived,       *)
(* InFlight, AppliedOnce.                                                  *)
(*                                                                         *)
(* Capacity and retention count: they need the keys of a dict to be        *)
(* finitely many, each inserted at a moment of its own (Dated).            *)
(***************************************************************************)
EXTENDS PreviewStore, DataInduction

\* The issued store holds what was handed out, unchanged.
Tracked ==
  \A n \in DOMAIN issued : n \in DOMAIN minted /\ issued[n] = minted[n]

\* Whatever is being written or has been written was popped first.
Popped ==
  /\ spent \cup lost \subseteq DOMAIN minted
  /\ \A p \in inflight : p.nonce \in spent
  /\ \A i \in DOMAIN ledger : ledger[i].nonce \in spent

\* A payload is what its preview showed, read within the preview's lifetime.
AsShown(p) ==
  /\ p.nonce \in DOMAIN minted
  /\ p.body = minted[p.nonce].digest
  /\ p.at - minted[p.nonce].at <= TTL

\* The payload being written is the only one, was shown, and has not been
\* written before.
InFlight ==
  \A p \in inflight :
    /\ inflight = {p}
    /\ AsShown(p)
    /\ \A i \in DOMAIN ledger : ledger[i].nonce # p.nonce

IInv ==
  /\ TypeOK
  /\ Tracked
  /\ Popped
  /\ NeverRevived
  /\ InFlight
  /\ AppliedOnce
  /\ AppliedAsShown

-----------------------------------------------------------------------------
\* Bounding a store only forgets keys, the expired ones among them.
LEMMA BoundForgets ==
  ASSUME NEW s, IsStore(s), NEW t \in Nat
  PROVE  /\ IsStore(Bound(s, t))
         /\ DOMAIN Bound(s, t) \subseteq DOMAIN s
         /\ \A n \in DOMAIN Bound(s, t) :
              Bound(s, t)[n] = s[n] /\ t - s[n].at <= TTL
<1> DEFINE S == DOMAIN Bound(s, t)
<1>1. S \subseteq Live(s, t)
  BY DEF Bound, Keep
<1>2. Live(s, t) \subseteq DOMAIN s /\ \A n \in Live(s, t) : t - s[n].at <= TTL
  BY DEF Live
<1>3. Bound(s, t) = [n \in S |-> s[n]]
  BY DEF Bound, Keep
<1>4. QED
  BY <1>1, <1>2, <1>3 DEF IsStore

\* Storing an entry changes that key only.
LEMMA PutAdds ==
  ASSUME NEW s, IsStore(s), NEW n \in Nonces, NEW e \in Entry
  PROVE  /\ IsStore(Put(s, n, e))
         /\ DOMAIN Put(s, n, e) = DOMAIN s \cup {n}
         /\ Put(s, n, e)[n] = e
         /\ \A m \in DOMAIN s \ {n} : Put(s, n, e)[m] = s[m]
  BY DEF IsStore, Put

\* A preview under a new key leaves every earlier one as it was.
LEMMA FreshAdds ==
  ASSUME NEW s, IsStore(s), NEW n \in Nonces, NEW e \in Entry, n \notin DOMAIN s,
         NEW x, x = Put(s, n, e)
  PROVE  /\ IsStore(x) /\ DOMAIN x = DOMAIN s \cup {n}
         /\ x[n] = e /\ \A m \in DOMAIN s : x[m] = s[m]
<1>1. \A m \in DOMAIN s : m \in DOMAIN s \ {n}
  OBVIOUS
<1> QED BY <1>1, PutAdds

\* Popping a key removes it and nothing else.
LEMMA DropRemoves ==
  ASSUME NEW s, IsStore(s), NEW n
  PROVE  /\ IsStore(Drop(s, n))
         /\ DOMAIN Drop(s, n) = DOMAIN s \ {n}
         /\ \A m \in DOMAIN s \ {n} : Drop(s, n)[m] = s[m]
  BY DEF IsStore, Drop, Keep

\* Forgetting everything leaves an empty store.
LEMMA EmptyStore ==
  ASSUME NEW s
  PROVE  IsStore(Keep(s, {})) /\ DOMAIN Keep(s, {}) = {}
  BY DEF IsStore, Keep

-----------------------------------------------------------------------------
\* The process starts with nothing handed out.
LEMMA InitEstablishes == Init => IInv
<1> SUFFICES ASSUME Init PROVE IInv
  OBVIOUS
<1>1. TypeOK
  BY StoreAssumption DEF Init, TypeOK, IsStore, Messages
<1>2. Tracked /\ Popped /\ NeverRevived /\ InFlight
  BY DEF Init, Tracked, Popped, NeverRevived, InFlight
<1>3. AppliedOnce /\ AppliedAsShown
  BY DEF Init, AppliedOnce, AppliedAsShown
<1>4. QED
  BY <1>1, <1>2, <1>3 DEF IInv

\* A new preview is tracked as it was handed out; no key is disturbed.
LEMMA PreviewStep ==
  ASSUME IInv, NEW n \in Nonces, NEW b \in Readable, Preview(n, b)
  PROVE  IInv'
<1> DEFINE e == [at |-> clock, slot |-> ticket, digest |-> b]
           old == Bound(issued, clock)
           put == Put(old, n, e)
<1>1. e \in Entry
  BY StoreAssumption DEF IInv, TypeOK, Entry
<1>2. /\ IsStore(old)
      /\ DOMAIN old \subseteq DOMAIN issued
      /\ \A m \in DOMAIN old : old[m] = issued[m]
  <2>1. IsStore(issued) /\ clock \in Nat
    BY DEF IInv, TypeOK
  <2>2. IsStore(old) /\ DOMAIN old \subseteq DOMAIN issued
    BY <2>1, BoundForgets
  <2>3. \A m \in DOMAIN old : old[m] = issued[m]
    BY <2>1, BoundForgets
  <2>4. QED
    BY <2>2, <2>3
<1>3. /\ IsStore(put)
      /\ DOMAIN put = DOMAIN old \cup {n}
      /\ put[n] = e
      /\ \A m \in DOMAIN old \ {n} : put[m] = old[m]
  BY <1>1, <1>2, PutAdds
<1>4. /\ IsStore(issued')
      /\ DOMAIN issued' \subseteq DOMAIN put
      /\ \A m \in DOMAIN issued' : issued'[m] = put[m]
  <2>1. issued' = Bound(put, clock)
    BY DEF Preview
  <2>2. QED
    BY <2>1, <1>3, BoundForgets DEF IInv, TypeOK
<1>5. IsStore(consumed')
  BY BoundForgets DEF IInv, TypeOK, Preview
<1>6. /\ n \notin DOMAIN minted
      /\ IsStore(minted')
      /\ DOMAIN minted' = DOMAIN minted \cup {n}
      /\ minted'[n] = e
      /\ \A m \in DOMAIN minted : minted'[m] = minted[m]
  <2>1. n \notin DOMAIN minted /\ minted' = Put(minted, n, e)
    BY DEF Preview
  <2>2. IsStore(minted)
    BY DEF IInv, TypeOK
  <2>3. /\ IsStore(Put(minted, n, e))
        /\ DOMAIN Put(minted, n, e) = DOMAIN minted \cup {n}
        /\ Put(minted, n, e)[n] = e
        /\ \A m \in DOMAIN minted \ {n} : Put(minted, n, e)[m] = minted[m]
    BY <1>1, <2>2, PutAdds
  <2>4. IsStore(minted')
    BY <2>1, <2>3 DEF IsStore
  <2>5. QED
    BY <2>1, <2>3, <2>4
<1>7. TypeOK'
  BY <1>4, <1>5, <1>6 DEF IInv, TypeOK, Preview
<1>8. Tracked'
  BY <1>2, <1>3, <1>4, <1>6 DEF IInv, Tracked
<1>9. Popped' /\ NeverRevived'
  BY <1>2, <1>3, <1>4, <1>6 DEF IInv, Popped, NeverRevived, Preview
<1>10. InFlight' /\ AppliedOnce' /\ AppliedAsShown'
  BY <1>6 DEF IInv, InFlight, AsShown, AppliedOnce, AppliedAsShown, Preview
<1>11. QED
  BY <1>7, <1>8, <1>9, <1>10 DEF IInv

\* What the pop leaves: the nonce is gone from the store, and its entry, which
\* outlived the prune, is no older than the lifetime.
LEMMA SpendPops ==
  ASSUME IInv, NEW n \in Nonces, Spend(n)
  PROVE  /\ IsStore(issued') /\ IsStore(consumed')
         /\ ticket' \in Nat
         /\ n \in DOMAIN issued
         /\ clock - issued[n].at <= TTL
         /\ DOMAIN issued' \subseteq DOMAIN issued \ {n}
         /\ \A m \in DOMAIN issued' : issued'[m] = issued[m]
         /\ spent' = spent \cup {n}
<1> DEFINE old == Bound(issued, clock)
           e == [at |-> clock, slot |-> ticket, digest |-> issued[n].digest]
<1>1. /\ IsStore(old)
      /\ DOMAIN old \subseteq DOMAIN issued
      /\ \A m \in DOMAIN old : old[m] = issued[m] /\ clock - issued[m].at <= TTL
  <2>1. IsStore(issued) /\ clock \in Nat
    BY DEF IInv, TypeOK
  <2>2. IsStore(old) /\ DOMAIN old \subseteq DOMAIN issued
    BY <2>1, BoundForgets
  <2>3. \A m \in DOMAIN old : old[m] = issued[m] /\ clock - issued[m].at <= TTL
    <3>1. \A m \in DOMAIN Bound(issued, clock) :
             /\ Bound(issued, clock)[m] = issued[m]
             /\ clock - issued[m].at <= TTL
      BY <2>1, BoundForgets
    <3>2. QED
      BY <3>1
  <2>4. QED
    BY <2>2, <2>3
<1>2. /\ IsStore(issued')
      /\ DOMAIN issued' = DOMAIN old \ {n}
      /\ \A m \in DOMAIN issued' : issued'[m] = old[m]
  <2>1. issued' = Drop(old, n)
    BY DEF Spend
  <2>2. /\ IsStore(Drop(old, n))
        /\ DOMAIN Drop(old, n) = DOMAIN old \ {n}
        /\ \A m \in DOMAIN old \ {n} : Drop(old, n)[m] = old[m]
    BY <1>1, DropRemoves
  <2>3. IsStore(issued')
    BY <2>1, <2>2 DEF IsStore
  <2>4. QED
    BY <2>1, <2>2, <2>3
<1>3. n \in DOMAIN old
  BY DEF Spend
<1>4. IsStore(consumed')
  <2>1. e \in Entry
    BY <1>1, <1>3 DEF IInv, TypeOK, IsStore, Entry
  <2>2. IsStore(Put(Bound(consumed, clock), n, e))
    BY <2>1, BoundForgets, PutAdds DEF IInv, TypeOK
  <2>3. QED
    BY <2>2, BoundForgets DEF IInv, TypeOK, Spend
<1>5. QED
  BY <1>1, <1>2, <1>3, <1>4 DEF IInv, TypeOK, Spend

\* The refusals that may prune or pop, and write nothing.
LEMMA RefusalSteps ==
  ASSUME IInv, NEW n \in Nonces \cup {None}, NEW b \in Bodies,
         Post(n, b) \/ (n \in Nonces /\ PostAltered(n, b))
  PROVE  IInv'
<1>1. CASE PostUnreadable(n, b)
  BY <1>1 DEF PostUnreadable, Answer, history, IInv, TypeOK, Messages, Tracked,
     Popped, NeverRevived, InFlight, AsShown, AppliedOnce, AppliedAsShown
<1>2. CASE PostUnknown(n)
  <2>1. /\ IsStore(issued') /\ IsStore(consumed')
        /\ DOMAIN issued' \subseteq DOMAIN issued
        /\ \A m \in DOMAIN issued' : issued'[m] = issued[m]
    <3>1. issued' = Bound(issued, clock) /\ consumed' = Bound(consumed, clock)
      BY <1>2 DEF PostUnknown
    <3>2. IsStore(issued) /\ IsStore(consumed) /\ clock \in Nat
      BY DEF IInv, TypeOK
    <3>3. IsStore(Bound(consumed, clock))
      BY <3>2, BoundForgets
    <3>4. /\ IsStore(Bound(issued, clock))
          /\ DOMAIN Bound(issued, clock) \subseteq DOMAIN issued
          /\ \A m \in DOMAIN Bound(issued, clock) :
               Bound(issued, clock)[m] = issued[m]
      BY <3>2, BoundForgets
    <3>5. QED
      BY <3>1, <3>3, <3>4 DEF IsStore
  <2>2. TypeOK'
    BY <1>2, <2>1 DEF PostUnknown, Answer, history, IInv, TypeOK, Messages
  <2>3. Tracked' /\ Popped' /\ NeverRevived'
    BY <1>2, <2>1 DEF PostUnknown, history, IInv, Tracked, Popped, NeverRevived
  <2>4. InFlight' /\ AppliedOnce' /\ AppliedAsShown'
    BY <1>2 DEF PostUnknown, history, IInv, InFlight, AsShown, AppliedOnce,
       AppliedAsShown
  <2>5. QED
    BY <2>2, <2>3, <2>4 DEF IInv
<1>3. CASE n \in Nonces /\ PostAltered(n, b)
  <2>1. /\ IsStore(issued') /\ IsStore(consumed') /\ ticket' \in Nat
        /\ n \in DOMAIN issued
        /\ DOMAIN issued' \subseteq DOMAIN issued \ {n}
        /\ \A m \in DOMAIN issued' : issued'[m] = issued[m]
        /\ spent' = spent \cup {n}
    BY <1>3, SpendPops DEF PostAltered
  <2>2. TypeOK'
    BY <1>3, <2>1 DEF PostAltered, Answer, IInv, TypeOK, Messages
  <2>3. Tracked' /\ Popped' /\ NeverRevived'
    BY <1>3, <2>1 DEF PostAltered, IInv, Tracked, Popped, NeverRevived
  <2>4. InFlight' /\ AppliedOnce' /\ AppliedAsShown'
    BY <1>3 DEF PostAltered, IInv, InFlight, AsShown, AppliedOnce, AppliedAsShown
  <2>5. QED
    BY <2>2, <2>3, <2>4 DEF IInv
<1>4. QED
  BY <1>1, <1>2, <1>3 DEF Post

\* An accepted payload is what was shown, and its nonce was never popped before,
\* so that it cannot be in the ledger.
LEMMA AcceptStep ==
  ASSUME IInv, NEW n \in Nonces, NEW b \in Bodies, PostGenuine(n, b)
  PROVE  IInv'
<1> DEFINE p == [nonce |-> n, body |-> b, at |-> clock]
<1>1. /\ IsStore(issued') /\ IsStore(consumed') /\ ticket' \in Nat
      /\ n \in DOMAIN issued
      /\ clock - issued[n].at <= TTL
      /\ DOMAIN issued' \subseteq DOMAIN issued \ {n}
      /\ \A m \in DOMAIN issued' : issued'[m] = issued[m]
      /\ spent' = spent \cup {n}
  BY SpendPops DEF PostGenuine
<1>2. inflight' = {p} /\ p.nonce = n /\ p.body = b /\ p.at = clock
  BY DEF PostGenuine
<1>3. TypeOK'
  BY <1>1, <1>2 DEF PostGenuine, Answer, IInv, TypeOK, Messages
<1>4. Tracked' /\ Popped' /\ NeverRevived'
  BY <1>1, <1>2 DEF PostGenuine, IInv, Tracked, Popped, NeverRevived
<1>5. InFlight'
  <2>1. AsShown(p)'
    BY <1>1, <1>2 DEF PostGenuine, IInv, Tracked, AsShown
  <2>2. \A i \in DOMAIN ledger : ledger[i].nonce # n
    BY <1>1 DEF IInv, Popped, NeverRevived
  <2>3. QED
    BY <1>2, <2>1, <2>2 DEF PostGenuine, InFlight
<1>6. AppliedOnce' /\ AppliedAsShown'
  BY DEF PostGenuine, IInv, AppliedOnce, AppliedAsShown
<1>7. QED
  BY <1>3, <1>4, <1>5, <1>6 DEF IInv

\* The one step that writes.
LEMMA CommitStep ==
  ASSUME IInv, NEW p \in inflight, Commit(p)
  PROVE  IInv'
<1> DEFINE P == [nonce : Nonces, body : Bodies, at : Nat]
<1>1. p \in P /\ ledger \in Seq(P)
  BY DEF IInv, TypeOK
<1>2. /\ ledger' \in Seq(P)
      /\ DOMAIN ledger' = DOMAIN ledger \cup {Len(ledger) + 1}
      /\ ledger'[Len(ledger) + 1] = p
      /\ \A i \in DOMAIN ledger : ledger'[i] = ledger[i]
      /\ Len(ledger) + 1 \notin DOMAIN ledger
  BY <1>1 DEF Commit
<1>3. AsShown(p) /\ p.nonce \in spent
      /\ \A i \in DOMAIN ledger : ledger[i].nonce # p.nonce
  BY DEF IInv, InFlight, Popped
<1>4. TypeOK'
  BY <1>1, <1>2 DEF Commit, Answer, IInv, TypeOK, Messages
<1>5. Tracked' /\ Popped' /\ NeverRevived' /\ InFlight'
  BY <1>2, <1>3 DEF Commit, IInv, Tracked, Popped, NeverRevived, InFlight
<1>6. AppliedOnce'
  BY <1>2, <1>3 DEF IInv, AppliedOnce
<1>7. AppliedAsShown'
  BY <1>2, <1>3 DEF Commit, IInv, AppliedAsShown, AsShown
<1>8. QED
  BY <1>4, <1>5, <1>6, <1>7 DEF IInv

\* A refused import, a restart, the clock, a stuttering step.
LEMMA QuietSteps ==
  ASSUME IInv,
         \/ \E p \in inflight : Refuse(p)
         \/ Restart
         \/ Tick
         \/ UNCHANGED vars
  PROVE  IInv'
<1> USE DEF IInv, TypeOK, Tracked, Popped, NeverRevived, InFlight, AsShown,
            AppliedOnce, AppliedAsShown, Messages, history
<1>1. CASE \E p \in inflight : Refuse(p)
  BY <1>1 DEF Refuse, Answer
<1>2. CASE Restart
  <2>1. IsStore(issued') /\ IsStore(consumed') /\ DOMAIN issued' = {}
    BY <1>2, EmptyStore DEF Restart
  <2>2. DOMAIN minted \subseteq Nonces
    BY DEF IsStore
  <2>3. QED
    BY <1>2, <2>1, <2>2 DEF Restart
<1>3. CASE Tick
  BY <1>3 DEF Tick
<1>4. CASE UNCHANGED vars
  BY <1>4 DEF vars
<1>5. QED
  BY <1>1, <1>2, <1>3, <1>4

\* The strengthened invariant holds of every reachable state.
THEOREM StoreInvariant == Spec => []IInv
<1>1. IInv /\ [Next]_vars => IInv'
  <2> SUFFICES ASSUME IInv, [Next]_vars PROVE IInv'
    OBVIOUS
  <2>1. DOMAIN minted \subseteq Nonces /\ Readable \subseteq Bodies
    BY StoreAssumption DEF IInv, TypeOK, IsStore
  <2>2. QED
    BY <2>1, PreviewStep, RefusalSteps, AcceptStep, CommitStep, QuietSteps DEF Next
<1>2. QED
  BY <1>1, InitEstablishes, PTL DEF Spec

\* Type correctness of the preview store.
THEOREM StoreTyped == Spec => []TypeOK
<1>1. IInv => TypeOK
  BY DEF IInv
<1>2. QED
  BY <1>1, StoreInvariant, PTL

\* A preview is written to the database at most once, for any number of
\* previews, posts and restarts.
THEOREM PreviewAppliedOnce == Spec => []AppliedOnce
<1>1. IInv => AppliedOnce
  BY DEF IInv
<1>2. QED
  BY <1>1, StoreInvariant, PTL

\* What is written is what the operator was shown, within its lifetime.
THEOREM PreviewAppliedAsShown == Spec => []AppliedAsShown
<1>1. IInv => AppliedAsShown
  BY DEF IInv
<1>2. QED
  BY <1>1, StoreInvariant, PTL

\* A popped nonce, or one of an earlier process, is never accepted again.
THEOREM PreviewNeverRevived == Spec => []NeverRevived
<1>1. IInv => NeverRevived
  BY DEF IInv
<1>2. QED
  BY <1>1, StoreInvariant, PTL

-----------------------------------------------------------------------------
\* Every step of the store is a step of the abstract preview, or none.
LEMMA StepRefines ==
  ASSUME IInv, [Next]_vars
  PROVE  [abstract!Next]_(abstract!absVars)
<1> USE DEF abstract!Next, abstract!absVars
<1> DEFINE pending == {p.nonce : p \in inflight}
           done == {ledger[i].nonce : i \in DOMAIN ledger}
<1>1. ASSUME NEW n \in Nonces, NEW b \in Readable, Preview(n, b)
      PROVE  abstract!Next
  <2> DEFINE e == [at |-> clock, slot |-> ticket, digest |-> b]
             old == Bound(issued, clock)
  <2>1. e \in Entry
    BY StoreAssumption DEF IInv, TypeOK, Entry
  <2>2. IsStore(old) /\ DOMAIN old \subseteq DOMAIN issued
    BY BoundForgets DEF IInv, TypeOK
  <2>3. IsStore(Put(old, n, e)) /\ DOMAIN Put(old, n, e) = DOMAIN old \cup {n}
    BY <2>1, <2>2, PutAdds
  <2>4. DOMAIN issued' \subseteq DOMAIN issued \cup {n}
    <3>1. issued' = Bound(Put(old, n, e), clock)
      BY <1>1 DEF Preview
    <3>2. QED
      BY <3>1, <2>2, <2>3, BoundForgets DEF IInv, TypeOK
  <2>5. DOMAIN minted' = DOMAIN minted \cup {n}
    BY <1>1 DEF Preview, Put
  <2>6. abstract!Issue(n)
    BY <1>1, <2>4, <2>5 DEF abstract!Issue, Preview
  <2>7. QED
    BY <2>6
<1>2. ASSUME NEW n \in Nonces, NEW b \in Bodies, PostGenuine(n, b)
      PROVE  abstract!Next
  <2>1. n \in DOMAIN issued /\ DOMAIN issued' \subseteq DOMAIN issued \ {n}
    BY <1>2, SpendPops DEF PostGenuine
  <2>2. pending = {} /\ pending' = {n}
    BY <1>2 DEF PostGenuine
  <2>3. abstract!Redeem(n)
    BY <1>2, <2>1, <2>2 DEF abstract!Redeem, PostGenuine
  <2>4. QED
    BY <2>3
<1>3. ASSUME NEW p \in inflight, Commit(p)
      PROVE  abstract!Next
  <2> DEFINE P == [nonce : Nonces, body : Bodies, at : Nat]
  <2>1. p \in P /\ ledger \in Seq(P)
    BY DEF IInv, TypeOK
  <2>2. /\ DOMAIN ledger' = DOMAIN ledger \cup {Len(ledger) + 1}
        /\ ledger'[Len(ledger) + 1] = p
        /\ \A i \in DOMAIN ledger : ledger'[i] = ledger[i]
        /\ Len(ledger) + 1 \notin DOMAIN ledger
    BY <2>1, <1>3 DEF Commit
  <2>3. done' = done \cup {p.nonce}
    BY <2>2
  <2>4. pending = {p.nonce} /\ pending' = {} /\ p.nonce \notin done
    BY <1>3 DEF Commit, IInv, InFlight
  <2>5. p.nonce \in Nonces
    BY <2>1
  <2>6. abstract!Write(p.nonce)
    BY <1>3, <2>3, <2>4 DEF abstract!Write, Commit
  <2>7. QED
    BY <2>5, <2>6
<1>4. ASSUME \/ \E n \in Nonces \cup {None} : PostUnknown(n)
             \/ \E n \in Nonces, b \in Bodies : PostAltered(n, b)
             \/ \E p \in inflight : Refuse(p)
             \/ Restart
      PROVE  abstract!Next
  <2>1. DOMAIN issued' \subseteq DOMAIN issued
    <3>1. ASSUME NEW n \in Nonces, NEW b \in Bodies, PostAltered(n, b)
          PROVE  DOMAIN issued' \subseteq DOMAIN issued
      BY <3>1, SpendPops DEF PostAltered
    <3>2. ASSUME NEW n, PostUnknown(n)
          PROVE  DOMAIN issued' \subseteq DOMAIN issued
      <4>1. issued' = Bound(issued, clock)
        BY <3>2 DEF PostUnknown
      <4>2. IsStore(issued) /\ clock \in Nat
        BY DEF IInv, TypeOK
      <4>3. QED
        BY <4>1, <4>2, BoundForgets
    <3>3. QED
      BY <1>4, <3>1, <3>2, EmptyStore DEF Refuse, Restart
  <2>2. inflight' \subseteq inflight /\ UNCHANGED <<minted, ledger>>
    BY <1>4 DEF PostUnknown, PostAltered, Refuse, Restart, history
  <2>3. pending' \subseteq pending
    BY <2>2
  <2>4. abstract!Close
    BY <2>1, <2>2, <2>3 DEF abstract!Close
  <2>5. QED
    BY <2>4
<1>5. ASSUME \/ \E n, b : PostUnreadable(n, b)
             \/ Tick
             \/ UNCHANGED vars
      PROVE  UNCHANGED abstract!absVars
  BY <1>5 DEF PostUnreadable, Tick, vars, history
<1>6. DOMAIN minted \subseteq Nonces
  BY DEF IInv, TypeOK, IsStore
<1>7. QED
  BY <1>1, <1>2, <1>3, <1>4, <1>5, <1>6 DEF Next, Post

\* The store implements the single-use preview that the decision record asks for.
THEOREM StoreImplementsSingleUse == Spec => ImplementsSingleUse
<1>1. Init => abstract!Init
  BY DEF Init, abstract!Init
<1>2. QED
  BY <1>1, StepRefines, StoreInvariant, PTL
     DEF Spec, ImplementsSingleUse, abstract!Spec
-----------------------------------------------------------------------------
\* Whatever is remembered as used was posted: what ReplyHonest takes of the
\* dict the answer is read from.
UsedWasPosted == DOMAIN consumed \subseteq spent

\* An answer stays true, and the next one is read from what is there.
LEMMA AnswersKeep ==
  ASSUME IInv, UsedWasPosted, ReplyHonest, [Next]_vars
  PROVE  UsedWasPosted' /\ ReplyHonest'
<1>1. IsStore(consumed) /\ IsStore(issued) /\ clock \in Nat
  BY DEF IInv, TypeOK
<1>2. DOMAIN Bound(consumed, clock) \subseteq DOMAIN consumed
  BY <1>1, BoundForgets
<1>3. ASSUME NEW n \in Nonces, Spend(n)
      PROVE  UsedWasPosted'
  <2> DEFINE e == [at |-> clock, slot |-> ticket, digest |-> issued[n].digest]
             used == Bound(consumed, clock)
  <2>1. n \in DOMAIN issued
    BY <1>3, SpendPops
  <2>2. e \in Entry
    BY <1>1, <2>1 DEF IInv, TypeOK, IsStore, Entry
  <2>3. IsStore(used)
    BY <1>1, BoundForgets
  <2>4. IsStore(Put(used, n, e)) /\ DOMAIN Put(used, n, e) = DOMAIN used \cup {n}
    BY <2>2, <2>3, PutAdds
  <2>5. DOMAIN consumed' \subseteq DOMAIN used \cup {n}
    <3>1. consumed' = Bound(Put(used, n, e), clock)
      BY <1>3 DEF Spend
    <3> QED BY <3>1, <2>4, <1>1, BoundForgets
  <2>6. spent' = spent \cup {n}
    BY <1>3 DEF Spend
  <2> QED BY <1>2, <2>5, <2>6 DEF UsedWasPosted
<1>4. ASSUME NEW n \in Nonces, NEW b \in Readable, Preview(n, b)
      PROVE  UsedWasPosted' /\ ReplyHonest'
  BY <1>2, <1>4 DEF Preview, UsedWasPosted, ReplyHonest
<1>5. ASSUME NEW n, NEW b, PostUnreadable(n, b)
      PROVE  UsedWasPosted' /\ ReplyHonest'
  BY <1>5 DEF PostUnreadable, Answer, history, UsedWasPosted, ReplyHonest
<1>6. ASSUME NEW n, PostUnknown(n)
      PROVE  UsedWasPosted' /\ ReplyHonest'
  BY <1>2, <1>6 DEF PostUnknown, Answer, history, UsedWasPosted, ReplyHonest
<1>7. ASSUME NEW n \in Nonces, NEW b \in Bodies, PostAltered(n, b) \/ PostGenuine(n, b)
      PROVE  UsedWasPosted' /\ ReplyHonest'
  <2>1. Spend(n)
    BY <1>7 DEF PostAltered, PostGenuine
  <2>2. ReplyHonest'
    BY <1>7 DEF PostAltered, PostGenuine, Answer, ReplyHonest
  <2> QED BY <1>3, <2>1, <2>2
<1>8. ASSUME NEW p \in inflight, Commit(p)
      PROVE  UsedWasPosted' /\ ReplyHonest'
  <2> DEFINE P == [nonce : Nonces, body : Bodies, at : Nat]
  <2>1. p \in P /\ ledger \in Seq(P)
    BY DEF IInv, TypeOK
  <2>2. Len(ledger) + 1 \in DOMAIN ledger' /\ ledger'[Len(ledger) + 1] = p
    BY <1>8, <2>1 DEF Commit
  <2> QED BY <1>8, <2>2 DEF Commit, Answer, UsedWasPosted, ReplyHonest
<1>9. ASSUME \/ \E p \in inflight : Refuse(p)
             \/ Tick
             \/ UNCHANGED vars
      PROVE  UsedWasPosted' /\ ReplyHonest'
  BY <1>9 DEF Refuse, Answer, Tick, vars, history, UsedWasPosted, ReplyHonest
<1>10. ASSUME Restart
       PROVE  UsedWasPosted' /\ ReplyHonest'
  BY <1>10, EmptyStore DEF Restart, UsedWasPosted, ReplyHonest
<1> QED BY <1>4, <1>5, <1>6, <1>7, <1>8, <1>9, <1>10 DEF Next, Post

\* A preview that is said to have been applied already was posted, and one that
\* is said to be complete is in the ledger, whatever was pruned, evicted or lost.
THEOREM RepliesAreHonest == Spec => []ReplyHonest
<1>1. Init => UsedWasPosted /\ ReplyHonest
  BY DEF Init, UsedWasPosted, ReplyHonest
<1>2. IInv /\ UsedWasPosted /\ ReplyHonest /\ [Next]_vars => UsedWasPosted' /\ ReplyHonest'
  BY AnswersKeep
<1> QED BY <1>1, <1>2, StoreInvariant, PTL DEF Spec

-----------------------------------------------------------------------------
(* What _bound_preview_store keeps and what it drops *)

\* A dict's keys are finitely many, and no two were inserted at the same time.
Dated(s, top) ==
  /\ IsFiniteSet(DOMAIN s)
  /\ \A n \in DOMAIN s : s[n].slot < top
  /\ \A n, m \in DOMAIN s : s[n].slot = s[m].slot => n = m

\* However many keys there were, at most MaxTracked stay: the oldest one kept
\* has fewer than that many above it, and they are the others.
LEMMA BoundFits ==
  ASSUME NEW s, IsStore(s), NEW t \in Nat, NEW top, Dated(s, top)
  PROVE  Dated(Bound(s, t), top) /\ Cardinality(DOMAIN Bound(s, t)) <= MaxTracked
<1> DEFINE kept == DOMAIN Bound(s, t)
           live == Live(s, t)
<1>1. /\ kept = {n \in live : Cardinality(Newer(s, live, n)) < MaxTracked}
      /\ live \subseteq DOMAIN s
  BY DEF Bound, Keep, Live
<1>2. /\ kept \subseteq DOMAIN s /\ \A n \in kept : Bound(s, t)[n] = s[n]
  BY BoundForgets
<1> HIDE DEF kept, live
<1>3. IsFiniteSet(kept) /\ IsFiniteSet(live) /\ MaxTracked \in Nat
  BY <1>1, <1>2, FS_Subset, StoreAssumption DEF Dated
<1>4. Dated(Bound(s, t), top)
  BY <1>2, <1>3 DEF Dated, kept
<1>5. CASE kept = {}
  <2>1. Cardinality(kept) = 0
    BY <1>5, FS_EmptySet
  <2> QED BY <1>3, <1>4, <2>1 DEF kept
<1>6. CASE kept # {}
  <2> DEFINE slots == {s[n].slot : n \in kept}
  <2>1. \A n \in DOMAIN s : s[n].slot \in Nat
    BY DEF IsStore, Entry
  <2>2. slots \in SUBSET Nat /\ slots # {}
    BY <1>2, <1>6, <2>1
  <2>3. PICK first \in slots : \A x \in slots : first <= x
    <3> HIDE DEF slots
    <3> QED BY <2>2, LeastNumber
  <2>4. PICK n \in kept : s[n].slot = first
    BY <2>3
  <2> DEFINE newer == Newer(s, live, n)
  <2>5. kept \ {n} \subseteq newer
    <3> SUFFICES ASSUME NEW m \in kept, m # n PROVE m \in newer
      OBVIOUS
    <3>1. m \in live /\ m \in DOMAIN s /\ n \in DOMAIN s
      BY <1>1, <1>2
    <3>2. s[m].slot # s[n].slot
      BY <3>1 DEF Dated
    <3>3. s[m].slot \in Nat /\ s[n].slot \in Nat /\ s[n].slot <= s[m].slot
      BY <2>1, <2>3, <2>4, <3>1
    <3> QED BY <3>1, <3>2, <3>3 DEF Newer
  <2>6. IsFiniteSet(newer) /\ Cardinality(newer) < MaxTracked
    <3>1. newer \subseteq live
      BY DEF Newer
    <3> QED BY <1>1, <1>3, <3>1, FS_Subset
  <2> HIDE DEF newer
  <2>7. Cardinality(kept \ {n}) <= Cardinality(newer)
    BY <2>5, <2>6, FS_Subset
  <2>8. Cardinality(kept \ {n}) = Cardinality(kept) - 1
    BY <1>3, <2>4, FS_RemoveElement
  <2>9. Cardinality(kept) \in Nat /\ Cardinality(newer) \in Nat
    BY <1>3, <2>6, FS_CardinalityType
  <2> QED BY <1>3, <1>4, <2>6, <2>7, <2>8, <2>9 DEF kept
<1> QED BY <1>5, <1>6

\* A key is dropped because it is too old, or because the store that remembers
\* everything has MaxTracked newer ones.
LEMMA BoundDrops ==
  ASSUME NEW s, IsStore(s), NEW t \in Nat,
         NEW all, IsStore(all), IsFiniteSet(DOMAIN all),
         \A n \in DOMAIN s : n \in DOMAIN all /\ s[n] = all[n],
         NEW n \in DOMAIN s \ DOMAIN Bound(s, t)
  PROVE  \/ t - all[n].at > TTL
         \/ Cardinality(Newer(all, DOMAIN all, n)) >= MaxTracked
<1> DEFINE live == Live(s, t)
           newer == Newer(s, live, n)
           above == Newer(all, DOMAIN all, n)
<1>1. DOMAIN Bound(s, t) = {m \in live : Cardinality(Newer(s, live, m)) < MaxTracked}
  BY DEF Bound, Keep
<1>2. live = {m \in DOMAIN s : t - s[m].at <= TTL}
  BY DEF Live
<1>3. all[n].at \in Nat /\ TTL \in Nat /\ MaxTracked \in Nat
  BY StoreAssumption DEF IsStore, Entry
<1>4. CASE n \notin live
  BY <1>2, <1>3, <1>4
<1>5. CASE n \in live
  <2>1. ~(Cardinality(newer) < MaxTracked)
    BY <1>1, <1>5
  <2>2. newer \subseteq above
    BY <1>2 DEF Newer
  <2>3. IsFiniteSet(above)
    <3>1. above \subseteq DOMAIN all
      BY DEF Newer
    <3> HIDE DEF above
    <3> QED BY <3>1, FS_Subset
  <2> HIDE DEF newer, above
  <2>4. IsFiniteSet(newer) /\ Cardinality(newer) <= Cardinality(above)
    BY <2>2, <2>3, FS_Subset
  <2>5. Cardinality(newer) \in Nat /\ Cardinality(above) \in Nat
    BY <2>3, <2>4, FS_CardinalityType
  <2> QED BY <1>3, <2>1, <2>4, <2>5 DEF above
<1> QED BY <1>4, <1>5

\* A key inserted now is the newest.
LEMMA PutDates ==
  ASSUME NEW s, IsStore(s), NEW top \in Nat, Dated(s, top),
         NEW n \in Nonces, NEW e \in Entry, e.slot = top
  PROVE  Dated(Put(s, n, e), top + 1)
<1> DEFINE p == Put(s, n, e)
<1>1. /\ DOMAIN p = DOMAIN s \cup {n} /\ p[n] = e
      /\ \A m \in DOMAIN s \ {n} : p[m] = s[m]
  BY DEF Put
<1>2. \A m \in DOMAIN s : s[m].slot \in Nat
  BY DEF IsStore, Entry
<1>3. IsFiniteSet(DOMAIN p)
  BY <1>1, FS_AddElement DEF Dated
<1> HIDE DEF p
<1>4. \A m \in DOMAIN p : p[m].slot < top + 1
  BY <1>1, <1>2 DEF Dated
<1>5. \A m, k \in DOMAIN p : p[m].slot = p[k].slot => m = k
  <2> SUFFICES ASSUME NEW m \in DOMAIN p, NEW k \in DOMAIN p, p[m].slot = p[k].slot
               PROVE  m = k
    OBVIOUS
  <2>1. CASE m = n \/ k = n
    BY <1>1, <1>2, <2>1 DEF Dated
  <2>2. CASE m # n /\ k # n
    BY <1>1, <2>2 DEF Dated
  <2> QED BY <2>1, <2>2
<1> QED BY <1>3, <1>4, <1>5 DEF Dated, p

-----------------------------------------------------------------------------
(* Capacity and retention *)

CapacityInv ==
  /\ Dated(issued, ticket) /\ Dated(consumed, ticket)
  /\ IsFiniteSet(DOMAIN minted)
  /\ WithinCapacity
  /\ Retained

\* Both stores bounded and one of them added to: what Preview and Spend leave.
LEMMA BoundPutBound ==
  ASSUME NEW s, IsStore(s), NEW t \in Nat, NEW top \in Nat, Dated(s, top),
         NEW n \in Nonces, NEW e \in Entry, e.slot = top
  PROVE  LET x == Bound(Put(Bound(s, t), n, e), t)
         IN  Dated(x, top + 1) /\ Cardinality(DOMAIN x) <= MaxTracked
<1>1. IsStore(Bound(s, t)) /\ Dated(Bound(s, t), top)
  BY BoundForgets, BoundFits
<1>2. IsStore(Put(Bound(s, t), n, e))
  BY <1>1, PutAdds
<1>3. Dated(Put(Bound(s, t), n, e), top + 1)
  BY <1>1, PutDates
<1> QED BY <1>2, <1>3, BoundFits

\* Keys inserted before one moment were inserted before the next.
LEMMA DatedLater ==
  ASSUME NEW s, IsStore(s), NEW top \in Nat, Dated(s, top)
  PROVE  Dated(s, top + 1)
  BY DEF Dated, IsStore, Entry

\* A preview forgotten before stays forgotten for its reason.
LEMMA ReasonsStay ==
  ASSUME IInv, Retained, IsFiniteSet(DOMAIN minted'), IsStore(minted'),
         clock' \in Nat, clock' >= clock, spent \cup lost \subseteq spent' \cup lost',
         DOMAIN minted \subseteq DOMAIN minted',
         \A m \in DOMAIN minted : minted'[m] = minted[m],
         NEW n \in DOMAIN minted \ DOMAIN issued
  PROVE  \/ n \in spent' \cup lost'
         \/ clock' - minted'[n].at > TTL
         \/ Cardinality(Newer(minted', DOMAIN minted', n)) >= MaxTracked
<1> DEFINE before == Newer(minted, DOMAIN minted, n)
           after == Newer(minted', DOMAIN minted', n)
<1>1. /\ clock \in Nat /\ TTL \in Nat /\ MaxTracked \in Nat
      /\ minted[n].at \in Nat /\ minted'[n] = minted[n]
  BY StoreAssumption DEF IInv, TypeOK, IsStore, Entry
<1>2. before \subseteq after /\ after \subseteq DOMAIN minted'
  BY DEF Newer
<1> HIDE DEF before, after
<1>3. IsFiniteSet(after) /\ IsFiniteSet(before) /\ Cardinality(before) <= Cardinality(after)
  BY <1>2, FS_Subset
<1>4. Cardinality(before) \in Nat /\ Cardinality(after) \in Nat
  BY <1>3, FS_CardinalityType
<1>5. \/ n \in spent \cup lost
      \/ clock - minted[n].at > TTL
      \/ Cardinality(before) >= MaxTracked
  BY DEF Retained, before
<1> QED BY <1>1, <1>3, <1>4, <1>5 DEF after

\* Forgetting some of a store keeps it dated, and within its limit.
LEMMA FewerFit ==
  ASSUME NEW s, NEW x, NEW top, Dated(s, top), Cardinality(DOMAIN s) <= MaxTracked,
         DOMAIN x \subseteq DOMAIN s, \A n \in DOMAIN x : x[n] = s[n]
  PROVE  Dated(x, top) /\ Cardinality(DOMAIN x) <= MaxTracked
<1>1. IsFiniteSet(DOMAIN s)
  BY DEF Dated
<1>2. IsFiniteSet(DOMAIN x) /\ Cardinality(DOMAIN x) <= Cardinality(DOMAIN s)
  BY <1>1, FS_Subset
<1>3. Cardinality(DOMAIN x) \in Nat /\ Cardinality(DOMAIN s) \in Nat
  BY <1>1, <1>2, FS_CardinalityType
<1>4. Dated(x, top)
  BY <1>2 DEF Dated
<1> QED BY <1>2, <1>3, <1>4, StoreAssumption

\* No request lets a store outgrow its limit or forgets a preview for no reason.
LEMMA CapacitySteps ==
  ASSUME IInv, CapacityInv, [Next]_vars
  PROVE  CapacityInv'
<1>0. /\ IsStore(issued) /\ IsStore(consumed) /\ IsStore(minted)
      /\ clock \in Nat /\ ticket \in Nat
      /\ Dated(issued, ticket) /\ Dated(consumed, ticket)
      /\ IsFiniteSet(DOMAIN minted) /\ Retained
      /\ Cardinality(DOMAIN issued) <= MaxTracked
      /\ Cardinality(DOMAIN consumed) <= MaxTracked
      /\ \A n \in DOMAIN issued : n \in DOMAIN minted /\ issued[n] = minted[n]
  BY DEF IInv, TypeOK, CapacityInv, WithinCapacity, Tracked
<1>b. /\ IsStore(Bound(issued, clock)) /\ IsStore(Bound(consumed, clock))
      /\ Dated(Bound(issued, clock), ticket) /\ Dated(Bound(consumed, clock), ticket)
      /\ Cardinality(DOMAIN Bound(issued, clock)) <= MaxTracked
      /\ Cardinality(DOMAIN Bound(consumed, clock)) <= MaxTracked
  BY <1>0, BoundForgets, BoundFits
<1>1. ASSUME NEW n \in Nonces, NEW b \in Readable, Preview(n, b)
      PROVE  CapacityInv'
  <2> DEFINE e == [at |-> clock, slot |-> ticket, digest |-> b]
             put == Put(Bound(issued, clock), n, e)
  <2>1. e \in Entry /\ e.slot = ticket
    BY <1>0, StoreAssumption DEF Entry
  <2>2. /\ n \notin DOMAIN minted
        /\ issued' = Bound(put, clock) /\ consumed' = Bound(consumed, clock)
        /\ ticket' = ticket + 1 /\ minted' = Put(minted, n, e)
        /\ clock' = clock /\ spent' = spent /\ lost' = lost
    BY <1>1 DEF Preview
  <2> HIDE DEF e
  <2>3. Dated(issued', ticket') /\ Cardinality(DOMAIN issued') <= MaxTracked
    BY <1>0, <2>1, <2>2, BoundPutBound
  <2>4. Dated(consumed', ticket') /\ Cardinality(DOMAIN consumed') <= MaxTracked
    BY <1>0, <1>b, <2>2, DatedLater
  <2>5. /\ IsStore(minted') /\ DOMAIN minted' = DOMAIN minted \cup {n}
        /\ minted'[n] = e /\ \A m \in DOMAIN minted : minted'[m] = minted[m]
    <3> HIDE DEF put
    <3>1. IsStore(minted) /\ e \in Entry
      BY <1>0, <2>1
    <3>2. n \notin DOMAIN minted /\ minted' = Put(minted, n, e)
      BY <2>2
    <3> QED BY <3>1, <3>2, FreshAdds DEF e
  <2>6. IsFiniteSet(DOMAIN minted')
    BY <1>0, <2>5, FS_AddElement
  <2>7. /\ IsStore(put) /\ DOMAIN put = DOMAIN Bound(issued, clock) \cup {n}
        /\ put[n] = e
        /\ \A m \in DOMAIN Bound(issued, clock) \ {n} : put[m] = Bound(issued, clock)[m]
    BY <1>b, <2>1, PutAdds
  <2>8. \A m \in DOMAIN Bound(issued, clock) :
          m \in DOMAIN issued /\ Bound(issued, clock)[m] = issued[m]
    BY <1>0, BoundForgets
  <2> HIDE DEF put
  <2>9. ASSUME NEW m \in DOMAIN minted' \ DOMAIN issued'
        PROVE  \/ m \in spent' \cup lost'
               \/ clock' - minted'[m].at > TTL
               \/ Cardinality(Newer(minted', DOMAIN minted', m)) >= MaxTracked
    <3>1. CASE m \in DOMAIN put
      <4>1. \A k \in DOMAIN put : k \in DOMAIN minted' /\ put[k] = minted'[k]
        BY <1>0, <2>2, <2>5, <2>7, <2>8
      <4> QED BY <1>0, <2>2, <2>5, <2>6, <2>7, <3>1, <4>1, BoundDrops
    <3>2. CASE m \in DOMAIN issued /\ m \notin DOMAIN put
      <4>1. m \in DOMAIN issued \ DOMAIN Bound(issued, clock)
        BY <2>7, <3>2
      <4>2. \A k \in DOMAIN issued : k \in DOMAIN minted' /\ issued[k] = minted'[k]
        BY <1>0, <2>5
      <4> QED BY <1>0, <2>2, <2>5, <2>6, <4>1, <4>2, BoundDrops
    <3>3. CASE m \notin DOMAIN issued /\ m \notin DOMAIN put
      <4>1. m \in DOMAIN minted \ DOMAIN issued
        BY <2>5, <2>7, <3>3
      <4>2. /\ clock' \in Nat /\ clock' >= clock /\ spent \cup lost \subseteq spent' \cup lost'
            /\ DOMAIN minted \subseteq DOMAIN minted'
        BY <1>0, <2>2, <2>5
      <4> QED BY <1>0, <2>5, <2>6, <4>1, <4>2, ReasonsStay
    <3> QED BY <3>1, <3>2, <3>3
  <2>10. Retained'
    BY <2>9 DEF Retained
  <2> QED BY <2>3, <2>4, <2>6, <2>10 DEF CapacityInv, WithinCapacity
\* All that follows mints nothing.
<1>2. ASSUME UNCHANGED minted, clock' \in Nat, clock' >= clock,
             spent \cup lost \subseteq spent' \cup lost',
             \A n \in DOMAIN issued \ DOMAIN issued' :
               \/ n \in spent' \cup lost'
               \/ clock' - minted[n].at > TTL
               \/ Cardinality(Newer(minted, DOMAIN minted, n)) >= MaxTracked
      PROVE  Retained' /\ IsFiniteSet(DOMAIN minted')
  <2>1. IsFiniteSet(DOMAIN minted') /\ IsStore(minted')
    BY <1>0, <1>2
  <2>2. ASSUME NEW n \in DOMAIN minted' \ DOMAIN issued'
        PROVE  \/ n \in spent' \cup lost'
               \/ clock' - minted'[n].at > TTL
               \/ Cardinality(Newer(minted', DOMAIN minted', n)) >= MaxTracked
    <3>1. CASE n \in DOMAIN issued
      BY <1>2, <3>1
    <3>2. CASE n \notin DOMAIN issued
      <4>1. n \in DOMAIN minted \ DOMAIN issued
        BY <1>2, <3>2
      <4> QED BY <1>0, <1>2, <2>1, <4>1, ReasonsStay
    <3> QED BY <3>1, <3>2
  <2> QED BY <2>1, <2>2 DEF Retained
\* What the prune alone drops has a reason.
<1>3. \A n \in DOMAIN issued \ DOMAIN Bound(issued, clock) :
        \/ clock - minted[n].at > TTL
        \/ Cardinality(Newer(minted, DOMAIN minted, n)) >= MaxTracked
  BY <1>0, BoundDrops
<1>4. ASSUME NEW n \in Nonces, Spend(n), UNCHANGED <<clock, minted, lost>>
      PROVE  CapacityInv'
  <2> DEFINE old == Bound(issued, clock)
             e == [at |-> clock, slot |-> ticket, digest |-> issued[n].digest]
  <2>1. /\ n \in DOMAIN issued
        /\ issued' = Drop(old, n)
        /\ consumed' = Bound(Put(Bound(consumed, clock), n, e), clock)
        /\ ticket' = ticket + 1 /\ spent' = spent \cup {n}
    BY <1>4, SpendPops DEF Spend
  <2>2. e \in Entry /\ e.slot = ticket
    BY <1>0, <2>1 DEF Entry, IsStore
  <2> HIDE DEF e
  <2>3. Dated(consumed', ticket') /\ Cardinality(DOMAIN consumed') <= MaxTracked
    BY <1>0, <2>1, <2>2, BoundPutBound
  <2> HIDE DEF old
  <2>4. /\ IsStore(issued') /\ DOMAIN issued' = DOMAIN old \ {n}
        /\ \A m \in DOMAIN issued' : issued'[m] = old[m]
    BY <1>b, <2>1, DropRemoves DEF old
  <2>5. Dated(issued', ticket) /\ Cardinality(DOMAIN issued') <= MaxTracked
    BY <1>b, <2>4, FewerFit DEF old
  <2>6. Dated(issued', ticket')
    BY <1>0, <2>1, <2>4, <2>5, DatedLater
  <2>7. Retained' /\ IsFiniteSet(DOMAIN minted')
    <3>1. \A m \in DOMAIN issued \ DOMAIN issued' :
            \/ m \in spent' \cup lost'
            \/ clock' - minted[m].at > TTL
            \/ Cardinality(Newer(minted, DOMAIN minted, m)) >= MaxTracked
      BY <1>3, <1>4, <2>1, <2>4 DEF old
    <3> QED BY <1>0, <1>2, <1>4, <2>1, <3>1
  <2> QED BY <2>3, <2>5, <2>6, <2>7 DEF CapacityInv, WithinCapacity
<1>5. ASSUME NEW n, PostUnknown(n)
      PROVE  CapacityInv'
  <2>1. /\ issued' = Bound(issued, clock) /\ consumed' = Bound(consumed, clock)
        /\ UNCHANGED <<clock, ticket, minted, spent, lost>>
    BY <1>5 DEF PostUnknown, history
  <2>2. Retained' /\ IsFiniteSet(DOMAIN minted')
    BY <1>0, <1>2, <1>3, <2>1
  <2> QED BY <1>b, <2>1, <2>2 DEF CapacityInv, WithinCapacity
<1>6. ASSUME NEW n \in Nonces, NEW b \in Bodies, PostAltered(n, b) \/ PostGenuine(n, b)
      PROVE  CapacityInv'
  BY <1>4, <1>6 DEF PostAltered, PostGenuine
<1>7. ASSUME UNCHANGED <<issued, consumed, ticket, minted, spent, lost>>,
             clock' \in Nat, clock' >= clock
      PROVE  CapacityInv'
  <2>1. Retained' /\ IsFiniteSet(DOMAIN minted')
    BY <1>2, <1>7
  <2> QED BY <1>0, <1>7, <2>1 DEF CapacityInv, WithinCapacity
<1>8. ASSUME \/ \E n, b : PostUnreadable(n, b)
             \/ \E p \in inflight : Commit(p) \/ Refuse(p)
             \/ Tick
             \/ UNCHANGED vars
      PROVE  CapacityInv'
  <2>1. /\ UNCHANGED <<issued, consumed, ticket, minted, spent, lost>>
        /\ clock' \in Nat /\ clock' >= clock
    BY <1>0, <1>8 DEF PostUnreadable, Commit, Refuse, Tick, vars, history
  <2> QED BY <1>7, <2>1
<1>9. ASSUME Restart
      PROVE  CapacityInv'
  <2>1. /\ issued' = Keep(issued, {}) /\ consumed' = Keep(consumed, {})
        /\ lost' = DOMAIN minted /\ UNCHANGED <<clock, ticket, minted, spent>>
    BY <1>9 DEF Restart
  <2>2. DOMAIN issued' = {} /\ DOMAIN consumed' = {}
    BY <2>1, EmptyStore
  <2>3. /\ Dated(issued', ticket') /\ Dated(consumed', ticket')
        /\ Cardinality(DOMAIN issued') <= MaxTracked
        /\ Cardinality(DOMAIN consumed') <= MaxTracked
    BY <2>2, FS_EmptySet, StoreAssumption DEF Dated
  <2>4. spent \cup lost \subseteq spent' \cup lost'
    BY <2>1 DEF IInv, Popped
  <2>5. Retained' /\ IsFiniteSet(DOMAIN minted')
    BY <1>0, <1>2, <2>1, <2>4
  <2> QED BY <2>3, <2>5 DEF CapacityInv, WithinCapacity
<1> QED BY <1>1, <1>5, <1>6, <1>8, <1>9 DEF Next, Post

\* At the start both stores are empty.
LEMMA CapacityAtFirst == Init => CapacityInv
<1> SUFFICES ASSUME Init PROVE CapacityInv
  OBVIOUS
<1>1. DOMAIN issued = {} /\ DOMAIN consumed = {} /\ DOMAIN minted = {}
  BY DEF Init
<1>2. IsFiniteSet({}) /\ Cardinality({}) = 0
  BY FS_EmptySet
<1> QED BY <1>1, <1>2, StoreAssumption DEF CapacityInv, Dated, WithinCapacity, Retained

\* What capacity and retention rest on holds of every reachable state.
THEOREM CapacityInvariant == Spec => []CapacityInv
<1>1. IInv /\ CapacityInv /\ [Next]_vars => CapacityInv'
  BY CapacitySteps
<1> QED BY <1>1, CapacityAtFirst, StoreInvariant, PTL DEF Spec

\* _bound_preview_store keeps both dicts within _MAX_TRACKED_PREVIEWS.
THEOREM StoreWithinCapacity == Spec => []WithinCapacity
<1>1. CapacityInv => WithinCapacity
  BY DEF CapacityInv
<1> QED BY <1>1, CapacityInvariant, PTL

\* A preview is refused for one of the four reasons only: a crowd of stale ones
\* never costs the operator a fresh preview.
THEOREM PreviewsAreRetained == Spec => []Retained
<1>1. CapacityInv => Retained
  BY DEF CapacityInv
<1> QED BY <1>1, CapacityInvariant, PTL
=============================================================================
