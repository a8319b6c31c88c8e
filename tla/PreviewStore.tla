--------------------------- MODULE PreviewStore ---------------------------
(***************************************************************************)
(* The in-process store that makes an import preview single use            *)
(* (app/data_management.py, ADR-0004 D4).                                  *)
(*                                                                         *)
(* encode_import_payload hands the browser a payload carrying a fresh      *)
(* nonce and remembers the nonce with the payload's digest;                *)
(* consume_import_payload pops it before anything is written.  Both dicts  *)
(* live in the process only: a restart empties them.  Both routes run on   *)
(* the event loop without an await between the pop and the commit, so      *)
(* nothing but the clock and a crash comes between Accept and its end.     *)
(*                                                                         *)
(* sha256 is taken to be injective (a digest IS the body) and token_hex    *)
(* never repeats.  The clock does not run backwards.                       *)
(***************************************************************************)
EXTENDS Naturals, FiniteSets, Sequences

CONSTANTS
  Nonces,      \* the values secrets.token_hex(16) returns, each once
  Bodies,      \* payload contents
  Readable,    \* those _read_import_payload decodes and finds valid
  TTL,         \* _PREVIEW_TTL_SECONDS
  MaxTracked,  \* _MAX_TRACKED_PREVIEWS
  MaxClock,    \* bound of the model's clock
  None         \* not a nonce

ASSUME StoreAssumption ==
  /\ Readable \subseteq Bodies
  /\ TTL \in Nat
  /\ MaxTracked \in Nat \ {0}
  /\ MaxClock \in Nat
  /\ None \notin Nonces

VARIABLES
  clock,     \* int(time.time())
  issued,    \* _ISSUED_PREVIEWS
  consumed,  \* _CONSUMED_PREVIEWS
  ticket,    \* position the next inserted key takes in a dict's order
  inflight,  \* the payload accepted and not yet written or refused
  reply,     \* what the apply route last answered, and about which nonce
  \* History, read by no action:
  minted,    \* every preview handed out: when, and what the operator saw
  spent,     \* nonces popped by the apply route
  lost,      \* nonces handed out before the last restart
  ledger     \* the imports committed, in order

vars == <<clock, issued, consumed, ticket, inflight, reply,
          minted, spent, lost, ledger>>
history == <<minted, spent, lost, ledger>>

Messages == {"none", "complete", "refused", "applied", "expired", "unreadable"}
Entry == [at : Nat, slot : Nat, digest : Bodies]

IsStore(s) == DOMAIN s \subseteq Nonces /\ s \in [DOMAIN s -> Entry]

-----------------------------------------------------------------------------
Keep(store, S) == [n \in S |-> store[n]]

Live(store, t) == {n \in DOMAIN store : t - store[n].at <= TTL}

Newer(store, S, n) == {m \in S : store[m].slot > store[n].slot}

\* Mutants of Bound: no size limit; one entry fewer than the limit.
BoundNoCap(store, t) == Keep(store, Live(store, t))
BoundOneShort(store, t) ==
  Keep(store, {n \in Live(store, t) :
                 Cardinality(Newer(store, Live(store, t), n)) + 1 < MaxTracked})

\* _bound_preview_store: expired keys go, then the oldest until the size fits.
Bound(store, t) ==
  Keep(store, {n \in Live(store, t) :
                 Cardinality(Newer(store, Live(store, t), n)) < MaxTracked})

Put(store, n, entry) ==
  [m \in DOMAIN store \cup {n} |-> IF m = n THEN entry ELSE store[m]]

Drop(store, n) == Keep(store, DOMAIN store \ {n})

Init ==
  /\ clock = 0
  /\ issued = [n \in {} |-> None]
  /\ consumed = [n \in {} |-> None]
  /\ ticket = 0
  /\ inflight = {}
  /\ reply = [nonce |-> None, message |-> "none"]
  /\ minted = [n \in {} |-> None]
  /\ spent = {}
  /\ lost = {}
  /\ ledger = <<>>

\* encode_import_payload of a plan without errors, at the end of the preview
\* route.  A plan with errors mints nothing and changes nothing.
Preview(n, b) ==
  LET entry == [at |-> clock, slot |-> ticket, digest |-> b] IN
  /\ inflight = {}
  /\ n \notin DOMAIN minted
  /\ issued' = Bound(Put(Bound(issued, clock), n, entry), clock)
  /\ consumed' = Bound(consumed, clock)
  /\ ticket' = ticket + 1
  /\ minted' = Put(minted, n, entry)
  /\ UNCHANGED <<clock, inflight, reply, spent, lost, ledger>>

\* Mutant of Spend: the nonce is looked up and not popped.
SpendByLookup(n) ==
  /\ n \in DOMAIN Bound(issued, clock)
  /\ issued' = Bound(issued, clock)
  /\ consumed' = Bound(Put(Bound(consumed, clock), n,
                           [at |-> clock, slot |-> ticket,
                            digest |-> issued[n].digest]), clock)
  /\ ticket' = ticket + 1
  /\ spent' = spent \cup {n}

\* The part of consume_import_payload that precedes its checks: prune, pop,
\* remember as used.
Spend(n) ==
  /\ n \in DOMAIN Bound(issued, clock)
  /\ issued' = Drop(Bound(issued, clock), n)
  /\ consumed' = Bound(Put(Bound(consumed, clock), n,
                           [at |-> clock, slot |-> ticket,
                            digest |-> issued[n].digest]), clock)
  /\ ticket' = ticket + 1
  /\ spent' = spent \cup {n}

\* Mutant of Answer: its arguments change places.
AnswerSwapped(n, m) == reply' = [nonce |-> m, message |-> n]

Answer(n, m) == reply' = [nonce |-> n, message |-> m]

\* A payload _read_import_payload rejects: no nonce is looked at.
PostUnreadable(n, b) ==
  /\ inflight = {}
  /\ b \notin Readable
  /\ Answer(n, "unreadable")
  /\ UNCHANGED <<clock, issued, consumed, ticket, inflight, history>>

\* Mutant of PostUnknown: the used and the expired preview change places.
PostUnknownSwapped(n) ==
  /\ inflight = {}
  /\ n \notin DOMAIN Bound(issued, clock)
  /\ Answer(n, IF n \in DOMAIN Bound(consumed, clock)
                 THEN "expired" ELSE "applied")
  /\ issued' = Bound(issued, clock)
  /\ consumed' = Bound(consumed, clock)
  /\ UNCHANGED <<clock, ticket, inflight, history>>

\* A readable payload whose nonce is missing or no longer tracked.
PostUnknown(n) ==
  /\ inflight = {}
  /\ n \notin DOMAIN Bound(issued, clock)
  /\ Answer(n, IF n \in DOMAIN Bound(consumed, clock)
                 THEN "applied" ELSE "expired")
  /\ issued' = Bound(issued, clock)
  /\ consumed' = Bound(consumed, clock)
  /\ UNCHANGED <<clock, ticket, inflight, history>>

\* The nonce is popped before the digest is compared: a payload that is not
\* the one handed out spends the preview.
PostAltered(n, b) ==
  /\ inflight = {}
  /\ b \in Readable
  /\ Spend(n)
  /\ b # issued[n].digest
  /\ Answer(n, "unreadable")
  /\ UNCHANGED <<clock, inflight, minted, lost, ledger>>

\* Mutant of PostGenuine: the digest is not compared.
PostAnything(n, b) ==
  /\ inflight = {}
  /\ b \in Readable
  /\ Spend(n)
  /\ inflight' = {[nonce |-> n, body |-> b, at |-> clock]}
  /\ Answer(n, "none")
  /\ UNCHANGED <<clock, minted, lost, ledger>>

\* consume_import_payload returns the payload to the apply route.  Its last
\* check, the entry's age, cannot fail: the prune above it dropped such an entry.
PostGenuine(n, b) ==
  /\ inflight = {}
  /\ b \in Readable
  /\ Spend(n)
  /\ b = issued[n].digest
  /\ inflight' = {[nonce |-> n, body |-> b, at |-> clock]}
  /\ Answer(n, "none")
  /\ UNCHANGED <<clock, minted, lost, ledger>>

\* apply_import commits, or raises after rolling back.
Commit(p) ==
  /\ p \in inflight
  /\ inflight' = {}
  /\ ledger' = Append(ledger, p)
  /\ Answer(p.nonce, "complete")
  /\ UNCHANGED <<clock, issued, consumed, ticket, minted, spent, lost>>

\* Mutant of Refuse: a preview whose import fails is given back.
RefuseAndRestore(p) ==
  /\ p \in inflight
  /\ inflight' = {}
  /\ Answer(p.nonce, "refused")
  /\ issued' = Put(issued, p.nonce, minted[p.nonce])
  /\ UNCHANGED <<clock, consumed, ticket, history>>

Refuse(p) ==
  /\ p \in inflight
  /\ inflight' = {}
  /\ Answer(p.nonce, "refused")
  /\ UNCHANGED <<clock, issued, consumed, ticket, history>>

\* The process ends, in the middle of an import or not, and starts again.
Restart ==
  /\ issued' = Keep(issued, {})
  /\ consumed' = Keep(consumed, {})
  /\ inflight' = {}
  /\ reply' = [nonce |-> None, message |-> "none"]
  /\ lost' = DOMAIN minted
  /\ UNCHANGED <<clock, ticket, minted, spent, ledger>>

Tick ==
  /\ clock < MaxClock
  /\ clock' = clock + 1
  /\ UNCHANGED <<issued, consumed, ticket, inflight, reply, history>>

Post(n, b) ==
  \/ PostUnreadable(n, b)
  \/ b \in Readable /\ PostUnknown(n)

Next ==
  \/ \E n \in Nonces, b \in Readable : Preview(n, b)
  \/ \E n \in DOMAIN minted \cup {None}, b \in Bodies : Post(n, b)
  \/ \E n \in Nonces, b \in Bodies : PostAltered(n, b) \/ PostGenuine(n, b)
  \/ \E p \in inflight : Commit(p) \/ Refuse(p)
  \/ Restart
  \/ Tick

Spec == Init /\ [][Next]_vars

-----------------------------------------------------------------------------
TypeOK ==
  /\ clock \in Nat
  /\ IsStore(issued)
  /\ IsStore(consumed)
  /\ ticket \in Nat
  /\ inflight \in SUBSET [nonce : Nonces, body : Bodies, at : Nat]
  /\ reply \in [nonce : Nonces \cup {None}, message : Messages]
  /\ IsStore(minted)
  /\ spent \subseteq Nonces
  /\ lost \subseteq Nonces
  /\ ledger \in Seq([nonce : Nonces, body : Bodies, at : Nat])

\* No preview is written to the database twice, whatever is re-posted and
\* wherever the process is restarted (consume_import_payload, D4).
AppliedOnce ==
  \A i, j \in DOMAIN ledger : ledger[i].nonce = ledger[j].nonce => i = j

\* What is written is the payload the operator was shown under that nonce, no
\* later than its lifetime allows (the digest and age checks of D4).
AppliedAsShown ==
  \A i \in DOMAIN ledger :
    LET p == ledger[i] IN
    /\ p.nonce \in DOMAIN minted
    /\ p.body = minted[p.nonce].digest
    /\ p.at - minted[p.nonce].at <= TTL

\* A nonce that was popped, or handed out by a process that has ended, is
\* never accepted again ("restoring the nonce on failure is prohibited").
NeverRevived == (spent \cup lost) \cap DOMAIN issued = {}

\* Both dicts stay within _MAX_TRACKED_PREVIEWS between requests.
WithinCapacity ==
  /\ Cardinality(DOMAIN issued) <= MaxTracked
  /\ Cardinality(DOMAIN consumed) <= MaxTracked

\* A preview stops being accepted for four reasons only: it was posted, the
\* process restarted, it outlived its TTL, or MaxTracked previews came after it.
Retained ==
  \A n \in DOMAIN minted \ DOMAIN issued :
    \/ n \in spent \cup lost
    \/ clock - minted[n].at > TTL
    \/ Cardinality(Newer(minted, DOMAIN minted, n)) >= MaxTracked

\* "This import preview has already been applied" is said only of a preview
\* that was posted before, "complete" only of one that is in the ledger.
ReplyHonest ==
  /\ reply.message = "applied" => reply.nonce \in spent
  /\ reply.message = "complete" =>
       \E i \in DOMAIN ledger : ledger[i].nonce = reply.nonce

\* The store implements the abstract single-use preview.
abstract == INSTANCE SingleUse WITH
  ever <- DOMAIN minted,
  open <- DOMAIN issued,
  pending <- {p.nonce : p \in inflight},
  done <- {ledger[i].nonce : i \in DOMAIN ledger}

ImplementsSingleUse == abstract!Spec
=============================================================================
