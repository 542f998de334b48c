---------------------------- MODULE AdmissionOps ----------------------------
(***************************************************************************)
(* The admission controller of the multi-host transport (class             *)
(* AdmissionController of sharechain_multihost_v1.py) as functions on its  *)
(* state: token buckets per identity and per source prefix, remembered     *)
(* hello nonces, quarantines and counts of active sessions.                *)
(*                                                                         *)
(* Tables are functions whose domain holds the keys that are present.      *)
(***************************************************************************)
EXTENDS Integers, FiniteSets, Functions

CONSTANTS
  Identities,          \* pinned peer ids
  PrefixOf,            \* identity -> source prefix of its pinned address
  Nonces,              \* hello nonces
  HelloLifetime,       \* HELLO_LIFETIME_TICKS
  MaxSessions,         \* MAX_ACTIVE_SESSIONS
  MaxPerIdentity,      \* MAX_SESSIONS_PER_IDENTITY
  MaxPerPrefix,        \* MAX_SESSIONS_PER_SOURCE_PREFIX
  HandshakeCapacity,   \* HANDSHAKE_BUCKET_CAPACITY
  HandshakeRefill,     \* HANDSHAKE_REFILL_PER_TICK
  MessageCapacity,     \* MESSAGE_BUCKET_CAPACITY
  MessageRefill,       \* MESSAGE_REFILL_PER_TICK
  MaxNonces,           \* MAX_REPLAY_NONCES
  MaxQuarantines,      \* MAX_QUARANTINES
  MaxBuckets,          \* MAX_ADMISSION_BUCKETS
  QuarantineTicks,     \* QUARANTINE_TICKS
  MaxCost              \* message tokens of the largest frame

Prefixes == {PrefixOf[i] : i \in Identities}

ASSUME AdmissionAssumption ==
  /\ DOMAIN PrefixOf = Identities
  /\ HelloLifetime \in Nat /\ QuarantineTicks \in Nat
  /\ MaxSessions \in Nat /\ MaxPerIdentity \in Nat /\ MaxPerPrefix \in Nat
  /\ HandshakeCapacity \in Nat \ {0} /\ HandshakeRefill \in Nat \ {0}
  /\ MessageCapacity \in Nat \ {0} /\ MessageRefill \in Nat \ {0}
  /\ MaxNonces \in Nat /\ MaxQuarantines \in Nat /\ MaxBuckets \in Nat
  /\ MaxCost \in Nat \ {0}

EmptyTable == [k \in {} |-> 0]

Put(table, key, value) ==
  [k \in DOMAIN table \cup {key} |-> IF k = key THEN value ELSE table[k]]

EmptyController ==
  [ tick        |-> 0,
    handshakes  |-> EmptyTable,
    messages    |-> EmptyTable,
    nonces      |-> EmptyTable,
    quarantines |-> EmptyTable,
    identity    |-> [i \in Identities |-> 0],
    prefix      |-> [p \in Prefixes |-> 0] ]
-----------------------------------------------------------------------------
(* Token buckets: refilled when they are used, dropped when they are full *)

AtMost(a, b) == IF a <= b THEN a ELSE b
Elapsed(from, t) == IF t > from THEN t - from ELSE 0

\* tokens of a bucket at tick t; an absent bucket is full
Level(table, key, t, capacity, refill) ==
  IF key \in DOMAIN table
  THEN AtMost(capacity, table[key].tokens + Elapsed(table[key].tick, t) * refill)
  ELSE capacity

\* Mutant: the tick of a bucket is not moved when it is refilled.
ConsumeKeepsTick(table, key, t, capacity, refill, cost) ==
  LET have == Level(table, key, t, capacity, refill)
      kept == IF key \in DOMAIN table THEN table[key].tick ELSE t
  IN  IF key \notin DOMAIN table /\ Cardinality(DOMAIN table) >= MaxBuckets
      THEN [table |-> table, result |-> "no bucket"]
      ELSE IF cost > have
      THEN [table |-> Put(table, key, [tokens |-> have, tick |-> kept]), result |-> "empty"]
      ELSE [table |-> Put(table, key, [tokens |-> have - cost, tick |-> kept]), result |-> "paid"]

Consume(table, key, t, capacity, refill, cost) ==
  LET have == Level(table, key, t, capacity, refill)
  IN  IF key \notin DOMAIN table /\ Cardinality(DOMAIN table) >= MaxBuckets
      THEN [table |-> table, result |-> "no bucket"]
      ELSE IF cost > have
      THEN [table |-> Put(table, key, [tokens |-> have, tick |-> t]), result |-> "empty"]
      ELSE [table |-> Put(table, key, [tokens |-> have - cost, tick |-> t]), result |-> "paid"]

NotFull(table, t, capacity, refill) ==
  Restrict(table, {k \in DOMAIN table :
    table[k].tokens + Elapsed(table[k].tick, t) * refill < capacity})

Unexpired(table, t) == Restrict(table, {k \in DOMAIN table : table[k] >= t})

\* _advance for a tick that does not move backward
Advance(c, t) ==
  [c EXCEPT !.tick        = t,
            !.nonces      = Unexpired(@, t),
            !.quarantines = Unexpired(@, t),
            !.handshakes  = NotFull(@, t, HandshakeCapacity, HandshakeRefill),
            !.messages    = NotFull(@, t, MessageCapacity, MessageRefill)]
-----------------------------------------------------------------------------
(* Operations.  Each returns the new state and whether it was admitted; a  *)
(* rejected call keeps what it changed before it was rejected.             *)

Result(ctl, ok) == [ctl |-> ctl, ok |-> ok]

\* Mutant: the limits of an identity and a prefix are reached one session late.
SessionRoomOneMore(c, id) ==
  /\ SumFunction(c.identity) < MaxSessions
  /\ c.identity[id] <= MaxPerIdentity
  /\ c.prefix[PrefixOf[id]] <= MaxPerPrefix

SessionRoom(c, id) ==
  /\ SumFunction(c.identity) < MaxSessions
  /\ c.identity[id] < MaxPerIdentity
  /\ c.prefix[PrefixOf[id]] < MaxPerPrefix

HandshakeBucket(table, key, t) ==
  Consume(table, key, t, HandshakeCapacity, HandshakeRefill, 1)

AdmitHandshake(before, id, nonce, t) ==
  LET c      == Advance(before, t)
      first  == HandshakeBucket(c.handshakes, <<"identity", id>>, t)
      second == HandshakeBucket(first.table, <<"prefix", PrefixOf[id]>>, t)
      paid   == [c EXCEPT !.handshakes = second.table]
  IN  IF t < before.tick THEN Result(before, FALSE)
      ELSE IF \/ id \in DOMAIN c.quarantines
              \/ nonce \in DOMAIN c.nonces
              \/ Cardinality(DOMAIN c.nonces) >= MaxNonces
      THEN Result(c, FALSE)
      ELSE IF first.result # "paid"
      THEN Result([c EXCEPT !.handshakes = first.table], FALSE)
      ELSE IF second.result # "paid" \/ ~SessionRoom(c, id) THEN Result(paid, FALSE)
      ELSE Result([paid EXCEPT !.nonces = Put(@, nonce, t + HelloLifetime),
                               !.identity[id] = @ + 1,
                               !.prefix[PrefixOf[id]] = @ + 1], TRUE)

CloseSession(c, id) ==
  [c EXCEPT !.identity[id] = IF @ > 0 THEN @ - 1 ELSE 0,
            !.prefix[PrefixOf[id]] = IF @ > 0 THEN @ - 1 ELSE 0]

AdmitMessage(before, id, cost, t) ==
  LET c    == Advance(before, t)
      paid == Consume(c.messages, id, t, MessageCapacity, MessageRefill, cost)
  IN  IF t < before.tick THEN Result(before, FALSE)
      ELSE Result([c EXCEPT !.messages = paid.table], paid.result = "paid")

Quarantine(before, id, t) ==
  LET c == Advance(before, t)
  IN  IF t < before.tick THEN Result(before, FALSE)
      ELSE IF id \notin DOMAIN c.quarantines
              /\ Cardinality(DOMAIN c.quarantines) >= MaxQuarantines
      THEN Result(c, FALSE)
      ELSE Result([c EXCEPT !.quarantines = Put(@, id, t + QuarantineTicks)], TRUE)
-----------------------------------------------------------------------------
(* What _restore requires of a snapshot *)

BucketsOK(table, t, capacity) ==
  /\ Cardinality(DOMAIN table) <= MaxBuckets
  /\ \A k \in DOMAIN table : /\ table[k].tokens \in 0 .. capacity
                             /\ table[k].tick \in 0 .. t

\* restore, without the counters of rejections and their limit of 64 reasons:
\* no decision reads them, and the code names fewer reasons
RestoreOK(c) ==
  /\ BucketsOK(c.handshakes, c.tick, HandshakeCapacity)
  /\ BucketsOK(c.messages, c.tick, MessageCapacity)
  /\ Cardinality(DOMAIN c.nonces) <= MaxNonces
  /\ Cardinality(DOMAIN c.quarantines) <= MaxQuarantines
  /\ SumFunction(c.identity) <= MaxSessions /\ SumFunction(c.prefix) <= MaxSessions
  /\ \A i \in Identities : c.identity[i] <= MaxPerIdentity
  /\ \A p \in Prefixes : c.prefix[p] <= MaxPerPrefix

\* Mutant: a restart also lifts the quarantines.
ReloadedForgiving(c) ==
  [c EXCEPT !.identity = [i \in Identities |-> 0],
            !.prefix = [p \in Prefixes |-> 0],
            !.quarantines = EmptyTable]

\* _load_transport_state of a routed node: connections do not survive
Reloaded(c) ==
  [c EXCEPT !.identity = [i \in Identities |-> 0],
            !.prefix = [p \in Prefixes |-> 0]]
=============================================================================
