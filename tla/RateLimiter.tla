---------------------------- MODULE RateLimiter ----------------------------
(***************************************************************************)
(* What the admission controller promises of its handshake buckets: every  *)
(* key always has a level, the level of every key rises with each tick up  *)
(* to the capacity, and a client is granted a handshake only by taking a   *)
(* token from every one of its keys.  There is no table, nothing is        *)
(* refilled late and nothing is ever dropped.                              *)
(***************************************************************************)
EXTENDS Naturals

CONSTANTS Clients, KeysOf(_), Capacity, Refill

VARIABLES now, level, granted

Keys == UNION {KeysOf(c) : c \in Clients}

Full(n) == IF n > Capacity THEN Capacity ELSE n

Init ==
  /\ now = 0
  /\ level = [k \in Keys |-> Capacity]
  /\ granted = [c \in Clients |-> 0]

\* time passes to t, then every key of K pays one token
Charge(t, K) ==
  LET risen == [k \in Keys |-> Full(level[k] + (t - now) * Refill)]
  IN  /\ t >= now
      /\ \A k \in K : risen[k] > 0
      /\ now' = t
      /\ level' = [k \in Keys |-> IF k \in K THEN risen[k] - 1 ELSE risen[k]]

Grant(c, t) ==
  /\ Charge(t, KeysOf(c))
  /\ granted' = [granted EXCEPT ![c] = @ + 1]

\* a refused client may have paid with some of its keys
Refuse(c, t) ==
  /\ \E K \in SUBSET KeysOf(c) : Charge(t, K)
  /\ UNCHANGED granted

Next == \E c \in Clients, t \in {now'} : Grant(c, t) \/ Refuse(c, t)

Spec == Init /\ [][Next]_<<now, level, granted>>
=============================================================================
