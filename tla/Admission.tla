----------------------------- MODULE Admission -----------------------------
(***************************************************************************)
(* The admission controller driven by its callers: handshakes, messages,   *)
(* closed sessions and quarantines at whatever tick the caller read (the   *)
(* clock may also step back), with a snapshot restored at any point.       *)
(***************************************************************************)
EXTENDS AdmissionOps, Sequences

CONSTANTS
  Talkers,    \* identities whose frames are followed
  MaxTick,    \* bound on the ticks callers read
  MaxLog      \* bound on the recorded admissions and quarantines

ASSUME AdmissionBounds ==
  Talkers \subseteq Identities /\ MaxTick \in Nat /\ MaxLog \in Nat

VARIABLES
  ctl,        \* the controller
  log         \* history: admitted handshakes and quarantines, in order

vars == <<ctl, log>>

Ticks == 0 .. MaxTick

HandshakeKeys == ({"identity"} \X Identities) \cup ({"prefix"} \X Prefixes)

Init == ctl = EmptyController /\ log = <<>>

Handshake(id, nonce, t) ==
  LET r == AdmitHandshake(ctl, id, nonce, t)
  IN  /\ Len(log) < MaxLog
      /\ ctl' = r.ctl
      /\ log' = IF r.ok THEN Append(log, [what |-> "admitted", id |-> id, nonce |-> nonce, tick |-> t])
                        ELSE log

Message(id, cost, t) ==
  /\ ctl' = AdmitMessage(ctl, id, cost, t).ctl
  /\ UNCHANGED log

\* handlers close only a session they were admitted for
Close(id) ==
  /\ ctl.identity[id] > 0
  /\ ctl' = CloseSession(ctl, id)
  /\ UNCHANGED log

Ban(id, t) ==
  LET r == Quarantine(ctl, id, t)
  IN  /\ Len(log) < MaxLog
      /\ ctl' = r.ctl
      /\ log' = IF r.ok THEN Append(log, [what |-> "banned", id |-> id, tick |-> t]) ELSE log

\* a snapshot restored by a routed node
Restart ==
  /\ RestoreOK(ctl)
  /\ ctl' = Reloaded(ctl)
  /\ UNCHANGED log

Next ==
  \/ \E id \in Identities, nonce \in Nonces, t \in Ticks : Handshake(id, nonce, t)
  \/ \E id \in Talkers, cost \in 1 .. MaxCost, t \in Ticks : Message(id, cost, t)
  \/ \E id \in Identities : Close(id)
  \/ \E id \in Identities, t \in Ticks : Ban(id, t)
  \/ Restart

Spec == Init /\ [][Next]_vars
-----------------------------------------------------------------------------
(* Properties *)

Admitted == {i \in DOMAIN log : log[i].what = "admitted"}

\* What is barred is not admitted, restarts included: a nonce while a hello that
\* carries it can still be valid, HELLO_LIFETIME_TICKS from the tick it was
\* first admitted at, and a quarantined identity in the QUARANTINE_TICKS that
\* follow, which a second quarantine never shortens (admit_handshake,
\* quarantine, _advance).
BarredNotAdmitted ==
  \A i \in DOMAIN log, j \in Admitted : i < j =>
    /\ log[i].what = "admitted" /\ log[i].nonce = log[j].nonce
         => log[j].tick > log[i].tick + HelloLifetime
    /\ log[i].what = "banned" /\ log[i].id = log[j].id
         => log[j].tick > log[i].tick + QuarantineTicks

\* Every snapshot the controller writes is one _restore accepts.
RestoreNeverRefused == RestoreOK(ctl)

Buckets(id) == {<<"identity", id>>, <<"prefix", PrefixOf[id]>>}

\* the handshake buckets with the tick they would show if they were refilled
\* all the time
Limiter == INSTANCE RateLimiter WITH
  Clients <- Identities, KeysOf <- Buckets,
  Capacity <- HandshakeCapacity, Refill <- HandshakeRefill,
  now <- ctl.tick,
  level <- [k \in HandshakeKeys |->
    Level(ctl.handshakes, k, ctl.tick, HandshakeCapacity, HandshakeRefill)],
  granted <- [id \in Identities |-> Cardinality({i \in Admitted : log[i].id = id})]

\* Late refills and dropped buckets are invisible: the controller implements
\* the plain rate limiter, in which an absent bucket is a full one and every
\* admission takes a token of the identity and one of its prefix (_consume,
\* _advance, admit_handshake).
ImplementsLimiter == Limiter!Spec
=============================================================================
