----------------------------- MODULE RoutedLink -----------------------------
(***************************************************************************)
(* Two routed nodes that call each other: _peer_round_trip of              *)
(* sharechain_routed_v1.py against the listener of the other host.         *)
(*                                                                         *)
(* A call is made on behalf of a control connection, which occupies one of *)
(* the connection slots of its own host, waits for the node lock, and then *)
(* holds it until the call returns.  The thread that serves it on the other host needs a slot *)
(* there, and that host's node lock to handle the frame: two hosts that    *)
(* call each other wait for each other until a socket times out.  A thread *)
(* goes on with a frame whose caller has given up.  The clocks of the      *)
(* hosts differ by a constant number of ticks.                             *)
(*                                                                         *)
(* The controller of RoutedSessions admits or refuses here; what a frame   *)
(* carries and the several round trips of one sync are in ShareSync.       *)
(***************************************************************************)
EXTENDS Integers, Sequences, FiniteSets, TLC

CONSTANTS
  Hosts,             \* two hosts
  Slots,             \* MAX_ACTIVE_SESSIONS, the connection slots of a server
  HelloLifetime,     \* HELLO_LIFETIME_TICKS
  SessionLifetime,   \* SESSION_LIFETIME_TICKS
  Offsets,           \* what the clock of each host may be ahead, as functions
  MaxCalls,          \* bound on the calls of each host
  MaxTick            \* bound on the time that passes

ASSUME LinkAssumption ==
  /\ Cardinality(Hosts) = 2
  /\ {Slots, HelloLifetime, SessionLifetime, MaxTick} \subseteq Nat
  /\ MaxCalls \in [Hosts -> Nat]
  /\ Offsets \subseteq [Hosts -> Nat]

VARIABLES
  time,      \* time that passed
  ahead,     \* what each clock is ahead of it
  slots,     \* connection_slots, free ones of each host
  waiting,   \* control connections of each host that wait for its node lock
  lock,      \* the caller holds the node lock of each host
  out,       \* outbound_sequences: last sequence each host gave out
  inb,       \* inbound_sequences: last sequence each host accepted
  calls,     \* calls each host has started
  call,      \* what the call of each host is doing
  conns,     \* connections one end still uses, by caller and call
  applied,   \* history: sequences of the requests each host has handled
  returned   \* history: calls that returned a reply

vars == <<time, ahead, slots, waiting, lock, out, inb, calls, call, conns, applied, returned>>

Peer(h) == CHOOSE p \in Hosts : p # h
Clock(h) == time + ahead[h]

Idle == [pc |-> "idle"]
Nothing == [kind |-> "nothing"]
Dead == [pc |-> "dead"]    \* neither end uses the connection

Init ==
  /\ time = 0
  /\ ahead \in Offsets
  /\ slots = [h \in Hosts |-> Slots]
  /\ waiting = [h \in Hosts |-> 0]
  /\ lock = [h \in Hosts |-> FALSE]
  /\ out = [h \in Hosts |-> 0]
  /\ inb = [h \in Hosts |-> 0]
  /\ calls = [h \in Hosts |-> 0]
  /\ call = [h \in Hosts |-> Idle]
  /\ conns = <<>>
  /\ applied = [h \in Hosts |-> <<>>]
  /\ returned = {}

Tick ==
  /\ time < MaxTick
  /\ time' = time + 1
  /\ UNCHANGED <<ahead, slots, waiting, lock, out, inb, calls, call, conns, applied, returned>>

\* Mutant: a hello from a clock that is ahead is taken.
HelloNotExpired(issued, current) == current <= issued + HelloLifetime

\* verify_hello and verify_session_envelope, the ticks
HelloLive(issued, current) == issued <= current /\ current <= issued + HelloLifetime

FrameLive(start, issued, current) ==
  start <= issued /\ issued <= current /\ current <= start + SessionLifetime
-----------------------------------------------------------------------------
(* Connections *)

Without(k) == [j \in DOMAIN conns \ {k} |-> conns[j]]

SetConn(k, new) ==
  conns' = IF new = Dead THEN Without(k) ELSE [conns EXCEPT ![k] = new]

\* the caller drops its end; what it sent is still read
Dropped(k) ==
  IF conns[k].pc = "ended" THEN Dead
  ELSE [conns[k] EXCEPT !.open = FALSE, !.down = Nothing]

Ended(k) ==
  IF conns[k].open THEN [pc |-> "ended", open |-> TRUE, up |-> Nothing, down |-> conns[k].down]
  ELSE Dead

Replied(k, msg) ==
  [conns[k] EXCEPT !.pc = "open", !.up = Nothing,
                   !.down = IF conns[k].open THEN msg ELSE Nothing]
-----------------------------------------------------------------------------
(* The caller *)

Key(h) == <<h, calls[h]>>

\* A control connection gets a slot of its own host, which it keeps while it
\* waits for the node lock.
Connect(h) ==
  /\ calls[h] + waiting[h] < MaxCalls[h]
  /\ slots[h] > 0
  /\ slots' = [slots EXCEPT ![h] = @ - 1]
  /\ waiting' = [waiting EXCEPT ![h] = @ + 1]
  /\ UNCHANGED <<time, ahead, lock, out, inb, calls, call, conns, applied, returned>>

\* It gets the lock; the sequence is given out, the hello signed and sent.
Begin(h) ==
  LET hello == [kind |-> "hello", issued |-> Clock(h)]
  IN  /\ waiting[h] > 0
      /\ ~lock[h]
      /\ waiting' = [waiting EXCEPT ![h] = @ - 1]
      /\ lock' = [lock EXCEPT ![h] = TRUE]
      /\ calls' = [calls EXCEPT ![h] = @ + 1]
      /\ out' = [out EXCEPT ![h] = @ + 1]
      /\ call' = [call EXCEPT ![h] = [pc |-> "hello", started |-> Clock(h), seq |-> out[h] + 1]]
      /\ conns' = <<h, calls[h] + 1>> :>
                    [pc |-> "queued", open |-> TRUE, up |-> hello, down |-> Nothing] @@ conns
      /\ UNCHANGED <<time, ahead, slots, inb, applied, returned>>

\* the responder hello is checked and the frame sent
SendFrame(h) ==
  LET k == Key(h)
      frame == [kind |-> "frame", issued |-> Clock(h), seq |-> call[h].seq]
  IN  /\ call[h].pc = "hello"
      /\ conns[k].down.kind = "hello"
      /\ HelloLive(conns[k].down.issued, Clock(h))
      /\ SetConn(k, [conns[k] EXCEPT !.up = frame, !.down = Nothing])
      /\ call' = [call EXCEPT ![h].pc = "frame"]
      /\ UNCHANGED <<time, ahead, slots, waiting, lock, out, inb, calls, applied, returned>>

\* the lock and the slot are given back
Release(h) ==
  /\ lock' = [lock EXCEPT ![h] = FALSE]
  /\ slots' = [slots EXCEPT ![h] = @ + 1]
  /\ call' = [call EXCEPT ![h] = Idle]
  /\ SetConn(Key(h), Dropped(Key(h)))
  /\ UNCHANGED <<time, ahead, waiting, out, calls, applied>>

\* The reply is checked and its sequence kept.  The announcement in it may
\* still be refused, and the call then raises.
Return(h) ==
  LET reply == conns[Key(h)].down
  IN  /\ call[h].pc = "frame"
      /\ reply.kind = "frame"
      /\ reply.seq > inb[h]
      /\ FrameLive(call[h].started, reply.issued, Clock(h))
      /\ inb' = [inb EXCEPT ![h] = reply.seq]
      /\ \/ returned' = returned \cup
              {[by |-> h, seq |-> call[h].seq, took |-> Clock(h) - call[h].started]}
         \/ UNCHANGED returned
      /\ Release(h)

\* Mutant: the socket of the caller has no timeout.
RaiseOnReply(h) ==
  LET k == Key(h)
  IN  /\ call[h].pc \in {"hello", "frame"}
      /\ \/ conns[k].down # Nothing
         \/ conns[k].pc = "ended"
      /\ UNCHANGED <<inb, returned>>
      /\ Release(h)

\* The call raises: the connection is refused, closed or times out, or what
\* was read is not valid.
Raise(h) ==
  /\ call[h].pc \in {"hello", "frame"}
  /\ UNCHANGED <<inb, returned>>
  /\ Release(h)

Call(h) == Connect(h) \/ Begin(h) \/ SendFrame(h) \/ Return(h) \/ Raise(h)
-----------------------------------------------------------------------------
(* The server *)

Server(k) == Peer(k[1])

\* process_request: a thread with a slot, or the connection is shut: there is
\* no slot, or the thread cannot be started and its slot is given back
Accept(k) ==
  LET h == Server(k)
  IN  /\ conns[k].pc = "queued"
      /\ \/ /\ slots[h] > 0
            /\ slots' = [slots EXCEPT ![h] = @ - 1]
            /\ SetConn(k, [conns[k] EXCEPT !.pc = "thread"])
         \/ /\ UNCHANGED slots
            /\ SetConn(k, Ended(k))
      /\ UNCHANGED <<time, ahead, waiting, lock, out, inb, calls, call, applied, returned>>

\* the hello is admitted and verified, and answered; the sequence that later
\* frames are compared with is read without the node lock, just after the
\* answer is written (here with it: Handle compares again under the lock)
Answer(k) ==
  LET h == Server(k)
  IN  /\ conns[k].pc = "thread"
      /\ conns[k].up.kind = "hello"
      /\ HelloLive(conns[k].up.issued, Clock(h))
      /\ SetConn(k, Replied(k, [kind |-> "hello", issued |-> Clock(h)])
                    @@ [now |-> Clock(h), prior |-> inb[h]])
      /\ UNCHANGED <<time, ahead, slots, waiting, lock, out, inb, calls, call, applied, returned>>

\* admit_message and verify_session_envelope
ReadFrame(k) ==
  LET c == conns[k]
      h == Server(k)
  IN  /\ c.pc = "open"
      /\ c.up.kind = "frame"
      /\ c.up.seq > c.prior
      /\ FrameLive(c.now, c.up.issued, Clock(h))
      /\ SetConn(k, [c EXCEPT !.pc = "frame"] @@ [current |-> Clock(h)])
      /\ UNCHANGED <<time, ahead, slots, waiting, lock, out, inb, calls, call, applied, returned>>

\* the thread returns, or raises, and its slot is given back
GiveBack(k) ==
  /\ slots' = [slots EXCEPT ![Server(k)] = @ + 1]
  /\ SetConn(k, Ended(k))

\* Mutant: the frame is compared with the sequence read when the session began.
HandleStale(k) ==
  LET c == conns[k]
      h == Server(k)
  IN  /\ c.pc = "frame"
      /\ ~lock[h]
      /\ inb' = [inb EXCEPT ![h] = c.up.seq]
      /\ applied' = [applied EXCEPT ![h] = Append(@, c.up.seq)]
      /\ out' = [out EXCEPT ![h] = @ + 1]
      /\ SetConn(k, Replied(k, [kind |-> "frame", issued |-> c.current, seq |-> out[h] + 1]))
      /\ UNCHANGED <<time, ahead, slots, waiting, lock, calls, call, returned>>

\* handle_envelope under the node lock: _authenticate_inbound, then the reply
\* or an error of the request
Handle(k) ==
  LET c == conns[k]
      h == Server(k)
  IN  /\ c.pc = "frame"
      /\ ~lock[h]
      /\ c.up.seq > inb[h]
      /\ inb' = [inb EXCEPT ![h] = c.up.seq]
      /\ applied' = [applied EXCEPT ![h] = Append(@, c.up.seq)]
      /\ \/ /\ out' = [out EXCEPT ![h] = @ + 1]
            /\ SetConn(k, Replied(k, [kind |-> "frame", issued |-> c.current, seq |-> out[h] + 1]))
            /\ UNCHANGED slots
         \/ GiveBack(k) /\ UNCHANGED out
      /\ UNCHANGED <<time, ahead, waiting, lock, calls, call, returned>>

\* "message_replay": a later request was handled first
Replay(k) ==
  /\ conns[k].pc = "frame"
  /\ ~lock[Server(k)]
  /\ conns[k].up.seq <= inb[Server(k)]
  /\ GiveBack(k)
  /\ UNCHANGED <<time, ahead, waiting, lock, out, inb, calls, call, applied, returned>>

\* nothing more comes, the socket times out, or what came is refused
Leave(k) ==
  /\ conns[k].pc \in {"thread", "open"}
  /\ GiveBack(k)
  /\ UNCHANGED <<time, ahead, waiting, lock, out, inb, calls, call, applied, returned>>

Thread(k) == Answer(k) \/ ReadFrame(k) \/ Handle(k) \/ Replay(k) \/ Leave(k)

Next ==
  \/ Tick
  \/ \E h \in Hosts : Call(h)
  \/ \E k \in DOMAIN conns : Accept(k) \/ Thread(k)

Spec == Init /\ [][Next]_vars

Keys == UNION {{h} \X (1 .. MaxCalls[h]) : h \in Hosts}

\* The sockets of both ends have a timeout; a free lock is taken and a queued
\* connection is looked at.  Nothing is assumed of what peers send.
FairSpec ==
  /\ Spec
  /\ \A h \in Hosts : WF_vars(Begin(h)) /\ WF_vars(Raise(h))
  /\ \A k \in Keys :
       WF_vars(k \in DOMAIN conns /\ (Accept(k) \/ Handle(k) \/ Replay(k) \/ Leave(k)))
-----------------------------------------------------------------------------
(* Properties *)

\* The requests of a peer are handled in the order it made them and each at
\* most once, threads of calls it gave up included; a call that returned was
\* handled.
AppliedInOrder ==
  /\ \A h \in Hosts : \A i, j \in DOMAIN applied[h] : i < j => applied[h][i] < applied[h][j]
  /\ \A r \in returned : \E i \in DOMAIN applied[Peer(r.by)] : applied[Peer(r.by)][i] = r.seq

Abs(n) == IF n < 0 THEN -n ELSE n

\* A call cannot return faster than twice what the clocks differ by: each of
\* the four stamps is compared with the other host's clock (verify_hello,
\* verify_session_envelope), so a quick link needs equal clocks.
SkewNeedsTime ==
  \A r \in returned : r.took >= 2 * Abs(ahead[Peer(r.by)] - ahead[r.by])

\* Calls end: time and again every slot and every lock is free, also when both
\* hosts call each other and each thread waits for the lock that the call of
\* its own host holds.
AllReleased == []<>(\A h \in Hosts : slots[h] = Slots /\ ~lock[h])
=============================================================================
