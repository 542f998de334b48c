--------------------------- MODULE RoutedSessions ---------------------------
(***************************************************************************)
(* The listener of a routed node: one thread per inbound connection runs   *)
(* handle_peer_session of sharechain_routed_v1.py against the shared       *)
(* admission controller and its sidecar file.  A thread reads the clock    *)
(* BEFORE it takes the transport lock, so ticks reach the controller out   *)
(* of order; a hello may be delivered any number of times; any save may    *)
(* fail; the process may stop at any step and reload the file.             *)
(*                                                                         *)
(* What a frame carries is handled by ShareSync; here handle_envelope      *)
(* replies or raises.                                                      *)
(***************************************************************************)
EXTENDS AdmissionOps, Bags, BagsExt

CONSTANTS
  Threads,            \* connection slots of the server
  SessionLifetime,    \* SESSION_LIFETIME_TICKS
  MaxTick,            \* bound on the clock
  MaxHellos,          \* bound on the hellos that peers sign
  MaxHeld             \* bound: this many hellos, the first, may come late or again

ASSUME RoutedAssumption ==
  /\ SessionLifetime \in Nat /\ MaxTick \in Nat /\ MaxHellos \in Nat
  /\ Nonces = 1 .. MaxHellos /\ MaxHeld \in Nat

VARIABLES
  ctl,       \* the controller in memory
  disk,      \* the controller in the sidecar file
  clock,     \* what time.time() returns, shared by the hosts
  sent,      \* hellos that peers have signed; the nonce of a hello is its number
  held,      \* hellos on the network, delivered late or again
  conn,      \* what each thread is doing
  answered   \* history: the bag of hellos answered, with the tick the thread had read

vars == <<ctl, disk, clock, sent, held, conn, answered>>

Ticks == 0 .. MaxTick

Idle == [pc |-> "idle"]

Init ==
  /\ ctl = EmptyController
  /\ disk = EmptyController
  /\ clock = 0
  /\ sent = 0
  /\ held = {}
  /\ conn = [c \in Threads |-> Idle]
  /\ answered = EmptyBag

\* _save_transport_state at the end of a locked section
Save(ok) == disk' = IF ok THEN ctl' ELSE disk

At(c, pc) == conn[c].pc = pc
Goto(c, state) == conn' = [conn EXCEPT ![c] = state]

\* a thread in each stage remembers what the code still uses of its hello
Refused == [pc |-> "refused"]
Open(c) == [pc |-> "open", peer |-> conn[c].peer, now |-> conn[c].now]
Paid(c) == [pc |-> "paid", peer |-> conn[c].peer, now |-> conn[c].now]
Failing(c) == [pc |-> "failing", peer |-> conn[c].peer]
Closing(c) == [pc |-> "closing", peer |-> conn[c].peer]
-----------------------------------------------------------------------------
(* The world around the threads *)

Tick ==
  /\ clock' \in {clock - 1, clock + 1} \cap Ticks
  /\ UNCHANGED <<ctl, disk, sent, held, conn, answered>>

\* a peer signs a hello with a new nonce
Sign == sent < MaxHellos /\ sent' = sent + 1

Hello(id) == [id |-> id, nonce |-> sent + 1, issued |-> clock]

\* a thread gets the line and reads the clock
Accept(c, h) ==
  /\ At(c, "idle")
  /\ Goto(c, [pc |-> "arrived", peer |-> h.id, hello |-> h, now |-> clock])
  /\ UNCHANGED <<ctl, disk, clock, held, answered>>

\* a hello from its pinned source, delivered at once
Arrive(c, id) == Sign /\ Accept(c, Hello(id))

\* a hello that the network keeps, and delivers late or more than once
Hold(id) ==
  /\ Sign
  /\ sent < MaxHeld
  /\ held' = held \cup {Hello(id)}
  /\ UNCHANGED <<ctl, disk, clock, conn, answered>>

Deliver(c, h) == Accept(c, h) /\ UNCHANGED sent

Restart ==
  /\ RestoreOK(disk)
  /\ ctl' = Reloaded(disk)
  /\ conn' = [c \in Threads |-> Idle]
  /\ UNCHANGED <<disk, clock, sent, held, answered>>
-----------------------------------------------------------------------------
(* Steps of a thread.  "refused" has not been admitted; "failing" and      *)
(* "closing" have, and pass through close_session.                         *)

Admit(c) ==
  LET r == AdmitHandshake(ctl, conn[c].peer, conn[c].hello.nonce, conn[c].now)
  IN  /\ At(c, "arrived")
      /\ ctl' = r.ctl
      /\ \/ r.ok /\ Save(TRUE) /\ Goto(c, [conn[c] EXCEPT !.pc = "admitted"])
         \/ r.ok /\ Save(FALSE) /\ Goto(c, Closing(c))
         \/ ~r.ok /\ UNCHANGED disk /\ Goto(c, Refused)
      /\ UNCHANGED <<clock, sent, held, answered>>

\* _reject_transport of a connection that was not admitted
Refuse(c) ==
  /\ At(c, "refused")
  /\ \E ok \in BOOLEAN : UNCHANGED ctl /\ Save(ok)
  /\ Goto(c, Idle)
  /\ UNCHANGED <<clock, sent, held, answered>>

\* Mutant: a hello stays valid one tick longer than its nonce is kept.
HelloValidLonger(h, t) == h.issued <= t /\ t <= h.issued + HelloLifetime + 1

HelloValid(h, t) == h.issued <= t /\ t <= h.issued + HelloLifetime

\* verify_hello, the saved counters and the responder hello; the save or the
\* write to the socket may fail
Answer(c) ==
  LET h == conn[c].hello
  IN  /\ At(c, "admitted")
      /\ UNCHANGED ctl
      /\ \/ /\ HelloValid(h, conn[c].now) /\ Save(TRUE) /\ Goto(c, Open(c))
            /\ answered' = BagAdd(answered, [id |-> h.id, nonce |-> h.nonce, tick |-> conn[c].now])
         \/ /\ HelloValid(h, conn[c].now) /\ Goto(c, Closing(c))
            /\ \E ok \in BOOLEAN : Save(ok)
            /\ UNCHANGED answered
         \/ /\ ~HelloValid(h, conn[c].now) /\ Goto(c, Failing(c))
            /\ UNCHANGED <<disk, answered>>
      /\ UNCHANGED <<clock, sent, held>>

ReadFrame(c) ==
  /\ At(c, "open")
  /\ Goto(c, [pc |-> "frame", peer |-> conn[c].peer, now |-> conn[c].now, current |-> clock])
  /\ UNCHANGED <<ctl, disk, clock, sent, held, answered>>

FrameValid(c, issued) ==
  /\ conn[c].now <= issued
  /\ issued <= conn[c].current
  /\ conn[c].current <= conn[c].now + SessionLifetime

\* admit_message and verify_session_envelope
PayFrame(c) ==
  \E cost \in 1 .. MaxCost, issued \in Ticks :
    LET r == AdmitMessage(ctl, conn[c].peer, cost, conn[c].current)
    IN  /\ At(c, "frame")
        /\ ctl' = r.ctl
        /\ \/ r.ok /\ FrameValid(c, issued) /\ Save(TRUE) /\ Goto(c, Paid(c))
           \/ r.ok /\ ~FrameValid(c, issued) /\ Save(TRUE) /\ Goto(c, Failing(c))
           \/ r.ok /\ Save(FALSE) /\ Goto(c, Closing(c))
           \/ ~r.ok /\ UNCHANGED disk /\ Goto(c, Failing(c))
        /\ UNCHANGED <<clock, sent, held, answered>>

\* handle_envelope and the reply, or an error of the node, the profile or
\* the socket
HandleFrame(c) ==
  /\ At(c, "paid")
  /\ UNCHANGED ctl
  /\ \/ Save(TRUE) /\ Goto(c, Open(c))
     \/ UNCHANGED disk /\ Goto(c, Failing(c))
     \/ UNCHANGED disk /\ Goto(c, Closing(c))
  /\ UNCHANGED <<clock, sent, held, answered>>

\* the peer closes its side, the read times out or the line is not a frame
HangUp(c) ==
  /\ At(c, "open")
  /\ Goto(c, Closing(c)) \/ Goto(c, Failing(c))
  /\ UNCHANGED <<ctl, disk, clock, sent, held, answered>>

\* Mutant: the error path returns without the finally clause.
FailWithoutClosing(c) ==
  /\ At(c, "failing")
  /\ \E ok \in BOOLEAN : UNCHANGED ctl /\ Save(ok)
  /\ Goto(c, Idle)
  /\ UNCHANGED <<clock, sent, held, answered>>

\* _reject_transport, then the finally clause
Fail(c) ==
  /\ At(c, "failing")
  /\ \E ok \in BOOLEAN : UNCHANGED ctl /\ Save(ok)
  /\ Goto(c, Closing(c))
  /\ UNCHANGED <<clock, sent, held, answered>>

Close(c) ==
  /\ At(c, "closing")
  /\ ctl' = CloseSession(ctl, conn[c].peer)
  /\ \E ok \in BOOLEAN : Save(ok)
  /\ Goto(c, Idle)
  /\ UNCHANGED <<clock, sent, held, answered>>

Step(c) ==
  \/ Admit(c) \/ Refuse(c) \/ Answer(c) \/ ReadFrame(c) \/ PayFrame(c)
  \/ HandleFrame(c) \/ HangUp(c) \/ Fail(c) \/ Close(c)

Next ==
  \/ Tick
  \/ \E c \in Threads, id \in Identities : Arrive(c, id)
  \/ \E id \in Identities : Hold(id)
  \/ \E c \in Threads, h \in held : Deliver(c, h)
  \/ \E c \in Threads : Step(c)
  \/ Restart

Spec == Init /\ [][Next]_vars
-----------------------------------------------------------------------------
(* Properties *)

\* how many answers of S there were
Answers(S) == BagCardinality(Restrict(answered, BagToSet(answered) \cap S))

AdmittedPcs == {"admitted", "open", "frame", "paid", "failing", "closing"}
Live == {c \in Threads : conn[c].pc \in AdmittedPcs}

\* A hello is answered at most once, whatever is repeated, whenever the
\* process restarts and however the clock moves (admit_handshake,
\* _load_transport_state, verify_hello).
HelloAnsweredOnce ==
  \A h \in Nonces : Answers([id : Identities, nonce : {h}, tick : Ticks]) <= 1

\* In any interval of ticks a peer gets no more sessions than its bucket
\* holds and the interval refills, restarts and failed saves included.
AnsweredRate ==
  \A id \in Identities, s, e \in Ticks : s <= e =>
    Answers([id : {id}, nonce : Nonces, tick : s .. e])
      <= HandshakeCapacity + (e - s) * HandshakeRefill

\* The active counts are the threads that were admitted and have not closed:
\* no error path leaks a session, closes one twice, or leaves it counted for
\* its identity or its prefix only (handle_peer_session, close_session).
LiveSessionsCounted ==
  /\ \A id \in Identities : ctl.identity[id] = Cardinality({c \in Live : conn[c].peer = id})
  /\ \A p \in Prefixes : ctl.prefix[p] = Cardinality({c \in Live : PrefixOf[conn[c].peer] = p})
=============================================================================
