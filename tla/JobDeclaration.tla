--------------------------- MODULE JobDeclaration ---------------------------
(***************************************************************************)
(* A Stratum V2 job declaration between miners and one coordinator: the    *)
(* server and the client of sv2-reference, and the separately written      *)
(* client of sv2-independent-miner.  A call declares a job on a first      *)
(* connection and registers it as a custom job on a second.                *)
(*                                                                         *)
(* The coordinator runs one task per connection over a shared ServerState  *)
(* that holds ONE declared job.  A client waits a bounded time for every   *)
(* reply; a task goes on with what was sent before its client gave up.     *)
(* The coordinator may end at any step and start again with nothing.       *)
(*                                                                         *)
(* The two clients differ in when they drop the first connection, which    *)
(* the coordinator has finished with by then, and in whether they would    *)
(* answer a second request for missing transactions, which it never sends. *)
(* Both offer the version and flags the coordinator requires.              *)
(***************************************************************************)
EXTENDS Naturals, Sequences

CONSTANTS
  Miners,
  Bodies,        \* miners whose templates have transactions beside the coinbase
  VersionOf,     \* block version of each miner's template
  Modes,         \* the ways a coordinator may be configured
  MaxCalls,      \* bound on the declarations that each miner starts
  MaxRestarts    \* bound on the restarts of the coordinator

ServerMode ==
  { "accept", "reject", "drop", "stall", "malformed", "downgrade", "scenario", "equivocate" }

ASSUME DeclarationAssumption ==
  /\ Bodies \subseteq Miners
  /\ MaxCalls \in [Miners -> Nat]
  /\ MaxRestarts \in Nat
  /\ Modes \subseteq ServerMode

VARIABLES
  mode,       \* ServerMode, fixed when the coordinator is started
  server,     \* ServerState
  conns,      \* connections that one end still uses, by miner, call and protocol
  client,     \* what each miner's client is doing
  calls,      \* declarations each miner has started
  restarts,   \* restarts so far
  declared,   \* history: accepted declarations; a signed token is its position
  consumed,   \* history: custom jobs accepted, token and miner
  outcomes    \* history: calls that returned "accepted"

vars == <<mode, server, conns, client, calls, restarts, declared, consumed, outcomes>>

NoJob == [token |-> 0, version |-> 0, used |-> TRUE]
NewState == [job |-> NoJob, sessions |-> 0, accepted |-> 0]

Nothing == [kind |-> "nothing"]
Msg(kind) == [kind |-> kind]

Idle == [pc |-> "idle"]
Dead == [pc |-> "dead"]    \* neither end uses the connection

Init ==
  /\ mode \in Modes
  /\ server = NewState
  /\ conns = <<>>
  /\ client = [m \in Miners |-> Idle]
  /\ calls = [m \in Miners |-> 0]
  /\ restarts = 0
  /\ declared = <<>>
  /\ consumed = <<>>
  /\ outcomes = {}
-----------------------------------------------------------------------------
(* Connections: `up' and `down' hold what was sent and not yet read *)

Opened(m, proto) ==
  [ pc |-> "setup", owner |-> m, proto |-> proto, action |-> mode, open |-> TRUE,
    up |-> Msg("setup"), down |-> Nothing ]

\* the client drops its end; what it sent is still read
Closed(k) ==
  IF conns[k].pc = "ended" \/ conns[k].pc = "gone" THEN Dead
  ELSE [conns[k] EXCEPT !.open = FALSE, !.down = Nothing]

\* the task reads its message, sends a reply and goes on, or returns
Replied(k, msg, pc) ==
  IF conns[k].open THEN [conns[k] EXCEPT !.up = Nothing, !.down = msg, !.pc = pc]
  ELSE IF pc = "ended" THEN Dead
  ELSE [conns[k] EXCEPT !.up = Nothing, !.pc = pc]

Without(k) == [j \in DOMAIN conns \ {k} |-> conns[j]]

\* a connection is added to those of f
With(f, k, new) == [j \in DOMAIN f \cup {k} |-> IF j = k THEN new ELSE f[j]]

SetConn(k, new) ==
  conns' = IF new = Dead THEN Without(k) ELSE [conns EXCEPT ![k] = new]

\* a task at pc has a message of this kind to read
Reads(k, pc, kind) == conns[k].pc = pc /\ conns[k].up.kind = kind
-----------------------------------------------------------------------------
(* Tasks of the coordinator *)

\* ServerMode::action
Action(session) ==
  IF mode # "scenario" THEN mode
  ELSE LET steps == <<"accept", "reject", "drop", "stall", "malformed", "downgrade">>
       IN  IF session \in DOMAIN steps THEN steps[session] ELSE "reject"

ServeSetup(k) ==
  LET c        == conns[k]
      sessions == server.sessions + 1
      action   == IF c.proto = "jd" THEN Action(sessions) ELSE mode
      reply    == IF action = "downgrade" THEN Replied(k, Msg("downgraded"), "ended")
                  ELSE Replied(k, Msg("setup_ok"), IF c.proto = "jd" THEN "allocate" ELSE "open")
  IN  /\ Reads(k, "setup", "setup")
      /\ server' = IF c.proto = "jd" THEN [server EXCEPT !.sessions = sessions] ELSE server
      /\ SetConn(k, IF reply = Dead THEN Dead ELSE [reply EXCEPT !.action = action])
      /\ UNCHANGED <<mode, client, calls, restarts, declared, consumed, outcomes>>

ServeAllocate(k) ==
  /\ Reads(k, "allocate", "allocate")
  /\ SetConn(k, Replied(k, Msg("allocated"), "declare"))
  /\ UNCHANGED <<mode, server, client, calls, restarts, declared, consumed, outcomes>>

AskMissing(k) ==
  /\ Reads(k, "declare", "declare")
  /\ conns[k].owner \in Bodies
  /\ SetConn(k, Replied(k, Msg("missing"), "provided"))
  /\ UNCHANGED <<mode, server, client, calls, restarts, declared, consumed, outcomes>>

\* the declaration is complete: nothing was missing, or it was provided
Complete(k) ==
  \/ Reads(k, "declare", "declare") /\ conns[k].owner \notin Bodies
  \/ Reads(k, "provided", "provided")

NotTaken(k) ==
  LET a == conns[k].action
  IN  /\ Complete(k)
      /\ a \notin {"accept", "equivocate"}
      /\ SetConn(k, CASE a = "drop"      -> Replied(k, Nothing, "ended")
                      [] a = "stall"     -> Replied(k, Nothing, "stalled")
                      [] a = "malformed" -> Replied(k, Msg("declared_other"), "ended")
                      [] OTHER           -> Replied(k, Msg("declare_error"), "ended"))
      /\ UNCHANGED <<mode, server, client, calls, restarts, declared, consumed, outcomes>>

\* Mutant: the job is stored only while no other waits to be used.
TakeFirst(k) ==
  LET token == Len(declared) + 1
      job   == [token |-> token, version |-> VersionOf[conns[k].owner], used |-> FALSE]
  IN  /\ Complete(k)
      /\ conns[k].action \in {"accept", "equivocate"}
      /\ declared' = Append(declared, [miner |-> conns[k].owner, call |-> k[2], era |-> restarts])
      /\ server' = IF server.job.used THEN [server EXCEPT !.job = job] ELSE server
      /\ SetConn(k, Replied(k, [kind |-> "declared", token |-> token], "ended"))
      /\ UNCHANGED <<mode, client, calls, restarts, consumed, outcomes>>

\* the one declared job is replaced, then its token is sent
Take(k) ==
  LET token == Len(declared) + 1
      job   == [token |-> token, version |-> VersionOf[conns[k].owner], used |-> FALSE]
  IN  /\ Complete(k)
      /\ conns[k].action \in {"accept", "equivocate"}
      /\ declared' = Append(declared, [miner |-> conns[k].owner, call |-> k[2], era |-> restarts])
      /\ server' = [server EXCEPT !.job = job]
      /\ SetConn(k, Replied(k, [kind |-> "declared", token |-> token], "ended"))
      /\ UNCHANGED <<mode, client, calls, restarts, consumed, outcomes>>

\* the sleep of "stall" is over
StallEnds(k) ==
  /\ conns[k].pc = "stalled"
  /\ SetConn(k, Replied(k, Nothing, "ended"))
  /\ UNCHANGED <<mode, server, client, calls, restarts, declared, consumed, outcomes>>

ServeOpen(k) ==
  /\ Reads(k, "open", "open")
  /\ SetConn(k, Replied(k, Msg("opened"), "custom"))
  /\ UNCHANGED <<mode, server, client, calls, restarts, declared, consumed, outcomes>>

Settle(k, accepted) ==
  /\ SetConn(k, IF accepted THEN [conns[k] EXCEPT !.up = Nothing, !.pc = "count"]
                ELSE Replied(k, [kind |-> "custom_error", token |-> conns[k].up.token], "ended"))
  /\ server' = IF accepted THEN [server EXCEPT !.job.used = TRUE] ELSE server
  /\ consumed' = IF accepted
                 THEN Append(consumed, [token |-> server.job.token, miner |-> conns[k].owner])
                 ELSE consumed
  /\ UNCHANGED <<mode, client, calls, restarts, declared, outcomes>>

\* Mutant: the token is not compared.
ConsumeAnyToken(k) ==
  /\ Reads(k, "custom", "custom")
  /\ Settle(k, ~server.job.used /\ server.job.version = conns[k].up.version)

\* DeclaredJob::consume_custom_job, under the lock
Consume(k) ==
  /\ Reads(k, "custom", "custom")
  /\ Settle(k, /\ ~server.job.used
               /\ server.job.version = conns[k].up.version
               /\ server.job.token = conns[k].up.token)

\* Mutant: the count is read and not advanced.
CountLost(k) ==
  LET job == IF mode = "equivocate" THEN 9 + server.accepted ELSE 9
  IN  /\ conns[k].pc = "count"
      /\ SetConn(k, Replied(k, [kind |-> "custom_ok", job |-> job], "ended"))
      /\ UNCHANGED <<mode, server, client, calls, restarts, declared, consumed, outcomes>>

\* the lock is taken a second time to count the job and number it
Count(k) ==
  LET accepted == server.accepted + 1
      job      == IF mode = "equivocate" THEN 8 + accepted ELSE 9
  IN  /\ conns[k].pc = "count"
      /\ server' = [server EXCEPT !.accepted = accepted]
      /\ SetConn(k, Replied(k, [kind |-> "custom_ok", job |-> job], "ended"))
      /\ UNCHANGED <<mode, client, calls, restarts, declared, consumed, outcomes>>

\* a receive of the task times out, finds the connection closed or another message
TaskEnds(k) ==
  /\ conns[k].pc \in {"setup", "allocate", "declare", "provided", "open", "custom"}
  /\ SetConn(k, IF conns[k].open THEN [conns[k] EXCEPT !.up = Nothing, !.pc = "ended"] ELSE Dead)
  /\ UNCHANGED <<mode, server, client, calls, restarts, declared, consumed, outcomes>>

\* The process ends and is started again.  Its clients are told that their
\* connections are closed, or (the machine was lost) are told nothing.
Restart ==
  /\ restarts < MaxRestarts
  /\ restarts' = restarts + 1
  /\ server' = NewState
  /\ \E pc \in {"ended", "gone"} :
       conns' = [k \in {j \in DOMAIN conns : conns[j].open} |->
         IF conns[k].pc = "ended" THEN conns[k] ELSE [conns[k] EXCEPT !.up = Nothing, !.pc = pc]]
  /\ UNCHANGED <<mode, client, calls, declared, consumed, outcomes>>

Task(k) ==
  \/ ServeSetup(k) \/ ServeAllocate(k) \/ AskMissing(k) \/ NotTaken(k) \/ Take(k)
  \/ StallEnds(k) \/ ServeOpen(k) \/ Consume(k) \/ Count(k) \/ TaskEnds(k)
-----------------------------------------------------------------------------
(* Clients *)

\* the connection the client of m is using
Conn(m) == <<m, calls[m], client[m].proto>>

Reply(m) == conns[Conn(m)].down

Step(m, pc, kind) ==
  /\ client[m].pc = pc
  /\ Reply(m).kind = kind

Send(m, msg, pc) ==
  /\ SetConn(Conn(m), [conns[Conn(m)] EXCEPT !.up = msg, !.down = Nothing])
  /\ client' = [client EXCEPT ![m].pc = pc]
  /\ UNCHANGED <<mode, server, calls, restarts, declared, consumed, outcomes>>

\* run_client or declare starts: the first connection
Declare(m) ==
  /\ client[m] = Idle
  /\ calls[m] < MaxCalls[m]
  /\ calls' = [calls EXCEPT ![m] = @ + 1]
  /\ conns' = With(conns, <<m, calls[m] + 1, "jd">>, Opened(m, "jd"))
  /\ client' = [client EXCEPT ![m] = [pc |-> "setup", proto |-> "jd", token |-> 0]]
  /\ UNCHANGED <<mode, server, restarts, declared, consumed, outcomes>>

Negotiated(m) ==
  /\ Step(m, "setup", "setup_ok")
  /\ IF client[m].proto = "jd" THEN Send(m, Msg("allocate"), "allocate")
     ELSE Send(m, Msg("open"), "open")

TokenAllocated(m) == Step(m, "allocate", "allocated") /\ Send(m, Msg("declare"), "declare")

ProvideMissing(m) == Step(m, "declare", "missing") /\ Send(m, Msg("provided"), "declare")

\* the first connection, whose task has returned, is dropped for the second
Declared(m) ==
  /\ Step(m, "declare", "declared")
  /\ conns' = With(Without(Conn(m)), <<m, calls[m], "mining">>, Opened(m, "mining"))
  /\ client' = [client EXCEPT ![m] =
                 [pc |-> "setup", proto |-> "mining", token |-> Reply(m).token]]
  /\ UNCHANGED <<mode, server, calls, restarts, declared, consumed, outcomes>>

ChannelOpened(m) ==
  /\ Step(m, "open", "opened")
  /\ Send(m, [kind |-> "custom", version |-> VersionOf[m], token |-> client[m].token], "custom")

Return(m) ==
  /\ SetConn(Conn(m), Closed(Conn(m)))
  /\ client' = [client EXCEPT ![m] = Idle]
  /\ UNCHANGED <<mode, server, calls, restarts, declared, consumed>>

\* the call returns "accepted" and the job id
Accepted(m) ==
  /\ Step(m, "custom", "custom_ok")
  /\ outcomes' = outcomes \cup
       {[miner |-> m, token |-> client[m].token, job |-> Reply(m).job]}
  /\ Return(m)

\* The call returns "direct_fallback": the wait for a reply is over, the
\* connection is refused or closed, or the reply is not the one expected.
FallBack(m) ==
  /\ client[m] # Idle
  /\ UNCHANGED outcomes
  /\ Return(m)

Proceed(m) ==
  \/ Negotiated(m) \/ TokenAllocated(m) \/ ProvideMissing(m) \/ Declared(m)
  \/ ChannelOpened(m) \/ Accepted(m)

Next ==
  \/ \E m \in Miners : Declare(m) \/ Proceed(m) \/ FallBack(m)
  \/ \E k \in DOMAIN conns : Task(k)
  \/ Restart

Spec == Init /\ [][Next]_vars
-----------------------------------------------------------------------------
(* Properties *)

\* The custom jobs that the coordinator has accepted were each declared by the
\* miner that registered them and each accepted once, and a client that
\* returned "accepted" holds one of them, whoever else declared meanwhile and
\* whenever the coordinator was restarted.
AcceptedJobIsOwn ==
  /\ \A i, j \in DOMAIN consumed : consumed[i].token = consumed[j].token => i = j
  /\ \A i \in DOMAIN consumed : declared[consumed[i].token].miner = consumed[i].miner
  /\ \A o \in outcomes : \E i \in DOMAIN consumed :
       consumed[i] = [token |-> o.token, miner |-> o.miner]

\* A custom job is refused to an honest client only because another declaration
\* took the one place since, or the coordinator was restarted: a token is
\* usable from the moment it is sent.
RejectionExplained ==
  \A k \in DOMAIN conns : conns[k].down.kind = "custom_error" =>
    LET t == conns[k].down.token
    IN  t < Len(declared) \/ declared[t].era < restarts

\* The views that miners compare, made of the template and the job id, agree
\* whatever the interleaving unless the coordinator equivocates; when it does,
\* any two jobs it numbered between two restarts differ.
ViewsMatchMode ==
  \A o, p \in outcomes :
    IF mode # "equivocate" THEN o.job = p.job
    ELSE declared[o.token].era = declared[p.token].era /\ o.job = p.job => o = p
=============================================================================
