------------------------ MODULE JobDeclarationProofs ------------------------
(***************************************************************************)
(* What a job declaration keeps, proved for every set of miners, every     *)
(* choice of templates and every mode of the coordinator.                  *)
(***************************************************************************)
EXTENDS JobDeclaration, TLAPS

\* leaves are left to Zenon; the ones with arithmetic or records cite SMT
USE ZenonT(60)
-----------------------------------------------------------------------------
(* The invariant *)

Versions == {VersionOf[m] : m \in Miners} \cup {0}

PlainKinds ==
  { "nothing", "setup", "allocate", "declare", "provided", "open", "setup_ok",
    "downgraded", "allocated", "missing", "declared_other", "declare_error", "opened" }

MessageType ==
  [kind : PlainKinds]
    \cup [kind : {"custom"}, version : Versions, token : Nat]
    \cup [kind : {"declared", "custom_error"}, token : Nat]
    \cup [kind : {"custom_ok"}, job : Nat]

TaskPcs ==
  { "setup", "allocate", "declare", "provided", "stalled", "open", "custom", "count",
    "ended", "gone" }

ConnType ==
  [ pc : TaskPcs,
    owner : Miners, proto : {"jd", "mining"}, action : ServerMode, open : BOOLEAN,
    up : MessageType, down : MessageType ]

ClientType ==
  [ pc : {"setup", "allocate", "declare", "open", "custom"},
    proto : {"jd", "mining"}, token : Nat ]

TypesOK ==
  /\ mode \in ServerMode
  /\ server \in [ job : [token : Nat, version : Versions, used : BOOLEAN],
                  sessions : Nat, accepted : Nat ]
  /\ \A k \in DOMAIN conns : /\ conns[k] \in ConnType
                              /\ k[2] \in Nat
                              /\ k = <<conns[k].owner, k[2], conns[k].proto>>
  /\ client \in [Miners -> {Idle} \cup ClientType]
  /\ calls \in [Miners -> Nat]
  /\ restarts \in Nat
  /\ declared \in Seq([miner : Miners, call : Nat, era : Nat])
  /\ consumed \in Seq([token : Nat, miner : Miners])
  /\ outcomes \subseteq [miner : Miners, token : Nat, job : Nat]

\* the token was declared by that call of the miner
OwnToken(t, m, call) ==
  t \in DOMAIN declared /\ declared[t].miner = m /\ declared[t].call = call

\* a job that the call declared has been registered
Spent(m, call) ==
  \E i \in DOMAIN consumed : OwnToken(consumed[i].token, m, call)

Registered(m) ==
  \E i \in DOMAIN consumed : consumed[i] = [token |-> client[m].token, miner |-> m]

\* An open connection is the one its client uses, and a client that is not
\* idle uses an open one.
EndsOK ==
  /\ \A k \in DOMAIN conns :
       /\ conns[k].open => client[conns[k].owner] # Idle /\ k = Conn(conns[k].owner)
       /\ ~conns[k].open => conns[k].down = Nothing
       /\ k[2] <= calls[conns[k].owner]
       /\ (conns[k].proto = "mining" /\ k[2] = calls[conns[k].owner])
            => (client[conns[k].owner] = Idle \/ client[conns[k].owner].proto = "mining")
  /\ \A m \in Miners : client[m] # Idle =>
       /\ Conn(m) \in DOMAIN conns
       /\ conns[Conn(m)].open
       /\ client[m].pc \in {"open", "custom"} => client[m].proto = "mining"
       /\ client[m].pc \in {"allocate", "declare"} => client[m].proto = "jd"

\* A token stays with the call that declared it, and is not registered while
\* its registration is still to be sent or read.
TokensOK ==
  /\ \A k \in DOMAIN conns :
       /\ conns[k].up.kind = "custom" =>
            /\ OwnToken(conns[k].up.token, conns[k].owner, k[2])
            /\ conns[k].up.version = VersionOf[conns[k].owner]
            /\ conns[k].proto = "mining"
            /\ conns[k].open => /\ conns[k].up.token = client[conns[k].owner].token
                                 /\ client[conns[k].owner].pc = "custom"
            /\ ~Spent(conns[k].owner, k[2])
       /\ conns[k].down.kind = "declared" =>
            OwnToken(conns[k].down.token, conns[k].owner, k[2])
  /\ \A m \in Miners : client[m] # Idle =>
       /\ client[m].proto = "mining" => OwnToken(client[m].token, m, calls[m])
       /\ (client[m].proto = "jd" \/ client[m].pc # "custom") => ~Spent(m, calls[m])

\* The history, and the one job that the coordinator holds.
LedgerOK ==
  /\ \A i \in DOMAIN consumed : /\ consumed[i].token \in DOMAIN declared
                                 /\ declared[consumed[i].token].miner = consumed[i].miner
  /\ \A i, j \in DOMAIN consumed : consumed[i].token = consumed[j].token => i = j
  /\ \A o \in outcomes : \E i \in DOMAIN consumed :
       consumed[i] = [token |-> o.token, miner |-> o.miner]
  /\ \A t \in DOMAIN declared : /\ declared[t].call <= calls[declared[t].miner]
                                 /\ declared[t].era <= restarts
  /\ ~server.job.used => /\ server.job.token \in DOMAIN declared
                         /\ declared[server.job.token].era = restarts
                         /\ \A i \in DOMAIN consumed : consumed[i].token # server.job.token
  /\ (Len(declared) \in DOMAIN declared /\ declared[Len(declared)].era = restarts) =>
       /\ server.job.token = Len(declared)
       /\ server.job.version = VersionOf[declared[Len(declared)].miner]
       /\ server.job.used =>
            \E i \in DOMAIN consumed : consumed[i].token = Len(declared)

\* What the coordinator has told its clients.
RepliesOK ==
  \A k \in DOMAIN conns :
    /\ (conns[k].open /\ (conns[k].pc = "count" \/ conns[k].down.kind = "custom_ok"))
         => Registered(conns[k].owner)
    /\ (conns[k].open /\ conns[k].pc = "count")
         => declared[client[conns[k].owner].token].era = restarts
    /\ conns[k].down.kind = "custom_error" =>
         /\ conns[k].down.token \in DOMAIN declared
         /\ \/ conns[k].down.token < Len(declared)
            \/ declared[conns[k].down.token].era < restarts

\* the jobs that have a number: returned, or on their way to a client
Numbered ==
  outcomes \cup
    {[miner |-> m, token |-> client[m].token, job |-> Reply(m).job] :
       m \in {n \in Miners : client[n] # Idle /\ Reply(n).kind = "custom_ok"}}

NumbersOK ==
  /\ mode # "equivocate" => \A o \in Numbered : o.job = 9
  /\ mode = "equivocate" =>
       /\ \A o \in Numbered : declared[o.token].era = restarts => o.job <= 8 + server.accepted
       /\ \A o, p \in Numbered :
            (declared[o.token].era = declared[p.token].era /\ o.job = p.job) => o = p

IInv == TypesOK /\ EndsOK /\ TokensOK /\ LedgerOK /\ RepliesOK /\ NumbersOK

-----------------------------------------------------------------------------
(* Steps of a task *)

\* What the step of a task does to the connections: its own is left with the
\* message read, msg sent unless the client has gone, and the task at pc.
OneConn(k, msg, pc) ==
  /\ DOMAIN conns' \subseteq DOMAIN conns
  /\ \A j \in DOMAIN conns : (j # k \/ conns[j].open) => j \in DOMAIN conns'
  /\ \A j \in DOMAIN conns' : j # k => conns'[j] = conns[j]
  /\ k \in DOMAIN conns' =>
       /\ conns'[k] \in ConnType
       /\ conns'[k].owner = conns[k].owner
       /\ conns'[k].proto = conns[k].proto
       /\ conns'[k].open = conns[k].open
       /\ conns'[k].up = Nothing
       /\ conns'[k].pc = pc
       /\ conns'[k].down = IF conns[k].open THEN msg ELSE Nothing

\* The messages that carry no token and no job are messages.
LEMMA PlainMessages ==
  /\ Nothing \in MessageType
  /\ \A kind \in PlainKinds : Msg(kind) \in MessageType
BY DEF Nothing, Msg, MessageType, PlainKinds

\* A connection that is in use is not the value that stands for none.
LEMMA NotDead ==
  \A c \in ConnType : c # Dead
BY SMTT(60) DEF ConnType, TaskPcs, Dead

\* A task that reads its message, replies and goes on, as the handlers of
\* serve_connection do, changes its own connection only.
LEMMA RepliedOne ==
  ASSUME TypesOK, EndsOK, NEW k \in DOMAIN conns, NEW msg \in MessageType,
         NEW pc \in TaskPcs, SetConn(k, Replied(k, msg, pc))
  PROVE  OneConn(k, msg, pc)
<1>1. /\ conns[k] \in ConnType
      /\ conns[k].open \in BOOLEAN
      /\ ~conns[k].open => conns[k].down = Nothing
  BY DEF TypesOK, EndsOK, ConnType
<1>2. Nothing \in MessageType
  BY PlainMessages
<1>3. CASE Replied(k, msg, pc) = Dead
  <2>1. ~conns[k].open
    <3>1. [conns[k] EXCEPT !.up = Nothing, !.down = msg, !.pc = pc] \in ConnType
      BY <1>1, <1>2 DEF ConnType
    <3> QED BY <1>3, <3>1, NotDead DEF Replied
  <2> QED BY <1>3, <2>1 DEF SetConn, Without, OneConn
<1>4. CASE Replied(k, msg, pc) # Dead
  <2>1. conns' = [conns EXCEPT ![k] = Replied(k, msg, pc)]
    BY <1>4 DEF SetConn
  <2>2. CASE conns[k].open
    <3>1. conns'[k] = [conns[k] EXCEPT !.up = Nothing, !.down = msg, !.pc = pc]
      BY <2>1, <2>2 DEF Replied
    <3>2. conns'[k] \in ConnType
      BY <3>1, <1>1, <1>2 DEF ConnType
    <3> QED BY <2>1, <2>2, <3>1, <3>2, <1>1 DEF OneConn, ConnType
  <2>3. CASE ~conns[k].open
    <3>1. conns'[k] = [conns[k] EXCEPT !.up = Nothing, !.pc = pc]
      BY <2>1, <2>3, <1>4 DEF Replied
    <3>2. conns'[k] \in ConnType
      BY <3>1, <1>1, <1>2 DEF ConnType
    <3> QED BY <2>1, <2>3, <3>1, <3>2, <1>1 DEF OneConn, ConnType
  <2> QED BY <2>2, <2>3
<1> QED BY <1>3, <1>4

\* The connections keep their type and the ends stay matched.
LEMMA OneKeepsEnds ==
  ASSUME TypesOK, EndsOK, NEW k \in DOMAIN conns, NEW msg, NEW pc,
         OneConn(k, msg, pc), UNCHANGED <<client, calls>>
  PROVE  /\ \A j \in DOMAIN conns' : /\ conns'[j] \in ConnType
                                      /\ j[2] \in Nat
                                      /\ j = <<conns'[j].owner, j[2], conns'[j].proto>>
         /\ EndsOK'
<1>1. \A j \in DOMAIN conns' :
        /\ j \in DOMAIN conns
        /\ conns'[j] \in ConnType
        /\ conns'[j].owner = conns[j].owner
        /\ conns'[j].proto = conns[j].proto
        /\ conns'[j].open = conns[j].open
        /\ ~conns[j].open => conns'[j].down = Nothing
  <2> SUFFICES ASSUME NEW j \in DOMAIN conns'
               PROVE  /\ j \in DOMAIN conns
                      /\ conns'[j] \in ConnType
                      /\ conns'[j].owner = conns[j].owner
                      /\ conns'[j].proto = conns[j].proto
                      /\ conns'[j].open = conns[j].open
                      /\ ~conns[j].open => conns'[j].down = Nothing
    OBVIOUS
  <2>1. j \in DOMAIN conns
    BY DEF OneConn
  <2>2. CASE j = k
    BY <2>1, <2>2 DEF OneConn
  <2>3. CASE j # k
    BY <2>1, <2>3 DEF OneConn, TypesOK, EndsOK
  <2> QED BY <2>1, <2>2, <2>3
<1>2. \A m \in Miners : Conn(m)' = Conn(m)
  BY DEF Conn
<1>3. \A j \in DOMAIN conns : conns[j].owner \in Miners
  BY DEF TypesOK, ConnType
<1>4. \A m \in Miners : client[m] # Idle =>
        Conn(m) \in DOMAIN conns' /\ conns'[Conn(m)].open
  BY <1>1 DEF EndsOK, OneConn
<1>5. \A j \in DOMAIN conns' : /\ conns'[j] \in ConnType
                               /\ j[2] \in Nat
                               /\ j = <<conns'[j].owner, j[2], conns'[j].proto>>
  BY <1>1 DEF TypesOK
<1>6. ASSUME NEW j \in DOMAIN conns'
      PROVE  /\ conns'[j].open =>
                  client'[conns'[j].owner] # Idle /\ j = Conn(conns[j].owner)
             /\ ~conns'[j].open => conns'[j].down = Nothing
             /\ j[2] <= calls'[conns'[j].owner]
             /\ (conns'[j].proto = "mining" /\ j[2] = calls'[conns'[j].owner])
                  => (\/ client'[conns'[j].owner] = Idle
                      \/ client'[conns'[j].owner].proto = "mining")
  BY <1>1, SMTT(60) DEF EndsOK
<1> QED BY <1>1, <1>2, <1>3, <1>4, <1>5, <1>6, SMTT(60) DEF EndsOK, Conn

\* The history only grows.
Grows ==
  /\ Len(declared') \in Nat /\ Len(declared) <= Len(declared')
  /\ \A t \in DOMAIN declared : t \in DOMAIN declared' /\ declared'[t] = declared[t]
  /\ \A i \in DOMAIN consumed : i \in DOMAIN consumed' /\ consumed'[i] = consumed[i]

\* Tokens stay where they were when a task takes nothing new from a client and
\* sends it no token but its own.
LEMMA OneKeepsTokens ==
  ASSUME TypesOK, TokensOK, LedgerOK, NEW k \in DOMAIN conns, NEW msg, NEW pc,
         OneConn(k, msg, pc),
         \/ msg = conns[k].down
         \/ msg.kind = "declared" => /\ msg.token \in DOMAIN declared'
                                     /\ declared'[msg.token].miner = conns[k].owner
                                     /\ declared'[msg.token].call = k[2],
         Grows, UNCHANGED <<client, calls, consumed>>
  PROVE  TokensOK'
<1>1. ASSUME NEW j \in DOMAIN conns'
      PROVE  /\ j \in DOMAIN conns
             /\ conns'[j].owner = conns[j].owner
             /\ conns'[j].proto = conns[j].proto
             /\ conns'[j].open = conns[j].open
             /\ conns'[j].up.kind = "custom" => conns'[j].up = conns[j].up
             /\ conns'[j].down.kind = "declared" =>
                  conns'[j].down = conns[j].down \/ (j = k /\ conns'[j].down = msg)
  <2>1. j \in DOMAIN conns
    BY DEF OneConn
  <2>2. CASE j = k
    BY <2>1, <2>2, SMTT(60) DEF OneConn, Nothing
  <2>3. CASE j # k
    BY <2>1, <2>3 DEF OneConn
  <2> QED BY <2>1, <2>2, <2>3
<1>2. ASSUME NEW j \in DOMAIN conns', conns'[j].up.kind = "custom"
      PROVE  /\ OwnToken(conns[j].up.token, conns[j].owner, j[2])
             /\ conns'[j].up.version = VersionOf[conns'[j].owner]
             /\ conns'[j].proto = "mining"
             /\ conns'[j].open => /\ conns'[j].up.token = client[conns'[j].owner].token
                                   /\ client[conns'[j].owner].pc = "custom"
             /\ ~Spent(conns[j].owner, j[2])
             /\ conns'[j].up = conns[j].up
             /\ conns'[j].owner = conns[j].owner
  BY <1>1, <1>2, SMTT(60) DEF TokensOK
<1>3. ASSUME NEW j \in DOMAIN conns', conns'[j].down.kind = "declared"
      PROVE  /\ conns'[j].down.token \in DOMAIN declared'
             /\ declared'[conns'[j].down.token].miner = conns'[j].owner
             /\ declared'[conns'[j].down.token].call = j[2]
  <2>1. CASE conns'[j].down = conns[j].down
    BY <1>1, <1>3, <2>1, SMTT(60) DEF TokensOK, OwnToken, Grows
  <2>2. CASE j = k /\ conns'[j].down = msg /\ msg # conns[k].down
    BY <1>1, <1>3, <2>2
  <2> QED BY <1>1, <1>3, <2>1, <2>2
<1>4. \A t \in DOMAIN declared : t \in DOMAIN declared' /\ declared'[t] = declared[t]
  BY DEF Grows
<1>5. \A i \in DOMAIN consumed : consumed[i].token \in DOMAIN declared
  BY DEF LedgerOK
<1>6. ASSUME NEW m \in Miners, client[m] # Idle
      PROVE  /\ client[m].proto = "mining" => OwnToken(client[m].token, m, calls[m])'
             /\ (client[m].proto = "jd" \/ client[m].pc # "custom") => ~Spent(m, calls[m])'
  BY <1>4, <1>5, <1>6, SMTT(60) DEF TokensOK, OwnToken, Spent
<1>7. ASSUME NEW j \in DOMAIN conns', conns'[j].up.kind = "custom"
      PROVE  OwnToken(conns[j].up.token, conns[j].owner, j[2])' /\ ~Spent(conns[j].owner, j[2])'
  BY <1>1, <1>2, <1>4, <1>5, <1>7, SMTT(60) DEF OwnToken, Spent
<1> QED BY <1>2, <1>3, <1>6, <1>7 DEF TokensOK, OwnToken

\* The numbers stay those that were given when a task sends no number.
LEMMA OneKeepsNumbers ==
  ASSUME TypesOK, EndsOK, NEW k \in DOMAIN conns, NEW msg, NEW pc,
         OneConn(k, msg, pc),
         msg = conns[k].down \/ msg.kind # "custom_ok",
         UNCHANGED <<client, calls, outcomes>>
  PROVE  Numbered' \subseteq Numbered
<1>1. ASSUME NEW m \in Miners, client[m] # Idle, Reply(m)'.kind = "custom_ok"
      PROVE  Reply(m)' = Reply(m)
  <2>1. /\ Conn(m) \in DOMAIN conns
        /\ conns[Conn(m)].open
        /\ Conn(m)' = Conn(m)
    BY <1>1 DEF EndsOK, Conn
  <2>2. Conn(m) \in DOMAIN conns'
    BY <2>1 DEF OneConn
  <2>3. CASE Conn(m) = k
    BY <1>1, <2>1, <2>2, <2>3 DEF OneConn, Reply
  <2>4. CASE Conn(m) # k
    BY <2>1, <2>2, <2>4 DEF OneConn, Reply
  <2> QED BY <2>3, <2>4
<1> QED BY <1>1 DEF Numbered

\* A sequence has its elements at the positions up to its length.
LEMMA SeqElements ==
  ASSUME NEW S, NEW s \in Seq(S)
  PROVE  /\ Len(s) \in Nat
         /\ DOMAIN s = 1 .. Len(s)
         /\ \A i \in DOMAIN s : i \in Nat /\ s[i] \in S
<1>1. Len(s) \in Nat /\ DOMAIN s = 1 .. Len(s)
  BY SMTT(60)
<1>2. \A i \in 1 .. Len(s) : i \in Nat /\ s[i] \in S
  BY <1>1, SMTT(60)
<1> QED BY <1>1, <1>2

\* The histories are sequences of their records.
LEMMA Histories ==
  ASSUME TypesOK
  PROVE  /\ Len(declared) \in Nat /\ Len(consumed) \in Nat
         /\ DOMAIN declared = 1 .. Len(declared)
         /\ DOMAIN consumed = 1 .. Len(consumed)
         /\ \A t \in DOMAIN declared :
              t \in Nat /\ declared[t] \in [miner : Miners, call : Nat, era : Nat]
         /\ \A i \in DOMAIN consumed :
              i \in Nat /\ consumed[i] \in [token : Nat, miner : Miners]
<1>1. /\ declared \in Seq([miner : Miners, call : Nat, era : Nat])
      /\ consumed \in Seq([token : Nat, miner : Miners])
  BY DEF TypesOK
<1> QED BY <1>1, SeqElements

\* Every job that has a number was registered.
LEMMA NumberedRegistered ==
  ASSUME TypesOK, EndsOK, LedgerOK, RepliesOK
  PROVE  \A o \in Numbered :
           /\ o \in [miner : Miners, token : Nat, job : Nat]
           /\ \E i \in DOMAIN consumed : consumed[i] = [token |-> o.token, miner |-> o.miner]
           /\ o.token \in DOMAIN declared
           /\ declared[o.token] \in [miner : Miners, call : Nat, era : Nat]
<1>1. ASSUME NEW m \in Miners, client[m] # Idle, Reply(m).kind = "custom_ok"
      PROVE  /\ client[m].token \in Nat
             /\ Reply(m).job \in Nat
             /\ Registered(m)
  <2>1. /\ Conn(m) \in DOMAIN conns
        /\ conns[Conn(m)].open
        /\ conns[Conn(m)] \in ConnType
    BY <1>1 DEF EndsOK, TypesOK
  <2>2. conns[Conn(m)].owner = m
    BY <2>1 DEF TypesOK, Conn
  <2>3. Registered(m)
    BY <1>1, <2>1, <2>2 DEF RepliesOK, Reply
  <2>4. Reply(m).job \in Nat
    BY <1>1, <2>1 DEF ConnType, MessageType, PlainKinds, Reply
  <2> QED BY <1>1, <2>3, <2>4 DEF TypesOK, ClientType
<1>2. ASSUME NEW o \in Numbered
      PROVE  /\ o \in [miner : Miners, token : Nat, job : Nat]
             /\ \E i \in DOMAIN consumed : consumed[i] = [token |-> o.token, miner |-> o.miner]
  <2>1. CASE o \in outcomes
    BY <2>1 DEF TypesOK, LedgerOK
  <2>2. CASE o \notin outcomes
    <3>1. PICK m \in Miners : /\ client[m] # Idle /\ Reply(m).kind = "custom_ok"
                              /\ o = [miner |-> m, token |-> client[m].token, job |-> Reply(m).job]
      BY <2>2 DEF Numbered
    <3> QED BY <1>1, <3>1 DEF Registered
  <2> QED BY <2>1, <2>2
<1>3. \A i \in DOMAIN consumed : consumed[i].token \in DOMAIN declared
  BY DEF LedgerOK
<1>4. \A t \in DOMAIN declared : declared[t] \in [miner : Miners, call : Nat, era : Nat]
  BY Histories
<1> QED BY <1>2, <1>3, <1>4, SMTT(60)

\* The numbers given stay apart when no number is added, whatever is declared
\* and whenever the coordinator starts its count again.
LEMMA FewerNumbers ==
  ASSUME TypesOK, EndsOK, LedgerOK, RepliesOK, NumbersOK,
         Numbered' \subseteq Numbered, Grows, UNCHANGED mode,
         \/ UNCHANGED restarts /\ server'.accepted = server.accepted
         \/ restarts' = restarts + 1
  PROVE  NumbersOK'
<1>1. \A o \in Numbered' :
        /\ o \in Numbered
        /\ o.token \in DOMAIN declared
        /\ declared'[o.token] = declared[o.token]
        /\ declared[o.token].era \in Nat
        /\ declared[o.token].era <= restarts
  BY NumberedRegistered DEF LedgerOK, Grows
<1>2. restarts \in Nat
  BY DEF TypesOK
<1>3. ASSUME NEW o \in Numbered', declared'[o.token].era = restarts', mode = "equivocate"
      PROVE  o.job <= 8 + server'.accepted
  <2>1. restarts' = restarts
    BY <1>1, <1>2, <1>3, SMTT(60)
  <2>2. declared[o.token].era = restarts
    BY <1>1, <1>3, <2>1
  <2>3. server'.accepted = server.accepted
    BY <1>2, <2>1, SMTT(60)
  <2> QED BY <1>1, <1>3, <2>2, <2>3 DEF NumbersOK
<1>4. mode # "equivocate" => \A o \in Numbered' : o.job = 9
  BY <1>1 DEF NumbersOK
<1>5. mode = "equivocate" =>
        \A o, p \in Numbered' :
          (declared'[o.token].era = declared'[p.token].era /\ o.job = p.job) => o = p
  BY <1>1 DEF NumbersOK
<1> QED BY <1>3, <1>4, <1>5 DEF NumbersOK

\* What clients were told stays true, and what this task tells is true.
LEMMA OneKeepsReplies ==
  ASSUME TypesOK, EndsOK, LedgerOK, RepliesOK, NEW k \in DOMAIN conns, NEW msg, NEW pc,
         OneConn(k, msg, pc), Grows, UNCHANGED <<client, calls, restarts>>,
         (conns[k].open /\ (pc = "count" \/ (msg # conns[k].down /\ msg.kind = "custom_ok")))
           => \E i \in DOMAIN consumed' :
                consumed'[i] = [ token |-> client[conns[k].owner].token,
                                 miner |-> conns[k].owner ],
         (conns[k].open /\ pc = "count")
           => declared'[client[conns[k].owner].token].era = restarts,
         (msg # conns[k].down /\ msg.kind = "custom_error") =>
           /\ msg.token \in DOMAIN declared'
           /\ msg.token < Len(declared') \/ declared'[msg.token].era < restarts
  PROVE  RepliesOK'
<1>1. \A i \in DOMAIN consumed : i \in DOMAIN consumed' /\ consumed'[i] = consumed[i]
  BY DEF Grows
<1>2. \A j \in DOMAIN conns : (conns[j].open /\ conns[j].pc = "count") =>
        client[conns[j].owner].token \in DOMAIN declared
  BY SMTT(60) DEF RepliesOK, Registered, LedgerOK
<1>3. ASSUME NEW j \in DOMAIN conns, j # k \/ conns'[j].down = conns[j].down,
             conns[j].down.kind = "custom_error"
      PROVE  /\ conns[j].down.token \in DOMAIN declared'
             /\ \/ conns[j].down.token < Len(declared')
                \/ declared'[conns[j].down.token].era < restarts
  <2>1. /\ conns[j].down.token \in DOMAIN declared
        /\ \/ conns[j].down.token < Len(declared)
           \/ declared[conns[j].down.token].era < restarts
    BY <1>3 DEF RepliesOK
  <2>2. conns[j].down.token \in Nat /\ Len(declared) \in Nat /\ Len(declared') \in Nat
    BY <2>1, Histories DEF Grows
  <2> QED BY <2>1, <2>2, SMTT(60) DEF Grows
<1>4. ASSUME NEW j \in DOMAIN conns', j # k
      PROVE  /\ (conns'[j].open /\ (conns'[j].pc = "count" \/ conns'[j].down.kind = "custom_ok"))
                  => Registered(conns[j].owner)'
             /\ (conns'[j].open /\ conns'[j].pc = "count")
                  => declared'[client[conns'[j].owner].token].era = restarts
             /\ conns'[j].down.kind = "custom_error" =>
                  /\ conns'[j].down.token \in DOMAIN declared'
                  /\ \/ conns'[j].down.token < Len(declared')
                     \/ declared'[conns'[j].down.token].era < restarts
  <2>1. j \in DOMAIN conns /\ conns'[j] = conns[j]
    BY <1>4 DEF OneConn
  <2>2. (conns[j].open /\ (conns[j].pc = "count" \/ conns[j].down.kind = "custom_ok"))
          => Registered(conns[j].owner)'
    BY <1>1, <2>1, SMTT(60) DEF RepliesOK, Registered
  <2>3. (conns[j].open /\ conns[j].pc = "count")
          => declared'[client[conns[j].owner].token].era = restarts
    BY <1>2, <2>1 DEF RepliesOK, Grows
  <2> QED BY <1>3, <1>4, <2>1, <2>2, <2>3
<1>5. ASSUME k \in DOMAIN conns'
      PROVE  /\ (conns'[k].open /\ (conns'[k].pc = "count" \/ conns'[k].down.kind = "custom_ok"))
                  => Registered(conns[k].owner)'
             /\ (conns'[k].open /\ conns'[k].pc = "count")
                  => declared'[client[conns'[k].owner].token].era = restarts
             /\ conns'[k].down.kind = "custom_error" =>
                  /\ conns'[k].down.token \in DOMAIN declared'
                  /\ \/ conns'[k].down.token < Len(declared')
                     \/ declared'[conns'[k].down.token].era < restarts
  <2>1. /\ conns'[k].owner = conns[k].owner
        /\ conns'[k].open = conns[k].open
        /\ conns'[k].pc = pc
        /\ conns[k].open => conns'[k].down = msg
        /\ ~conns[k].open => conns'[k].down.kind = "nothing"
    BY <1>5, SMTT(60) DEF OneConn, Nothing
  <2>2. (conns[k].open /\ (pc = "count" \/ conns'[k].down.kind = "custom_ok"))
          => Registered(conns[k].owner)'
    BY <1>1, <2>1 DEF RepliesOK, Registered
  <2> QED BY <1>3, <2>1, <2>2
<1> QED BY <1>4, <1>5 DEF RepliesOK, Registered

\* A step of a task that neither declares nor registers nor numbers a job
\* keeps the invariant.
LEMMA PlainTask ==
  ASSUME IInv, NEW k \in DOMAIN conns, NEW msg, NEW pc, OneConn(k, msg, pc),
         msg = conns[k].down \/ msg.kind \in PlainKinds,
         pc # "count",
         server' \in [ job : [token : Nat, version : Versions, used : BOOLEAN],
                       sessions : Nat, accepted : Nat ],
         server'.job = server.job, server'.accepted = server.accepted,
         UNCHANGED <<mode, client, calls, restarts, declared, consumed, outcomes>>
  PROVE  IInv'
<1> USE DEF IInv
<1>1. TypesOK' /\ EndsOK'
  BY OneKeepsEnds DEF TypesOK
<1>2. Grows
  BY Histories, SMTT(60) DEF Grows
<1>3. TokensOK'
  BY <1>2, OneKeepsTokens DEF PlainKinds
<1>4. LedgerOK'
  BY DEF LedgerOK
<1>5. RepliesOK'
  BY <1>2, OneKeepsReplies DEF PlainKinds
<1>6. Numbered' \subseteq Numbered
  BY OneKeepsNumbers DEF PlainKinds
<1>7. NumbersOK'
  BY <1>2, <1>6, FewerNumbers
<1> QED BY <1>1, <1>3, <1>4, <1>5, <1>7

\* The kinds of task step that answer with a plain message: the first messages
\* of a connection, a refusal, a stall, and the end of a task that waits.
LEMMA PlainReply ==
  ASSUME IInv, NEW k \in DOMAIN conns, NEW kind \in PlainKinds, NEW pc \in TaskPcs,
         pc # "count", SetConn(k, Replied(k, Msg(kind), pc)),
         UNCHANGED <<mode, server, client, calls, restarts, declared, consumed, outcomes>>
  PROVE  IInv'
<1>1. Msg(kind) \in MessageType
  BY PlainMessages
<1>2. OneConn(k, Msg(kind), pc)
  BY <1>1, RepliedOne DEF IInv
<1>3. Msg(kind).kind \in PlainKinds
  BY DEF Msg
<1>4. server' \in [ job : [token : Nat, version : Versions, used : BOOLEAN],
                    sessions : Nat, accepted : Nat ]
  BY DEF IInv, TypesOK
<1>5. server'.job = server.job /\ server'.accepted = server.accepted
  OBVIOUS
<1> QED BY <1>2, <1>3, <1>4, <1>5, PlainTask

\* The replies of handlers that change nothing else keep the invariant.
LEMMA ReplySteps ==
  ASSUME IInv, NEW k \in DOMAIN conns,
         \/ ServeAllocate(k) \/ AskMissing(k) \/ NotTaken(k) \/ StallEnds(k) \/ ServeOpen(k)
  PROVE  IInv'
<1>1. Nothing = Msg("nothing")
  BY DEF Nothing, Msg
<1>2. PICK kind \in PlainKinds, pc \in TaskPcs \ {"count"} : SetConn(k, Replied(k, Msg(kind), pc))
  <2>1. CASE ServeAllocate(k)
    BY <2>1 DEF ServeAllocate, PlainKinds, TaskPcs
  <2>2. CASE AskMissing(k)
    BY <2>2 DEF AskMissing, PlainKinds, TaskPcs
  <2>3. CASE NotTaken(k)
    BY <1>1, <2>3 DEF NotTaken, PlainKinds, TaskPcs
  <2>4. CASE StallEnds(k)
    BY <1>1, <2>4 DEF StallEnds, PlainKinds, TaskPcs
  <2>5. CASE ServeOpen(k)
    BY <2>5 DEF ServeOpen, PlainKinds, TaskPcs
  <2> QED BY <2>1, <2>2, <2>3, <2>4, <2>5
<1>3. UNCHANGED <<mode, server, client, calls, restarts, declared, consumed, outcomes>>
  BY DEF ServeAllocate, AskMissing, NotTaken, StallEnds, ServeOpen
<1> QED BY <1>2, <1>3, PlainReply

\* A task whose receive fails ends and answers nothing.
LEMMA TaskEndsStep ==
  ASSUME IInv, NEW k \in DOMAIN conns, TaskEnds(k)
  PROVE  IInv'
<1>1. /\ conns[k] \in ConnType
      /\ conns[k].open \in BOOLEAN
      /\ Nothing \in MessageType
  BY PlainMessages DEF IInv, TypesOK, ConnType
<1>2. OneConn(k, conns[k].down, "ended")
  <2>1. CASE conns[k].open
    <3>1. [conns[k] EXCEPT !.up = Nothing, !.pc = "ended"] \in ConnType
      BY <1>1 DEF ConnType, TaskPcs
    <3>2. conns' = [conns EXCEPT ![k] = [conns[k] EXCEPT !.up = Nothing, !.pc = "ended"]]
      BY <2>1, <3>1, NotDead DEF TaskEnds, SetConn
    <3> QED BY <1>1, <2>1, <3>1, <3>2 DEF OneConn, ConnType
  <2>2. CASE ~conns[k].open
    BY <2>2 DEF TaskEnds, SetConn, Without, OneConn
  <2> QED BY <2>1, <2>2
<1>3. /\ server' \in [ job : [token : Nat, version : Versions, used : BOOLEAN],
                       sessions : Nat, accepted : Nat ]
      /\ UNCHANGED <<mode, server, client, calls, restarts, declared, consumed, outcomes>>
  BY DEF TaskEnds, IInv, TypesOK
<1> QED BY <1>2, <1>3, PlainTask

\* ServerMode::action gives one of the modes.
LEMMA ActionIsMode ==
  ASSUME mode \in ServerMode, NEW session
  PROVE  Action(session) \in ServerMode
<1> DEFINE steps == <<"accept", "reject", "drop", "stall", "malformed", "downgrade">>
<1>1. \A i \in DOMAIN steps : steps[i] \in ServerMode
  BY SMTT(60) DEF ServerMode
<1> HIDE DEF steps
<1>2. Action(session) = IF mode # "scenario" THEN mode
                        ELSE IF session \in DOMAIN steps THEN steps[session] ELSE "reject"
  BY DEF Action, steps
<1> QED BY <1>1, <1>2 DEF ServerMode

\* A task that negotiates fixes what it will do with the connection.
LEMMA ServeSetupStep ==
  ASSUME IInv, NEW k \in DOMAIN conns, ServeSetup(k)
  PROVE  IInv'
<1>1. /\ conns[k] \in ConnType
      /\ conns[k].open \in BOOLEAN
      /\ Nothing \in MessageType
      /\ ~conns[k].open => conns[k].down = Nothing
  BY PlainMessages DEF IInv, TypesOK, EndsOK, ConnType
<1>2. PICK kind \in PlainKinds, pc \in TaskPcs \ {"count"}, action \in ServerMode :
        SetConn(k, IF Replied(k, Msg(kind), pc) = Dead THEN Dead
                   ELSE [Replied(k, Msg(kind), pc) EXCEPT !.action = action])
  <2> DEFINE action == IF conns[k].proto = "jd" THEN Action(server.sessions + 1) ELSE mode
             reply  == IF action = "downgrade" THEN Replied(k, Msg("downgraded"), "ended")
                       ELSE Replied(k, Msg("setup_ok"),
                                    IF conns[k].proto = "jd" THEN "allocate" ELSE "open")
  <2>1. action \in ServerMode
    BY ActionIsMode DEF IInv, TypesOK
  <2>2. SetConn(k, IF reply = Dead THEN Dead ELSE [reply EXCEPT !.action = action])
    BY DEF ServeSetup
  <2>3. PICK kind \in PlainKinds, pc \in TaskPcs \ {"count"} : reply = Replied(k, Msg(kind), pc)
    BY SMTT(60) DEF PlainKinds, TaskPcs
  <2> HIDE DEF action, reply
  <2> QED BY <2>1, <2>2, <2>3
<1>3. PICK msg \in MessageType : msg = Msg(kind) /\ msg.kind \in PlainKinds
  BY PlainMessages DEF Msg
<1>4. OneConn(k, msg, pc)
  <2>1. SetConn(k, IF Replied(k, msg, pc) = Dead THEN Dead
                   ELSE [Replied(k, msg, pc) EXCEPT !.action = action])
    BY <1>2, <1>3
  <2>2. CASE Replied(k, msg, pc) = Dead
    <3>1. ~conns[k].open
      <4>1. [conns[k] EXCEPT !.up = Nothing, !.down = msg, !.pc = pc] \in ConnType
        BY <1>1 DEF ConnType
      <4> QED BY <2>2, <4>1, NotDead DEF Replied
    <3> QED BY <2>1, <2>2, <3>1 DEF SetConn, Without, OneConn
  <2>3. CASE conns[k].open = TRUE
    <3>1. Replied(k, msg, pc) = [conns[k] EXCEPT !.up = Nothing, !.down = msg, !.pc = pc]
      BY <2>3 DEF Replied
    <3>2. /\ Replied(k, msg, pc) \in ConnType
          /\ [Replied(k, msg, pc) EXCEPT !.action = action] \in ConnType
      BY <1>1, <3>1 DEF ConnType
    <3>3. conns' = [conns EXCEPT ![k] = [Replied(k, msg, pc) EXCEPT !.action = action]]
      BY <2>1, <3>2, NotDead DEF SetConn
    <3>4. /\ conns'[k] = [Replied(k, msg, pc) EXCEPT !.action = action]
          /\ DOMAIN conns' = DOMAIN conns
          /\ \A j \in DOMAIN conns' : j # k => conns'[j] = conns[j]
      BY <3>3
    <3>5. /\ conns'[k] \in ConnType
          /\ conns'[k].owner = conns[k].owner
          /\ conns'[k].proto = conns[k].proto
          /\ conns'[k].open = conns[k].open
          /\ conns'[k].up = Nothing
          /\ conns'[k].pc = pc
          /\ conns'[k].down = msg
      BY <1>1, <3>1, <3>2, <3>4 DEF ConnType
    <3> QED BY <2>3, <3>4, <3>5 DEF OneConn
  <2>4. CASE conns[k].open = FALSE /\ Replied(k, msg, pc) # Dead
    <3>1. Replied(k, msg, pc) = [conns[k] EXCEPT !.up = Nothing, !.pc = pc]
      BY <2>4 DEF Replied
    <3>2. [Replied(k, msg, pc) EXCEPT !.action = action] \in ConnType
      BY <1>1, <3>1 DEF ConnType
    <3>3. conns' = [conns EXCEPT ![k] = [Replied(k, msg, pc) EXCEPT !.action = action]]
      BY <2>1, <2>4, <3>2, NotDead DEF SetConn
    <3> QED BY <1>1, <2>4, <3>1, <3>2, <3>3 DEF OneConn, ConnType
  <2> QED BY <1>1, <2>2, <2>3, <2>4
<1>5. /\ server' \in [ job : [token : Nat, version : Versions, used : BOOLEAN],
                       sessions : Nat, accepted : Nat ]
      /\ server'.job = server.job
      /\ server'.accepted = server.accepted
  <2>1. server \in [ job : [token : Nat, version : Versions, used : BOOLEAN],
                     sessions : Nat, accepted : Nat ]
    BY DEF IInv, TypesOK
  <2>2. server' = server \/ server' = [server EXCEPT !.sessions = server.sessions + 1]
    BY DEF ServeSetup
  <2> QED BY <2>1, <2>2, SMTT(60)
<1>6. UNCHANGED <<mode, client, calls, restarts, declared, consumed, outcomes>>
  BY DEF ServeSetup
<1> QED BY <1>3, <1>4, <1>5, <1>6, PlainTask

\* What is appended comes last, and the rest stays.
LEMMA AppendElements ==
  ASSUME NEW S, NEW s \in Seq(S), NEW e \in S
  PROVE  /\ Append(s, e) \in Seq(S)
         /\ Len(Append(s, e)) = Len(s) + 1
         /\ DOMAIN Append(s, e) = 1 .. Len(s) + 1
         /\ Append(s, e)[Len(s) + 1] = e
         /\ \A i \in DOMAIN s : i \in DOMAIN Append(s, e) /\ Append(s, e)[i] = s[i]
         /\ \A i \in DOMAIN Append(s, e) : i \in DOMAIN s \/ i = Len(s) + 1
         /\ Len(s) + 1 \notin DOMAIN s
         /\ Len(s) + 1 \in DOMAIN Append(s, e)
<1>1. Len(s) \in Nat /\ DOMAIN s = 1 .. Len(s)
  BY SMTT(60)
<1>2. /\ Append(s, e) \in Seq(S)
      /\ Len(Append(s, e)) = Len(s) + 1
  BY SMTT(60)
<1>3. DOMAIN Append(s, e) = 1 .. Len(s) + 1
  BY <1>2, SMTT(60)
<1>4. /\ Append(s, e)[Len(s) + 1] = e
      /\ \A i \in 1 .. Len(s) : Append(s, e)[i] = s[i]
  BY <1>1, SMTT(60)
<1> QED BY <1>1, <1>2, <1>3, <1>4, SMTT(60)

\* The declared job replaces the one that was held, and its token is new.
LEMMA TakeStep ==
  ASSUME IInv, NEW k \in DOMAIN conns, Take(k)
  PROVE  IInv'
<1> USE DEF IInv
<1> DEFINE token == Len(declared) + 1
           msg == [kind |-> "declared", token |-> token]
           entry == [miner |-> conns[k].owner, call |-> k[2], era |-> restarts]
<1>1. /\ declared' = Append(declared, entry)
      /\ server' = [server EXCEPT !.job = [ token |-> token,
                                            version |-> VersionOf[conns[k].owner],
                                            used |-> FALSE ]]
      /\ SetConn(k, Replied(k, msg, "ended"))
      /\ UNCHANGED <<mode, client, calls, restarts, consumed, outcomes>>
  BY DEF Take
<1>2. /\ conns[k].owner \in Miners
      /\ k[2] \in Nat
      /\ k[2] <= calls[conns[k].owner]
      /\ entry \in [miner : Miners, call : Nat, era : Nat]
      /\ restarts \in Nat
  BY DEF TypesOK, ConnType, EndsOK
<1>3. /\ token \in Nat
      /\ msg \in MessageType
      /\ msg.kind = "declared" /\ msg.token = token
  BY Histories, SMTT(60) DEF MessageType
<1>4. /\ declared' \in Seq([miner : Miners, call : Nat, era : Nat])
      /\ Len(declared') = token
      /\ DOMAIN declared' = 1 .. token
      /\ declared'[token] = entry
      /\ \A t \in DOMAIN declared : t \in DOMAIN declared' /\ declared'[t] = declared[t]
      /\ \A t \in DOMAIN declared' : t \in DOMAIN declared \/ t = token
      /\ token \notin DOMAIN declared
  <2>1. declared \in Seq([miner : Miners, call : Nat, era : Nat])
    BY DEF TypesOK
  <2> QED BY <1>1, <1>2, <2>1, AppendElements, SMTT(60)
<1>5. Grows
  BY <1>1, <1>3, <1>4, Histories, SMTT(60) DEF Grows
<1> HIDE DEF token, msg, entry
<1>6. OneConn(k, msg, "ended")
  BY <1>1, <1>3, RepliedOne DEF TaskPcs
<1>7. EndsOK'
  BY <1>1, <1>6, OneKeepsEnds
<1>8. TypesOK'
  <2>1. server' \in [ job : [token : Nat, version : Versions, used : BOOLEAN],
                      sessions : Nat, accepted : Nat ]
    BY <1>1, <1>2, <1>3 DEF TypesOK, Versions
  <2>2. \A j \in DOMAIN conns' : /\ conns'[j] \in ConnType
                                 /\ j[2] \in Nat
                                 /\ j = <<conns'[j].owner, j[2], conns'[j].proto>>
    BY <1>1, <1>6, OneKeepsEnds
  <2> QED BY <1>1, <1>4, <2>1, <2>2 DEF TypesOK
<1>9. TokensOK'
  <2>1. /\ msg.token \in DOMAIN declared'
        /\ declared'[msg.token].miner = conns[k].owner
        /\ declared'[msg.token].call = k[2]
    BY <1>3, <1>4, Histories, SMTT(60) DEF entry, token
  <2> QED BY <1>1, <1>5, <1>6, <2>1, OneKeepsTokens
<1>10. LedgerOK'
  <2>1. \A i \in DOMAIN consumed : /\ consumed[i].token \in DOMAIN declared
                                   /\ consumed[i].token # token
    BY <1>4, SMTT(60) DEF LedgerOK
  <2>2. \A t \in DOMAIN declared' : /\ declared'[t].call <= calls[declared'[t].miner]
                                    /\ declared'[t].era <= restarts
    <3>1. \A t \in DOMAIN declared : /\ declared[t].call <= calls[declared[t].miner]
                                     /\ declared[t].era <= restarts
      BY DEF LedgerOK
    <3>2. /\ entry.call <= calls[entry.miner]
          /\ entry.era <= restarts
      BY <1>2, SMTT(60) DEF entry
    <3> QED BY <1>4, <3>1, <3>2
  <2>3. /\ server'.job.token = token
        /\ server'.job.version = VersionOf[conns[k].owner]
        /\ server'.job.used = FALSE
    BY <1>1 DEF TypesOK
  <2>4. /\ token \in DOMAIN declared'
        /\ declared'[token].era = restarts
        /\ declared'[token].miner = conns[k].owner
    BY <1>4, Histories, SMTT(60) DEF entry, token
  <2>5. \A i \in DOMAIN consumed :
          /\ consumed[i].token \in DOMAIN declared'
          /\ declared'[consumed[i].token].miner = consumed[i].miner
    <3>1. \A i \in DOMAIN consumed :
            declared[consumed[i].token].miner = consumed[i].miner
      BY DEF LedgerOK
    <3> QED BY <1>4, <2>1, <3>1
  <2>6. /\ \A i, j \in DOMAIN consumed : consumed[i].token = consumed[j].token => i = j
        /\ \A o \in outcomes : \E i \in DOMAIN consumed :
             consumed[i] = [token |-> o.token, miner |-> o.miner]
    BY DEF LedgerOK
  <2>7. UNCHANGED <<calls, restarts, consumed, outcomes>> /\ Len(declared') = token
    BY <1>1, <1>4
  <2> QED BY <2>1, <2>2, <2>3, <2>4, <2>5, <2>6, <2>7, SMTT(60) DEF LedgerOK
<1>11. RepliesOK'
  BY <1>1, <1>3, <1>5, <1>6, OneKeepsReplies
<1>12. Numbered' \subseteq Numbered
  BY <1>1, <1>3, <1>6, OneKeepsNumbers
<1>13. NumbersOK'
  <2>1. server'.accepted = server.accepted
    BY <1>1 DEF TypesOK
  <2> QED BY <1>1, <1>5, <1>12, <2>1, FewerNumbers
<1> QED BY <1>7, <1>8, <1>9, <1>10, <1>11, <1>13

\* A refused custom job was replaced or forgotten, so the refusal is explained.
LEMMA RefusedStep ==
  ASSUME IInv, NEW k \in DOMAIN conns, Reads(k, "custom", "custom"), Settle(k, FALSE),
         ~(/\ ~server.job.used
           /\ server.job.version = conns[k].up.version
           /\ server.job.token = conns[k].up.token)
  PROVE  IInv'
<1> USE DEF IInv
<1>1. PICK t : t = conns[k].up.token
  OBVIOUS
<1>2. /\ t \in DOMAIN declared
      /\ declared[t].miner = conns[k].owner
      /\ declared[t].call = k[2]
      /\ conns[k].up.version = VersionOf[conns[k].owner]
      /\ ~Spent(conns[k].owner, k[2])
  BY <1>1 DEF TokensOK, OwnToken, Reads
<1>3. /\ t \in Nat /\ t <= Len(declared) /\ Len(declared) \in Nat
      /\ declared[t].era \in Nat /\ declared[t].era <= restarts /\ restarts \in Nat
  <2>1. restarts \in Nat
    BY DEF TypesOK
  <2>2. declared[t].era <= restarts
    BY <1>2 DEF LedgerOK
  <2> QED BY <1>2, <2>1, <2>2, Histories, SMTT(60)
<1>4. t < Len(declared) \/ declared[t].era < restarts
  <2> SUFFICES ASSUME t = Len(declared), declared[t].era = restarts
               PROVE  FALSE
    BY <1>3, SMTT(60)
  <2>1. /\ server.job.token = t
        /\ server.job.version = conns[k].up.version
        /\ server.job.used => \E i \in DOMAIN consumed : consumed[i].token = t
    BY <1>2 DEF LedgerOK
  <2>2. \A i \in DOMAIN consumed : consumed[i].token # t
    BY <1>2 DEF Spent, OwnToken
  <2> QED BY <1>1, <2>1, <2>2
<1>5. PICK msg \in MessageType : msg = [kind |-> "custom_error", token |-> t]
  BY <1>3 DEF MessageType
<1>6. /\ SetConn(k, Replied(k, msg, "ended"))
      /\ UNCHANGED <<mode, server, client, calls, restarts, declared, consumed, outcomes>>
  BY <1>1, <1>5 DEF Settle
<1>7. OneConn(k, msg, "ended")
  BY <1>6, RepliedOne DEF TaskPcs
<1>8. Grows
  BY <1>6, Histories, SMTT(60) DEF Grows
<1>9. TypesOK' /\ EndsOK'
  BY <1>6, <1>7, OneKeepsEnds DEF TypesOK
<1>10. TokensOK'
  BY <1>5, <1>6, <1>7, <1>8, OneKeepsTokens
<1>11. LedgerOK'
  BY <1>6 DEF LedgerOK
<1>12. RepliesOK'
  BY <1>2, <1>4, <1>5, <1>6, <1>7, <1>8, OneKeepsReplies
<1>13. Numbered' \subseteq Numbered
  BY <1>5, <1>6, <1>7, OneKeepsNumbers
<1>14. NumbersOK'
  BY <1>6, <1>8, <1>13, FewerNumbers
<1> QED BY <1>9, <1>10, <1>11, <1>12, <1>14

\* A custom job that is accepted is the one that its miner's call declared,
\* and the registration spends it.
LEMMA AcceptedStep ==
  ASSUME IInv, NEW k \in DOMAIN conns, Reads(k, "custom", "custom"), Settle(k, TRUE),
         ~server.job.used, server.job.token = conns[k].up.token
  PROVE  IInv'
<1> USE DEF IInv
<1>1. PICK t : t = conns[k].up.token
  OBVIOUS
<1>2. PICK o \in Miners : o = conns[k].owner
  BY DEF TypesOK, ConnType
<1>3. /\ OwnToken(t, o, k[2])
      /\ conns[k].proto = "mining"
      /\ conns[k].open => t = client[o].token /\ client[o].pc = "custom"
      /\ k = <<o, k[2], "mining">>
  BY <1>1, <1>2 DEF TokensOK, Reads, TypesOK
<1>4. /\ conns[k] \in ConnType
      /\ conns[k].open \in BOOLEAN
      /\ Nothing \in MessageType
      /\ ~conns[k].open => conns[k].down = Nothing
  BY PlainMessages DEF TypesOK, EndsOK, ConnType
<1>5. PICK entry \in [token : Nat, miner : Miners] : entry = [token |-> t, miner |-> o]
  BY <1>3, Histories DEF OwnToken
<1>6. /\ SetConn(k, [conns[k] EXCEPT !.up = Nothing, !.pc = "count"])
      /\ server' = [server EXCEPT !.job.used = TRUE]
      /\ consumed' = Append(consumed, entry)
      /\ UNCHANGED <<mode, client, calls, restarts, declared, outcomes>>
  BY <1>1, <1>2, <1>5 DEF Settle
<1>7. /\ consumed' \in Seq([token : Nat, miner : Miners])
      /\ Len(consumed) + 1 \in DOMAIN consumed'
      /\ consumed'[Len(consumed) + 1] = entry
      /\ \A i \in DOMAIN consumed : i \in DOMAIN consumed' /\ consumed'[i] = consumed[i]
      /\ \A i \in DOMAIN consumed' : i \in DOMAIN consumed \/ i = Len(consumed) + 1
  <2>1. consumed \in Seq([token : Nat, miner : Miners])
    BY DEF TypesOK
  <2> QED BY <1>6, <2>1, AppendElements, SMTT(60)
<1>8. Grows
  BY <1>6, <1>7, Histories, SMTT(60) DEF Grows
<1>9. OneConn(k, conns[k].down, "count")
  <2>1. [conns[k] EXCEPT !.up = Nothing, !.pc = "count"] \in ConnType
    BY <1>4 DEF ConnType, TaskPcs
  <2>2. conns' = [conns EXCEPT ![k] = [conns[k] EXCEPT !.up = Nothing, !.pc = "count"]]
    BY <1>6, <2>1, NotDead DEF SetConn
  <2> QED BY <1>4, <2>1, <2>2 DEF OneConn, ConnType
<1>10. EndsOK'
  BY <1>6, <1>9, OneKeepsEnds
<1>11. TypesOK'
  <2>1. server' \in [ job : [token : Nat, version : Versions, used : BOOLEAN],
                      sessions : Nat, accepted : Nat ]
    BY <1>6 DEF TypesOK
  <2>2. \A j \in DOMAIN conns' : /\ conns'[j] \in ConnType
                                 /\ j[2] \in Nat
                                 /\ j = <<conns'[j].owner, j[2], conns'[j].proto>>
    BY <1>6, <1>9, OneKeepsEnds
  <2> QED BY <1>6, <1>7, <2>1, <2>2 DEF TypesOK
<1>12. \A m, call : Spent(m, call)' => Spent(m, call) \/ (m = o /\ call = k[2])
  <2> SUFFICES ASSUME NEW m, NEW call, Spent(m, call)'
               PROVE  Spent(m, call) \/ (m = o /\ call = k[2])
    OBVIOUS
  <2>1. PICK i \in DOMAIN consumed' : /\ consumed'[i].token \in DOMAIN declared
                                      /\ declared[consumed'[i].token].miner = m
                                      /\ declared[consumed'[i].token].call = call
    BY <1>6 DEF Spent, OwnToken
  <2>2. CASE i \in DOMAIN consumed
    BY <1>7, <2>1, <2>2 DEF Spent, OwnToken
  <2>3. CASE i = Len(consumed) + 1
    BY <1>3, <1>5, <1>7, <2>1, <2>3, SMTT(60) DEF OwnToken
  <2> QED BY <1>7, <2>1, <2>2, <2>3
<1>13. TokensOK'
  <2>1. ASSUME NEW j \in DOMAIN conns', conns'[j].up.kind = "custom"
        PROVE  /\ j \in DOMAIN conns /\ j # k /\ conns'[j] = conns[j]
               /\ ~Spent(conns[j].owner, j[2])'
               /\ OwnToken(conns[j].up.token, conns[j].owner, j[2])
               /\ conns[j].up.version = VersionOf[conns[j].owner]
               /\ conns[j].proto = "mining"
               /\ conns[j].open => /\ conns[j].up.token = client[conns[j].owner].token
                                   /\ client[conns[j].owner].pc = "custom"
    <3>1. j \in DOMAIN conns /\ j # k /\ conns'[j] = conns[j]
      BY <1>9, <2>1, SMTT(60) DEF OneConn, Nothing
    <3>2. /\ OwnToken(conns[j].up.token, conns[j].owner, j[2])
          /\ conns[j].up.version = VersionOf[conns[j].owner]
          /\ conns[j].proto = "mining"
          /\ conns[j].open => /\ conns[j].up.token = client[conns[j].owner].token
                              /\ client[conns[j].owner].pc = "custom"
          /\ ~Spent(conns[j].owner, j[2])
      BY <2>1, <3>1 DEF TokensOK
    <3>3. j = <<conns[j].owner, j[2], "mining">>
      BY <3>1, <3>2 DEF TypesOK
    <3>4. ~(conns[j].owner = o /\ j[2] = k[2])
      BY <1>3, <3>1, <3>3
    <3>5. PICK m, call : m = conns[j].owner /\ call = j[2]
      OBVIOUS
    <3>6. ~Spent(m, call)'
      BY <1>12, <3>2, <3>4, <3>5
    <3>7. ~Spent(conns[j].owner, j[2])'
      BY <3>1, <3>5, <3>6 DEF Spent, OwnToken
    <3> QED BY <3>1, <3>2, <3>7
  <2>2. ASSUME NEW j \in DOMAIN conns', conns'[j].down.kind = "declared"
        PROVE  OwnToken(conns'[j].down.token, conns'[j].owner, j[2])
    <3>1. j \in DOMAIN conns /\ conns'[j].owner = conns[j].owner /\ conns'[j].down = conns[j].down
      BY <1>4, <1>9, <2>2 DEF OneConn
    <3> QED BY <2>2, <3>1 DEF TokensOK
  <2>3. ASSUME NEW m \in Miners, client[m] # Idle,
               client[m].proto = "jd" \/ client[m].pc # "custom"
        PROVE  ~Spent(m, calls[m])'
    <3>1. ~Spent(m, calls[m])
      BY <2>3 DEF TokensOK
    <3>2. ~(m = o /\ calls[m] = k[2])
      <4> SUFFICES ASSUME m = o, calls[m] = k[2]
                   PROVE  FALSE
        OBVIOUS
      <4>1. client[o].proto = "mining"
        BY <1>2, <1>3, <2>3 DEF EndsOK
      <4>2. k = Conn(o)
        BY <1>3, <4>1 DEF Conn
      <4>3. conns[k].open
        BY <2>3, <4>2 DEF EndsOK
      <4> QED BY <1>3, <2>3, <4>1, <4>3
    <3>3. PICK call : call = calls[m]
      OBVIOUS
    <3>4. ~Spent(m, call)'
      BY <1>12, <3>1, <3>2, <3>3
    <3> QED BY <1>6, <3>3, <3>4 DEF Spent, OwnToken
  <2>4. \A m \in Miners : (client[m] # Idle /\ client[m].proto = "mining")
                            => OwnToken(client[m].token, m, calls[m])
    BY DEF TokensOK
  <2>5. UNCHANGED <<client, calls, declared>>
    BY <1>6
  <2>6. \A j \in DOMAIN conns' : conns'[j].up.kind = "custom" =>
          /\ OwnToken(conns'[j].up.token, conns'[j].owner, j[2])
          /\ conns'[j].up.version = VersionOf[conns'[j].owner]
          /\ conns'[j].proto = "mining"
          /\ conns'[j].open => /\ conns'[j].up.token = client[conns'[j].owner].token
                               /\ client[conns'[j].owner].pc = "custom"
    BY <2>1, SMTT(60)
  <2> QED BY <2>1, <2>2, <2>3, <2>4, <2>5, <2>6 DEF TokensOK, OwnToken
<1>14. LedgerOK'
  <2>1. /\ t \in DOMAIN declared
        /\ declared[t].miner = o
        /\ \A i \in DOMAIN consumed : consumed[i].token # t
    BY <1>1, <1>3 DEF OwnToken, LedgerOK
  <2>2. \A i \in DOMAIN consumed' : \/ i \in DOMAIN consumed /\ consumed'[i] = consumed[i]
                                    \/ i = Len(consumed) + 1 /\ consumed'[i] = entry
    BY <1>7
  <2>3. entry.token = t /\ entry.miner = o
    BY <1>5
  <2>4. \A i \in DOMAIN consumed' : /\ consumed'[i].token \in DOMAIN declared
                                    /\ declared[consumed'[i].token].miner = consumed'[i].miner
    <3>1. \A i \in DOMAIN consumed : /\ consumed[i].token \in DOMAIN declared
                                     /\ declared[consumed[i].token].miner = consumed[i].miner
      BY DEF LedgerOK
    <3> QED BY <2>1, <2>2, <2>3, <3>1
  <2>5. \A i, j \in DOMAIN consumed' : consumed'[i].token = consumed'[j].token => i = j
    <3>1. \A i, j \in DOMAIN consumed : consumed[i].token = consumed[j].token => i = j
      BY DEF LedgerOK
    <3> QED BY <2>1, <2>2, <2>3, <3>1
  <2>6. \A x \in outcomes : \E i \in DOMAIN consumed' :
          consumed'[i] = [token |-> x.token, miner |-> x.miner]
    <3>1. \A x \in outcomes : \E i \in DOMAIN consumed :
            consumed[i] = [token |-> x.token, miner |-> x.miner]
      BY DEF LedgerOK
    <3>2. \A i \in DOMAIN consumed : i \in DOMAIN consumed' /\ consumed'[i] = consumed[i]
      BY <1>7
    <3> QED BY <3>1, <3>2
  <2>7. server'.job.used /\ server'.job.token = server.job.token
                         /\ server'.job.version = server.job.version
    <3>1. server \in [ job : [token : Nat, version : Versions, used : BOOLEAN],
                       sessions : Nat, accepted : Nat ]
      BY DEF TypesOK
    <3> QED BY <1>6, <3>1
  <2>8. \A x \in DOMAIN declared : /\ declared[x].call <= calls[declared[x].miner]
                                   /\ declared[x].era <= restarts
    BY DEF LedgerOK
  <2>9. (Len(declared) \in DOMAIN declared /\ declared[Len(declared)].era = restarts) =>
          /\ server.job.token = Len(declared)
          /\ server.job.version = VersionOf[declared[Len(declared)].miner]
    BY DEF LedgerOK
  <2>10. (Len(declared) \in DOMAIN declared /\ declared[Len(declared)].era = restarts) =>
           \E i \in DOMAIN consumed' : consumed'[i].token = Len(declared)
    BY <1>1, <1>7, <2>3, <2>9
  <2>11. UNCHANGED <<calls, restarts, declared, outcomes>>
    BY <1>6
  <2> QED BY <2>4, <2>5, <2>6, <2>7, <2>8, <2>9, <2>10, <2>11 DEF LedgerOK
<1>15. RepliesOK'
  <2>1. conns[k].open => \E i \in DOMAIN consumed' :
          consumed'[i] = [token |-> client[conns[k].owner].token, miner |-> conns[k].owner]
    BY <1>2, <1>3, <1>5, <1>7
  <2>2. conns[k].open => declared'[client[conns[k].owner].token].era = restarts
    BY <1>1, <1>2, <1>3, <1>6 DEF LedgerOK
  <2> QED BY <1>6, <1>8, <1>9, <2>1, <2>2, OneKeepsReplies
<1>16. Numbered' \subseteq Numbered
  BY <1>6, <1>9, OneKeepsNumbers
<1>17. NumbersOK'
  <2>1. server'.accepted = server.accepted
    BY <1>6 DEF TypesOK
  <2> QED BY <1>6, <1>8, <1>16, <2>1, FewerNumbers
<1> QED BY <1>10, <1>11, <1>13, <1>14, <1>15, <1>17

\* The lock is taken again: the job gets the next number.
LEMMA CountStep ==
  ASSUME IInv, NEW k \in DOMAIN conns, Count(k)
  PROVE  IInv'
<1> USE DEF IInv
<1>1. server \in [ job : [token : Nat, version : Versions, used : BOOLEAN],
                   sessions : Nat, accepted : Nat ]
  BY DEF TypesOK
<1>2. PICK job \in Nat : job = IF mode = "equivocate" THEN 8 + (server.accepted + 1) ELSE 9
  BY <1>1, SMTT(60)
<1>3. PICK msg \in MessageType : msg = [kind |-> "custom_ok", job |-> job]
  BY DEF MessageType
<1>4. /\ conns[k].pc = "count"
      /\ server' = [server EXCEPT !.accepted = server.accepted + 1]
      /\ SetConn(k, Replied(k, msg, "ended"))
      /\ UNCHANGED <<mode, client, calls, restarts, declared, consumed, outcomes>>
  BY <1>2, <1>3 DEF Count
<1>5. OneConn(k, msg, "ended")
  BY <1>4, RepliedOne DEF TaskPcs
<1>6. Grows
  BY <1>4, Histories, SMTT(60) DEF Grows
<1>7. server' \in [ job : [token : Nat, version : Versions, used : BOOLEAN],
                    sessions : Nat, accepted : Nat ]
      /\ server'.job = server.job /\ server'.accepted = server.accepted + 1
  BY <1>1, <1>4, SMTT(60)
<1>8. TypesOK' /\ EndsOK'
  BY <1>4, <1>5, <1>7, OneKeepsEnds DEF TypesOK
<1>9. TokensOK'
  BY <1>3, <1>4, <1>5, <1>6, OneKeepsTokens
<1>10. LedgerOK'
  BY <1>4, <1>7, SMTT(60) DEF LedgerOK
<1>11. PICK o \in Miners : o = conns[k].owner
  BY DEF TypesOK, ConnType
<1>12. conns[k].open => /\ client[o] # Idle /\ k = Conn(o)
                        /\ Registered(o)
                        /\ declared[client[o].token].era = restarts
  BY <1>4, <1>11 DEF EndsOK, RepliesOK
<1>13. RepliesOK'
  <2>1. conns[k].open => \E i \in DOMAIN consumed' :
          consumed'[i] = [token |-> client[conns[k].owner].token, miner |-> conns[k].owner]
    BY <1>4, <1>11, <1>12 DEF Registered
  <2>2. msg.kind = "custom_ok"
    BY <1>3
  <2> QED BY <1>4, <1>5, <1>6, <2>1, <2>2, OneKeepsReplies
<1>14. PICK new : new = [miner |-> o, token |-> client[o].token, job |-> job]
  OBVIOUS
<1>15. \A x \in Numbered' : x \in Numbered \/ (conns[k].open /\ x = new)
  <2>1. ASSUME NEW m \in Miners, client[m] # Idle, Reply(m)'.kind = "custom_ok"
        PROVE  Reply(m)' = Reply(m) \/ (conns[k].open /\ m = o /\ Reply(m)' = msg)
    <3>1. /\ Conn(m) \in DOMAIN conns
          /\ conns[Conn(m)].open
          /\ Conn(m)' = Conn(m)
      BY <1>4, <2>1 DEF EndsOK, Conn
    <3>2. Conn(m) \in DOMAIN conns'
      BY <1>5, <3>1 DEF OneConn
    <3>3. CASE Conn(m) = k
      <4>1. m = o
        BY <1>11, <3>1, <3>3 DEF Conn, TypesOK
      <4> QED BY <1>5, <3>1, <3>2, <3>3, <4>1 DEF OneConn, Reply
    <3>4. CASE Conn(m) # k
      BY <1>5, <3>1, <3>2, <3>4 DEF OneConn, Reply
    <3> QED BY <3>3, <3>4
  <2>2. ASSUME NEW x \in Numbered', x \notin outcomes
        PROVE  x \in Numbered \/ (conns[k].open /\ x = new)
    <3>1. PICK m \in Miners : /\ client[m] # Idle /\ Reply(m)'.kind = "custom_ok"
                              /\ x = [miner |-> m, token |-> client[m].token, job |-> Reply(m)'.job]
      BY <1>4, <2>2 DEF Numbered
    <3>2. CASE Reply(m)' = Reply(m)
      BY <3>1, <3>2 DEF Numbered
    <3>3. CASE conns[k].open /\ m = o /\ Reply(m)' = msg
      BY <1>3, <1>14, <3>1, <3>3, SMTT(60)
    <3> QED BY <2>1, <3>1, <3>2, <3>3
  <2> QED BY <2>2 DEF Numbered
<1>16. \A x \in Numbered : x.job \in Nat /\ declared[x.token].era \in Nat
  BY NumberedRegistered
<1>17. conns[k].open => declared[new.token].era = restarts /\ new.job = job
  BY <1>12, <1>14
<1>18. mode # "equivocate" => \A x \in Numbered' : x.job = 9
  BY <1>2, <1>15, <1>17 DEF NumbersOK
<1>19. ASSUME mode = "equivocate"
       PROVE  /\ \A x \in Numbered : declared[x.token].era = restarts =>
                   x.job <= 8 + server.accepted
              /\ \A x, y \in Numbered :
                   (declared[x.token].era = declared[y.token].era /\ x.job = y.job) => x = y
              /\ job = 9 + server.accepted
              /\ server.accepted \in Nat
  BY <1>1, <1>2, <1>19, SMTT(60) DEF NumbersOK
<1>20. mode = "equivocate" =>
         \A x \in Numbered' : declared[x.token].era = restarts => x.job <= 8 + server'.accepted
  BY <1>7, <1>15, <1>16, <1>17, <1>19, SMTT(60)
<1>21. mode = "equivocate" =>
         \A x, y \in Numbered' :
           (declared[x.token].era = declared[y.token].era /\ x.job = y.job) => x = y
  BY <1>15, <1>16, <1>17, <1>19, SMTT(60)
<1>22. NumbersOK'
  BY <1>4, <1>18, <1>20, <1>21 DEF NumbersOK
<1> QED BY <1>8, <1>9, <1>10, <1>13, <1>22

\* Every step of a task keeps the invariant.
LEMMA TaskStep ==
  ASSUME IInv, NEW k \in DOMAIN conns, Task(k)
  PROVE  IInv'
<1>1. CASE Consume(k)
  <2> DEFINE ok == /\ ~server.job.used
                   /\ server.job.version = conns[k].up.version
                   /\ server.job.token = conns[k].up.token
  <2>1. CASE ok
    <3>1. Settle(k, TRUE)
      BY <1>1, <2>1 DEF Consume, Settle
    <3> QED BY <1>1, <2>1, <3>1, AcceptedStep DEF Consume
  <2>2. CASE ~ok
    <3>1. Settle(k, FALSE)
      BY <1>1, <2>2 DEF Consume, Settle
    <3> QED BY <1>1, <2>2, <3>1, RefusedStep DEF Consume
  <2> QED BY <2>1, <2>2
<1> QED BY <1>1, ServeSetupStep, ReplySteps, TakeStep, CountStep, TaskEndsStep DEF Task

\* The coordinator forgets its job and its count, and every task is gone; the
\* clients and what they were told stay.
LEMMA RestartStep ==
  ASSUME IInv, Restart
  PROVE  IInv'
<1> USE DEF IInv
<1>1. PICK pc \in {"ended", "gone"} :
        conns' = [k \in {j \in DOMAIN conns : conns[j].open} |->
          IF conns[k].pc = "ended" THEN conns[k] ELSE [conns[k] EXCEPT !.up = Nothing, !.pc = pc]]
  BY DEF Restart
<1>2. /\ restarts' = restarts + 1
      /\ server' = NewState
      /\ UNCHANGED <<mode, client, calls, declared, consumed, outcomes>>
      /\ restarts \in Nat
  BY DEF Restart, TypesOK
<1>3. ASSUME NEW j \in DOMAIN conns'
      PROVE  /\ j \in DOMAIN conns
             /\ conns[j].open
             /\ conns'[j] \in ConnType
             /\ conns'[j].owner = conns[j].owner
             /\ conns'[j].proto = conns[j].proto
             /\ conns'[j].open = conns[j].open
             /\ conns'[j].down = conns[j].down
             /\ conns'[j].up.kind = "custom" => conns'[j].up = conns[j].up
             /\ conns'[j].pc # "count"
  <2>1. j \in DOMAIN conns /\ conns[j].open /\ conns[j] \in ConnType
    BY <1>1 DEF TypesOK
  <2>2. CASE conns[j].pc = "ended"
    BY <1>1, <2>1, <2>2
  <2>3. CASE conns[j].pc # "ended"
    <3>1. conns'[j] = [conns[j] EXCEPT !.up = Nothing, !.pc = pc]
      BY <1>1, <2>1, <2>3
    <3>2. conns'[j] \in ConnType
      BY <2>1, <3>1, PlainMessages DEF ConnType, TaskPcs
    <3>3. /\ conns'[j].owner = conns[j].owner
          /\ conns'[j].proto = conns[j].proto
          /\ conns'[j].open = conns[j].open
          /\ conns'[j].down = conns[j].down
          /\ conns'[j].up = Nothing
          /\ conns'[j].pc = pc
      BY <2>1, <3>1 DEF ConnType
    <3>4. conns'[j].up.kind # "custom" /\ conns'[j].pc # "count"
      BY <3>3, SMTT(60) DEF Nothing
    <3> QED BY <2>1, <3>2, <3>3, <3>4
  <2> QED BY <2>2, <2>3
<1>4. \A j \in DOMAIN conns : conns[j].open => j \in DOMAIN conns'
  BY <1>1
<1>5. \A m \in Miners : Conn(m)' = Conn(m)
  BY <1>2 DEF Conn
<1>6. \A m \in Miners : client[m] # Idle =>
        Conn(m) \in DOMAIN conns' /\ conns'[Conn(m)].open /\ Reply(m)' = Reply(m)
  <2> SUFFICES ASSUME NEW m \in Miners, client[m] # Idle
               PROVE  Conn(m) \in DOMAIN conns' /\ conns'[Conn(m)].open /\ Reply(m)' = Reply(m)
    OBVIOUS
  <2>1. Conn(m) \in DOMAIN conns /\ conns[Conn(m)].open
    BY DEF EndsOK
  <2>2. Conn(m) \in DOMAIN conns'
    BY <1>4, <2>1
  <2> QED BY <1>3, <1>5, <2>1, <2>2 DEF Reply
<1>7. Grows
  BY <1>2, Histories, SMTT(60) DEF Grows
<1>8. TypesOK'
  <2>1. server' \in [ job : [token : Nat, version : Versions, used : BOOLEAN],
                      sessions : Nat, accepted : Nat ]
    BY <1>2 DEF NewState, NoJob, Versions
  <2>2. \A j \in DOMAIN conns' : /\ conns'[j] \in ConnType
                                 /\ j[2] \in Nat
                                 /\ j = <<conns'[j].owner, j[2], conns'[j].proto>>
    BY <1>3 DEF TypesOK
  <2> QED BY <1>2, <2>1, <2>2, SMTT(60) DEF TypesOK
<1>9. EndsOK'
  <2>1. ASSUME NEW j \in DOMAIN conns'
        PROVE  /\ client[conns'[j].owner] # Idle /\ j = Conn(conns[j].owner)
               /\ conns'[j].owner = conns[j].owner
               /\ conns'[j].open
               /\ j[2] <= calls[conns'[j].owner]
               /\ (conns'[j].proto = "mining" /\ j[2] = calls[conns'[j].owner])
                    => (\/ client[conns'[j].owner] = Idle
                        \/ client[conns'[j].owner].proto = "mining")
    BY <1>3, SMTT(60) DEF EndsOK
  <2>2. \A m \in Miners : client[m] # Idle =>
          /\ client[m].pc \in {"open", "custom"} => client[m].proto = "mining"
          /\ client[m].pc \in {"allocate", "declare"} => client[m].proto = "jd"
    BY DEF EndsOK
  <2> QED BY <1>2, <1>6, <2>1, <2>2 DEF EndsOK, Conn
<1>10. TokensOK'
  <2>1. ASSUME NEW j \in DOMAIN conns'
        PROVE  /\ conns'[j].up.kind = "custom" =>
                    /\ OwnToken(conns'[j].up.token, conns'[j].owner, j[2])
                    /\ conns'[j].up.version = VersionOf[conns'[j].owner]
                    /\ conns'[j].proto = "mining"
                    /\ conns'[j].open => /\ conns'[j].up.token = client[conns'[j].owner].token
                                          /\ client[conns'[j].owner].pc = "custom"
                    /\ ~Spent(conns'[j].owner, j[2])
               /\ conns'[j].down.kind = "declared" =>
                    OwnToken(conns'[j].down.token, conns'[j].owner, j[2])
    BY <1>3 DEF TokensOK
  <2>2. \A m \in Miners : client[m] # Idle =>
          /\ client[m].proto = "mining" => OwnToken(client[m].token, m, calls[m])
          /\ (client[m].proto = "jd" \/ client[m].pc # "custom") => ~Spent(m, calls[m])
    BY DEF TokensOK
  <2> QED BY <1>2, <2>1, <2>2 DEF TokensOK, OwnToken, Spent
<1>11. \A t \in DOMAIN declared : declared[t].era \in Nat /\ declared[t].era < restarts'
  <2>1. \A t \in DOMAIN declared : declared[t].era <= restarts
    BY DEF LedgerOK
  <2> QED BY <1>2, <2>1, Histories, SMTT(60)
<1>12. LedgerOK'
  <2>1. server'.job.used
    BY <1>2 DEF NewState, NoJob
  <2>2. \A t \in DOMAIN declared : declared[t].era <= restarts' /\ declared[t].era # restarts'
    BY <1>2, <1>11, SMTT(60)
  <2> QED BY <1>2, <2>1, <2>2 DEF LedgerOK
<1>13. RepliesOK'
  <2>1. ASSUME NEW j \in DOMAIN conns', conns'[j].down.kind = "custom_error"
        PROVE  /\ conns'[j].down.token \in DOMAIN declared
               /\ declared[conns'[j].down.token].era < restarts'
    BY <1>3, <1>11, <2>1 DEF RepliesOK
  <2>2. ASSUME NEW j \in DOMAIN conns', conns'[j].down.kind = "custom_ok"
        PROVE  \E i \in DOMAIN consumed :
                 consumed[i] = [token |-> client[conns'[j].owner].token, miner |-> conns'[j].owner]
    BY <1>3, <2>2 DEF RepliesOK, Registered
  <2>3. \A j \in DOMAIN conns' : conns'[j].pc # "count"
    BY <1>3
  <2> QED BY <1>2, <2>1, <2>2, <2>3 DEF RepliesOK, Registered
<1>14. Numbered' \subseteq Numbered
  BY <1>2, <1>6 DEF Numbered
<1>15. NumbersOK'
  BY <1>2, <1>7, <1>14, FewerNumbers
<1> QED BY <1>8, <1>9, <1>10, <1>12, <1>13, <1>15
-----------------------------------------------------------------------------
(* Steps of a client *)

\* What the invariant says of one miner: its connections and its client.
ConnOK(m, k) ==
  /\ conns[k].open => client[m] # Idle /\ k = Conn(m)
  /\ ~conns[k].open => conns[k].down = Nothing
  /\ k[2] <= calls[m]
  /\ (conns[k].proto = "mining" /\ k[2] = calls[m])
       => (client[m] = Idle \/ client[m].proto = "mining")
  /\ conns[k].up.kind = "custom" =>
       /\ OwnToken(conns[k].up.token, m, k[2])
       /\ conns[k].up.version = VersionOf[m]
       /\ conns[k].proto = "mining"
       /\ conns[k].open => conns[k].up.token = client[m].token /\ client[m].pc = "custom"
       /\ ~Spent(m, k[2])
  /\ conns[k].down.kind = "declared" => OwnToken(conns[k].down.token, m, k[2])
  /\ (conns[k].open /\ (conns[k].pc = "count" \/ conns[k].down.kind = "custom_ok"))
       => Registered(m)
  /\ (conns[k].open /\ conns[k].pc = "count") => declared[client[m].token].era = restarts
  /\ conns[k].down.kind = "custom_error" =>
       /\ conns[k].down.token \in DOMAIN declared
       /\ \/ conns[k].down.token < Len(declared)
          \/ declared[conns[k].down.token].era < restarts

ClientOK(m) ==
  /\ Conn(m) \in DOMAIN conns
  /\ conns[Conn(m)].open
  /\ client[m].pc \in {"open", "custom"} => client[m].proto = "mining"
  /\ client[m].pc \in {"allocate", "declare"} => client[m].proto = "jd"
  /\ client[m].proto = "mining" => OwnToken(client[m].token, m, calls[m])
  /\ (client[m].proto = "jd" \/ client[m].pc # "custom") => ~Spent(m, calls[m])

MinerOK(m) ==
  /\ \A k \in DOMAIN conns : conns[k].owner = m => ConnOK(m, k)
  /\ client[m] # Idle => ClientOK(m)

AllMinersOK == \A m \in Miners : MinerOK(m)

\* A connection that its client has just opened is in order.
LEMMA FreshConn ==
  ASSUME NEW m, NEW k, client'[m] # Idle /\ k = Conn(m)',
         conns'[k].open /\ conns'[k].pc = "setup",
         conns'[k].up.kind = "setup" /\ conns'[k].down = Nothing,
         k[2] <= calls'[m] /\ client'[m].proto = conns'[k].proto
  PROVE  ConnOK(m, k)'
<1>1. Nothing.kind \notin {"declared", "custom_ok", "custom_error"}
  BY DEF Nothing
<1>2. conns'[k].up.kind # "custom" /\ conns'[k].pc # "count"
  OBVIOUS
<1> QED BY <1>1, <1>2 DEF ConnOK

\* A connection that its client has closed, or left for a later call, stays in
\* order.
LEMMA ClosedConn ==
  ASSUME NEW m, NEW j, ConnOK(m, j),
         UNCHANGED <<restarts, declared, consumed>>,
         ~conns'[j].open /\ conns'[j].down = Nothing,
         conns'[j].up = conns[j].up /\ conns'[j].proto = conns[j].proto,
         j[2] <= calls'[m] /\ (client'[m] = Idle \/ j[2] # calls'[m])
  PROVE  ConnOK(m, j)'
<1>1. /\ conns[j].up.kind = "custom" =>
           /\ OwnToken(conns[j].up.token, m, j[2])
           /\ conns[j].up.version = VersionOf[m]
           /\ conns[j].proto = "mining"
           /\ ~Spent(m, j[2])
  BY DEF ConnOK
<1>2. /\ \A t : OwnToken(t, m, j[2])' <=> OwnToken(t, m, j[2])
      /\ Spent(m, j[2])' <=> Spent(m, j[2])
  BY DEF OwnToken, Spent
<1>3. conns'[j].down.kind \notin {"declared", "custom_ok", "custom_error"}
  BY SMTT(60) DEF Nothing
<1> QED BY <1>1, <1>2, <1>3 DEF ConnOK

\* The connections and the clients are in order when every miner's are.
LEMMA ByMiner ==
  TypesOK => (EndsOK /\ TokensOK /\ RepliesOK <=> AllMinersOK)
<1> SUFFICES ASSUME TypesOK
             PROVE  EndsOK /\ TokensOK /\ RepliesOK <=> AllMinersOK
  OBVIOUS
<1>1. \A k \in DOMAIN conns : conns[k].owner \in Miners
  BY DEF TypesOK, ConnType
<1>2. ASSUME EndsOK, TokensOK, RepliesOK, NEW m \in Miners
      PROVE  MinerOK(m)
  <2>1. ASSUME NEW k \in DOMAIN conns, conns[k].owner = m
        PROVE  /\ conns[k].open => client[m] # Idle /\ k = Conn(m)
               /\ ~conns[k].open => conns[k].down = Nothing
               /\ k[2] <= calls[m]
               /\ (conns[k].proto = "mining" /\ k[2] = calls[m])
                    => (client[m] = Idle \/ client[m].proto = "mining")
    BY <1>2, <2>1 DEF EndsOK
  <2>2. ASSUME NEW k \in DOMAIN conns, conns[k].owner = m
        PROVE  /\ conns[k].up.kind = "custom" =>
                    /\ OwnToken(conns[k].up.token, m, k[2])
                    /\ conns[k].up.version = VersionOf[m]
                    /\ conns[k].proto = "mining"
                    /\ conns[k].open => /\ conns[k].up.token = client[m].token
                                         /\ client[m].pc = "custom"
                    /\ ~Spent(m, k[2])
               /\ conns[k].down.kind = "declared" => OwnToken(conns[k].down.token, m, k[2])
    BY <1>2, <2>2 DEF TokensOK
  <2>3. ASSUME NEW k \in DOMAIN conns, conns[k].owner = m
        PROVE  /\ (conns[k].open /\ (conns[k].pc = "count" \/ conns[k].down.kind = "custom_ok"))
                    => Registered(m)
               /\ (conns[k].open /\ conns[k].pc = "count")
                    => declared[client[m].token].era = restarts
               /\ conns[k].down.kind = "custom_error" =>
                    /\ conns[k].down.token \in DOMAIN declared
                    /\ \/ conns[k].down.token < Len(declared)
                       \/ declared[conns[k].down.token].era < restarts
    BY <1>2, <2>3 DEF RepliesOK
  <2>4. ASSUME client[m] # Idle
        PROVE  /\ Conn(m) \in DOMAIN conns
               /\ conns[Conn(m)].open
               /\ client[m].pc \in {"open", "custom"} => client[m].proto = "mining"
               /\ client[m].pc \in {"allocate", "declare"} => client[m].proto = "jd"
               /\ client[m].proto = "mining" => OwnToken(client[m].token, m, calls[m])
               /\ (client[m].proto = "jd" \/ client[m].pc # "custom") => ~Spent(m, calls[m])
    BY <1>2, <2>4 DEF EndsOK, TokensOK
  <2> QED BY <2>1, <2>2, <2>3, <2>4 DEF MinerOK, ConnOK, ClientOK
<1>3. ASSUME AllMinersOK
      PROVE  EndsOK /\ TokensOK /\ RepliesOK
  <2>1. EndsOK
    <3>1. /\ \A k \in DOMAIN conns : ConnOK(conns[k].owner, k)
          /\ \A m \in Miners : client[m] # Idle => ClientOK(m)
      BY <1>1, <1>3 DEF AllMinersOK, MinerOK
    <3>2. ASSUME NEW k \in DOMAIN conns
          PROVE  /\ conns[k].open => client[conns[k].owner] # Idle /\ k = Conn(conns[k].owner)
                 /\ ~conns[k].open => conns[k].down = Nothing
                 /\ k[2] <= calls[conns[k].owner]
                 /\ (conns[k].proto = "mining" /\ k[2] = calls[conns[k].owner])
                      => (client[conns[k].owner] = Idle \/ client[conns[k].owner].proto = "mining")
      BY <3>1 DEF ConnOK
    <3>3. ASSUME NEW m \in Miners, client[m] # Idle
          PROVE  /\ Conn(m) \in DOMAIN conns
                 /\ conns[Conn(m)].open
                 /\ client[m].pc \in {"open", "custom"} => client[m].proto = "mining"
                 /\ client[m].pc \in {"allocate", "declare"} => client[m].proto = "jd"
      BY <3>1, <3>3 DEF ClientOK
    <3> QED BY <3>2, <3>3 DEF EndsOK
  <2>2. TokensOK
    BY <1>1, <1>3 DEF TokensOK, AllMinersOK, MinerOK, ConnOK, ClientOK
  <2>3. RepliesOK
    BY <1>1, <1>3, SMTT(60) DEF RepliesOK, AllMinersOK, MinerOK, ConnOK, ClientOK
  <2> QED BY <2>1, <2>2, <2>3
<1> QED BY <1>2, <1>3 DEF AllMinersOK

\* What a step of the client of m may touch: its own connections, its place
\* and the number of its calls.
OnlyOf(m) ==
  /\ UNCHANGED <<mode, server, restarts, declared, consumed>>
  /\ client' \in [Miners -> {Idle} \cup ClientType]
  /\ calls' \in [Miners -> Nat]
  /\ calls[m] <= calls'[m]
  /\ \A n \in Miners : n # m => client'[n] = client[n] /\ calls'[n] = calls[n]
  /\ \A j \in DOMAIN conns' : conns'[j].owner = m =>
       /\ conns'[j] \in ConnType
       /\ j[2] \in Nat
       /\ j = <<m, j[2], conns'[j].proto>>
  /\ \A j \in DOMAIN conns' : conns'[j].owner # m => j \in DOMAIN conns /\ conns'[j] = conns[j]
  /\ \A j \in DOMAIN conns : conns[j].owner # m => j \in DOMAIN conns' /\ conns'[j] = conns[j]

\* A client's step keeps the invariant when it keeps what the invariant says
\* of its miner and numbers no job.
LEMMA ClientStep ==
  ASSUME IInv, NEW m \in Miners, OnlyOf(m), MinerOK(m)', outcomes' \subseteq Numbered,
         client'[m] # Idle => Reply(m)' = Nothing
  PROVE  IInv'
<1> USE DEF IInv
<1>1. UNCHANGED <<mode, server, restarts, declared, consumed>>
  BY DEF OnlyOf
<1>2. \A n \in Miners : n # m => client'[n] = client[n] /\ calls'[n] = calls[n]
  BY DEF OnlyOf
<1>3. \A j \in DOMAIN conns' : conns'[j].owner # m => j \in DOMAIN conns /\ conns'[j] = conns[j]
  BY DEF OnlyOf
<1>4. \A j \in DOMAIN conns : conns[j].owner # m => j \in DOMAIN conns' /\ conns'[j] = conns[j]
  BY DEF OnlyOf
<1>5. TypesOK'
  <2>1. outcomes' \subseteq [miner : Miners, token : Nat, job : Nat]
    BY NumberedRegistered
  <2>2. \A j \in DOMAIN conns' : /\ conns'[j] \in ConnType
                                 /\ j[2] \in Nat
                                 /\ j = <<conns'[j].owner, j[2], conns'[j].proto>>
    BY <1>3 DEF OnlyOf, TypesOK
  <2>3. client' \in [Miners -> {Idle} \cup ClientType] /\ calls' \in [Miners -> Nat]
    BY DEF OnlyOf
  <2> QED BY <1>1, <2>1, <2>2, <2>3 DEF TypesOK
<1>6. ASSUME NEW n \in Miners, n # m
      PROVE  MinerOK(n)'
  <2>1. MinerOK(n)
    BY ByMiner DEF AllMinersOK
  <2>2. \A j \in DOMAIN conns' : conns'[j].owner = n =>
          j \in DOMAIN conns /\ conns[j].owner = n /\ conns'[j] = conns[j]
    BY <1>3, <1>6
  <2>3. client'[n] = client[n] /\ calls'[n] = calls[n] /\ Conn(n)' = Conn(n)
    BY <1>2, <1>6 DEF Conn
  <2>4. client[n] # Idle => Conn(n) \in DOMAIN conns' /\ conns'[Conn(n)] = conns[Conn(n)]
    <3>1. client[n] # Idle => Conn(n) \in DOMAIN conns
      BY DEF EndsOK
    <3>2. client[n] # Idle => conns[Conn(n)].owner = n
      BY <3>1 DEF TypesOK, Conn
    <3> QED BY <1>4, <1>6, <3>1, <3>2
  <2>5. Registered(n) => Registered(n)'
    BY <1>1, <2>3 DEF Registered
  <2>6. ASSUME NEW k \in DOMAIN conns', conns'[k].owner = n
        PROVE  ConnOK(n, k)'
    <3>1. ConnOK(n, k) /\ conns'[k] = conns[k]
      BY <2>1, <2>2, <2>6 DEF MinerOK
    <3> QED BY <1>1, <2>3, <2>5, <3>1 DEF ConnOK, OwnToken, Spent
  <2>7. client'[n] # Idle => ClientOK(n)'
    BY <1>1, <2>1, <2>3, <2>4 DEF MinerOK, ClientOK, OwnToken, Spent
  <2> QED BY <2>6, <2>7 DEF MinerOK
<1>7. EndsOK' /\ TokensOK' /\ RepliesOK'
  <2>1. TypesOK' => (EndsOK' /\ TokensOK' /\ RepliesOK' <=> AllMinersOK')
    BY ByMiner, PTL
  <2>2. AllMinersOK'
    BY <1>6 DEF AllMinersOK
  <2> QED BY <1>5, <2>1, <2>2
<1>8. LedgerOK'
  <2>1. \A n \in Miners : calls[n] \in Nat /\ calls'[n] \in Nat
    BY DEF TypesOK, OnlyOf
  <2>2. \A n \in Miners : calls[n] <= calls'[n]
    <3>1. calls[m] <= calls'[m]
      BY DEF OnlyOf
    <3>2. \A n \in Miners : calls[n] <= calls[n]
      BY <2>1, SMTT(60)
    <3> QED BY <1>2, <3>1, <3>2
  <2>3. \A t \in DOMAIN declared :
          /\ declared[t].miner \in Miners /\ declared[t].call \in Nat
          /\ declared[t].call <= calls[declared[t].miner]
    BY Histories DEF LedgerOK
  <2>4. \A t \in DOMAIN declared : declared[t].call <= calls'[declared[t].miner]
    BY <2>1, <2>2, <2>3, SMTT(60)
  <2>5. \A o \in outcomes' : \E i \in DOMAIN consumed :
          consumed[i] = [token |-> o.token, miner |-> o.miner]
    BY NumberedRegistered
  <2> QED BY <1>1, <2>4, <2>5 DEF LedgerOK
<1>9. Grows
  BY <1>1, Histories, SMTT(60) DEF Grows
<1>10. Numbered' \subseteq Numbered
  <2>1. ASSUME NEW n \in Miners, client'[n] # Idle, Reply(n)'.kind = "custom_ok"
        PROVE  client'[n] = client[n] /\ Reply(n)' = Reply(n)
    <3>1. n # m
      <4>1. Nothing.kind # "custom_ok"
        BY DEF Nothing
      <4> QED BY <2>1, <4>1
    <3>2. /\ client'[n] = client[n]
          /\ Conn(n)' = Conn(n)
          /\ Conn(n) \in DOMAIN conns
      BY <1>2, <2>1, <3>1 DEF Conn, EndsOK
    <3>3. conns[Conn(n)].owner = n
      BY <3>2 DEF TypesOK, Conn
    <3>4. conns'[Conn(n)] = conns[Conn(n)]
      BY <1>4, <3>1, <3>2, <3>3
    <3> QED BY <3>2, <3>4 DEF Reply
  <2> QED BY <2>1 DEF Numbered
<1>11. NumbersOK'
  BY <1>1, <1>9, <1>10, FewerNumbers
<1> QED BY <1>5, <1>7, <1>8, <1>11

\* A client that sends its next message keeps the invariant; the custom job it
\* sends names its own token, which is not spent.
LEMMA SendStep ==
  ASSUME IInv, NEW m \in Miners, client[m] # Idle, client[m].pc # "custom",
         NEW msg \in MessageType, NEW pc \in {"allocate", "declare", "open", "custom"},
         Send(m, msg, pc),
         pc \in {"open", "custom"} => client[m].proto = "mining",
         pc \in {"allocate", "declare"} => client[m].proto = "jd",
         msg.kind = "custom" => /\ pc = "custom"
                                /\ msg.token = client[m].token
                                /\ msg.version = VersionOf[m]
  PROVE  IInv'
<1> USE DEF IInv
<1>1. PICK k \in DOMAIN conns : k = Conn(m) /\ conns[k].open
  BY DEF EndsOK
<1>2. /\ conns[k] \in ConnType
      /\ conns[k].owner = m
      /\ conns[k].proto = client[m].proto
      /\ k[2] = calls[m]
      /\ k[2] \in Nat
      /\ k = <<m, k[2], conns[k].proto>>
  BY <1>1 DEF TypesOK, Conn
<1>3. /\ conns' = [conns EXCEPT ![k] = [conns[k] EXCEPT !.up = msg, !.down = Nothing]]
      /\ client' = [client EXCEPT ![m].pc = pc]
      /\ UNCHANGED <<mode, server, calls, restarts, declared, consumed, outcomes>>
  <2>1. [conns[k] EXCEPT !.up = msg, !.down = Nothing] \in ConnType
    BY <1>2, PlainMessages DEF ConnType
  <2> QED BY <1>1, <2>1, NotDead DEF Send, SetConn
<1>4. /\ DOMAIN conns' = DOMAIN conns
      /\ \A j \in DOMAIN conns : j # k => conns'[j] = conns[j]
      /\ conns'[k] \in ConnType
      /\ conns'[k].owner = m
      /\ conns'[k].proto = conns[k].proto
      /\ conns'[k].open
      /\ conns'[k].up = msg
      /\ conns'[k].down = Nothing
      /\ conns'[k].pc = conns[k].pc
  <2>1. conns'[k] = [conns[k] EXCEPT !.up = msg, !.down = Nothing]
    BY <1>3
  <2>2. conns'[k] \in ConnType
    BY <1>2, <2>1, PlainMessages DEF ConnType
  <2> QED BY <1>1, <1>2, <1>3, <2>1, <2>2 DEF ConnType
<1>5. /\ client' \in [Miners -> {Idle} \cup ClientType]
      /\ \A n \in Miners : n # m => client'[n] = client[n]
      /\ client'[m] # Idle
      /\ client'[m].pc = pc
      /\ client'[m].proto = client[m].proto
      /\ client'[m].token = client[m].token
  <2>1. client \in [Miners -> {Idle} \cup ClientType] /\ client[m] \in ClientType
    BY DEF TypesOK
  <2>2. [client[m] EXCEPT !.pc = pc] \in ClientType
    BY <2>1 DEF ClientType
  <2>3. \A c \in ClientType : c # Idle
    BY SMTT(60) DEF ClientType, Idle
  <2>4. client'[m] = [client[m] EXCEPT !.pc = pc]
    BY <1>3, <2>1
  <2> QED BY <1>3, <2>1, <2>2, <2>3, <2>4 DEF ClientType
<1>6. MinerOK(m) /\ ConnOK(m, k) /\ ClientOK(m)
  BY <1>1, <1>2, ByMiner DEF AllMinersOK, MinerOK
<1>7. ASSUME NEW j \in DOMAIN conns', conns'[j].owner = m
      PROVE  ConnOK(m, j)'
  <2>1. CASE j = k
    <3>1. ~Spent(m, k[2]) /\ (msg.kind = "custom" => OwnToken(client[m].token, m, k[2]))
      BY <1>2, <1>6 DEF ClientOK
    <3>2. conns[k].pc = "count" => Registered(m) /\ declared[client[m].token].era = restarts
      BY <1>1, <1>6 DEF ConnOK
    <3>3. Conn(m)' = Conn(m)
      BY <1>3, <1>5 DEF Conn
    <3>4. conns'[k].down.kind \notin {"declared", "custom_ok", "custom_error"}
      BY <1>4, SMTT(60) DEF Nothing
    <3>5. Spent(m, k[2])' <=> Spent(m, k[2])
      BY <1>3 DEF Spent, OwnToken
    <3>6. Registered(m)' <=> Registered(m)
      BY <1>3, <1>5 DEF Registered
    <3>7. /\ client'[m] # Idle /\ k = Conn(m)'
          /\ k[2] <= calls'[m]
          /\ conns'[k].proto = "mining" => client'[m].proto = "mining"
      BY <1>1, <1>2, <1>3, <1>4, <1>5, <3>3, SMTT(60)
    <3>8. ASSUME conns'[k].up.kind = "custom"
          PROVE  /\ (OwnToken(conns[k].up.token, m, k[2]))'
                 /\ conns'[k].up.version = VersionOf[m]
                 /\ conns'[k].proto = "mining"
                 /\ conns'[k].up.token = client'[m].token /\ client'[m].pc = "custom"
                 /\ ~Spent(m, k[2])'
      <4>1. /\ conns'[k].up.token = client[m].token
            /\ conns'[k].up.version = VersionOf[m]
            /\ pc = "custom"
            /\ OwnToken(client[m].token, m, k[2])
        BY <1>4, <3>1, <3>8
      <4>2. (OwnToken(conns[k].up.token, m, k[2]))'
        BY <1>3, <4>1 DEF OwnToken
      <4> QED BY <1>2, <1>4, <1>5, <3>1, <3>5, <4>1, <4>2
    <3>9. conns'[k].pc = "count" => Registered(m)' /\ declared'[client'[m].token].era = restarts'
      BY <1>3, <1>4, <1>5, <3>2, <3>6
    <3> QED BY <1>4, <2>1, <3>4, <3>7, <3>8, <3>9 DEF ConnOK
  <2>2. CASE j # k
    <3>1. j \in DOMAIN conns /\ conns'[j] = conns[j] /\ conns[j].owner = m
      BY <1>4, <1>7, <2>2
    <3>2. ConnOK(m, j) /\ ~conns[j].open
      BY <1>1, <1>6, <2>2, <3>1 DEF MinerOK, ConnOK
    <3> QED BY <1>3, <1>5, <3>1, <3>2 DEF ConnOK, OwnToken, Spent
  <2> QED BY <2>1, <2>2
<1>8. ClientOK(m)'
  <2>1. Conn(m)' = k
    BY <1>1, <1>3, <1>5 DEF Conn
  <2> QED BY <1>3, <1>4, <1>5, <1>6, <2>1, SMTT(60) DEF ClientOK, OwnToken, Spent
<1>9. MinerOK(m)'
  BY <1>7, <1>8 DEF MinerOK
<1>10. OnlyOf(m)
  <2>1. calls \in [Miners -> Nat] /\ calls[m] \in Nat /\ calls[m] <= calls[m]
    BY SMTT(60) DEF TypesOK
  <2>2. \A j \in DOMAIN conns' : conns'[j].owner = m =>
          /\ conns'[j] \in ConnType
          /\ j[2] \in Nat
          /\ j = <<m, j[2], conns'[j].proto>>
    <3>1. \A j \in DOMAIN conns : /\ conns[j] \in ConnType
                                  /\ j[2] \in Nat
                                  /\ j = <<conns[j].owner, j[2], conns[j].proto>>
      BY DEF TypesOK
    <3> QED BY <1>2, <1>4, <3>1, SMTT(60)
  <2>3. \A j \in DOMAIN conns : conns'[j].owner # m \/ conns[j].owner # m => conns'[j] = conns[j]
    BY <1>2, <1>4
  <2> QED BY <1>3, <1>4, <1>5, <2>1, <2>2, <2>3 DEF OnlyOf
<1>11. Reply(m)' = Nothing
  BY <1>1, <1>3, <1>4, <1>5 DEF Reply, Conn
<1>12. outcomes' \subseteq Numbered
  BY <1>3 DEF Numbered
<1> QED BY <1>9, <1>10, <1>11, <1>12, ClientStep

\* The messages of a client on a connection that is set up keep the invariant.
LEMMA SendSteps ==
  ASSUME IInv, NEW m \in Miners,
         Negotiated(m) \/ TokenAllocated(m) \/ ProvideMissing(m) \/ ChannelOpened(m)
  PROVE  IInv'
<1>1. /\ client[m].pc \in {"setup", "allocate", "declare", "open"}
      /\ client[m] # Idle
  <2>1. client[m].pc \in {"setup", "allocate", "declare", "open"}
    BY DEF Negotiated, TokenAllocated, ProvideMissing, ChannelOpened, Step
  <2>2. Idle.pc \notin {"setup", "allocate", "declare", "open"}
    BY DEF Idle
  <2> QED BY <2>1, <2>2
<1>2. /\ client[m] \in ClientType
      /\ client[m].pc \in {"open", "custom"} => client[m].proto = "mining"
      /\ client[m].pc \in {"allocate", "declare"} => client[m].proto = "jd"
  BY <1>1 DEF IInv, TypesOK, EndsOK
<1>3. ASSUME NEW kind \in PlainKinds, NEW pc \in {"allocate", "declare", "open"},
             Send(m, Msg(kind), pc),
             pc = "open" => client[m].proto = "mining",
             pc \in {"allocate", "declare"} => client[m].proto = "jd"
      PROVE  IInv'
  <2>1. Msg(kind) \in MessageType
    BY PlainMessages
  <2>2. Msg(kind).kind # "custom"
    BY DEF Msg, PlainKinds
  <2>3. client[m].pc # "custom"
    BY <1>1
  <2> QED BY <1>1, <1>3, <2>1, <2>2, <2>3, SendStep
<1>4. CASE Negotiated(m)
  <2>1. CASE client[m].proto = "jd"
    BY <1>3, <1>4, <2>1 DEF Negotiated, PlainKinds
  <2>2. CASE client[m].proto = "mining"
    BY <1>3, <1>4, <2>2 DEF Negotiated, PlainKinds
  <2> QED BY <1>2, <2>1, <2>2 DEF ClientType
<1>5. CASE TokenAllocated(m)
  BY <1>2, <1>3, <1>5 DEF TokenAllocated, Step, PlainKinds
<1>6. CASE ProvideMissing(m)
  BY <1>2, <1>3, <1>6 DEF ProvideMissing, Step, PlainKinds
<1>7. CASE ChannelOpened(m)
  <2>1. PICK msg \in MessageType :
          msg = [kind |-> "custom", version |-> VersionOf[m], token |-> client[m].token]
    BY <1>2 DEF MessageType, Versions, ClientType
  <2>2. /\ msg.kind = "custom" /\ msg.token = client[m].token /\ msg.version = VersionOf[m]
        /\ Send(m, msg, "custom")
        /\ client[m].pc = "open"
    BY <1>7, <2>1 DEF ChannelOpened, Step
  <2> QED BY <1>1, <1>2, <2>2, SendStep
<1> QED BY <1>4, <1>5, <1>6, <1>7

\* A connection that is opened is one, and nothing was read from it.
LEMMA OpenedConn ==
  ASSUME TypesOK, NEW m \in Miners, NEW proto \in {"jd", "mining"}
  PROVE  /\ Opened(m, proto) \in ConnType
         /\ Opened(m, proto).owner = m
         /\ Opened(m, proto).proto = proto
         /\ Opened(m, proto).open
         /\ Opened(m, proto).pc = "setup"
         /\ Opened(m, proto).up.kind = "setup"
         /\ Opened(m, proto).down = Nothing
<1>1. Nothing \in MessageType /\ Msg("setup") \in MessageType
  BY PlainMessages DEF PlainKinds
<1>2. mode \in ServerMode
  BY DEF TypesOK
<1>3. Opened(m, proto) \in ConnType
  BY <1>1, <1>2 DEF Opened, ConnType, TaskPcs
<1>4. Msg("setup").kind = "setup"
  BY DEF Msg
<1> QED BY <1>3, <1>4 DEF Opened

\* A call starts with a connection and a number of its own.
LEMMA DeclareStep ==
  ASSUME IInv, NEW m \in Miners, Declare(m)
  PROVE  IInv'
<1> USE DEF IInv
<1>1. PICK call \in Nat : call = calls[m] + 1 /\ calls[m] \in Nat
  BY SMTT(60) DEF TypesOK
<1>2. PICK k : k = <<m, call, "jd">>
  OBVIOUS
<1>3. PICK new \in ConnType : /\ new = Opened(m, "jd")
                              /\ new.owner = m /\ new.proto = "jd" /\ new.open
                              /\ new.pc = "setup" /\ new.up.kind = "setup" /\ new.down = Nothing
  BY OpenedConn, SMTT(60)
<1>4. PICK c \in ClientType : c = [pc |-> "setup", proto |-> "jd", token |-> 0]
  BY DEF ClientType
<1>5. /\ client[m] = Idle
      /\ calls' = [calls EXCEPT ![m] = call]
      /\ conns' = With(conns, k, new)
      /\ client' = [client EXCEPT ![m] = c]
      /\ UNCHANGED <<mode, server, restarts, declared, consumed, outcomes>>
  BY <1>1, <1>2, <1>3, <1>4 DEF Declare
<1>6. /\ client' \in [Miners -> {Idle} \cup ClientType]
      /\ calls' \in [Miners -> Nat]
      /\ client'[m] = c
      /\ calls'[m] = call
      /\ \A n \in Miners : n # m => client'[n] = client[n] /\ calls'[n] = calls[n]
  BY <1>5 DEF TypesOK
<1>7. c # Idle /\ c.pc = "setup" /\ c.proto = "jd"
  BY <1>4 DEF Idle
<1>8. \A j \in DOMAIN conns : /\ conns[j] \in ConnType
                              /\ j[2] \in Nat
                              /\ j = <<conns[j].owner, j[2], conns[j].proto>>
  BY DEF TypesOK
<1>9. k \notin DOMAIN conns
  <2> SUFFICES ASSUME k \in DOMAIN conns
               PROVE  FALSE
    OBVIOUS
  <2>1. conns[k].owner = m /\ k[2] = call
    BY <1>2, <1>8
  <2>2. k[2] <= calls[conns[k].owner]
    BY DEF EndsOK
  <2> QED BY <1>1, <2>1, <2>2, SMTT(60)
<1>10. /\ DOMAIN conns' = DOMAIN conns \cup {k}
       /\ conns'[k] = new
       /\ \A j \in DOMAIN conns : j # k /\ conns'[j] = conns[j]
  BY <1>5, <1>9 DEF With
<1>11. Conn(m)' = k /\ k[2] = call
  BY <1>2, <1>6, <1>7 DEF Conn
<1>12. ~Spent(m, call)
  <2>1. \A t \in DOMAIN declared : ~(declared[t].miner = m /\ declared[t].call = call)
    <3>1. \A t \in DOMAIN declared : declared[t].miner = m => declared[t].call <= calls[m]
      BY DEF LedgerOK
    <3>2. ~(call <= calls[m])
      BY <1>1, SMTT(60)
    <3> QED BY <3>1, <3>2
  <2> QED BY <2>1 DEF Spent, OwnToken
<1>13. ASSUME NEW j \in DOMAIN conns', conns'[j].owner = m
       PROVE  ConnOK(m, j)'
  <2>1. CASE j = k
    <3>1. k[2] <= calls'[m]
      BY <1>1, <1>6, <1>11, SMTT(60)
    <3>2. /\ client'[m] # Idle /\ k = Conn(m)'
          /\ conns'[k].open /\ conns'[k].pc = "setup"
          /\ conns'[k].up.kind = "setup" /\ conns'[k].down = Nothing
          /\ client'[m].proto = conns'[k].proto
      BY <1>3, <1>6, <1>7, <1>10, <1>11
    <3>3. ConnOK(m, k)'
      BY <3>1, <3>2, FreshConn
    <3> QED BY <2>1, <3>3
  <2>2. CASE j # k
    <3>1. j \in DOMAIN conns /\ conns'[j] = conns[j] /\ conns[j].owner = m
      BY <1>10, <1>13, <2>2
    <3>2. ConnOK(m, j)
      BY <3>1, ByMiner DEF AllMinersOK, MinerOK
    <3>3. ~conns[j].open /\ j[2] \in Nat /\ j[2] <= calls[m]
      BY <1>5, <1>8, <3>1, <3>2 DEF ConnOK
    <3>4. j[2] <= calls'[m] /\ j[2] # calls'[m]
      BY <1>1, <1>6, <3>3, SMTT(60)
    <3>5. ~conns'[j].open /\ conns'[j].down = Nothing
      BY <3>1, <3>2, <3>3 DEF ConnOK
    <3> QED BY <1>5, <3>1, <3>2, <3>4, <3>5, ClosedConn
  <2> QED BY <2>1, <2>2
<1>14. ClientOK(m)'
  BY <1>3, <1>5, <1>6, <1>7, <1>10, <1>11, <1>12 DEF ClientOK, OwnToken, Spent
<1>15. MinerOK(m)'
  BY <1>13, <1>14 DEF MinerOK
<1>16. OnlyOf(m)
  <2>1. calls[m] <= calls'[m]
    <3>1. calls[m] <= call
      BY <1>1, SMTT(60)
    <3> QED BY <1>6, <3>1
  <2>2. \A j \in DOMAIN conns' : conns'[j].owner = m =>
          /\ conns'[j] \in ConnType
          /\ j[2] \in Nat
          /\ j = <<m, j[2], conns'[j].proto>>
    BY <1>2, <1>3, <1>8, <1>10, <1>11, SMTT(60)
  <2> QED BY <1>3, <1>5, <1>6, <1>10, <2>1, <2>2, SMTT(60) DEF OnlyOf
<1>17. Reply(m)' = Nothing
  BY <1>3, <1>10, <1>11 DEF Reply
<1>18. outcomes' \subseteq Numbered
  BY <1>5 DEF Numbered
<1> QED BY <1>15, <1>16, <1>17, <1>18, ClientStep

\* The second connection of a call takes the token of the first.
LEMMA DeclaredStep ==
  ASSUME IInv, NEW m \in Miners, Declared(m)
  PROVE  IInv'
<1> USE DEF IInv
<1>1. client[m] # Idle /\ client[m].pc = "declare" /\ Reply(m).kind = "declared"
  BY SMTT(60) DEF Declared, Step, Idle
<1>2. MinerOK(m) /\ ClientOK(m) /\ client[m].proto = "jd"
  BY <1>1, ByMiner DEF AllMinersOK, MinerOK, ClientOK
<1>3. PICK call \in Nat : call = calls[m]
  BY DEF TypesOK
<1>4. PICK old \in DOMAIN conns : old = Conn(m) /\ old = <<m, call, "jd">> /\ conns[old].open
  BY <1>2, <1>3 DEF ClientOK, Conn
<1>5. PICK k : k = <<m, call, "mining">>
  OBVIOUS
<1>6. PICK new \in ConnType : /\ new = Opened(m, "mining")
                              /\ new.owner = m /\ new.proto = "mining" /\ new.open
                              /\ new.pc = "setup" /\ new.up.kind = "setup" /\ new.down = Nothing
  BY OpenedConn, SMTT(60)
<1>7. \A j \in DOMAIN conns : /\ conns[j] \in ConnType
                              /\ j[2] \in Nat
                              /\ j = <<conns[j].owner, j[2], conns[j].proto>>
  BY DEF TypesOK
<1>8. conns[old].owner = m /\ conns[old].down = Reply(m) /\ old[2] = call
  BY <1>4, <1>7, SMTT(60) DEF Reply
<1>9. PICK t \in Nat : t = Reply(m).token /\ OwnToken(t, m, call)
  <2>1. ConnOK(m, old)
    BY <1>2, <1>4, <1>8 DEF MinerOK
  <2>2. OwnToken(Reply(m).token, m, call)
    BY <1>1, <1>8, <2>1 DEF ConnOK
  <2> QED BY <2>2, Histories DEF OwnToken
<1>10. PICK c \in ClientType : c = [pc |-> "setup", proto |-> "mining", token |-> t]
  BY DEF ClientType
<1>11. /\ conns' = With(Without(old), k, new)
       /\ client' = [client EXCEPT ![m] = c]
       /\ UNCHANGED <<mode, server, calls, restarts, declared, consumed, outcomes>>
  BY <1>3, <1>4, <1>5, <1>6, <1>9, <1>10 DEF Declared
<1>12. /\ client' \in [Miners -> {Idle} \cup ClientType]
       /\ client'[m] = c
       /\ \A n \in Miners : n # m => client'[n] = client[n]
  BY <1>11 DEF TypesOK
<1>13. c # Idle /\ c.pc = "setup" /\ c.proto = "mining" /\ c.token = t
  BY <1>10 DEF Idle
<1>14. k \notin DOMAIN conns
  <2> SUFFICES ASSUME k \in DOMAIN conns
               PROVE  FALSE
    OBVIOUS
  <2>1. conns[k].owner = m /\ k[2] = call /\ conns[k].proto = "mining"
    BY <1>5, <1>7
  <2>2. ConnOK(m, k)
    BY <1>2, <2>1 DEF MinerOK
  <2> QED BY <1>1, <1>2, <1>3, <2>1, <2>2 DEF ConnOK
<1>15. /\ DOMAIN conns' = (DOMAIN conns \ {old}) \cup {k}
       /\ conns'[k] = new
       /\ \A j \in DOMAIN conns \ {old} : j # k /\ conns'[j] = conns[j]
  BY <1>11, <1>14 DEF With, Without
<1>16. Conn(m)' = k /\ k[2] = call
  BY <1>3, <1>5, <1>11, <1>12, <1>13 DEF Conn
<1>17. ~Spent(m, call)
  BY <1>2, <1>3 DEF ClientOK
<1>18. ASSUME NEW j \in DOMAIN conns', conns'[j].owner = m
       PROVE  ConnOK(m, j)'
  <2>1. CASE j = k
    <3>1. k[2] <= calls'[m]
      BY <1>3, <1>11, <1>16, SMTT(60)
    <3>2. /\ client'[m] # Idle /\ k = Conn(m)'
          /\ conns'[k].open /\ conns'[k].pc = "setup"
          /\ conns'[k].up.kind = "setup" /\ conns'[k].down = Nothing
          /\ client'[m].proto = conns'[k].proto
      BY <1>6, <1>12, <1>13, <1>15, <1>16
    <3>3. ConnOK(m, k)'
      BY <3>1, <3>2, FreshConn
    <3> QED BY <2>1, <3>3
  <2>2. CASE j # k
    <3>1. j \in DOMAIN conns /\ j # old /\ conns'[j] = conns[j] /\ conns[j].owner = m
      BY <1>15, <1>18, <2>2
    <3>2. ConnOK(m, j)
      BY <1>2, <3>1 DEF MinerOK
    <3>3. ~conns[j].open
      BY <1>4, <3>1, <3>2 DEF ConnOK
    <3> QED BY <1>11, <1>12, <1>13, <3>1, <3>2, <3>3 DEF ConnOK, OwnToken, Spent
  <2> QED BY <2>1, <2>2
<1>19. ClientOK(m)'
  BY <1>3, <1>6, <1>9, <1>11, <1>12, <1>13, <1>15, <1>16, <1>17, SMTT(60) DEF ClientOK, OwnToken, Spent
<1>20. MinerOK(m)'
  BY <1>18, <1>19 DEF MinerOK
<1>21. OnlyOf(m)
  <2>1. calls \in [Miners -> Nat] /\ calls[m] <= calls[m]
    BY <1>3, SMTT(60) DEF TypesOK
  <2>2. \A j \in DOMAIN conns' : conns'[j].owner = m =>
          /\ conns'[j] \in ConnType
          /\ j[2] \in Nat
          /\ j = <<m, j[2], conns'[j].proto>>
    BY <1>5, <1>6, <1>7, <1>15, <1>16, SMTT(60)
  <2>3. /\ \A j \in DOMAIN conns' : conns'[j].owner # m => j \in DOMAIN conns /\ conns'[j] = conns[j]
        /\ \A j \in DOMAIN conns : conns[j].owner # m => j \in DOMAIN conns' /\ conns'[j] = conns[j]
    BY <1>6, <1>8, <1>15
  <2> QED BY <1>11, <1>12, <2>1, <2>2, <2>3 DEF OnlyOf
<1>22. Reply(m)' = Nothing
  BY <1>6, <1>15, <1>16 DEF Reply
<1>23. outcomes' \subseteq Numbered
  BY <1>11 DEF Numbered
<1> QED BY <1>20, <1>21, <1>22, <1>23, ClientStep

\* A call returns and drops its end of the connection, whatever the task does
\* with what was sent.
LEMMA ReturnStep ==
  ASSUME IInv, NEW m \in Miners, client[m] # Idle, Return(m), outcomes' \subseteq Numbered
  PROVE  IInv'
<1> USE DEF IInv
<1>1. MinerOK(m) /\ ClientOK(m)
  BY ByMiner DEF AllMinersOK, MinerOK
<1>2. PICK k \in DOMAIN conns : k = Conn(m)
  BY <1>1 DEF ClientOK
<1>3. \A j \in DOMAIN conns : /\ conns[j] \in ConnType
                              /\ j[2] \in Nat
                              /\ j = <<conns[j].owner, j[2], conns[j].proto>>
  BY DEF TypesOK
<1>4. conns[k].owner = m
  BY <1>2, <1>3 DEF Conn
<1>5. /\ SetConn(k, Closed(k))
      /\ client' = [client EXCEPT ![m] = Idle]
      /\ UNCHANGED <<mode, server, calls, restarts, declared, consumed>>
  BY <1>2 DEF Return
<1>6. /\ DOMAIN conns' \subseteq DOMAIN conns
      /\ \A j \in DOMAIN conns : j # k => j \in DOMAIN conns' /\ conns'[j] = conns[j]
      /\ k \in DOMAIN conns' => conns'[k] = [conns[k] EXCEPT !.open = FALSE, !.down = Nothing]
  BY <1>5 DEF SetConn, Closed, Without
<1>7. k \in DOMAIN conns' => /\ conns'[k] \in ConnType
                             /\ conns'[k].owner = m
                             /\ conns'[k].proto = conns[k].proto
                             /\ ~conns'[k].open
                             /\ conns'[k].up = conns[k].up
                             /\ conns'[k].down = Nothing
  <2> SUFFICES ASSUME k \in DOMAIN conns'
               PROVE  /\ conns'[k] \in ConnType
                      /\ conns'[k].owner = m
                      /\ conns'[k].proto = conns[k].proto
                      /\ ~conns'[k].open
                      /\ conns'[k].up = conns[k].up
                      /\ conns'[k].down = Nothing
    OBVIOUS
  <2>1. conns'[k] = [conns[k] EXCEPT !.open = FALSE, !.down = Nothing] /\ conns[k] \in ConnType
    BY <1>3, <1>6
  <2>2. Nothing \in MessageType
    BY PlainMessages
  <2> QED BY <1>4, <2>1, <2>2 DEF ConnType
<1>8. /\ client' \in [Miners -> {Idle} \cup ClientType]
      /\ client'[m] = Idle
      /\ \A n \in Miners : n # m => client'[n] = client[n]
  BY <1>5 DEF TypesOK
<1>9. ASSUME NEW j \in DOMAIN conns', conns'[j].owner = m
      PROVE  ConnOK(m, j)'
  <2>1. j \in DOMAIN conns /\ conns[j].owner = m
    BY <1>4, <1>6, <1>9
  <2>2. ConnOK(m, j)
    BY <1>1, <2>1 DEF MinerOK
  <2>3. /\ ~conns'[j].open
        /\ conns'[j].down = Nothing
        /\ conns'[j].up = conns[j].up
        /\ conns'[j].proto = conns[j].proto
    <3>1. CASE j = k
      BY <1>7, <1>9, <3>1
    <3>2. CASE j # k
      BY <1>2, <1>6, <2>1, <2>2, <3>2 DEF ConnOK
    <3> QED BY <3>1, <3>2
  <2>4. j[2] <= calls'[m]
    BY <1>5, <2>2 DEF ConnOK
  <2> QED BY <1>5, <1>8, <2>2, <2>3, <2>4, ClosedConn
<1>10. MinerOK(m)'
  BY <1>8, <1>9 DEF MinerOK
<1>11. OnlyOf(m)
  <2>1. calls \in [Miners -> Nat] /\ calls[m] <= calls[m]
    BY SMTT(60) DEF TypesOK
  <2>2. \A j \in DOMAIN conns' : conns'[j].owner = m =>
          /\ conns'[j] \in ConnType
          /\ j[2] \in Nat
          /\ j = <<m, j[2], conns'[j].proto>>
    BY <1>3, <1>4, <1>6, <1>7
  <2>3. /\ \A j \in DOMAIN conns' : conns'[j].owner # m => j \in DOMAIN conns /\ conns'[j] = conns[j]
        /\ \A j \in DOMAIN conns : conns[j].owner # m => j \in DOMAIN conns' /\ conns'[j] = conns[j]
    BY <1>4, <1>6, <1>7
  <2> QED BY <1>5, <1>8, <2>1, <2>2, <2>3 DEF OnlyOf
<1> QED BY <1>8, <1>10, <1>11, ClientStep

-----------------------------------------------------------------------------
(* The theorems *)

\* A coordinator that has just been started and clients that have not satisfy
\* the invariant.
LEMMA InitInvariant ==
  ASSUME Init
  PROVE  IInv
<1>1. /\ mode \in ServerMode
      /\ server = NewState
      /\ DOMAIN conns = {}
      /\ client = [m \in Miners |-> Idle]
      /\ calls = [m \in Miners |-> 0]
      /\ restarts = 0
      /\ declared = <<>> /\ consumed = <<>> /\ outcomes = {}
  BY DeclarationAssumption, SMTT(60) DEF Init
<1>2. /\ DOMAIN declared = {} /\ DOMAIN consumed = {}
      /\ declared \in Seq([miner : Miners, call : Nat, era : Nat])
      /\ consumed \in Seq([token : Nat, miner : Miners])
  BY <1>1, SMTT(60)
<1>3. TypesOK
  <2>1. NewState \in [ job : [token : Nat, version : Versions, used : BOOLEAN],
                       sessions : Nat, accepted : Nat ]
    BY DEF NewState, NoJob, Versions
  <2> QED BY <1>1, <1>2, <2>1 DEF TypesOK
<1>4. \A m \in Miners : client[m] = Idle
  BY <1>1
<1>5. EndsOK /\ TokensOK /\ RepliesOK
  BY <1>1, <1>4 DEF EndsOK, TokensOK, RepliesOK
<1>6. LedgerOK
  BY <1>1, <1>2 DEF LedgerOK, NewState, NoJob
<1>7. Numbered = {}
  BY <1>1, <1>4 DEF Numbered
<1>8. NumbersOK
  BY <1>7 DEF NumbersOK
<1> QED BY <1>3, <1>5, <1>6, <1>8 DEF IInv

\* Every step keeps the invariant.
LEMMA NextInvariant ==
  ASSUME IInv, [Next]_vars
  PROVE  IInv'
<1>1. ASSUME NEW m \in Miners, Declare(m) \/ Proceed(m) \/ FallBack(m)
      PROVE  IInv'
  <2>1. CASE Accepted(m)
    <3>1. client[m] # Idle /\ Reply(m).kind = "custom_ok"
      <4>1. client[m].pc = "custom" /\ Reply(m).kind = "custom_ok"
        BY <2>1 DEF Accepted, Step
      <4>2. Idle.pc # "custom"
        BY DEF Idle
      <4> QED BY <4>1, <4>2
    <3>2. outcomes' \subseteq Numbered
      BY <2>1, <3>1 DEF Accepted, Numbered
    <3> QED BY <2>1, <3>1, <3>2, ReturnStep DEF Accepted
  <2>2. CASE FallBack(m)
    <3>1. outcomes' \subseteq Numbered
      BY <2>2 DEF FallBack, Numbered
    <3> QED BY <2>2, <3>1, ReturnStep DEF FallBack
  <2> QED BY <1>1, <2>1, <2>2, DeclareStep, SendSteps, DeclaredStep DEF Proceed
<1>2. ASSUME UNCHANGED vars
      PROVE  IInv'
  <2>1. /\ UNCHANGED <<mode, server, conns, client, calls>>
        /\ UNCHANGED <<restarts, declared, consumed, outcomes>>
    BY <1>2 DEF vars
  <2>2. TypesOK'
    BY <2>1 DEF IInv, TypesOK
  <2>3. EndsOK'
    BY <2>1 DEF IInv, EndsOK, Conn
  <2>4. TokensOK'
    BY <2>1 DEF IInv, TokensOK, OwnToken, Spent
  <2>5. LedgerOK'
    BY <2>1 DEF IInv, LedgerOK
  <2>6. RepliesOK'
    BY <2>1 DEF IInv, RepliesOK, Registered
  <2>7. Numbered' = Numbered
    BY <2>1 DEF Numbered, Reply, Conn
  <2>8. NumbersOK'
    BY <2>1, <2>7 DEF IInv, NumbersOK
  <2> QED BY <2>2, <2>3, <2>4, <2>5, <2>6, <2>8 DEF IInv
<1> QED BY <1>1, <1>2, TaskStep, RestartStep DEF Next

\* The invariant holds in every state, however declarations, registrations,
\* timeouts and restarts of the coordinator interleave.
THEOREM DeclarationInvariant == Spec => []IInv
BY InitInvariant, NextInvariant, PTL DEF Spec

\* Every custom job that the coordinator has accepted (consume_custom_job) was
\* declared by the miner that registered it and was accepted once, and a client
\* that returned "accepted" holds one of them.
THEOREM DeclarationOwnJob == Spec => []AcceptedJobIsOwn
<1>1. IInv => AcceptedJobIsOwn
  BY DEF IInv, LedgerOK, AcceptedJobIsOwn
<1> QED BY <1>1, DeclarationInvariant, PTL

\* The coordinator refuses a custom job to an honest client only after another
\* declaration or a restart.
THEOREM DeclarationRejection == Spec => []RejectionExplained
<1>1. IInv => RejectionExplained
  BY DEF IInv, RepliesOK, RejectionExplained
<1> QED BY <1>1, DeclarationInvariant, PTL

\* Job ids agree unless the coordinator equivocates, and when it does no two
\* jobs that it numbered between restarts agree.
THEOREM DeclarationViews == Spec => []ViewsMatchMode
<1>1. IInv => ViewsMatchMode
  BY DEF IInv, NumbersOK, Numbered, ViewsMatchMode
<1> QED BY <1>1, DeclarationInvariant, PTL
=============================================================================
