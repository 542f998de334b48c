----------------------------- MODULE ShareSync ------------------------------
(***************************************************************************)
(* Authenticated synchronization between the nodes of a share labnet       *)
(* (sharechain_sync_v0.py).  Every node has one lock, taken by whoever     *)
(* changes it: a control operation, the handler of a peer's request, or a  *)
(* whole sync_peer run, which keeps it while it waits for its peer.        *)
(*                                                                         *)
(* A request travels on a connection of its own and waits for the lock of  *)
(* its recipient; the client may time out meanwhile and the request is     *)
(* then still handled, late.  Requests are therefore a set, handled in any *)
(* order.  A request may be lost, and a captured copy may come back.       *)
(*                                                                         *)
(* A node may stop at any step and start again from its state file, which  *)
(* the code writes at the places where `disk' changes here.                *)
(***************************************************************************)
EXTENDS StoreOps, FiniteSetsExt

CONSTANTS
  Nodes,         \* the pinned peer table; every node lists every other
  Faulty,        \* members that hold a key and announce what they like
  PageSize,      \* MAX_INVENTORY_IDS_PER_MESSAGE
  MaxSlots,      \* MAX_ANNOUNCEMENT_SLOTS_PER_PEER
  MaxEvidence,   \* MAX_EQUIVOCATIONS
  Imports,       \* the share lists that controllers submit
  FaultyNotes,   \* the announcements that faulty members sign
  MaxOps,        \* bound: control operations and faulty requests of a behaviour
  MaxCopies,     \* bound: captured requests on the network at a time
  MaxRestarts,   \* bound: restarts of a behaviour
  Watched        \* the node whose store is compared with module ShareStore

ASSUME SyncAssumption ==
  /\ Faulty \subseteq Nodes
  /\ {PageSize, MaxSlots, MaxEvidence} \subseteq Nat \ {0}
  /\ Imports \subseteq Seq(Shares)
  /\ FaultyNotes \subseteq [slot : Nat, state : Seq(Nat)]
  /\ Watched \in Nodes
  /\ {MaxOps, MaxCopies, MaxRestarts} \subseteq Nat

VARIABLES
  mem,       \* node -> self.state
  disk,      \* node -> the state file
  task,      \* node -> what the holder of its lock is doing
  net,       \* requests on the network or waiting for a lock
  answers,   \* responses on the connection of a waiting client
  ops,       \* control operations so far
  restarts   \* restarts so far

vars == <<mem, disk, task, net, answers, ops, restarts>>

Honest == Nodes \ Faulty

Idle == [job |-> "idle"]

EmptyNode ==
  [ store    |-> EmptyStore,
    inbound  |-> [p \in Nodes |-> 0],
    outbound |-> [p \in Nodes |-> 0],
    heard    |-> [p \in Nodes |-> {}],
    evidence |-> {} ]

Init ==
  /\ mem = [n \in Nodes |-> EmptyNode]
  /\ disk = [n \in Nodes |-> EmptyNode]
  /\ task = [n \in Nodes |-> Idle]
  /\ net = {}
  /\ answers = {}
  /\ ops = 0
  /\ restarts = 0

Become(n, node) == mem' = [mem EXCEPT ![n] = node]

Persist(n, node) == disk' = [disk EXCEPT ![n] = node]

Turn(n, t) == task' = [task EXCEPT ![n] = t]

AgedNode(node, ticks) == [node EXCEPT !.store = Aged(@, ticks)]

NextOutbound(node, p) == [node EXCEPT !.outbound[p] = @ + 1]
-----------------------------------------------------------------------------
(* Announcements: the selected history at a tick, bound to its sender *)

\* state_commitment_sha256: the selected path determines every other field
Commitment(acc) ==
  IF acc = {} THEN <<>>
  ELSE LET path == EvaluateGraph(acc).path IN [i \in DOMAIN path |-> path[i].id]

Announcement(node) ==
  [slot |-> node.store.tick, state |-> Commitment(node.store.accepted)]

Conflicts(node, p, note) ==
  {a \in node.heard[p] : a.slot = note.slot /\ a # note}

ObserveRaises(node, p, note) ==
  Conflicts(node, p, note) # {} /\ Cardinality(node.evidence) >= MaxEvidence

\* Mutant: the oldest slot is not evicted.
RememberAll(slots, note) ==
  IF \E a \in slots : a.slot = note.slot THEN slots ELSE slots \cup {note}

Remember(slots, note) ==
  IF \E a \in slots : a.slot = note.slot THEN slots
  ELSE IF Cardinality(slots) < MaxSlots THEN slots \cup {note}
  ELSE LET oldest == CHOOSE a \in slots : \A b \in slots : a.slot <= b.slot
       IN  IF note.slot <= oldest.slot THEN slots
           ELSE (slots \ {oldest}) \cup {note}

\* the record of an announcement holds its envelope, so each message that
\* conflicts, told apart by its sequence, is evidence of its own
Observe(node, p, note, seq) ==
  [node EXCEPT
     !.heard[p] = Remember(@, note),
     !.evidence = @ \cup {[peer |-> p, first |-> a, second |-> note, seq |-> seq] :
                            a \in Conflicts(node, p, note)}]
-----------------------------------------------------------------------------
(* Messages *)

Sorted(S) ==
  [i \in 1 .. Cardinality(S) |->
     CHOOSE s \in S : Cardinality({t \in S : Before(t, s)}) = i - 1]

AllRecords(st) == Sorted(Known(st))

\* the entries of a list that are in S, in the order of the list
Kept(list, S) ==
  LET at == {i \in DOMAIN list : list[i] \in S}
  IN  [k \in 1 .. Cardinality(at) |->
         list[CHOOSE i \in at : Cardinality({j \in at : j < i}) = k - 1]]

InventoryPage(st, cursor) ==
  SubSeq(AllRecords(st), cursor + 1, Min({cursor + PageSize, Cardinality(Known(st))}))

\* next_cursor, 0 standing for null
NextCursor(st, cursor) ==
  LET next == cursor + Len(InventoryPage(st, cursor))
  IN  IF next >= Cardinality(Known(st)) THEN 0 ELSE next

Awaits(n, p, seq) ==
  task[n].job = "sync" /\ task[n].peer = p /\ task[n].waiting = seq

\* verify_envelope and the sequence check of _authenticate_inbound
Authentic(node, m) == m.seq > node.inbound[m.from]
-----------------------------------------------------------------------------
(* Control operations of the local controller.  Authenticating the request *)
(* saves the node as it was; the operation then ages it.                   *)

ControlImport(n, batch) ==
  /\ task[n] = Idle
  /\ ops < MaxOps
  /\ Len(batch) <= MaxBatch
  /\ ops' = ops + 1
  /\ Persist(n, mem[n])
  /\ Become(n, AgedNode(mem[n], 2))
  /\ Turn(n, [job |-> "import", todo |-> batch, then |-> [job |-> "finish"]])
  /\ UNCHANGED <<net, answers, restarts>>

\* status ages the store by one tick, tick by one more than its count
ControlTick(n, count) ==
  /\ task[n] = Idle
  /\ ops < MaxOps
  /\ ops' = ops + 1
  /\ Persist(n, mem[n])
  /\ Become(n, AgedNode(mem[n], 1 + count))
  /\ Turn(n, [job |-> "finish"])
  /\ UNCHANGED <<net, answers, restarts>>

\* a control operation that raises leaves the tick unsaved
ControlFails(n) ==
  /\ task[n] = Idle
  /\ ops < MaxOps
  /\ ops' = ops + 1
  /\ Persist(n, mem[n])
  /\ Become(n, AgedNode(mem[n], 1))
  /\ UNCHANGED <<task, net, answers, restarts>>

\* sync_peer with a peer that runs this code; faulty members only send requests
ControlSync(n, p) ==
  /\ task[n] = Idle
  /\ ops < MaxOps
  /\ ops' = ops + 1
  /\ Persist(n, mem[n])
  /\ Become(n, AgedNode(mem[n], 1))
  /\ Turn(n, [job |-> "sync", peer |-> p, phase |-> "inventory", cursor |-> 0,
              seen |-> <<>>, queue |-> <<>>, waiting |-> 0])
  /\ UNCHANGED <<net, answers, restarts>>

Finish(n) ==
  /\ task[n].job = "finish"
  /\ Persist(n, mem[n])
  /\ Turn(n, Idle)
  /\ UNCHANGED <<mem, net, answers, ops, restarts>>
-----------------------------------------------------------------------------
(* import_shares, for a controller, a pushing peer or a pull *)

ImportNext(n) ==
  /\ task[n].job = "import"
  /\ task[n].todo # <<>>
  /\ Become(n, [mem[n] EXCEPT !.store = ImportOne(@, Head(task[n].todo))])
  /\ Turn(n, [task[n] EXCEPT !.todo = Tail(@)])
  /\ UNCHANGED <<disk, net, answers, ops, restarts>>

\* The phases of sync_peer: an empty queue ends a phase.
FinalPhase(j) == [j EXCEPT !.phase = "final", !.cursor = 0, !.seen = <<>>]

PushPhase(j, st) ==
  LET outgoing == Kept(AllRecords(st), Shares \ Range(j.seen))
  IN  IF outgoing = <<>> THEN FinalPhase(j)
      ELSE [j EXCEPT !.phase = "push", !.queue = outgoing]

PullPhase(j, st) ==
  LET missing == Kept(j.seen, Shares \ Known(st))
  IN  IF missing = <<>> THEN PushPhase(j, st)
      ELSE [j EXCEPT !.phase = "pull", !.queue = missing]

AfterImport(j, st) ==
  IF j.job = "sync" /\ j.queue = <<>> THEN PushPhase(j, st) ELSE j

EndImport(n) ==
  LET st == PromoteOrphans(mem[n].store)
  IN  /\ task[n].job = "import"
      /\ task[n].todo = <<>>
      /\ Become(n, [mem[n] EXCEPT !.store = st])
      /\ Persist(n, [mem[n] EXCEPT !.store = st])
      /\ Turn(n, AfterImport(task[n].then, st))
      /\ UNCHANGED <<net, answers, ops, restarts>>
-----------------------------------------------------------------------------
(* The handler of a peer's request *)

Authenticate(n, m) ==
  LET node == [mem[n] EXCEPT !.inbound[m.from] = m.seq]
  IN  /\ task[n] = Idle
      /\ m.to = n
      /\ Authentic(mem[n], m)
      /\ Become(n, node)
      /\ Persist(n, node)
      /\ Turn(n, [job |-> "serve", req |-> m])
      /\ \/ net' = net \ {m}
         \/ /\ Cardinality({c \in net : c.copy}) < MaxCopies
            /\ net' = (net \ {m}) \cup {[m EXCEPT !.copy = TRUE]}
      /\ UNCHANGED <<answers, ops, restarts>>

RefuseReplay(n, m) ==
  /\ task[n] = Idle
  /\ m.to = n
  /\ ~Authentic(mem[n], m)
  /\ net' = net \ {m}
  /\ UNCHANGED <<mem, disk, task, answers, ops, restarts>>

\* a handler that raises leaves the tick unsaved and sends no response
ServeRaises(n) ==
  /\ task[n].job = "serve"
  /\ LET m == task[n].req IN
       /\ ObserveRaises(mem[n], m.from, m.note)
       /\ Become(n, AgedNode(mem[n], 1))
       /\ Turn(n, Idle)
  /\ UNCHANGED <<disk, net, answers, ops, restarts>>

ServeRead(n) ==
  /\ task[n].job = "serve"
  /\ LET m == task[n].req IN
       /\ m.op \in {"inventory", "pull"}
       /\ ~ObserveRaises(mem[n], m.from, m.note)
       /\ Become(n, Observe(AgedNode(mem[n], 1), m.from, m.note, m.seq))
       /\ Turn(n, [job |-> "reply", req |-> m])
  /\ UNCHANGED <<disk, net, answers, ops, restarts>>

ServePush(n) ==
  /\ task[n].job = "serve"
  /\ LET m == task[n].req IN
       /\ m.op = "push"
       /\ ~ObserveRaises(mem[n], m.from, m.note)
       /\ Become(n, Observe(AgedNode(mem[n], 2), m.from, m.note, m.seq))
       /\ Turn(n, [job |-> "import", todo |-> m.list,
                   then |-> [job |-> "reply", req |-> m]])
  /\ UNCHANGED <<disk, net, answers, ops, restarts>>

Response(n, m, seq) ==
  LET st == mem[n].store
  IN  [ from |-> n, to |-> m.from, conn |-> m.seq, seq |-> seq,
        list |-> CASE m.op = "inventory" -> InventoryPage(st, m.cursor)
                   [] m.op = "pull" -> Kept(m.list, Known(st))
                   [] OTHER -> <<>>,
        next |-> IF m.op = "inventory" THEN NextCursor(st, m.cursor) ELSE 0,
        note |-> Announcement(mem[n]) ]

\* Mutant: the state file is not written before the response leaves.
ReplyUnsaved(n) ==
  /\ task[n].job = "reply"
  /\ LET m    == task[n].req
         node == NextOutbound(mem[n], m.from)
         seq  == node.outbound[m.from]
     IN  /\ Become(n, node)
         /\ answers' = IF ~m.copy /\ Awaits(m.from, n, m.seq)
                       THEN answers \cup {Response(n, m, seq)} ELSE answers
  /\ Turn(n, Idle)
  /\ UNCHANGED <<disk, net, ops, restarts>>

Reply(n) ==
  /\ task[n].job = "reply"
  /\ LET m    == task[n].req
         node == NextOutbound(mem[n], m.from)
         seq  == node.outbound[m.from]
     IN  /\ Become(n, node)
         /\ Persist(n, node)
         /\ answers' = IF ~m.copy /\ Awaits(m.from, n, m.seq)
                       THEN answers \cup {Response(n, m, seq)} ELSE answers
  /\ Turn(n, Idle)
  /\ UNCHANGED <<net, ops, restarts>>
-----------------------------------------------------------------------------
(* sync_peer: the client *)

Batch(queue) == SubSeq(queue, 1, Min({MaxBatch, Len(queue)}))

Rest(queue) == SubSeq(queue, MaxBatch + 1, Len(queue))

Request(n, j, seq) ==
  [ from |-> n, to |-> j.peer, seq |-> seq,
    op |-> IF j.phase = "final" THEN "inventory" ELSE j.phase,
    cursor |-> j.cursor,
    list |-> Batch(j.queue),
    note |-> Announcement(mem[n]),
    copy |-> FALSE ]

\* Mutant: the sequence is used before it is saved.
SendUnsaved(n) ==
  /\ task[n].job = "sync"
  /\ task[n].waiting = 0
  /\ LET j    == task[n]
         node == NextOutbound(mem[n], j.peer)
         seq  == node.outbound[j.peer]
     IN  /\ Become(n, node)
         /\ net' = net \cup {Request(n, j, seq)}
         /\ Turn(n, [j EXCEPT !.waiting = seq])
  /\ UNCHANGED <<disk, answers, ops, restarts>>

Send(n) ==
  /\ task[n].job = "sync"
  /\ task[n].waiting = 0
  /\ LET j    == task[n]
         node == NextOutbound(mem[n], j.peer)
         seq  == node.outbound[j.peer]
     IN  /\ Become(n, node)
         /\ Persist(n, node)
         /\ net' = net \cup {Request(n, j, seq)}
         /\ Turn(n, [j EXCEPT !.waiting = seq])
  /\ UNCHANGED <<answers, ops, restarts>>

\* What every response goes through in _peer_round_trip.  A response on an
\* awaited connection is never refused (LiveNeverReplay), and it never
\* conflicts, so it does not meet the evidence limit: responders run this
\* code (EvidenceOnlyAgainstFaulty).
Receive(n, r) ==
  LET node == Observe([mem[n] EXCEPT !.inbound[r.from] = r.seq], r.from, r.note, r.seq)
  IN  /\ r.to = n
      /\ Awaits(n, r.from, r.conn)
      /\ Authentic(mem[n], r)
      /\ Become(n, node)
      /\ Persist(n, node)
      /\ answers' = answers \ {r}
      /\ UNCHANGED <<net, ops, restarts>>

GetInventory(n, r) ==
  LET j    == [task[n] EXCEPT !.waiting = 0]
      seen == j.seen \o r.list
  IN  /\ Receive(n, r)
      /\ j.phase = "inventory"
      /\ Turn(n, IF ~IsInjective(seen) THEN Idle
                 ELSE IF r.next # 0 THEN [j EXCEPT !.seen = seen, !.cursor = r.next]
                 ELSE PullPhase([j EXCEPT !.seen = seen, !.cursor = 0], mem[n].store))

\* The response must hold exactly the requested shares.
GetPull(n, r) ==
  LET j == [task[n] EXCEPT !.waiting = 0]
  IN  /\ Receive(n, r)
      /\ j.phase = "pull"
      /\ Turn(n, IF r.list # Batch(j.queue) THEN Idle
                 ELSE [job |-> "pulled", todo |-> r.list,
                       then |-> [j EXCEPT !.queue = Rest(@)]])

\* Mutant: an import of pulled shares does not advance the tick.
ImportPulledUnaged(n) ==
  /\ task[n].job = "pulled"
  /\ Turn(n, [task[n] EXCEPT !.job = "import"])
  /\ UNCHANGED <<mem, disk, net, answers, ops, restarts>>

ImportPulled(n) ==
  /\ task[n].job = "pulled"
  /\ Become(n, AgedNode(mem[n], 1))
  /\ Turn(n, [task[n] EXCEPT !.job = "import"])
  /\ UNCHANGED <<disk, net, answers, ops, restarts>>

GetPush(n, r) ==
  LET j == [task[n] EXCEPT !.waiting = 0, !.queue = Rest(@)]
  IN  /\ Receive(n, r)
      /\ j.phase = "push"
      /\ Turn(n, IF j.queue = <<>> THEN FinalPhase(j) ELSE j)

\* Mutant: inventories are compared by size.
ConvergesBySize(n, r) ==
  Len(task[n].seen \o r.list) = Cardinality(Known(mem[n].store))

Converges(n, r) == Range(task[n].seen \o r.list) = Known(mem[n].store)

GetFinal(n, r) ==
  LET j == [task[n] EXCEPT !.waiting = 0]
  IN  /\ Receive(n, r)
      /\ j.phase = "final"
      /\ Turn(n, IF r.next # 0
                 THEN [j EXCEPT !.seen = @ \o r.list, !.cursor = r.next]
                 ELSE IF Converges(n, r) THEN [job |-> "finish"] ELSE Idle)

\* Mutant: without a socket timeout only a closed connection ends the wait.
TimeOutIfClosed(n) ==
  /\ task[n].job = "sync"
  /\ task[n].waiting # 0
  /\ ~\E m \in net : m.from = n /\ m.seq = task[n].waiting
  /\ answers' = {r \in answers : ~(r.to = n /\ Awaits(n, r.from, r.conn))}
  /\ Turn(n, Idle)
  /\ UNCHANGED <<mem, disk, net, ops, restarts>>

\* The socket timed out or was closed: sync_peer raises and the lock is free.
TimeOut(n) ==
  /\ task[n].job = "sync"
  /\ task[n].waiting # 0
  /\ answers' = {r \in answers : ~(r.to = n /\ Awaits(n, r.from, r.conn))}
  /\ Turn(n, Idle)
  /\ UNCHANGED <<mem, disk, net, ops, restarts>>
-----------------------------------------------------------------------------
(* The environment *)

Lose(m) ==
  /\ net' = net \ {m}
  /\ UNCHANGED <<mem, disk, task, answers, ops, restarts>>

\* A faulty member signs an announcement of its choice with a new sequence.
Misannounce(f, n, note) ==
  /\ ops < MaxOps
  /\ ops' = ops + 1
  /\ Become(f, NextOutbound(mem[f], n))
  /\ net' = net \cup {[ from |-> f, to |-> n, seq |-> mem[f].outbound[n] + 1,
                        op |-> "inventory", cursor |-> 0, list |-> <<>>,
                        note |-> note, copy |-> FALSE ]}
  /\ UNCHANGED <<disk, task, answers, restarts>>

\* What _load_state requires of the tables, a counter that is not there being
\* 0.  LoadSharesOK is what it requires of the shares.
LoadTablesOK(node) ==
  /\ node.inbound \in [Nodes -> Nat]
  /\ node.outbound \in [Nodes -> Nat]
  /\ \A p \in Nodes : /\ Cardinality(node.heard[p]) <= MaxSlots
                      /\ \A a \in node.heard[p] : a.slot \in Nat
  /\ Cardinality(node.evidence) <= MaxEvidence

\* The process ends anywhere and is started again on its state file.
Restart(n) ==
  /\ restarts < MaxRestarts
  /\ restarts' = restarts + 1
  /\ LoadSharesOK(disk[n].store)
  /\ LoadTablesOK(disk[n])
  /\ Become(n, disk[n])
  /\ Turn(n, Idle)
  /\ net' = {m \in net : m.to # n \/ m.copy}
  /\ answers' = {r \in answers : r.to # n}
  /\ UNCHANGED <<disk, ops>>

NodeStep(n) ==
  \/ Finish(n)
  \/ ImportNext(n)
  \/ EndImport(n)
  \/ ServeRaises(n)
  \/ ServeRead(n)
  \/ ServePush(n)
  \/ Reply(n)
  \/ Send(n)
  \/ ImportPulled(n)
  \/ TimeOut(n)

Handle(n, m) == Authenticate(n, m) \/ RefuseReplay(n, m)

Get(n, r) ==
  GetInventory(n, r) \/ GetPull(n, r) \/ GetPush(n, r) \/ GetFinal(n, r)

Control(n) ==
  \/ \E batch \in Imports : ControlImport(n, batch)
  \/ \E count \in 0 .. MaxOrphanAge + 1 : ControlTick(n, count)
  \/ ControlFails(n)
  \/ \E p \in Honest \ {n} : ControlSync(n, p)

Next ==
  \/ \E n \in Honest : Control(n) \/ NodeStep(n) \/ Restart(n)
  \/ \E n \in Honest, m \in net : Handle(n, m)
  \/ \E n \in Honest, r \in answers : Get(n, r)
  \/ \E m \in net : Lose(m)
  \/ \E f \in Faulty, n \in Honest, note \in FaultyNotes : Misannounce(f, n, note)

Spec == Init /\ [][Next]_vars

\* A thread that holds a lock goes on, and a socket timeout fires.
FairSpec == Spec /\ \A n \in Honest : WF_vars(NodeStep(n))
-----------------------------------------------------------------------------
(* Properties *)

\* what the announcements of the members commit to
Histories ==
  {Commitment(G) : G \in {S \in SUBSET Shares : GraphOrEmpty(S)}}
    \cup {x.state : x \in FaultyNotes}

NoteType == [slot : Nat, state : Histories]

RequestType ==
  [ from : Nodes, to : Nodes, seq : Nat, op : {"inventory", "pull", "push"},
    cursor : Nat, list : Seq(Shares), note : NoteType, copy : BOOLEAN ]

\* Nodes and their files hold stores and counters, and the announcement and
\* evidence tables stay within the limits _load_state sets although they are
\* fed by peers (_observe_announcement).
TypeOK ==
  /\ \A n \in Nodes : \A node \in {mem[n], disk[n]} :
       node.store \in StoreType /\ LoadTablesOK(node)
  /\ \A m \in net : m \in RequestType
  /\ \A r \in answers : r.list \in Seq(Shares)

\* Equivocation evidence never names a node that runs this code: a slot is a
\* tick, and a tick names one selected history of its node through imports,
\* failed operations, crashes and restarts (_observe_announcement).
EvidenceOnlyAgainstFaulty ==
  \A n \in Honest : \A e \in mem[n].evidence : e.peer \in Faulty

\* A faulty member that got a response to a conflicting announcement is on
\* record in the state file with both announcements: the evidence is durable
\* before the response leaves (handle_envelope saves, then signs).
AnsweredConflictIsDurable ==
  [][ \A n \in Honest :
        Reply(n) =>
          LET m == task[n].req
          IN  \A a \in Conflicts(mem[n], m.from, m.note) :
                [peer |-> m.from, first |-> a, second |-> m.note, seq |-> m.seq]
                  \in disk'[n].evidence ]_vars

\* A message somebody still waits for is never refused as a replay, whatever
\* was lost, answered late, or restarted before (_authenticate_inbound).
LiveNeverReplay ==
  /\ \A m \in net : ~m.copy /\ Awaits(m.from, m.to, m.seq) => Authentic(mem[m.to], m)
  /\ \A r \in answers : Awaits(r.to, r.from, r.conn) => Authentic(mem[r.to], r)

\* A sync that reports convergence on an inventory of one page has compared
\* two nodes that selected the same history, although only identifiers of
\* accepted and waiting shares were compared (end of sync_peer).
ConvergedSameState ==
  [][ \A n \in Honest : \A r \in answers :
        (GetFinal(n, r) /\ task[n].seen = <<>> /\ task'[n].job = "finish")
          => r.note.state = Commitment(mem[n].store.accepted) ]_vars

\* "It rereads the bounded inventory and fails unless both identifier sets
\* agree": the page that lets a client report convergence is sent by a node
\* whose identifiers are those of the client.
ConvergedSetsAgree ==
  [][ \A r \in answers' \ answers :
        (task[r.to].phase = "final" /\ r.next = 0 /\ Converges(r.to, r))
          => Known(mem[r.from].store) = Known(mem[r.to].store) ]_vars

\* Every node always gets its lock back: sync_peer ends even when two nodes
\* sync with each other and each holds the lock the other waits for.
LockReleased == \A n \in Honest : task[n] # Idle ~> task[n] = Idle
=============================================================================
