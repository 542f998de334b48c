--------------------------- MODULE ShareSyncSteps ---------------------------
(***************************************************************************)
(* The steps that keep the invariant without a sequence number of their    *)
(* own: what a node does by itself, and what it does with a message that   *)
(* has arrived.                                                            *)
(***************************************************************************)
EXTENDS ShareSyncLemmas

\* leaves are left to Zenon; the ones with arithmetic or records cite SMT
USE ZenonT(60)
-----------------------------------------------------------------------------
(* The steps *)

\* A step that sends nothing and takes no sequence number.
LEMMA SilentStep ==
  ASSUME TypesOK, CountersOK, NotesOK, FinalOK,
         NEW n \in Nodes, NEW node, NEW d, NEW t \in TaskType,
         Step(n, node, d, t), NodeOK(node), NodeOK(d),
         n \in Faulty => t = Idle,
         node.inbound = mem[n].inbound, node.outbound = mem[n].outbound,
         d.inbound = disk[n].inbound, d.outbound = disk[n].outbound,
         net' \subseteq net, answers' \subseteq answers,
         Carried(t) \subseteq Carried(task[n]),
         t = task[n] \/ (t.job = "sync" => Between(t)),
         \A p \in Nodes : node.heard[p] \subseteq Noted(p) /\ d.heard[p] \subseteq Noted(p),
         n \in Honest =>
           /\ \/ /\ d.store = disk[n].store
                 /\ \/ node.store = mem[n].store
                    \/ node.store = disk[n].store
                    \/ disk[n].store.tick < node.store.tick
              \/ /\ d.store = node.store
                 /\ node.store = mem[n].store \/ disk[n].store.tick < node.store.tick
              \/ d.store = mem[n].store /\ mem[n].store.tick < node.store.tick
           /\ d.store.tick <= node.store.tick
           /\ t.job = "import" => d.store.tick < node.store.tick
  PROVE  TypesOK' /\ CountersOK' /\ NotesOK' /\ FinalOK'
<1>1. TypesOK'
  <2>1. net' \subseteq MessageType /\ answers' \subseteq AnswerType
    BY DEF TypesOK
  <2> QED
    BY <2>1, TypesFrame
<1>2. CountersOK'
  <2>1. t = task[n] \/ (t.job = "sync" => t.waiting = 0)
    BY DEF Between
  <2> QED
    BY <2>1, CountersFrame
<1>3. NotesOK'
  <2>1. ASSUME NEW p \in Nodes PROVE Noted(p)' \subseteq Noted(p)
    <3>1. /\ \A m \in net' : m.from = p => m.note \in Noted(p)
          /\ \A r \in answers' : r.from = p => r.note \in Noted(p)
          /\ \A m \in Carried(t) : m.from = p => m.note \in Noted(p)
          /\ node.heard[p] \subseteq Noted(p) /\ d.heard[p] \subseteq Noted(p)
      BY NotedPlaces
    <3>2. PICK W : W = Noted(p)
      OBVIOUS
    <3>3. Noted(p)' \subseteq W
      BY <3>1, <3>2, NotedWithin, SMTT(90)
    <3> QED
      BY <3>2, <3>3
  <2>2. /\ \A p \in Honest \ {n} : Noted(p)' \subseteq Noted(p)
        /\ Noted(n)' \subseteq Noted(n)
    BY <2>1 DEF Honest
  <2> QED
    BY <2>2, NotesFrame
<1>4. FinalOK'
  BY FinalFrame
<1> QED
  BY <1>1, <1>2, <1>3, <1>4

\* What a node does on its own.
LEMMA QuietStep ==
  ASSUME IInv, NEW n \in Honest, Quiet(n)
  PROVE  IInv'
<1> USE DEF IInv
<1>1. PICK st, t : Local(n, st, t)
  BY QuietLocal
<1> DEFINE node == [mem[n] EXCEPT !.store = st]
<1>2. /\ n \in Nodes /\ n \notin Faulty
      /\ NodeOK(mem[n]) /\ NodeOK(disk[n])
      /\ mem[n].store.tick \in Nat /\ disk[n].store.tick \in Nat
      /\ disk[n].store.tick <= mem[n].store.tick
  BY NodeFacts DEF Honest
<1>3. /\ NodeOK(node)
      /\ node.store = st
      /\ node.inbound = mem[n].inbound
      /\ node.outbound = mem[n].outbound
      /\ node.heard = mem[n].heard
      /\ node.evidence = mem[n].evidence
  <2>1. StoreOK(st)
    BY <1>1 DEF Local
  <2> QED
    BY <1>2, <2>1, StoreChange
<1>4. PICK d : /\ Step(n, node, d, t)
               /\ \/ d = disk[n] /\ (t.job = "import" => disk[n].store.tick < st.tick)
                  \/ d = node /\ t.job # "import"
                  \/ d = mem[n] /\ mem[n].store.tick < st.tick
  <2>1. CASE disk' = disk /\ (t.job = "import" => disk[n].store.tick < st.tick)
    <3>1. disk' = [disk EXCEPT ![n] = disk[n]]
      BY <2>1 DEF TypesOK
    <3> HIDE DEF node
    <3>2. Step(n, node, disk[n], t)
      BY <1>1, <3>1 DEF Local, Step, node
    <3> QED
      BY <2>1, <3>2
  <2>2. CASE disk' = [disk EXCEPT ![n] = node] /\ t.job # "import"
    <3> HIDE DEF node
    <3>1. Step(n, node, node, t)
      BY <1>1, <2>2 DEF Local, Step, node
    <3> QED
      BY <2>2, <3>1
  <2>3. CASE disk' = [disk EXCEPT ![n] = mem[n]] /\ mem[n].store.tick < st.tick
    <3> HIDE DEF node
    <3>1. Step(n, node, mem[n], t)
      BY <1>1, <2>3 DEF Local, Step, node
    <3> QED
      BY <2>3, <3>1
  <2> QED
    BY <1>1, <2>1, <2>2, <2>3 DEF Local
<1> HIDE DEF node
<1>5. /\ t \in TaskType /\ (t.job = "sync" => Between(t))
      /\ Answering(t) \subseteq Answering(task[n])
      /\ net' \subseteq net /\ answers' \subseteq answers
      /\ mem[n].store.tick <= st.tick
      /\ st = mem[n].store \/ disk[n].store.tick < st.tick
  BY <1>1 DEF Local
<1>6. Carried(t) \subseteq Carried(task[n])
  <2>1. t.job # "serve" /\ task[n] \in TaskType
    BY <1>1, <1>2 DEF Local, TypesOK
  <2> QED
    BY <1>5, <2>1, CarriedTyped DEF Carried
<1>7. /\ NodeOK(d) /\ d.inbound = disk[n].inbound /\ d.outbound = disk[n].outbound
      /\ \A p \in Nodes : node.heard[p] \subseteq Noted(p) /\ d.heard[p] \subseteq Noted(p)
  BY <1>2, <1>3, <1>4, NotedPlaces, SMTT(90) DEF CountersOK
<1>8. TypesOK' /\ CountersOK' /\ NotesOK' /\ FinalOK'
  <2>1. /\ \/ d.store = disk[n].store
              /\ (node.store = mem[n].store \/ disk[n].store.tick < node.store.tick)
           \/ d.store = node.store
              /\ (node.store = mem[n].store \/ disk[n].store.tick < node.store.tick)
           \/ d.store = mem[n].store /\ mem[n].store.tick < node.store.tick
        /\ d.store.tick <= node.store.tick
        /\ t.job = "import" => d.store.tick < node.store.tick
    <3>1. st.tick \in Nat
      BY <1>1, StoreTicks DEF Local
    <3> QED
      BY <1>2, <1>3, <1>4, <1>5, <3>1, SMTT(90)
  <2> QED
    BY <1>2, <1>3, <1>4, <1>5, <1>6, <1>7, <2>1, SilentStep
<1>9. RecordedOK'
  BY <1>2, <1>3, <1>4, <1>5, RecordedFrame
<1> QED
  BY <1>8, <1>9

\* A lost request.
LEMMA LoseStep ==
  ASSUME IInv, NEW m \in net, Lose(m)
  PROVE  IInv'
<1> USE DEF IInv
<1> DEFINE n == m.from
<1>1. n \in Nodes
  BY MessageFields
<1> HIDE DEF n
<1>2. /\ UNCHANGED <<mem, disk, task, answers>>
      /\ net' \subseteq net /\ answers' \subseteq answers
  BY DEF Lose
<1>3. Step(n, mem[n], disk[n], task[n])
  BY <1>1, <1>2 DEF Step, TypesOK
<1>4. /\ NodeOK(mem[n]) /\ NodeOK(disk[n]) /\ task[n] \in TaskType
      /\ n \in Faulty => task[n] = Idle
      /\ \A p \in Nodes : mem[n].heard[p] \subseteq Noted(p) /\ disk[n].heard[p] \subseteq Noted(p)
  BY <1>1, NotedPlaces DEF TypesOK
<1>5. n \in Honest => /\ disk[n].store.tick <= mem[n].store.tick
                      /\ task[n].job = "import" => disk[n].store.tick < mem[n].store.tick
  BY DEF NotesOK
<1>6. TypesOK' /\ CountersOK' /\ NotesOK' /\ FinalOK'
  BY <1>1, <1>2, <1>3, <1>4, <1>5, SilentStep
<1>7. RecordedOK'
  BY <1>1, <1>3, RecordedFrame
<1> QED
  BY <1>6, <1>7

\* A restart goes back to the state file (_load_state).
LEMMA RestartStep ==
  ASSUME IInv, NEW n \in Honest, Restart(n)
  PROVE  IInv'
<1> USE DEF IInv
<1>1. /\ n \in Nodes /\ n \notin Faulty
      /\ NodeOK(disk[n]) /\ disk[n].store.tick \in Nat
  BY NodeFacts DEF Honest
<1>2. /\ mem' = [mem EXCEPT ![n] = disk[n]]
      /\ task' = [task EXCEPT ![n] = Idle]
      /\ disk' = disk /\ net' \subseteq net /\ answers' \subseteq answers
  BY DEF Restart, Become, Turn
<1>3. Step(n, disk[n], disk[n], Idle)
  BY <1>1, <1>2 DEF Step, TypesOK
<1>4. /\ disk[n].inbound = mem[n].inbound /\ disk[n].outbound = mem[n].outbound
      /\ \A p \in Nodes : disk[n].heard[p] \subseteq Noted(p)
  BY <1>1, NotedPlaces DEF CountersOK
<1>5. /\ Idle \in TaskType /\ Idle.job = "idle" /\ Carried(Idle) = {} /\ Answering(Idle) = {}
      /\ disk[n].store.tick <= disk[n].store.tick
  <2>1. Carried(Idle) = {}
    BY SimpleTasks DEF Carried
  <2>2. disk[n].store.tick <= disk[n].store.tick
    BY <1>1, SMTT(90)
  <2> QED
    BY <2>1, <2>2, SimpleTasks
<1>6. TypesOK' /\ CountersOK' /\ NotesOK' /\ FinalOK'
  BY <1>1, <1>2, <1>3, <1>4, <1>5, SilentStep
<1>7. RecordedOK'
  BY <1>1, <1>3, <1>5, RecordedFrame
<1> QED
  BY <1>6, <1>7

\* What the handler knows of the announcement in a request: a member that
\* runs this code has made no other for the slot.
LEMMA HonestNotesAgree ==
  ASSUME TypesOK, NotesOK, NEW n \in Nodes, NEW p \in Honest,
         NEW note \in Noted(p)
  PROVE  Conflicts(mem[n], p, note) = {}
<1>1. mem[n].heard[p] \subseteq Noted(p)
  BY NotedPlaces
<1> QED
  BY <1>1 DEF Conflicts, NotesOK

\* The handler observes the announcement before it answers
\* (handle_envelope); evidence is recorded for what it answers.
LEMMA ServeStep ==
  ASSUME IInv, NEW n \in Honest, ServeRead(n) \/ ServePush(n)
  PROVE  IInv'
<1> USE DEF IInv
<1> DEFINE m == task[n].req
           k == IF m.op = "push" THEN 2 ELSE 1
           aged == AgedNode(mem[n], k)
           node == Observe(aged, m.from, m.note, m.seq)
           t == IF m.op = "push"
                THEN [job |-> "import", todo |-> m.list, then |-> [job |-> "reply", req |-> m]]
                ELSE [job |-> "reply", req |-> m]
<1>1. /\ n \in Nodes /\ n \notin Faulty
      /\ NodeOK(mem[n]) /\ NodeOK(disk[n]) /\ StoreOK(mem[n].store)
      /\ mem[n].store.tick \in Nat /\ disk[n].store.tick \in Nat
      /\ disk[n].store.tick <= mem[n].store.tick
  BY NodeFacts DEF Honest
<1>2. task[n] \in ServeType /\ task[n].job = "serve"
  BY <1>1, TaskCases DEF ServeRead, ServePush, TypesOK
<1>3. /\ m \in MessageType
      /\ m.from \in Nodes /\ m.note \in NoteType /\ m.list \in Seq(Shares) /\ m.seq \in Nat
      /\ m.op \in {"inventory", "pull", "push"}
  BY <1>2 DEF ServeType, MessageType, RequestType
<1>4. /\ mem' = [mem EXCEPT ![n] = node]
      /\ task' = [task EXCEPT ![n] = t]
      /\ UNCHANGED <<disk, net, answers>>
      /\ ~ObserveRaises(mem[n], m.from, m.note)
  BY DEF ServeRead, ServePush, Become, Turn
<1>5. Carried(task[n]) = {m}
  BY <1>2 DEF Carried
<1>6. /\ t \in TaskType /\ t.job \in {"import", "reply"}
      /\ Carried(t) = {m} /\ Answering(t) = {m}
  <2> DEFINE rep == [job |-> "reply", req |-> m]
             imp == [job |-> "import", todo |-> m.list, then |-> rep]
  <2> HIDE DEF m
  <2>1. rep \in ReplyType /\ rep.job = "reply" /\ rep.req = m
    BY <1>3 DEF ReplyType
  <2> HIDE DEF rep
  <2>2. imp \in ImportType /\ imp.job = "import" /\ imp.then = rep
    BY <1>3, <2>1 DEF ImportType
  <2> HIDE DEF imp
  <2>3. t = imp \/ t = rep
    BY DEF imp, rep
  <2> HIDE DEF t
  <2> QED
    BY <2>1, <2>2, <2>3 DEF TaskType, Carried, Answering
<1> HIDE DEF t
<1>7. /\ NodeOK(aged) /\ aged.store.tick = mem[n].store.tick + k
      /\ k \in Nat /\ k > 0
      /\ aged.inbound = mem[n].inbound
      /\ aged.outbound = mem[n].outbound
      /\ aged.heard = mem[n].heard
      /\ aged.evidence = mem[n].evidence
  <2>1. k \in Nat /\ k > 0
    BY SMTT(90)
  <2> HIDE DEF k
  <2>2. /\ StoreOK(Aged(mem[n].store, k))
        /\ Aged(mem[n].store, k).tick = mem[n].store.tick + k
    BY <1>1, <2>1, AgedOK, StoreTicks
  <2>3. aged = [mem[n] EXCEPT !.store = Aged(mem[n].store, k)]
    BY DEF AgedNode
  <2> HIDE DEF aged
  <2> QED
    BY <1>1, <2>1, <2>2, <2>3, StoreChange, SMTT(90)
<1> HIDE DEF k, aged, m
<1>8. Conflicts(aged, m.from, m.note) = Conflicts(mem[n], m.from, m.note)
  BY <1>7 DEF Conflicts
<1>9. m.note \in Noted(m.from)
  BY <1>1, <1>5, NotedPlaces
<1>10. Conflicts(aged, m.from, m.note) # {} =>
         m.from \in Faulty /\ Cardinality(aged.evidence) < MaxEvidence
  <2>1. m.from \in Honest => Conflicts(mem[n], m.from, m.note) = {}
    BY <1>1, <1>9, HonestNotesAgree
  <2>2. Conflicts(mem[n], m.from, m.note) # {} => ~(Cardinality(mem[n].evidence) >= MaxEvidence)
    BY <1>4 DEF ObserveRaises, m
  <2>3. Cardinality(mem[n].evidence) \in Nat /\ MaxEvidence \in Nat
    BY <1>1, FS_CardinalityType, SyncAssumption DEF NodeOK
  <2> QED
    BY <1>3, <1>7, <1>8, <2>1, <2>2, <2>3, SMTT(90) DEF Honest
<1>11. /\ NodeOK(node)
       /\ node.store = aged.store
       /\ node.inbound = mem[n].inbound
       /\ node.outbound = mem[n].outbound
       /\ node.heard = [mem[n].heard EXCEPT ![m.from] = Remember(@, m.note)]
       /\ node.evidence = mem[n].evidence \cup
             {[peer |-> m.from, first |-> a, second |-> m.note, seq |-> m.seq] :
                a \in Conflicts(mem[n], m.from, m.note)}
  <2>1. Observed(aged, m.from, m.note, m.seq, node)
    BY <1>3, <1>7, <1>10, ObserveOK
  <2> HIDE DEF node
  <2> QED
    BY <1>7, <1>8, <2>1 DEF Observed
<1> HIDE DEF node
<1>12. /\ mem[n].heard \in [Nodes -> SUBSET NoteType]
       /\ Remember(mem[n].heard[m.from], m.note) \subseteq mem[n].heard[m.from] \cup {m.note}
  <2>1. /\ mem[n].heard \in [Nodes -> SUBSET NoteType]
        /\ HeardOK(mem[n].heard[m.from])
    BY <1>1, <1>3 DEF NodeOK, NodeType
  <2>2. mem[n].heard[m.from] \in SUBSET NoteType
    BY <1>3, <2>1
  <2> QED
    BY <1>3, <2>1, <2>2, RememberOK
<1>13. \A p \in Nodes : node.heard[p] \subseteq Noted(p) /\ disk[n].heard[p] \subseteq Noted(p)
  <2>1. \A p \in Nodes : mem[n].heard[p] \subseteq Noted(p) /\ disk[n].heard[p] \subseteq Noted(p)
    BY <1>1, NotedPlaces
  <2>2. /\ node.heard[m.from] = Remember(mem[n].heard[m.from], m.note)
        /\ \A p \in Nodes : p # m.from => node.heard[p] = mem[n].heard[p]
    BY <1>3, <1>11, <1>12
  <2> QED
    BY <1>3, <1>9, <1>12, <2>1, <2>2, SMTT(90)
<1>14. Step(n, node, disk[n], t)
  BY <1>1, <1>4 DEF Step, TypesOK, node, m, aged, k, t
<1>15. TypesOK' /\ CountersOK' /\ NotesOK' /\ FinalOK'
  <2>1. disk[n].store.tick < node.store.tick /\ disk[n].store.tick <= node.store.tick
    <3>1. /\ node.store.tick = mem[n].store.tick + k /\ k \in Nat /\ k > 0
          /\ mem[n].store.tick \in Nat /\ disk[n].store.tick \in Nat
          /\ disk[n].store.tick <= mem[n].store.tick
      BY <1>1, <1>7, <1>11
    <3> QED
      BY ONLY <3>1
  <2>2. net' \subseteq net /\ answers' \subseteq answers
    BY <1>4
  <2> QED
    BY <1>1, <1>5, <1>6, <1>11, <1>13, <1>14, <2>1, <2>2, SilentStep
<1>16. RecordedOK'
  <2> SUFFICES ASSUME NEW q \in Nodes, NEW r \in Answering(task'[q]),
                      NEW a \in Conflicts(mem'[q], r.from, r.note)
               PROVE  [peer |-> r.from, first |-> a, second |-> r.note, seq |-> r.seq]
                        \in mem'[q].evidence
    BY DEF RecordedOK
  <2>1. CASE q # n
    BY <1>1, <1>14, <2>1, StepAt, SMTT(90) DEF RecordedOK
  <2>2. CASE q = n
    <3>1. mem'[q] = node /\ r = m
      BY <1>1, <1>6, <1>14, <2>2, StepAt, SMTT(90)
    <3>2. a \in Conflicts(mem[n], m.from, m.note)
      BY <1>3, <1>11, <1>12, <3>1 DEF Conflicts
    <3> QED
      BY <1>11, <3>1, <3>2
  <2> QED
    BY <2>1, <2>2
<1> QED
  BY <1>15, <1>16

\* what a step does that accepts a message of p with this number, and saves
Accepting(n, node, t, p, seq) ==
  /\ Step(n, node, node, t) /\ NodeOK(node)
  /\ node.store = mem[n].store
  /\ p \in Nodes /\ seq \in Nat /\ seq <= mem[p].outbound[n]
  /\ node.inbound = [mem[n].inbound EXCEPT ![p] = seq]
  /\ node.outbound = mem[n].outbound
  /\ net' \subseteq MessageType
  /\ \A k \in net' : k \in net \/ k.copy
  /\ \A k \in net' : \E m \in net : SameEnvelope(k, m) /\ k.note = m.note
  /\ \A k, m \in net' : SameEnvelope(k, m) => k = m
  /\ \A k \in net' : ~(~k.copy /\ k.from = p /\ k.to = n /\ k.seq = seq)
  /\ answers' \subseteq answers
  /\ t \in TaskType
  /\ \A m \in Carried(t) : m \in Carried(task[n]) \/ (m \in net /\ m.to = n)
  /\ t.job = "sync" => Between(t)
  /\ t.job # "import"
  /\ \A q \in Nodes : node.heard[q] \subseteq Noted(q)

\* Accepting a message raises one counter: what is still awaited stays
\* above it, because a client waits for its latest sequence number only.
LEMMA InboundCounters ==
  ASSUME TypesOK, CountersOK, NEW n \in Nodes, NEW node, NEW t, NEW p, NEW seq,
         Accepting(n, node, t, p, seq)
  PROVE  CountersOK'
<1>1. /\ p \in Nodes /\ seq \in Nat /\ seq <= mem[p].outbound[n]
      /\ answers' \subseteq answers
      /\ t.job = "sync" => t.waiting = 0
  BY DEF Accepting, Between
<1>2. /\ \A k \in net' : k \in net \/ k.copy
      /\ \A k \in net' : \E m \in net : SameEnvelope(k, m)
      /\ \A k, m \in net' : SameEnvelope(k, m) => k = m
      /\ \A k \in net' : ~(~k.copy /\ k.from = p /\ k.to = n /\ k.seq = seq)
  BY DEF Accepting
<1>3. Step(n, node, node, t)
  BY DEF Accepting
<1>4. /\ mem'[n] = node /\ disk'[n] = node /\ task'[n] = t
      /\ \A k \in Nodes \ {n} :
           mem'[k] = mem[k] /\ disk'[k] = disk[k] /\ task'[k] = task[k]
  BY <1>3, StepAt
<1>5. /\ mem'[n].inbound = [mem[n].inbound EXCEPT ![p] = seq]
      /\ mem'[n].outbound = mem[n].outbound
  BY <1>4 DEF Accepting
<1>6. \A q \in Nodes : mem'[n].inbound[q] = IF q = p THEN seq ELSE mem[n].inbound[q]
  <2>1. mem[n].inbound \in [Nodes -> Nat]
    BY DEF TypesOK, NodeType
  <2> QED
    BY <1>5, <2>1
<1>7. \A k \in Nodes : /\ mem'[k].outbound = mem[k].outbound
                       /\ k # n => mem'[k].inbound = mem[k].inbound
  BY <1>4, <1>5
<1>8. \A k \in Honest : /\ disk'[k].inbound = mem'[k].inbound
                        /\ disk'[k].outbound = mem'[k].outbound
  BY <1>4 DEF CountersOK, Honest
<1>9. \A q, k \in Nodes : mem'[k].inbound[q] <= mem'[q].outbound[k]
  <2>1. \A q, k \in Nodes : mem[k].inbound[q] <= mem[q].outbound[k]
    BY DEF CountersOK
  <2> QED
    BY <1>1, <1>6, <1>7, <2>1
<1>10. \A m \in net' : m.seq <= mem'[m.from].outbound[m.to]
  <2>1. \A m \in net : m.from \in Nodes /\ m.seq <= mem[m.from].outbound[m.to]
    BY MessageFields DEF CountersOK
  <2> QED
    BY <1>2, <1>7, <2>1, SMTT(90) DEF SameEnvelope
<1>11. \A k \in Nodes : \A m \in Carried(task'[k]) :
         m.to = k /\ m.seq <= mem'[m.from].outbound[k]
  <2> SUFFICES ASSUME NEW k \in Nodes, NEW m \in Carried(task'[k])
               PROVE  m.to = k /\ m.seq <= mem'[m.from].outbound[k]
    OBVIOUS
  <2>1. \A x \in Carried(t) : x \in Carried(task[n]) \/ (x \in net /\ x.to = n)
    BY DEF Accepting
  <2>2. m \in Carried(task[k]) \/ (m \in net /\ m.to = k)
    BY <1>3, <2>1, CarriedFrame
  <2> QED
    BY <1>7, <2>2, MessageFields DEF CountersOK
<1>12. \A r \in answers' : /\ r.seq <= mem'[r.from].outbound[r.to]
                           /\ 0 < r.conn
                           /\ r.conn <= mem'[r.to].outbound[r.from]
  BY <1>1, <1>7, MessageFields DEF CountersOK
<1>13. \A m \in net', r \in answers' : ~SameEnvelope(m, r)
  <2>1. \A m \in net, r \in answers : ~SameEnvelope(m, r)
    BY DEF CountersOK
  <2> QED
    BY <1>1, <1>2, <2>1, SMTT(90) DEF SameEnvelope
<1>14. \A k \in Nodes : (task'[k].job = "sync" /\ task'[k].waiting # 0)
                           => task'[k].waiting = mem'[k].outbound[task'[k].peer]
  BY <1>1, <1>4, <1>7, SMTT(90) DEF CountersOK
<1>15. \A k, q \in Nodes, x \in Nat : (x > 0 /\ Awaits(k, q, x)')
          => Awaits(k, q, x) /\ k # n
  BY <1>1, <1>4, SMTT(90) DEF Awaits
<1>16. \A m \in net' : ~m.copy /\ Awaits(m.from, m.to, m.seq)'
                           => m.seq > mem'[m.to].inbound[m.from]
  <2> SUFFICES ASSUME NEW m \in net', ~m.copy, Awaits(m.from, m.to, m.seq)'
               PROVE  m.seq > mem'[m.to].inbound[m.from]
    OBVIOUS
  <2>1. m \in net
    BY <1>2
  <2>2. m.from \in Nodes /\ m.to \in Nodes /\ m.seq \in Nat /\ m.seq > 0
    BY <2>1, MessageFields
  <2>3. Awaits(m.from, m.to, m.seq)
    BY <1>15, <2>2
  <2>4. m.seq > mem[m.to].inbound[m.from]
    BY <2>1, <2>3 DEF CountersOK, LiveNeverReplay, Authentic
  <2>5. CASE m.to = n /\ m.from = p
    <3>1. m.seq = mem[p].outbound[n] /\ m.seq # seq
      <4>1. /\ task[p].job = "sync" /\ task[p].waiting = m.seq /\ task[p].peer = n
        BY <2>3, <2>5 DEF Awaits
      <4>2. m.seq # 0
        BY <2>2, SMTT(90)
      <4> QED
        BY <1>1, <1>2, <2>5, <4>1, <4>2 DEF CountersOK
    <3>2. mem'[n].inbound[p] = seq
      BY <1>1, <1>6
    <3>3. seq < m.seq
      BY <1>1, <2>2, <3>1, SMTT(90)
    <3> QED
      BY <1>1, <2>2, <2>5, <3>2, <3>3
  <2>6. CASE ~(m.to = n /\ m.from = p)
    <3>1. mem'[m.to].inbound[m.from] = mem[m.to].inbound[m.from]
      BY <1>6, <1>7, <2>2, <2>6
    <3> QED
      BY <2>4, <3>1
  <2> QED
    BY <2>5, <2>6
<1>17. \A r \in answers' : Awaits(r.to, r.from, r.conn)'
                               => r.seq > mem'[r.to].inbound[r.from]
  <2> SUFFICES ASSUME NEW r \in answers', Awaits(r.to, r.from, r.conn)'
               PROVE  r.seq > mem'[r.to].inbound[r.from]
    OBVIOUS
  <2>1. r \in answers /\ r.from \in Nodes /\ r.to \in Nodes /\ r.conn \in Nat /\ 0 < r.conn
    BY <1>1, MessageFields DEF CountersOK
  <2>2. r.conn > 0
    BY <2>1
  <2>3. Awaits(r.to, r.from, r.conn) /\ r.to # n
    BY <1>15, <2>1, <2>2
  <2> QED
    BY <1>7, <2>1, <2>3 DEF CountersOK, LiveNeverReplay, Authentic
<1>18. LiveNeverReplay'
  BY <1>16, <1>17 DEF LiveNeverReplay, Authentic
<1> QED
  BY <1>2, <1>8, <1>9, <1>10, <1>11, <1>12, <1>13, <1>14, <1>18
     DEF CountersOK, SameEnvelope, Carried, Answering

\* A step that accepts a message and saves that it did.
LEMMA InboundStep ==
  ASSUME TypesOK, CountersOK, NotesOK, FinalOK,
         NEW n \in Honest, NEW node, NEW t, NEW p, NEW seq,
         Accepting(n, node, t, p, seq)
  PROVE  TypesOK' /\ CountersOK' /\ NotesOK' /\ FinalOK'
<1>1. n \in Nodes /\ n \notin Faulty
  BY DEF Honest
<1>2. Step(n, node, node, t) /\ NodeOK(node) /\ t \in TaskType
  BY DEF Accepting
<1>3. TypesOK'
  <2>1. net' \subseteq MessageType /\ answers' \subseteq AnswerType
    BY DEF Accepting, TypesOK
  <2> QED
    BY <1>1, <1>2, <2>1, TypesFrame
<1>4. CountersOK'
  BY <1>1, InboundCounters
<1>5. NotesOK'
  <2>1. ASSUME NEW q \in Nodes PROVE Noted(q)' \subseteq Noted(q)
    <3>1. /\ \A m \in net' : m.from = q => m.note \in Noted(q)
          /\ \A r \in answers' : r.from = q => r.note \in Noted(q)
          /\ \A m \in Carried(t) : m.from = q => m.note \in Noted(q)
          /\ node.heard[q] \subseteq Noted(q)
      BY <1>1, NotedPlaces DEF Accepting, SameEnvelope
    <3>2. PICK W : W = Noted(q)
      OBVIOUS
    <3>3. Noted(q)' \subseteq W
      BY <1>1, <1>2, <3>1, <3>2, NotedWithin, SMTT(90)
    <3> QED
      BY <3>2, <3>3
  <2>2. /\ \A q \in Honest \ {n} : Noted(q)' \subseteq Noted(q)
        /\ Noted(n)' \subseteq Noted(n)
    BY <1>1, <2>1 DEF Honest
  <2>3. node.store = mem[n].store /\ t.job # "import"
    BY DEF Accepting
  <2>4. node.store.tick <= node.store.tick
    BY <2>3, NodeFacts, SMTT(90)
  <2> QED
    BY <1>1, <1>2, <2>2, <2>3, <2>4, NotesFrame
<1>6. FinalOK'
  <2>1. /\ \A m \in net' : m \in net \/ m.copy
        /\ answers' \subseteq answers
        /\ \A m \in Carried(t) : m \in Carried(task[n]) \/ (m \in net /\ m.to = n)
        /\ t.job = "sync" => Between(t)
    BY DEF Accepting
  <2> QED
    BY <1>1, <1>2, <2>1, FinalFrame
<1> QED
  BY <1>3, <1>4, <1>5, <1>6

\* A request is accepted, and a captured copy of it may stay behind.
LEMMA AuthenticateStep ==
  ASSUME IInv, NEW n \in Honest, NEW m \in net, Authenticate(n, m)
  PROVE  IInv'
<1> USE DEF IInv
<1> DEFINE node == [mem[n] EXCEPT !.inbound[m.from] = m.seq]
           t    == [job |-> "serve", req |-> m]
           copy == [m EXCEPT !.copy = TRUE]
<1>1. /\ n \in Nodes /\ m.from \in Nodes /\ m.seq \in Nat /\ m \in MessageType
      /\ NodeOK(mem[n])
  BY NodeFacts, MessageFields DEF TypesOK
<1>2. /\ mem' = [mem EXCEPT ![n] = node]
      /\ disk' = [disk EXCEPT ![n] = node]
      /\ task' = [task EXCEPT ![n] = t]
      /\ net' \subseteq (net \ {m}) \cup {copy}
      /\ answers' \subseteq answers
      /\ m.to = n
  BY DEF Authenticate, Become, Persist, Turn
<1>3. /\ NodeOK(node)
      /\ node.store = mem[n].store
      /\ node.inbound = [mem[n].inbound EXCEPT ![m.from] = m.seq]
      /\ node.outbound = mem[n].outbound
      /\ node.heard = mem[n].heard
  BY <1>1, InboundChange, SMTT(90)
<1>4. /\ copy \in MessageType /\ copy.copy /\ SameEnvelope(copy, m)
      /\ copy.note = m.note
  BY <1>1 DEF MessageType, RequestType, SameEnvelope
<1>5. /\ t \in ServeType /\ t.job = "serve" /\ t.req = m
  BY <1>1 DEF ServeType
<1> HIDE DEF node, t, copy
<1>6. t \in TaskType /\ Carried(t) = {m} /\ Answering(t) = {}
  BY <1>5 DEF TaskType, Carried, Answering
<1>7. Step(n, node, node, t)
  BY <1>2 DEF Step
<1>8. /\ net' \subseteq MessageType
      /\ \A k \in net' : k \in net \/ k.copy
      /\ \A k \in net' : \E x \in net : SameEnvelope(k, x) /\ k.note = x.note
      /\ \A k, x \in net' : SameEnvelope(k, x) => k = x
      /\ \A k \in net' : ~(~k.copy /\ k.from = m.from /\ k.to = n /\ k.seq = m.seq)
  <2>1. \A k, x \in net : SameEnvelope(k, x) => k = x
    BY DEF CountersOK
  <2>2. \A k \in net : SameEnvelope(k, k)
    BY DEF SameEnvelope
  <2>3. \A k \in net \ {m} : ~SameEnvelope(k, m)
    BY <2>1
  <2>4. \A k \in net' : (k \in net /\ k # m) \/ k = copy
    BY <1>2
  <2>5. net \subseteq MessageType
    BY DEF TypesOK
  <2>6. \A k \in net \ {m} : ~(k.from = m.from /\ k.to = n /\ k.seq = m.seq)
    BY <1>2, <2>3 DEF SameEnvelope
  <2>7. \A k, x \in net' : SameEnvelope(k, x) => k = x
    BY <1>4, <2>1, <2>3, <2>4 DEF SameEnvelope
  <2> QED
    BY <1>4, <2>2, <2>4, <2>5, <2>6, <2>7
<1>9. m.seq <= mem[m.from].outbound[n]
  BY <1>2 DEF CountersOK
<1>10. \A q \in Nodes : node.heard[q] \subseteq Noted(q)
  BY <1>1, <1>3, NotedPlaces
<1>11. TypesOK' /\ CountersOK' /\ NotesOK' /\ FinalOK'
  <2>1. \A x \in Carried(t) : x \in Carried(task[n]) \/ (x \in net /\ x.to = n)
    BY <1>2, <1>6
  <2>2. t.job # "sync" /\ t.job # "import"
    BY <1>5
  <2>3. Accepting(n, node, t, m.from, m.seq)
    BY <1>1, <1>2, <1>3, <1>6, <1>7, <1>8, <1>9, <1>10, <2>1, <2>2 DEF Accepting
  <2> QED
    BY <2>3, InboundStep
<1>12. RecordedOK'
  BY <1>1, <1>6, <1>7, RecordedFrame
<1> QED
  BY <1>11, <1>12

\* What a client turns to when a response has arrived.
Onward(t) ==
  /\ t \in TaskType
  /\ t.job \notin {"serve", "import"}
  /\ Carried(t) = {} /\ Answering(t) = {}
  /\ t.job = "sync" => Between(t)

\* It stops, or goes on without waiting.
LEMMA OnwardTasks ==
  /\ Onward(Idle)
  /\ Onward([job |-> "finish"])
  /\ \A j : Between(j) => Onward(j)
  /\ \A t \in PulledType : Onward(t)
<1>1. \A t : t.job \notin {"serve", "import", "reply"} => Carried(t) = {} /\ Answering(t) = {}
  BY DEF Carried, Answering
<1>2. Onward(Idle) /\ Onward([job |-> "finish"])
  <2>1. Idle.job = "idle" /\ [job |-> "finish"].job = "finish"
    BY DEF Idle
  <2> QED
    BY <1>1, <2>1, SimpleTasks DEF Onward
<1>3. \A j : Between(j) => Onward(j)
  BY <1>1, SimpleTasks DEF Onward, Between
<1>4. \A t \in PulledType : t.job = "pulled" /\ t \in TaskType
  BY DEF PulledType, TaskType
<1>5. \A t \in PulledType : Onward(t)
  BY <1>1, <1>4 DEF Onward
<1> QED
  BY <1>2, <1>3, <1>5

\* Whatever a response brings, the client goes on to one of these tasks.
LEMMA GetTasks ==
  ASSUME IInv, NEW n \in Honest, NEW r \in answers, Get(n, r)
  PROVE  /\ Receive(n, r)
         /\ \E t : Onward(t) /\ task' = [task EXCEPT ![n] = t]
<1> USE DEF IInv
<1> DEFINE j == [task[n] EXCEPT !.waiting = 0]
<1>1. /\ Receive(n, r) /\ r.to = n /\ Awaits(n, r.from, r.conn)
      /\ task[n].job = "sync"
  BY DEF Get, GetInventory, GetPull, GetPush, GetFinal, Receive, Awaits
<1>2. /\ n \in Nodes /\ task[n] \in SyncType /\ StoreOK(mem[n].store)
      /\ r.list \in Seq(Shares) /\ r.next \in Nat
  BY <1>1, NodeFacts, TaskCases DEF TypesOK, AnswerType
<1>3. /\ j \in SyncType /\ j.waiting = 0
      /\ j.phase = task[n].phase /\ j.seen = task[n].seen
      /\ j.seen \in Seq(Shares) /\ j.queue \in Seq(Shares) /\ j.cursor \in Nat
      /\ j.queue = task[n].queue
  BY <1>2 DEF SyncType
<1>4. CASE GetInventory(n, r)
  <2> DEFINE seen == j.seen \o r.list
             i    == [j EXCEPT !.seen = seen, !.cursor = r.next]
             k    == [j EXCEPT !.seen = seen, !.cursor = 0]
             t    == IF ~IsInjective(seen) THEN Idle
                     ELSE IF r.next # 0 THEN i ELSE PullPhase(k, mem[n].store)
  <2>1. task' = [task EXCEPT ![n] = t] /\ j.phase = "inventory"
    BY <1>4 DEF GetInventory, Turn
  <2> HIDE DEF j
  <2>2. seen \in Seq(Shares)
    BY <1>2, <1>3, SMTT(90)
  <2> HIDE DEF seen
  <2>3. /\ i \in SyncType /\ i.waiting = 0 /\ i.phase = "inventory"
        /\ k \in SyncType /\ k.waiting = 0
    BY <1>2, <1>3, <2>1, <2>2 DEF SyncType
  <2> HIDE DEF i, k
  <2>4. Between(i) /\ Between(PullPhase(k, mem[n].store))
    <3>1. Between(PullPhase(k, mem[n].store))
      BY <1>2, <2>3, PhasesTyped
    <3> QED
      BY <2>3, <3>1 DEF Between
  <2>5. Onward(t)
    BY <2>4, OnwardTasks
  <2> QED
    BY <1>1, <2>1, <2>5
<1>5. CASE GetPull(n, r)
  <2> DEFINE rest == [j EXCEPT !.queue = Rest(@)]
             pulled == [job |-> "pulled", todo |-> r.list, then |-> rest]
             t == IF r.list # Batch(j.queue) THEN Idle ELSE pulled
  <2>1. task' = [task EXCEPT ![n] = t] /\ j.phase = "pull"
    BY <1>5 DEF GetPull, Turn
  <2> HIDE DEF j
  <2>2. Batch(j.queue) \in BatchType /\ Rest(j.queue) \in Seq(Shares)
    BY <1>3, BatchTyped
  <2>3. rest \in PullingType
    BY <1>3, <2>1, <2>2 DEF SyncType, PullingType
  <2> HIDE DEF rest
  <2>4. r.list = Batch(j.queue) => pulled \in PulledType
    BY <2>2, <2>3 DEF PulledType
  <2> HIDE DEF pulled
  <2>5. Onward(t)
    BY <2>4, OnwardTasks
  <2> QED
    BY <1>1, <2>1, <2>5
<1>6. CASE GetPush(n, r)
  <2> DEFINE k == [task[n] EXCEPT !.waiting = 0, !.queue = Rest(@)]
             t == IF k.queue = <<>> THEN FinalPhase(k) ELSE k
  <2>1. task' = [task EXCEPT ![n] = t] /\ k.phase = "push"
    BY <1>6 DEF GetPush, Turn
  <2>2. Rest(task[n].queue) \in Seq(Shares)
    BY <1>3, BatchTyped
  <2>3. k \in SyncType /\ k.waiting = 0
    BY <1>2, <2>2 DEF SyncType
  <2> HIDE DEF k
  <2>4. Between(k) /\ Between(FinalPhase(k))
    <3>1. Between(FinalPhase(k))
      BY <1>2, <2>3, PhasesTyped
    <3> QED
      BY <2>1, <2>3, <3>1 DEF Between
  <2>5. Onward(t)
    BY <2>4, OnwardTasks
  <2> QED
    BY <1>1, <2>1, <2>5
<1>7. CASE GetFinal(n, r)
  <2> DEFINE seen == j.seen \o r.list
             i == [j EXCEPT !.seen = seen, !.cursor = r.next]
             t == IF r.next # 0 THEN i
                  ELSE IF Converges(n, r) THEN [job |-> "finish"] ELSE Idle
  <2>1. task' = [task EXCEPT ![n] = t] /\ j.phase = "final"
    BY <1>7 DEF GetFinal, Turn
  <2> HIDE DEF j
  <2>2. r.next # 0 => r.list # <<>>
    BY <1>1, <1>3, <2>1 DEF FinalOK
  <2>3. seen \in Seq(Shares) /\ (r.list # <<>> => seen # <<>>)
    BY <1>2, <1>3, SMTT(90)
  <2> HIDE DEF seen
  <2>4. i \in SyncType /\ i.waiting = 0 /\ i.seen = seen
    BY <1>2, <1>3, <2>3 DEF SyncType
  <2> HIDE DEF i
  <2>5. r.next # 0 => Between(i)
    BY <2>2, <2>3, <2>4 DEF Between
  <2>6. Onward(t)
    BY <2>5, OnwardTasks
  <2> QED
    BY <1>1, <2>1, <2>6
<1> QED
  BY <1>4, <1>5, <1>6, <1>7 DEF Get

\* A response is accepted: the announcement in it comes from a member that
\* runs this code, so it conflicts with nothing.
LEMMA ReceiveStep ==
  ASSUME IInv, NEW n \in Honest, NEW r \in answers, Get(n, r)
  PROVE  IInv'
<1> USE DEF IInv
<1> DEFINE base == [mem[n] EXCEPT !.inbound[r.from] = r.seq]
           node == Observe(base, r.from, r.note, r.seq)
<1>1. PICK t : Onward(t) /\ task' = [task EXCEPT ![n] = t]
  BY GetTasks
<1>2. /\ mem' = [mem EXCEPT ![n] = node]
      /\ disk' = [disk EXCEPT ![n] = node]
      /\ net' = net /\ answers' \subseteq answers
      /\ r.to = n
  BY GetTasks DEF Receive, Become, Persist
<1>3. /\ n \in Nodes /\ NodeOK(mem[n])
      /\ r.from \in Honest /\ r.from \in Nodes /\ r.seq \in Nat /\ r.note \in NoteType
  BY NodeFacts, MessageFields
<1>4. /\ NodeOK(base)
      /\ base.store = mem[n].store
      /\ base.inbound = [mem[n].inbound EXCEPT ![r.from] = r.seq]
      /\ base.outbound = mem[n].outbound
      /\ base.heard = mem[n].heard
      /\ base.evidence = mem[n].evidence
  BY <1>3, InboundChange
<1> HIDE DEF base
<1>5. r.note \in Noted(r.from)
  BY NotedPlaces
<1>6. Conflicts(base, r.from, r.note) = {}
  <2>1. Conflicts(mem[n], r.from, r.note) = {}
    BY <1>3, <1>5, HonestNotesAgree
  <2> QED
    BY <1>4, <2>1 DEF Conflicts
<1>7. /\ NodeOK(node)
      /\ node.store = base.store
      /\ node.inbound = base.inbound
      /\ node.outbound = base.outbound
      /\ node.heard = [base.heard EXCEPT ![r.from] = Remember(@, r.note)]
  <2>1. Observed(base, r.from, r.note, r.seq, node)
    BY <1>3, <1>4, <1>6, ObserveOK
  <2> HIDE DEF node
  <2> QED
    BY <2>1 DEF Observed
<1> HIDE DEF node
<1>8. \A q \in Nodes : node.heard[q] \subseteq Noted(q)
  <2>1. /\ mem[n].heard \in [Nodes -> SUBSET NoteType]
        /\ HeardOK(mem[n].heard[r.from])
    BY <1>3 DEF NodeOK, NodeType
  <2>2. mem[n].heard[r.from] \in SUBSET NoteType
    BY <1>3, <2>1
  <2>3. Remember(mem[n].heard[r.from], r.note) \subseteq mem[n].heard[r.from] \cup {r.note}
    BY <1>3, <2>1, <2>2, RememberOK
  <2>4. \A q \in Nodes : mem[n].heard[q] \subseteq Noted(q)
    BY <1>3, NotedPlaces
  <2>5. /\ node.heard[r.from] = Remember(mem[n].heard[r.from], r.note)
        /\ \A q \in Nodes : q # r.from => node.heard[q] = mem[n].heard[q]
    BY <1>3, <1>4, <1>7, <2>1
  <2> QED
    BY <1>5, <2>3, <2>4, <2>5, SMTT(90)
<1>9. Step(n, node, node, t)
  BY <1>1, <1>2 DEF Step
<1>10. r.seq <= mem[r.from].outbound[n]
  BY <1>2 DEF CountersOK
<1>11. /\ net' \subseteq MessageType
       /\ \A k \in net' : k \in net \/ k.copy
       /\ \A k \in net' : \E m \in net : SameEnvelope(k, m) /\ k.note = m.note
       /\ \A k, m \in net' : SameEnvelope(k, m) => k = m
       /\ \A k \in net' : ~(~k.copy /\ k.from = r.from /\ k.to = n /\ k.seq = r.seq)
  <2>1. \A k \in net : SameEnvelope(k, k)
    BY DEF SameEnvelope
  <2>2. \A k \in net : ~(k.from = r.from /\ k.to = n /\ k.seq = r.seq)
    BY <1>2 DEF CountersOK, SameEnvelope
  <2>3. net \subseteq MessageType /\ \A k, m \in net : SameEnvelope(k, m) => k = m
    BY DEF TypesOK, CountersOK
  <2> QED
    BY <1>2, <2>1, <2>2, <2>3
<1>12. /\ t \in TaskType /\ t.job # "import" /\ (t.job = "sync" => Between(t))
       /\ Carried(t) = {} /\ Answering(t) = {}
  BY <1>1 DEF Onward
<1>13. TypesOK' /\ CountersOK' /\ NotesOK' /\ FinalOK'
  <2>1. /\ NodeOK(node) /\ node.store = mem[n].store
        /\ node.inbound = [mem[n].inbound EXCEPT ![r.from] = r.seq]
        /\ node.outbound = mem[n].outbound
        /\ \A m \in Carried(t) : m \in Carried(task[n]) \/ (m \in net /\ m.to = n)
        /\ answers' \subseteq answers
    BY <1>2, <1>4, <1>7, <1>12
  <2> QED
    <3>1. Accepting(n, node, t, r.from, r.seq)
      BY <1>3, <1>8, <1>9, <1>10, <1>11, <1>12, <2>1 DEF Accepting
    <3> QED
      BY <3>1, InboundStep
<1>14. RecordedOK'
  BY <1>3, <1>9, <1>12, RecordedFrame
<1> QED
  BY <1>13, <1>14
=============================================================================
