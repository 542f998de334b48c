--------------------------- MODULE ShareSyncProofs --------------------------
(***************************************************************************)
(* What synchronization keeps, proved for every peer table, every set of   *)
(* shares and every limit.                                                 *)
(***************************************************************************)
EXTENDS ShareSyncSteps

\* leaves are left to Zenon; the ones with arithmetic or records cite SMT
USE ZenonT(60)
-----------------------------------------------------------------------------
(* The steps that send *)

\* A step that sends m to q under the next sequence number: a request, or a
\* response on a connection that may be closed by now.
Sends(n, q, node, d, t, m) ==
  /\ Step(n, node, d, t)
  /\ node.inbound = mem[n].inbound
  /\ node.outbound = [mem[n].outbound EXCEPT ![q] = @ + 1]
  /\ n \in Honest => d = node
  /\ m.from = n /\ m.to = q /\ m.seq = mem[n].outbound[q] + 1
  /\ \/ net' = net \cup {m} /\ answers' = answers
     \/ /\ net' = net /\ answers' \subseteq answers \cup {m}
        /\ m.conn \in Nat /\ 0 < m.conn /\ m.conn <= mem[q].outbound[n]
  /\ Carried(t) = {}
  /\ t.job = "sync" => t.waiting = 0 \/ (t.peer = q /\ t.waiting = m.seq)

\* Who awaits what after such a step.
LEMMA SendsAwaits ==
  ASSUME TypesOK, CountersOK, NEW n \in Nodes, NEW q \in Nodes,
         NEW node, NEW d, NEW t, NEW m, Sends(n, q, node, d, t, m)
  PROVE  /\ \A k, p \in Nodes, x \in Nat : (x > 0 /\ Awaits(k, p, x)') =>
              \/ k # n /\ Awaits(k, p, x) /\ task'[k] = task[k]
              \/ k = n /\ p = q /\ x = mem[n].outbound[q] + 1
         /\ \A k \in net : ~(k.from = n /\ k.to = q /\ k.seq = mem[n].outbound[q] + 1)
         /\ \A r \in answers : ~(r.from = n /\ r.to = q /\ r.seq = mem[n].outbound[q] + 1)
         /\ \A r \in answers : ~(r.to = n /\ r.from = q /\ r.conn = mem[n].outbound[q] + 1)
         /\ \A k \in Nodes : \A x \in Carried(task[k]) :
              ~(x.from = n /\ k = q /\ x.seq = mem[n].outbound[q] + 1)
<1>1. mem[n].outbound[q] \in Nat
  BY MessageFields
<1>2. /\ Step(n, node, d, t)
      /\ t.job = "sync" => t.waiting = 0 \/ (t.peer = q /\ t.waiting = mem[n].outbound[q] + 1)
  BY DEF Sends
<1>3. \A k, p \in Nodes, x \in Nat : (x > 0 /\ Awaits(k, p, x)') =>
        \/ k # n /\ Awaits(k, p, x) /\ task'[k] = task[k]
        \/ k = n /\ p = q /\ x = mem[n].outbound[q] + 1
  BY <1>1, <1>2, StepAt, SMTT(90) DEF Awaits
<1>4. \A k \in net : ~(k.from = n /\ k.to = q /\ k.seq = mem[n].outbound[q] + 1)
  BY <1>1, SMTT(90) DEF CountersOK
<1>5. \A r \in answers : ~(r.from = n /\ r.to = q /\ r.seq = mem[n].outbound[q] + 1)
  BY <1>1, SMTT(90) DEF CountersOK
<1>6. \A r \in answers : ~(r.to = n /\ r.from = q /\ r.conn = mem[n].outbound[q] + 1)
  BY <1>1, SMTT(90) DEF CountersOK
<1>7. \A k \in Nodes : \A x \in Carried(task[k]) :
        ~(x.from = n /\ k = q /\ x.seq = mem[n].outbound[q] + 1)
  BY <1>1, SMTT(90) DEF CountersOK
<1> QED
  BY <1>3, <1>4, <1>5, <1>6, <1>7

\* Counters stay in order: the number that is used is new and is saved.
LEMMA SendsCounters ==
  ASSUME TypesOK, CountersOK, NEW n \in Nodes, NEW q \in Nodes,
         NEW node, NEW d, NEW t, NEW m, Sends(n, q, node, d, t, m)
  PROVE  CountersOK'
<1> DEFINE seq == mem[n].outbound[q] + 1
<1>1. /\ Step(n, node, d, t)
      /\ m.from = n /\ m.to = q /\ m.seq = seq
      /\ Carried(t) = {}
      /\ t.job = "sync" => t.waiting = 0 \/ (t.peer = q /\ t.waiting = seq)
      /\ \A k \in net' : k \in net \/ k = m
      /\ \A r \in answers' : r \in answers \/ r = m
      /\ \/ \A r \in answers' : r \in answers
         \/ /\ \A k \in net' : k \in net
            /\ m.conn \in Nat /\ 0 < m.conn /\ m.conn <= mem[q].outbound[n]
  BY DEF Sends
<1>2. /\ \A k, p \in Nodes : mem[k].inbound[p] \in Nat /\ mem[k].outbound[p] \in Nat
      /\ mem[n].outbound \in [Nodes -> Nat] /\ seq \in Nat
  BY SMTT(90) DEF TypesOK, NodeType
<1>3. /\ \A k \in Nodes : mem'[k].inbound = mem[k].inbound
      /\ \A k \in Nodes \ {n} : mem'[k].outbound = mem[k].outbound
      /\ mem'[n].outbound = [mem[n].outbound EXCEPT ![q] = seq]
  BY <1>1, StepAt, SMTT(90) DEF Sends
<1>4. /\ \A k, p \in Nodes : mem'[k].outbound[p] \in Nat
                               /\ mem[k].outbound[p] <= mem'[k].outbound[p]
      /\ mem'[n].outbound[q] = seq
      /\ \A k, p \in Nodes : k # n \/ p # q => mem'[k].outbound[p] = mem[k].outbound[p]
  BY <1>2, <1>3, SMTT(90)
<1>5. \A k \in Honest : /\ disk'[k].inbound = mem'[k].inbound
                        /\ disk'[k].outbound = mem'[k].outbound
  BY <1>1, StepAt, SMTT(90) DEF CountersOK, Honest, Sends
<1>6. \A p, k \in Nodes : mem'[k].inbound[p] <= mem'[p].outbound[k]
  <2> SUFFICES ASSUME NEW p \in Nodes, NEW k \in Nodes
               PROVE  mem'[k].inbound[p] <= mem'[p].outbound[k]
    OBVIOUS
  <2>1. mem[k].inbound[p] <= mem[p].outbound[k]
    BY DEF CountersOK
  <2>2. mem'[k].inbound[p] = mem[k].inbound[p] /\ mem[p].outbound[k] <= mem'[p].outbound[k]
    BY <1>3, <1>4
  <2> QED
    BY <1>2, <1>4, <2>1, <2>2, SMTT(90)
<1>7. \A k \in net' : k.seq <= mem'[k.from].outbound[k.to]
  <2>1. \A k \in net : k.seq <= mem'[k.from].outbound[k.to]
    BY <1>2, <1>4, MessageFields, SMTT(90) DEF CountersOK
  <2> QED
    BY <1>1, <1>2, <1>4, <2>1, SMTT(90)
<1>8. \A k \in Nodes : \A x \in Carried(task'[k]) :
        x.to = k /\ x.seq <= mem'[x.from].outbound[k]
  <2>1. \A k \in Nodes : \A x \in Carried(task[k]) :
          x.to = k /\ x.seq <= mem'[x.from].outbound[k]
    BY <1>2, <1>4, MessageFields, SMTT(90) DEF CountersOK
  <2>2. /\ mem'[n] = node /\ disk'[n] = d /\ task'[n] = t
        /\ \A k \in Nodes \ {n} :
             mem'[k] = mem[k] /\ disk'[k] = disk[k] /\ task'[k] = task[k]
    BY <1>1, StepAt
  <2>3. Carried(t) = {}
    BY <1>1
  <2> QED
    BY <2>1, <2>2, <2>3
<1>9. \A r \in answers' : /\ r.seq <= mem'[r.from].outbound[r.to]
                          /\ 0 < r.conn
                          /\ r.conn <= mem'[r.to].outbound[r.from]
  <2>1. \A r \in answers : /\ r.seq <= mem'[r.from].outbound[r.to]
                           /\ 0 < r.conn
                           /\ r.conn <= mem'[r.to].outbound[r.from]
    BY <1>2, <1>4, MessageFields, SMTT(90) DEF CountersOK
  <2>2. m \in answers' /\ m \notin answers =>
          /\ m.seq <= mem'[m.from].outbound[m.to]
          /\ 0 < m.conn /\ m.conn <= mem'[m.to].outbound[m.from]
    BY <1>1, <1>2, <1>4, SMTT(90)
  <2> QED
    BY <1>1, <2>1, <2>2
<1> HIDE DEF seq
<1>10. /\ \A k, p \in Nodes, x \in Nat : (x > 0 /\ Awaits(k, p, x)') =>
            \/ k # n /\ Awaits(k, p, x) /\ task'[k] = task[k]
            \/ k = n /\ p = q /\ x = seq
       /\ \A k \in net : ~(k.from = n /\ k.to = q /\ k.seq = seq)
       /\ \A r \in answers : ~(r.from = n /\ r.to = q /\ r.seq = seq)
       /\ \A r \in answers : ~(r.to = n /\ r.from = q /\ r.conn = seq)
  BY SendsAwaits DEF seq
<1>11. /\ \A k, x \in net' : SameEnvelope(k, x) => k = x
       /\ \A k \in net', r \in answers' : ~SameEnvelope(k, r)
  <2>1. /\ \A k, x \in net : SameEnvelope(k, x) => k = x
        /\ \A k \in net, r \in answers : ~SameEnvelope(k, r)
    BY DEF CountersOK
  <2>2. /\ \A k \in net : ~SameEnvelope(k, m) /\ ~SameEnvelope(m, k)
        /\ \A r \in answers : ~SameEnvelope(m, r)
    BY <1>1, <1>10 DEF SameEnvelope
  <2>3. (\A r \in answers' : r \in answers) \/ (\A k \in net' : k \in net)
    BY <1>1
  <2> QED
    BY <1>1, <2>1, <2>2, <2>3
<1>12. \A k \in Nodes : (task'[k].job = "sync" /\ task'[k].waiting # 0)
                          => task'[k].waiting = mem'[k].outbound[task'[k].peer]
  <2>1. \A k \in Nodes \ {n} : task'[k] = task[k] /\ mem'[k].outbound = mem[k].outbound
    BY <1>1, <1>3, StepAt, SMTT(90)
  <2>2. \A k \in Nodes : (task[k].job = "sync" /\ task[k].waiting # 0)
                          => task[k].waiting = mem[k].outbound[task[k].peer]
    BY DEF CountersOK
  <2>3. task'[n] = t
    BY <1>1, StepAt, SMTT(90)
  <2> QED
    BY <1>1, <1>4, <2>1, <2>2, <2>3, SMTT(90)
<1>13. mem'[q].inbound[n] < seq
  BY <1>2, <1>3, SMTT(90) DEF CountersOK, seq
<1>14. \A k \in net' : ~k.copy /\ Awaits(k.from, k.to, k.seq)'
                           => k.seq > mem'[k.to].inbound[k.from]
  <2> SUFFICES ASSUME NEW k \in net', ~k.copy, Awaits(k.from, k.to, k.seq)'
               PROVE  k.seq > mem'[k.to].inbound[k.from]
    OBVIOUS
  <2>1. CASE k = m
    BY <1>1, <1>2, <1>3, <1>13, <2>1
  <2>2. CASE k \in net
    <3>1. k.from \in Nodes /\ k.to \in Nodes /\ k.seq \in Nat /\ k.seq > 0
      BY <2>2, MessageFields
    <3>2. Awaits(k.from, k.to, k.seq)
      BY <1>10, <2>2, <3>1
    <3> QED
      BY <1>3, <2>2, <3>1, <3>2 DEF CountersOK, LiveNeverReplay, Authentic
  <2> QED
    BY <1>1, <2>1, <2>2
<1>15. \A r \in answers' : Awaits(r.to, r.from, r.conn)'
                               => r.seq > mem'[r.to].inbound[r.from]
  <2> SUFFICES ASSUME NEW r \in answers', Awaits(r.to, r.from, r.conn)'
               PROVE  r.seq > mem'[r.to].inbound[r.from]
    OBVIOUS
  <2>1. CASE r = m
    BY <1>1, <1>2, <1>3, <1>13, <2>1
  <2>2. CASE r \in answers
    <3>1. r.from \in Nodes /\ r.to \in Nodes /\ r.conn \in Nat /\ r.conn > 0
      BY <2>2, MessageFields DEF CountersOK
    <3>2. Awaits(r.to, r.from, r.conn)
      BY <1>10, <2>2, <3>1
    <3> QED
      BY <1>3, <2>2, <3>1, <3>2 DEF CountersOK, LiveNeverReplay, Authentic
  <2> QED
    BY <1>1, <2>1, <2>2
<1>16. LiveNeverReplay'
  BY <1>14, <1>15 DEF LiveNeverReplay, Authentic
<1> QED
  BY <1>5, <1>6, <1>7, <1>8, <1>9, <1>11, <1>12, <1>16
     DEF CountersOK, SameEnvelope, Carried, Answering

\* The last inventory after such a step: a request fits the task that sends
\* it, and a response that is awaited meets what is known of responses.
LEMMA SendsFinal ==
  ASSUME TypesOK, CountersOK, FinalOK, NEW n \in Nodes, NEW q \in Nodes,
         NEW node, NEW d, NEW t, NEW m, Sends(n, q, node, d, t, m),
         (t.job = "sync" /\ t.phase = "final" /\ t.seen = <<>>) => t.cursor = 0,
         (m \in net' /\ t.job = "sync" /\ t.waiting = m.seq) => Fits(m, t),
         (m \in answers' /\ Awaits(q, n, m.conn) /\ task[q].phase = "final")
           => /\ m.next # 0 => m.list # <<>>
              /\ (m.next = 0 /\ task[q].seen = <<>>) => WholeInventory(m)
  PROVE  FinalOK'
<1> DEFINE seq == mem[n].outbound[q] + 1
<1>1. /\ Step(n, node, d, t)
      /\ m.from = n /\ m.to = q /\ m.seq = seq
      /\ Carried(t) = {}
      /\ \A k \in net' : k \in net \/ k = m
      /\ \A r \in answers' : r \in answers \/ r = m
      /\ m \in answers' /\ m \notin answers
           => m.conn \in Nat /\ 0 < m.conn /\ m.conn <= mem[q].outbound[n]
  BY DEF Sends
<1>2. mem[n].outbound[q] \in Nat /\ seq \in Nat /\ seq > 0
  BY MessageFields, SMTT(90)
<1>3. task'[n] = t /\ \A k \in Nodes \ {n} : task'[k] = task[k]
  <2>1. /\ mem'[n] = node /\ disk'[n] = d /\ task'[n] = t
        /\ \A k \in Nodes \ {n} :
             mem'[k] = mem[k] /\ disk'[k] = disk[k] /\ task'[k] = task[k]
    BY <1>1, StepAt
  <2> QED
    BY <2>1
<1> HIDE DEF seq
<1>4. /\ \A k, p \in Nodes, x \in Nat : (x > 0 /\ Awaits(k, p, x)') =>
           \/ k # n /\ Awaits(k, p, x) /\ task'[k] = task[k]
           \/ k = n /\ p = q /\ x = seq
      /\ \A k \in net : ~(k.from = n /\ k.to = q /\ k.seq = seq)
      /\ \A r \in answers : ~(r.to = n /\ r.from = q /\ r.conn = seq)
      /\ \A k \in Nodes : \A x \in Carried(task[k]) :
           ~(x.from = n /\ k = q /\ x.seq = seq)
  BY SendsAwaits, SMTT(90) DEF seq
<1>5. \A k \in net' : ~k.copy /\ Awaits(k.from, k.to, k.seq)' => Fits(k, task'[k.from])
  <2>1. \A k \in net : ~k.copy /\ Awaits(k.from, k.to, k.seq)' => Fits(k, task'[k.from])
    BY <1>4, MessageFields DEF FinalOK
  <2>2. m \in net' /\ Awaits(n, q, m.seq)' => Fits(m, task'[n])
    BY <1>1, <1>3 DEF Awaits
  <2> QED
    BY <1>1, <2>1, <2>2
<1>6. \A k \in Nodes : \A x \in Carried(task'[k]) :
        ~x.copy /\ Awaits(x.from, k, x.seq)' => Fits(x, task'[x.from])
  <2>1. \A k \in Nodes : \A x \in Carried(task'[k]) : x \in Carried(task[k])
    BY <1>1, <1>3
  <2> QED
    BY <1>4, <2>1, MessageFields DEF FinalOK
<1>7. \A k \in Nodes : (task'[k].job = "sync" /\ task'[k].phase = "final"
                          /\ task'[k].seen = <<>>) => task'[k].cursor = 0
  BY <1>3 DEF FinalOK
<1>8. \A r \in answers' :
        (Awaits(r.to, r.from, r.conn)' /\ task'[r.to].phase = "final")
          => /\ r.next # 0 => r.list # <<>>
             /\ (r.next = 0 /\ task'[r.to].seen = <<>>) => WholeInventory(r)
  <2> SUFFICES ASSUME NEW r \in answers', Awaits(r.to, r.from, r.conn)',
                      task'[r.to].phase = "final"
               PROVE  /\ r.next # 0 => r.list # <<>>
                      /\ (r.next = 0 /\ task'[r.to].seen = <<>>) => WholeInventory(r)
    OBVIOUS
  <2>1. CASE r \in answers
    <3>1. r.to \in Nodes /\ r.from \in Nodes /\ r.conn \in Nat /\ r.conn > 0
      BY <2>1, MessageFields DEF CountersOK
    <3>2. Awaits(r.to, r.from, r.conn) /\ task'[r.to] = task[r.to]
      BY <1>4, <2>1, <3>1
    <3> QED
      BY <2>1, <3>2 DEF FinalOK
  <2>2. CASE r = m /\ m \notin answers
    <3>1. m.conn \in Nat /\ m.conn > 0 /\ m.conn <= mem[q].outbound[n]
      BY <1>1, <2>2
    <3>2. ~(q = n /\ m.conn = seq)
      BY <1>2, <3>1, SMTT(90) DEF seq
    <3>3. Awaits(q, n, m.conn) /\ task'[q] = task[q]
      BY <1>1, <1>4, <2>2, <3>1, <3>2
    <3> QED
      BY <1>1, <2>2, <3>3
  <2> QED
    BY <1>1, <2>1, <2>2
<1> QED
  BY <1>5, <1>6, <1>7, <1>8 DEF FinalOK

\* Such a step keeps the invariant when an honest sender announces the store
\* it has just saved.
LEMMA SendsStep ==
  ASSUME IInv, NEW n \in Nodes, NEW q \in Nodes,
         NEW node, NEW d, NEW t \in TaskType, NEW m, Sends(n, q, node, d, t, m),
         NodeOK(node), NodeOK(d), n \in Faulty => t = Idle,
         net' \subseteq MessageType, answers' \subseteq AnswerType,
         node.store = mem[n].store, node.heard = mem[n].heard,
         d = node \/ d = disk[n],
         n \in Honest => m.note = Announcement(mem[n]),
         t.job # "import",
         (t.job = "sync" /\ t.phase = "final" /\ t.seen = <<>>) => t.cursor = 0,
         (m \in net' /\ t.job = "sync" /\ t.waiting = m.seq) => Fits(m, t),
         (m \in answers' /\ Awaits(q, n, m.conn) /\ task[q].phase = "final")
           => /\ m.next # 0 => m.list # <<>>
              /\ (m.next = 0 /\ task[q].seen = <<>>) => WholeInventory(m)
  PROVE  IInv'
<1>1. TypesOK /\ CountersOK /\ NotesOK /\ FinalOK /\ RecordedOK
  BY DEF IInv
<1>2. /\ Step(n, node, d, t)
      /\ m.from = n
      /\ Carried(t) = {}
      /\ \A k \in net' : k \in net \/ k = m
      /\ \A r \in answers' : r \in answers \/ r = m
      /\ n \in Honest => d = node
  BY DEF Sends
<1>3. TypesOK'
  BY <1>1, <1>2, TypesFrame
<1>4. CountersOK'
  BY <1>1, SendsCounters
<1>5. NotesOK'
  <2>1. ASSUME NEW p \in Nodes, NEW W, Noted(p) \subseteq W, p = n => m.note \in W
        PROVE  Noted(p)' \subseteq W
    <3>1. /\ \A k \in net' : k.from = p => k.note \in W
          /\ \A r \in answers' : r.from = p => r.note \in W
          /\ \A k \in Carried(t) : k.from = p => k.note \in W
          /\ node.heard[p] \subseteq W /\ d.heard[p] \subseteq W
      BY <1>2, <2>1, NotedPlaces
    <3>2. TypesOK /\ Step(n, node, d, t) /\ n \in Nodes /\ p \in Nodes /\ Noted(p) \subseteq W
      BY <1>1, <1>2, <2>1
    <3> QED
      BY ONLY <3>1, <3>2, NotedWithin
  <2>2. ASSUME NEW p \in Nodes, p # n PROVE Noted(p)' \subseteq Noted(p)
    <3>1. PICK W : W = Noted(p)
      OBVIOUS
    <3>2. Noted(p)' \subseteq W
      BY <2>1, <2>2, <3>1
    <3> QED
      BY <3>1, <3>2
  <2>3. n \in Honest => Noted(n)' \subseteq Noted(n) \cup {Announcement(mem[n])}
    <3>1. PICK W : W = Noted(n) \cup {Announcement(mem[n])}
      OBVIOUS
    <3>2. n \in Honest => Noted(n)' \subseteq W
      BY <2>1, <3>1
    <3> QED
      BY <3>1, <3>2
  <2>4. \A p \in Honest \ {n} : Noted(p)' \subseteq Noted(p)
    BY <2>2 DEF Honest
  <2>5. n \in Honest => /\ d.store = mem[n].store /\ d.store = node.store
                         /\ d.store.tick <= node.store.tick
    <3>1. n \in Honest => mem[n].store.tick \in Nat
      BY <1>1, NodeFacts
    <3>2. n \in Honest => mem[n].store.tick <= mem[n].store.tick
      BY ONLY <3>1
    <3> QED
      BY <1>2, <3>2
  <2> QED
    BY <1>1, <1>2, <2>3, <2>4, <2>5, NotesFrame
<1>6. FinalOK'
  BY <1>1, SendsFinal
<1>7. RecordedOK'
  <2>1. Answering(t) = {}
    BY <1>2, CarriedTyped
  <2> QED
    BY <1>1, <1>2, <2>1, RecordedFrame
<1> QED
  BY <1>3, <1>4, <1>5, <1>6, <1>7 DEF IInv

\* A client sends the next request of its sync.
LEMMA SendStep ==
  ASSUME IInv, NEW n \in Honest, Send(n)
  PROVE  IInv'
<1> DEFINE j == task[n]
           q == j.peer
           node == NextOutbound(mem[n], q)
           seq == node.outbound[q]
           m == Request(n, j, seq)
           t == [j EXCEPT !.waiting = seq]
<1>1. TypesOK /\ CountersOK /\ NotesOK /\ FinalOK
  BY DEF IInv
<1>2. /\ n \in Nodes /\ n \notin Faulty /\ NodeOK(mem[n])
      /\ j \in SyncType /\ q \in Nodes
  <2>1. j \in SyncType
    BY <1>1, NodeFacts, TaskCases DEF Send
  <2> QED
    BY <1>1, <2>1, NodeFacts DEF SyncType, Honest
<1>3. /\ mem' = [mem EXCEPT ![n] = node]
      /\ disk' = [disk EXCEPT ![n] = node]
      /\ task' = [task EXCEPT ![n] = t]
      /\ net' = net \cup {m} /\ answers' = answers
  BY DEF Send, Become, Persist, Turn
<1>4. /\ NodeOK(node)
      /\ node.store = mem[n].store
      /\ node.inbound = mem[n].inbound
      /\ node.outbound = [mem[n].outbound EXCEPT ![q] = @ + 1]
      /\ node.heard = mem[n].heard
  BY <1>2, OutboundChange
<1>5. seq = mem[n].outbound[q] + 1 /\ seq \in Nat /\ seq > 0
  <2>1. mem[n].outbound \in [Nodes -> Nat]
    BY <1>2 DEF NodeOK, NodeType
  <2> HIDE DEF q, node
  <2> QED
    BY <1>2, <1>4, <2>1, SMTT(90)
<1>6. /\ t \in SyncType /\ t.job = "sync" /\ t.peer = q /\ t.waiting = seq
      /\ t.phase = j.phase /\ t.cursor = j.cursor /\ t.seen = j.seen
  <2> HIDE DEF q, node, seq
  <2> QED
    BY <1>2, <1>5 DEF SyncType, q
<1>7. /\ m \in MessageType
      /\ m.from = n /\ m.to = q /\ m.seq = seq /\ m.note = Announcement(mem[n])
      /\ Fits(m, t)
  <2>1. Announcement(mem[n]) \in NoteType /\ Batch(j.queue) \in BatchType
    BY <1>2, AnnouncementTyped, BatchTyped DEF SyncType
  <2>2. Batch(j.queue) \in Seq(Shares)
    BY <2>1 DEF BatchType
  <2> HIDE DEF seq, node
  <2>3. m \in RequestType
    BY <1>2, <1>5, <2>1, <2>2 DEF Request, RequestType, SyncType
  <2> QED
    BY <1>5, <1>6, <2>1, <2>3 DEF Request, MessageType, Fits
<1>8. t \in TaskType /\ Carried(t) = {} /\ t.job # "import"
  <2> HIDE DEF t
  <2> QED
    BY <1>6 DEF TaskType, Carried, Answering
<1> HIDE DEF node, seq, t, m
<1>9. Sends(n, q, node, node, t, m)
  BY <1>3, <1>4, <1>5, <1>6, <1>7, <1>8 DEF Sends, Step
<1>10. net' \subseteq MessageType /\ answers' \subseteq AnswerType
  BY <1>1, <1>3, <1>7 DEF TypesOK
<1>11. (t.job = "sync" /\ t.phase = "final" /\ t.seen = <<>>) => t.cursor = 0
  BY <1>1, <1>2, <1>6 DEF FinalOK, SyncType
<1>12. m \in answers' => m \in answers /\ m.from = n /\ m.to = q /\ m.seq = seq
  BY <1>3, <1>7
<1> HIDE DEF q
<1>13. m \notin answers'
  <2>1. \A r \in answers : r.seq <= mem[r.from].outbound[r.to]
    BY <1>1 DEF CountersOK
  <2>2. mem[n].outbound[q] \in Nat
    BY <1>1, <1>2, MessageFields
  <2> QED
    BY <1>5, <1>12, <2>1, <2>2, SMTT(90)
<1> QED
  BY <1>2, <1>4, <1>7, <1>8, <1>9, <1>10, <1>11, <1>13, SendsStep

\* A handler saves its state and answers; what it lists is a page of its
\* store, or the shares that were asked for.
LEMMA ReplyStep ==
  ASSUME IInv, NEW n \in Honest, Reply(n)
  PROVE  IInv'
<1> DEFINE k == task[n].req
           q == k.from
           node == NextOutbound(mem[n], q)
           seq == node.outbound[q]
           m == Response(n, k, seq)
<1>1. TypesOK /\ CountersOK /\ NotesOK /\ FinalOK
  BY DEF IInv
<1>2. /\ n \in Nodes /\ n \notin Faulty /\ NodeOK(mem[n])
      /\ k \in MessageType /\ k \in Carried(task[n])
      /\ q \in Nodes /\ k.seq \in Nat /\ k.seq > 0
  <2>1. task[n] \in ReplyType
    BY <1>1, NodeFacts, TaskCases DEF Reply
  <2>2. k \in MessageType /\ k \in Carried(task[n])
    BY <2>1 DEF ReplyType, Carried, Answering
  <2> QED
    BY <1>1, <2>2, NodeFacts DEF MessageType, RequestType, Honest
<1>3. /\ mem' = [mem EXCEPT ![n] = node]
      /\ disk' = [disk EXCEPT ![n] = node]
      /\ task' = [task EXCEPT ![n] = Idle]
      /\ net' = net
      /\ answers' = IF ~k.copy /\ Awaits(q, n, k.seq) THEN answers \cup {m} ELSE answers
  BY DEF Reply, Become, Persist, Turn
<1>4. /\ NodeOK(node)
      /\ node.store = mem[n].store
      /\ node.inbound = mem[n].inbound
      /\ node.outbound = [mem[n].outbound EXCEPT ![q] = @ + 1]
      /\ node.heard = mem[n].heard
  BY <1>2, OutboundChange
<1>5. seq = mem[n].outbound[q] + 1 /\ seq \in Nat /\ seq > 0
  <2>1. mem[n].outbound \in [Nodes -> Nat]
    BY <1>2 DEF NodeOK, NodeType
  <2> HIDE DEF q, node
  <2>2. mem[n].outbound[q] \in Nat /\ node.outbound[q] = mem[n].outbound[q] + 1
    BY <1>2, <1>4, <2>1
  <2> QED
    BY <2>2, SMTT(90)
<1>6. /\ Idle \in TaskType /\ Carried(Idle) = {}
      /\ Idle.job # "import" /\ Idle.job # "sync"
  BY DEF TaskType, Idle, Carried, Answering
<1> HIDE DEF node, seq
<1>7. /\ m.from = n /\ m.to = q /\ m.seq = seq /\ m.conn = k.seq
      /\ m.note = Announcement(mem[n])
      /\ m.next = IF k.op = "inventory" THEN NextCursor(mem[n].store, k.cursor) ELSE 0
      /\ m.list = CASE k.op = "inventory" -> InventoryPage(mem[n].store, k.cursor)
                    [] k.op = "pull" -> Kept(k.list, Known(mem[n].store))
                    [] OTHER -> <<>>
  BY DEF Response
<1>8. /\ k.cursor \in Nat /\ k.list \in Seq(Shares)
      /\ StoreOK(mem[n].store)
      /\ Announcement(mem[n]) \in NoteType
      /\ Announcement(mem[n]).state = Commitment(mem[n].store.accepted)
  BY <1>2, AnnouncementTyped DEF MessageType, RequestType, NodeOK
<1>9. /\ InventoryPage(mem[n].store, k.cursor) \in Seq(Shares)
      /\ NextCursor(mem[n].store, k.cursor) \in Nat
      /\ NextCursor(mem[n].store, k.cursor) # 0
           => InventoryPage(mem[n].store, k.cursor) # <<>>
      /\ (k.cursor = 0 /\ NextCursor(mem[n].store, k.cursor) = 0)
           => Range(InventoryPage(mem[n].store, k.cursor)) = Known(mem[n].store)
      /\ Kept(k.list, Known(mem[n].store)) \in Seq(Shares)
  BY <1>8, PageOK, KeptLists
<1>10. m \in AnswerType
  <2>1. m.list \in Seq(Shares) /\ m.next \in Nat
    BY <1>7, <1>9, SMTT(90)
  <2>2. m = [from |-> n, to |-> q, conn |-> k.seq, seq |-> seq, list |-> m.list,
             next |-> m.next, note |-> Announcement(mem[n])]
    BY DEF Response
  <2> HIDE DEF m, k, q
  <2> QED
    BY <1>2, <1>5, <1>8, <2>1, <2>2, SMTT(90) DEF AnswerType
<1>11. m \notin answers
  <2>1. \A r \in answers : r.seq <= mem[r.from].outbound[r.to]
    BY <1>1 DEF CountersOK
  <2>2. mem[n].outbound[q] \in Nat
    BY <1>1, <1>2, MessageFields
  <2> HIDE DEF m, k, q
  <2> QED
    BY <1>5, <1>7, <2>1, <2>2, SMTT(90)
<1>12. k.seq <= mem[q].outbound[n]
  BY <1>1, <1>2 DEF CountersOK
<1>13. (m \in answers' /\ Awaits(q, n, m.conn) /\ task[q].phase = "final")
          => /\ m.next # 0 => m.list # <<>>
             /\ (m.next = 0 /\ task[q].seen = <<>>) => WholeInventory(m)
  <2> HAVE m \in answers' /\ Awaits(q, n, m.conn) /\ task[q].phase = "final"
  <2>1. ~k.copy /\ Awaits(q, n, k.seq)
    BY <1>3, <1>7, <1>11
  <2>2. Fits(k, task[q])
    BY <1>1, <1>2, <2>1 DEF FinalOK
  <2>3. k.op = "inventory" /\ k.cursor = task[q].cursor
    BY <2>2 DEF Fits
  <2>4. task[q].seen = <<>> => k.cursor = 0
    BY <1>1, <1>2, <2>1, <2>3 DEF FinalOK, Awaits
  <2>5. /\ m.next = NextCursor(mem[n].store, k.cursor)
        /\ m.list = InventoryPage(mem[n].store, k.cursor)
    BY <1>7, <2>3
  <2> HIDE DEF m, k, q
  <2> QED
    BY <1>7, <1>8, <1>9, <2>4, <2>5 DEF WholeInventory
<1> HIDE DEF m, k, q
<1>14. Sends(n, q, node, node, Idle, m)
  BY <1>2, <1>3, <1>4, <1>5, <1>6, <1>7, <1>12 DEF Sends, Step
<1>15. net' \subseteq MessageType /\ answers' \subseteq AnswerType
  BY <1>1, <1>3, <1>10 DEF TypesOK
<1> QED
  BY <1>2, <1>4, <1>6, <1>7, <1>13, <1>14, <1>15, SendsStep, SMTT(90)

\* A faulty member announces what it likes under a sequence number of its own.
LEMMA MisannounceStep ==
  ASSUME IInv, NEW f \in Faulty, NEW q \in Honest, NEW note \in FaultyNotes,
         Misannounce(f, q, note)
  PROVE  IInv'
<1> DEFINE node == NextOutbound(mem[f], q)
           m == [ from |-> f, to |-> q, seq |-> mem[f].outbound[q] + 1,
                  op |-> "inventory", cursor |-> 0, list |-> <<>>,
                  note |-> note, copy |-> FALSE ]
<1>1. TypesOK /\ CountersOK /\ NotesOK /\ FinalOK
  BY DEF IInv
<1>2. /\ f \in Nodes /\ f \notin Honest /\ q \in Nodes
      /\ NodeOK(mem[f]) /\ NodeOK(disk[f]) /\ task[f] = Idle
      /\ mem[f].outbound[q] \in Nat
  BY <1>1, SyncAssumption, MessageFields DEF Honest, TypesOK
<1>3. /\ mem' = [mem EXCEPT ![f] = node]
      /\ disk' = disk /\ task' = task
      /\ net' = net \cup {m} /\ answers' = answers
  BY DEF Misannounce, Become
<1>4. /\ NodeOK(node)
      /\ node.store = mem[f].store
      /\ node.inbound = mem[f].inbound
      /\ node.outbound = [mem[f].outbound EXCEPT ![q] = @ + 1]
      /\ node.heard = mem[f].heard
  BY <1>2, OutboundChange
<1>5. /\ Idle \in TaskType /\ Carried(Idle) = {}
      /\ Idle.job # "import" /\ Idle.job # "sync"
  BY DEF TaskType, Idle, Carried, Answering
<1>6. m \in MessageType
  <2>1. note \in NoteType
    BY SyncAssumption DEF NoteType, Histories
  <2>2. <<>> \in BatchType
    BY LimitAssumption, SMTT(90) DEF BatchType
  <2>3. m \in RequestType
    BY <1>2, <2>1, SMTT(90) DEF RequestType
  <2> QED
    BY <1>2, <2>2, <2>3, SMTT(90) DEF MessageType
<1>7. m.from = f /\ m.to = q /\ m.seq = mem[f].outbound[q] + 1
  OBVIOUS
<1> HIDE DEF node, m
<1>8. Step(f, node, disk[f], Idle)
  BY <1>1, <1>2, <1>3 DEF Step, TypesOK
<1>9. Sends(f, q, node, disk[f], Idle, m)
  BY <1>2, <1>3, <1>4, <1>5, <1>7, <1>8 DEF Sends
<1>10. net' \subseteq MessageType /\ answers' \subseteq AnswerType
  BY <1>1, <1>3, <1>6 DEF TypesOK
<1>11. m \notin answers'
  <2>1. \A r \in answers : r.seq <= mem[r.from].outbound[r.to]
    BY <1>1 DEF CountersOK
  <2>2. \A r \in answers : ~(r.seq <= mem[f].outbound[q] /\ r.seq = mem[f].outbound[q] + 1)
    <3>1. mem[f].outbound[q] \in Nat
      BY <1>2
    <3> QED
      BY ONLY <3>1
  <2> QED
    BY <1>3, <1>7, <2>1, <2>2
<1> QED
  BY <1>2, <1>4, <1>5, <1>9, <1>10, <1>11, SendsStep
-----------------------------------------------------------------------------
(* The theorems *)

\* The empty labnet has the invariant.
LEMMA InitInvariant == Init => IInv
<1> SUFFICES ASSUME Init PROVE IInv
  OBVIOUS
<1>1. /\ mem = [n \in Nodes |-> EmptyNode] /\ disk = [n \in Nodes |-> EmptyNode]
      /\ task = [n \in Nodes |-> Idle] /\ net = {} /\ answers = {}
  BY DEF Init
<1>2. Idle \in TaskType /\ Carried(Idle) = {} /\ Answering(Idle) = {} /\ Idle.job = "idle"
  BY DEF TaskType, Idle, Carried, Answering
<1>3. StoreOK(EmptyStore) /\ EmptyStore \in StoreType /\ EmptyStore.tick = 0
  BY EmptyStoreOK DEF StoreOK, PromotableOK, EmptyStore
<1>4. NodeOK(EmptyNode)
  <2>1. EmptyNode \in NodeType
    BY <1>3 DEF EmptyNode, NodeType
  <2>2. HeardOK({}) /\ Cardinality({}) = 0 /\ IsFiniteSet({})
    BY FS_EmptySet, SyncAssumption, SMTT(90) DEF HeardOK
  <2>3. /\ EmptyNode.store = EmptyStore /\ EmptyNode.evidence = {}
        /\ \A p \in Nodes : EmptyNode.heard[p] = {}
    BY DEF EmptyNode
  <2>4. Cardinality(EmptyNode.evidence) <= MaxEvidence
    BY <2>2, <2>3, SyncAssumption, SMTT(90)
  <2> QED
    BY <1>3, <2>1, <2>2, <2>3, <2>4 DEF NodeOK
<1>5. TypesOK
  <2>1. EmptyNode \in NodeType
    BY <1>4 DEF NodeOK
  <2> QED
    BY <1>1, <1>2, <1>4, <2>1, SyncAssumption DEF TypesOK
<1>6. CountersOK
  <2>1. /\ \A n \in Nodes : /\ mem[n] = EmptyNode /\ disk[n] = EmptyNode
                           /\ Carried(task[n]) = {} /\ task[n].job # "sync"
        /\ \A p \in Nodes : EmptyNode.inbound[p] = 0 /\ EmptyNode.outbound[p] = 0
        /\ \A n \in Honest : n \in Nodes
    BY <1>1, <1>2 DEF EmptyNode, Honest
  <2>2. \A p, q \in Nodes : mem[q].inbound[p] <= mem[p].outbound[q]
    BY <2>1, SMTT(90)
  <2> QED
    BY <1>1, <2>1, <2>2 DEF CountersOK, LiveNeverReplay
<1>7. NotesOK
  <2>1. \A p \in Nodes : Noted(p) = {}
    BY <1>1, <1>2, NotedIs DEF NotedSomewhere, EmptyNode
  <2>2. /\ \A n \in Nodes : mem[n] = EmptyNode /\ disk[n] = EmptyNode
        /\ EmptyNode.store = EmptyStore
        /\ \A n \in Honest : n \in Nodes
    BY <1>1 DEF EmptyNode, Honest
  <2>3. EmptyStore.tick <= EmptyStore.tick /\ \A n \in Nodes : task[n].job # "import"
    <3>1. 0 <= 0
      BY SMTT(90)
    <3> QED
      BY <1>1, <1>2, <1>3, <3>1
  <2> QED
    BY <2>1, <2>2, <2>3 DEF NotesOK
<1>8. FinalOK /\ RecordedOK
  BY <1>1, <1>2 DEF FinalOK, RecordedOK
<1> QED
  BY <1>5, <1>6, <1>7, <1>8 DEF IInv

\* Every step keeps the invariant.
LEMMA NextInvariant == IInv /\ [Next]_vars => IInv'
<1> SUFFICES ASSUME IInv, [Next]_vars PROVE IInv'
  OBVIOUS
<1>1. ASSUME NEW n \in Honest, Control(n) PROVE IInv'
  BY <1>1, QuietStep DEF Quiet
<1>2. ASSUME NEW n \in Honest, NodeStep(n) PROVE IInv'
  <2>1. Quiet(n) \/ ServeRead(n) \/ ServePush(n) \/ Reply(n) \/ Send(n)
    BY <1>2 DEF NodeStep, Quiet
  <2> QED
    BY <2>1, QuietStep, ServeStep, ReplyStep, SendStep
<1>3. ASSUME NEW n \in Honest, Restart(n) PROVE IInv'
  BY <1>3, RestartStep
<1>4. ASSUME NEW n \in Honest, NEW m \in net, Handle(n, m) PROVE IInv'
  BY <1>4, AuthenticateStep, QuietStep DEF Handle, Quiet
<1>5. ASSUME NEW n \in Honest, NEW r \in answers, Get(n, r) PROVE IInv'
  BY <1>5, ReceiveStep
<1>6. ASSUME NEW m \in net, Lose(m) PROVE IInv'
  BY <1>6, LoseStep
<1>7. ASSUME NEW f \in Faulty, NEW n \in Honest, NEW note \in FaultyNotes,
             Misannounce(f, n, note)
      PROVE  IInv'
  BY <1>7, MisannounceStep
<1>8. CASE UNCHANGED vars
  <2>1. mem' = mem /\ disk' = disk /\ task' = task /\ net' = net /\ answers' = answers
    BY <1>8 DEF vars
  <2>2. TypesOK'
    BY <2>1 DEF IInv, TypesOK
  <2>3. CountersOK'
    BY <2>1 DEF IInv, CountersOK, LiveNeverReplay, Awaits
  <2>4. NotesOK'
    <3>1. \A p : Noted(p)' = Noted(p)
      BY <2>1, SMTT(90) DEF Noted
    <3> QED
      BY <2>1, <3>1 DEF IInv, NotesOK
  <2>5. FinalOK' /\ RecordedOK'
    BY <2>1 DEF IInv, FinalOK, RecordedOK, Awaits
  <2> QED
    BY <2>2, <2>3, <2>4, <2>5 DEF IInv
<1> QED
  BY <1>1, <1>2, <1>3, <1>4, <1>5, <1>6, <1>7, <1>8 DEF Next

\* The invariant of synchronization holds for every peer table, every set of
\* shares, every limit, and whatever is lost, repeated, forged by a faulty
\* member or interrupted by a restart.
THEOREM SyncInvariant == Spec => []IInv
BY InitInvariant, NextInvariant, PTL DEF Spec

\* The tables of a node that satisfies the invariant pass _load_state.
LEMMA TablesLoad ==
  ASSUME NEW node, NodeOK(node)
  PROVE  node.store \in StoreType /\ LoadTablesOK(node)
<1>1. /\ node.store \in StoreType
      /\ node.inbound \in [Nodes -> Nat] /\ node.outbound \in [Nodes -> Nat]
      /\ node.heard \in [Nodes -> SUBSET NoteType]
  BY DEF NodeOK, NodeType
<1>2. \A p \in Nodes : \A a \in node.heard[p] : a.slot \in Nat
  <2>1. \A a \in NoteType : a.slot \in Nat
    BY DEF NoteType
  <2> QED
    BY <1>1, <2>1, SMTT(60)
<1>3. /\ \A p \in Nodes : Cardinality(node.heard[p]) <= MaxSlots
      /\ Cardinality(node.evidence) <= MaxEvidence
  BY DEF NodeOK, HeardOK
<1> QED
  BY <1>1, <1>2, <1>3 DEF LoadTablesOK

\* Nodes and their files hold stores and counters, and the tables that peers
\* feed stay within the limits of the loader (_observe_announcement).
THEOREM SyncTypes == Spec => []TypeOK
<1>1. IInv => TypeOK
  <2> SUFFICES ASSUME IInv PROVE TypeOK
    OBVIOUS
  <2>1. \A n \in Nodes : NodeOK(mem[n]) /\ NodeOK(disk[n])
    BY DEF IInv, TypesOK
  <2>2. (\A m \in net : m \in RequestType) /\ \A r \in answers : r.list \in Seq(Shares)
    BY DEF IInv, TypesOK, MessageType, AnswerType
  <2> QED
    BY <2>1, <2>2, TablesLoad DEF TypeOK
<1> QED
  BY <1>1, SyncInvariant, PTL

\* Whenever a node stops, what its state file holds of shares, counters,
\* announcements and evidence is what _load_state accepts, so the guard of
\* Restart never keeps a node down.
THEOREM SyncFilesLoad ==
  Spec => [](\A n \in Nodes : LoadSharesOK(disk[n].store) /\ LoadTablesOK(disk[n]))
<1>1. IInv => \A n \in Nodes : LoadSharesOK(disk[n].store) /\ LoadTablesOK(disk[n])
  <2> SUFFICES ASSUME IInv, NEW n \in Nodes
               PROVE  LoadSharesOK(disk[n].store) /\ LoadTablesOK(disk[n])
    OBVIOUS
  <2>1. NodeOK(disk[n])
    BY DEF IInv, TypesOK
  <2>2. StoreOK(disk[n].store)
    BY <2>1 DEF NodeOK
  <2> QED
    BY <2>1, <2>2, TablesLoad, StoreLoads
<1> QED
  BY <1>1, SyncInvariant, PTL

\* Evidence of equivocation never names a node that runs this code
\* (_observe_announcement): ticks that were announced keep their history.
THEOREM SyncEvidence == Spec => []EvidenceOnlyAgainstFaulty
<1>1. IInv => EvidenceOnlyAgainstFaulty
  BY DEF IInv, TypesOK, NodeOK, EvidenceOnlyAgainstFaulty, Honest
<1> QED
  BY <1>1, SyncInvariant, PTL

\* What somebody still waits for is never refused as a replay
\* (_authenticate_inbound).
THEOREM SyncNeverReplay == Spec => []LiveNeverReplay
<1>1. IInv => LiveNeverReplay
  BY DEF IInv, CountersOK
<1> QED
  BY <1>1, SyncInvariant, PTL

\* A conflict that was answered is on record in the state file
\* (handle_envelope saves, then signs).
THEOREM SyncConflictDurable == Spec => AnsweredConflictIsDurable
<1>1. IInv /\ [Next]_vars =>
        [ \A n \in Honest :
            Reply(n) =>
              LET m == task[n].req
              IN  \A a \in Conflicts(mem[n], m.from, m.note) :
                    [peer |-> m.from, first |-> a, second |-> m.note, seq |-> m.seq]
                      \in disk'[n].evidence ]_vars
  <2> SUFFICES ASSUME IInv, NEW n \in Honest, Reply(n),
                      NEW a \in Conflicts(mem[n], task[n].req.from, task[n].req.note)
               PROVE  [peer |-> task[n].req.from, first |-> a, second |-> task[n].req.note,
                       seq |-> task[n].req.seq]
                        \in disk'[n].evidence
    OBVIOUS
  <2> DEFINE m == task[n].req
             node == NextOutbound(mem[n], m.from)
  <2>1. TypesOK /\ NotesOK /\ RecordedOK
    BY DEF IInv
  <2>2. n \in Nodes /\ NodeOK(mem[n]) /\ task[n] \in ReplyType
    BY <2>1, NodeFacts, TaskCases DEF Reply
  <2>3. m \in Answering(task[n]) /\ m.from \in Nodes
    BY <2>2 DEF ReplyType, Answering, MessageType, RequestType
  <2>4. [peer |-> m.from, first |-> a, second |-> m.note, seq |-> m.seq] \in mem[n].evidence
    BY <2>1, <2>2, <2>3 DEF RecordedOK
  <2>5. disk' = [disk EXCEPT ![n] = node]
    BY DEF Reply, Persist
  <2>6. node.evidence = mem[n].evidence
    BY <2>2, <2>3, OutboundChange
  <2> HIDE DEF node, m
  <2>7. disk'[n].evidence = mem[n].evidence
    BY <2>1, <2>2, <2>5, <2>6 DEF TypesOK
  <2> QED
    BY <2>4, <2>7 DEF m
<1> QED
  BY <1>1, SyncInvariant, PTL DEF Spec, AnsweredConflictIsDurable

\* A sync that reports convergence on an inventory of one page has found two
\* nodes that selected the same history (end of sync_peer).
THEOREM SyncConvergedState == Spec => ConvergedSameState
<1>1. IInv /\ [Next]_vars =>
        [ \A n \in Honest : \A r \in answers :
            (GetFinal(n, r) /\ task[n].seen = <<>> /\ task'[n].job = "finish")
              => r.note.state = Commitment(mem[n].store.accepted) ]_vars
  <2> SUFFICES ASSUME IInv, NEW n \in Honest, NEW r \in answers,
                      GetFinal(n, r), task[n].seen = <<>>, task'[n].job = "finish"
               PROVE  r.note.state = Commitment(mem[n].store.accepted)
    OBVIOUS
  <2>1. TypesOK /\ NotesOK /\ FinalOK
    BY DEF IInv
  <2>2. /\ n \in Nodes /\ StoreOK(mem[n].store)
        /\ r.to = n /\ Awaits(r.to, r.from, r.conn)
        /\ task[n] \in SyncType /\ r.list \in Seq(Shares)
    BY <2>1, NodeFacts, TaskCases DEF GetFinal, Receive, Awaits, TypesOK, AnswerType
  <2>3. task[n].phase = "final" /\ r.next = 0 /\ Converges(n, r)
    BY <2>1, <2>2 DEF GetFinal, Turn, SyncType, TypesOK, Idle
  <2>4. PICK st : /\ StoreOK(st)
                  /\ r.note.state = Commitment(st.accepted)
                  /\ Range(r.list) = Known(st)
    BY <2>1, <2>2, <2>3 DEF FinalOK, WholeInventory
  <2>5. <<>> \o r.list = r.list
    BY <2>2, SMTT(90)
  <2>6. Known(st) = Known(mem[n].store)
    BY <2>3, <2>4, <2>5 DEF Converges
  <2> QED
    BY <2>2, <2>4, <2>6, SameKnownSameAccepted
<1> QED
  BY <1>1, SyncInvariant, PTL DEF Spec, ConvergedSameState
=============================================================================
