-------------------------- MODULE ShareSyncLemmas ---------------------------
(***************************************************************************)
(* The invariant of synchronization, and what its proof rests on: facts    *)
(* about lists, nodes and tasks, and what a step that changes one node     *)
(* keeps of each part of the invariant.                                    *)
(***************************************************************************)
EXTENDS ShareSync, StoreOpsProofs

\* leaves are left to Zenon; the ones with arithmetic or records cite SMT
USE ZenonT(60)
-----------------------------------------------------------------------------
(* Lists *)

\* In a finite set with a strict total order every rank is taken by one
\* element: the fact behind a sorted list and behind a filtered one.
LEMMA RankTaken ==
  ASSUME NEW S, IsFiniteSet(S), NEW R,
         \A x, y \in S : x # y => <<x, y>> \in R \/ <<y, x>> \in R,
         \A x \in S : <<x, x>> \notin R,
         \A x, y, z \in S : <<x, y>> \in R /\ <<y, z>> \in R => <<x, z>> \in R
  PROVE  /\ \A k \in 1 .. Cardinality(S) :
              \E s \in S : Cardinality({t \in S : <<t, s>> \in R}) = k - 1
         /\ \A s \in S : Cardinality({t \in S : <<t, s>> \in R}) + 1 \in 1 .. Cardinality(S)
         /\ \A s, t \in S : Cardinality({x \in S : <<x, s>> \in R})
                              = Cardinality({x \in S : <<x, t>> \in R}) => s = t
<1> DEFINE below(s) == {t \in S : <<t, s>> \in R}
           N == Cardinality(S)
           low == [s \in S |-> Cardinality(below(s))]
           rank == [s \in S |-> low[s] + 1]
<1>1. N \in Nat
  BY FS_CardinalityType
<1>2. ASSUME NEW s \in S
      PROVE  /\ IsFiniteSet(below(s)) /\ Cardinality(below(s)) \in Nat
             /\ Cardinality(below(s)) < N
  <2>1. below(s) \in SUBSET S /\ s \in S \ below(s)
    OBVIOUS
  <2>2. IsFiniteSet(below(s)) /\ Cardinality(below(s)) <= N /\ N # Cardinality(below(s))
    BY <2>1, FS_Subset
  <2>3. Cardinality(below(s)) \in Nat
    BY <2>2, FS_CardinalityType
  <2> QED
    BY <1>1, <2>2, <2>3, SMTT(90)
<1>3. ASSUME NEW s \in S, NEW t \in S, <<s, t>> \in R
      PROVE  low[s] # low[t]
  <2>1. below(s) \in SUBSET below(t) /\ s \in below(t) /\ s \notin below(s)
    BY <1>3
  <2> QED
    BY <1>2, <2>1, FS_Subset
<1>4. /\ \A s \in S : low[s] = Cardinality(below(s))
      /\ \A s \in S : low[s] \in Nat /\ low[s] < N
  BY <1>2
<1> HIDE DEF low, N
<1>5. \A s, t \in S : low[s] = low[t] => s = t
  BY <1>3
<1>6. \A s \in S : low[s] + 1 \in 1 .. N
  BY <1>1, <1>4, SMTT(90)
<1>7. \A s \in S : rank[s] = low[s] + 1
  OBVIOUS
<1> HIDE DEF rank
<1>8. rank \in Injection(S, 1 .. N)
  <2>1. \A s, t \in S : rank[s] = rank[t] => s = t
    BY <1>4, <1>5, <1>7, SMTT(90)
  <2>2. rank \in [S -> 1 .. N]
    BY <1>6 DEF rank
  <2> QED
    BY <2>1, <2>2 DEF Injection, IsInjective
<1>9. rank \in Surjection(S, 1 .. N)
  <2>1. IsFiniteSet(1 .. N) /\ Cardinality(1 .. N) = N
    BY <1>1, FS_Interval, SMTT(90)
  <2> QED
    BY <1>8, <2>1, FS_Injection DEF N
<1>10. ASSUME NEW k \in 1 .. N PROVE \E s \in S : low[s] = k - 1
  <2>1. PICK s \in S : rank[s] = k
    BY <1>9 DEF Surjection
  <2>2. low[s] + 1 = k /\ low[s] \in Nat /\ k \in Nat
    BY <1>1, <1>4, <1>7, <2>1, SMTT(90)
  <2> QED
    BY <2>2, SMTT(90)
<1> QED
  BY <1>4, <1>5, <1>6, <1>10 DEF N

\* The inventory lists every known share once (_all_records).
LEMMA SortedLists ==
  ASSUME NEW S \in SUBSET Shares, IsFiniteSet(S)
  PROVE  /\ Sorted(S) \in Seq(S)
         /\ Len(Sorted(S)) = Cardinality(S)
         /\ Range(Sorted(S)) = S
<1> DEFINE R == {x \in Shares \X Shares : Before(x[1], x[2])}
           at(s) == Cardinality({t \in S : Before(t, s)})
<1>1. \A s, t \in S : <<s, t>> \in R <=> Before(s, t)
  OBVIOUS
<1>2. \A s \in S : {t \in S : Before(t, s)} = {t \in S : <<t, s>> \in R}
  BY <1>1
<1>3. \A s \in S : s.sequence \in Nat /\ s.id \in Nat
  BY ShareAssumption DEF ShareType
<1>4. /\ \A x, y \in S : x # y => <<x, y>> \in R \/ <<y, x>> \in R
      /\ \A x \in S : <<x, x>> \notin R
      /\ \A x, y, z \in S : <<x, y>> \in R /\ <<y, z>> \in R => <<x, z>> \in R
  <2>1. \A x, y \in S : x # y => Before(x, y) \/ Before(y, x)
    BY <1>3, ShareAssumption, SMTT(90) DEF Before
  <2>2. \A x \in S : ~Before(x, x)
    BY <1>3, SMTT(90) DEF Before
  <2>3. \A x, y, z \in S : Before(x, y) /\ Before(y, z) => Before(x, z)
    BY <1>3, SMTT(90) DEF Before
  <2> HIDE DEF R
  <2> QED
    BY <1>1, <2>1, <2>2, <2>3
<1> HIDE DEF R
<1>5. /\ \A k \in 1 .. Cardinality(S) :
           \E s \in S : Cardinality({t \in S : <<t, s>> \in R}) = k - 1
      /\ \A s \in S : Cardinality({t \in S : <<t, s>> \in R}) + 1 \in 1 .. Cardinality(S)
      /\ \A s, t \in S : Cardinality({x \in S : <<x, s>> \in R})
                           = Cardinality({x \in S : <<x, t>> \in R}) => s = t
  BY <1>4, RankTaken
<1>6. /\ \A k \in 1 .. Cardinality(S) : \E s \in S : at(s) = k - 1
      /\ \A s \in S : at(s) + 1 \in 1 .. Cardinality(S)
      /\ \A s, t \in S : at(s) = at(t) => s = t
  BY <1>2, <1>5
<1>7. Cardinality(S) \in Nat
  BY FS_CardinalityType
<1>8. \A s \in S : at(s) \in Nat
  BY FS_Subset, FS_CardinalityType
<1>9. /\ DOMAIN Sorted(S) = 1 .. Cardinality(S)
      /\ \A k \in 1 .. Cardinality(S) : Sorted(S)[k] = CHOOSE s \in S : at(s) = k - 1
  BY DEF Sorted
<1> HIDE DEF at
<1>10. \A k \in 1 .. Cardinality(S) : Sorted(S)[k] \in S /\ at(Sorted(S)[k]) = k - 1
  BY <1>6, <1>9
<1>11. \A s \in S : Sorted(S)[at(s) + 1] = s
  BY <1>6, <1>8, <1>10, SMTT(90)
<1>12. Sorted(S) \in [1 .. Cardinality(S) -> S]
  BY <1>9, <1>10 DEF Sorted
<1>13. Sorted(S) \in Seq(S) /\ Len(Sorted(S)) = Cardinality(S)
  BY <1>7, <1>12, SMTT(90)
<1>14. Range(Sorted(S)) = S
  BY <1>6, <1>9, <1>10, <1>11, SMTT(90) DEF Range
<1> QED
  BY <1>13, <1>14

\* A filtered list holds shares when the list does.
LEMMA KeptLists ==
  ASSUME NEW list \in Seq(Shares), NEW S
  PROVE  Kept(list, S) \in Seq(Shares)
<1> DEFINE at == {i \in DOMAIN list : list[i] \in S}
           R  == {x \in Nat \X Nat : x[1] < x[2]}
           nth(k) == CHOOSE i \in at : Cardinality({j \in at : j < i}) = k - 1
<1>1. at \subseteq Nat /\ IsFiniteSet(at) /\ Cardinality(at) \in Nat
  <2>1. DOMAIN list = 1 .. Len(list) /\ Len(list) \in Nat
    BY SMTT(90)
  <2>2. IsFiniteSet(1 .. Len(list))
    BY <2>1, FS_Interval, SMTT(90)
  <2>3. IsFiniteSet(at)
    BY <2>1, <2>2, FS_Subset
  <2> QED
    BY <2>1, <2>3, FS_CardinalityType, SMTT(90)
<1>2. \A i, j \in at : <<i, j>> \in R <=> i < j
  BY <1>1
<1>3. \A i \in at : {j \in at : j < i} = {j \in at : <<j, i>> \in R}
  BY <1>2
<1>4. /\ \A x, y \in at : x # y => <<x, y>> \in R \/ <<y, x>> \in R
      /\ \A x \in at : <<x, x>> \notin R
      /\ \A x, y, z \in at : <<x, y>> \in R /\ <<y, z>> \in R => <<x, z>> \in R
  <2> HIDE DEF at, R
  <2> QED
    BY <1>1, <1>2, SMTT(90)
<1>5. /\ \A k \in 1 .. Cardinality(at) :
           \E i \in at : Cardinality({j \in at : <<j, i>> \in R}) = k - 1
      /\ \A i \in at : Cardinality({j \in at : <<j, i>> \in R}) + 1 \in 1 .. Cardinality(at)
      /\ \A i, j \in at : Cardinality({x \in at : <<x, i>> \in R})
                            = Cardinality({x \in at : <<x, j>> \in R}) => i = j
  <2>1. IsFiniteSet(at)
    BY <1>1
  <2> HIDE DEF at, R
  <2> QED
    BY <2>1, <1>4, RankTaken
<1>6. \A k \in 1 .. Cardinality(at) : nth(k) \in at
  <2> HIDE DEF at, R
  <2> DEFINE low(i) == Cardinality({j \in at : j < i})
  <2>1. \A i \in at : low(i) = Cardinality({j \in at : <<j, i>> \in R})
    BY <1>3
  <2>2. \A k \in 1 .. Cardinality(at) : \E i \in at : low(i) = k - 1
    <3> HIDE DEF low
    <3> QED
      BY <1>5, <2>1
  <2>3. \A k : nth(k) = CHOOSE i \in at : low(i) = k - 1
    OBVIOUS
  <2> HIDE DEF low, nth
  <2> QED
    BY <2>2, <2>3
<1>7. Kept(list, S) = [k \in 1 .. Cardinality(at) |-> list[nth(k)]]
  BY DEF Kept
<1>8. \A k \in 1 .. Cardinality(at) : list[nth(k)] \in Shares
  <2> HIDE DEF nth
  <2> QED
    BY <1>6, SMTT(90)
<1> HIDE DEF nth, at
<1>9. Kept(list, S) \in [1 .. Cardinality(at) -> Shares]
  BY <1>7, <1>8
<1> QED
  BY <1>1, <1>9, SMTT(90)
-----------------------------------------------------------------------------
(* The invariant *)

BatchType == {list \in Seq(Shares) : Len(list) <= MaxBatch}

MessageType == {m \in RequestType : m.list \in BatchType /\ m.seq > 0}

AnswerType ==
  [ from : Honest, to : Nodes, conn : Nat, seq : Nat, list : Seq(Shares),
    next : Nat, note : NoteType ]

EvidenceType == [peer : Nodes, first : NoteType, second : NoteType, seq : Nat]

NodeType ==
  [ store : StoreType, inbound : [Nodes -> Nat], outbound : [Nodes -> Nat],
    heard : [Nodes -> SUBSET NoteType], evidence : SUBSET EvidenceType ]

SyncType ==
  [ job : {"sync"}, peer : Honest, phase : {"inventory", "pull", "push", "final"},
    cursor : Nat, seen : Seq(Shares), queue : Seq(Shares), waiting : Nat ]

\* a sync between a pull and the next request
PullingType == {j \in SyncType : j.phase = "pull" /\ j.waiting = 0}

FinishType == [job : {"finish"}]

ServeType == [job : {"serve"}, req : MessageType]

ReplyType == [job : {"reply"}, req : MessageType]

ImportType ==
  [job : {"import"}, todo : Seq(Shares), then : FinishType \cup ReplyType \cup PullingType]

PulledType == [job : {"pulled"}, todo : BatchType, then : PullingType]

TaskType ==
  {Idle} \cup FinishType \cup ServeType \cup ReplyType \cup SyncType
    \cup ImportType \cup PulledType

\* At most one announcement is kept for a slot, and at most MaxSlots.
HeardOK(slots) ==
  /\ IsFiniteSet(slots)
  /\ Cardinality(slots) <= MaxSlots
  /\ \A x, y \in slots : x.slot = y.slot => x = y

NodeOK(node) ==
  /\ node \in NodeType
  /\ StoreOK(node.store)
  /\ \A p \in Nodes : HeardOK(node.heard[p])
  /\ IsFiniteSet(node.evidence)
  /\ Cardinality(node.evidence) <= MaxEvidence
  /\ \A e \in node.evidence : e.peer \in Faulty

TypesOK ==
  /\ mem \in [Nodes -> NodeType]
  /\ disk \in [Nodes -> NodeType]
  /\ task \in [Nodes -> TaskType]
  /\ net \subseteq MessageType
  /\ answers \subseteq AnswerType
  /\ \A n \in Nodes : NodeOK(mem[n]) /\ NodeOK(disk[n])
  /\ \A n \in Faulty : task[n] = Idle

\* the request that a task answers, and the one it is about to answer
Answering(t) ==
  IF t.job = "reply" THEN {t.req}
  ELSE IF t.job = "import" /\ t.then.job = "reply" THEN {t.then.req}
  ELSE {}

Carried(t) == IF t.job = "serve" THEN {t.req} ELSE Answering(t)

SameEnvelope(m, r) == m.from = r.from /\ m.to = r.to /\ m.seq = r.seq

\* Counters: a sequence number is saved before it is used, and used once.
CountersOK ==
  /\ \A n \in Honest : /\ disk[n].inbound = mem[n].inbound
                        /\ disk[n].outbound = mem[n].outbound
  /\ \A p, q \in Nodes : mem[q].inbound[p] <= mem[p].outbound[q]
  /\ \A m \in net : m.seq <= mem[m.from].outbound[m.to]
  /\ \A n \in Nodes : \A m \in Carried(task[n]) :
       m.to = n /\ m.seq <= mem[m.from].outbound[n]
  /\ \A r \in answers : /\ r.seq <= mem[r.from].outbound[r.to]
                         /\ 0 < r.conn
                         /\ r.conn <= mem[r.to].outbound[r.from]
  /\ \A m, k \in net : SameEnvelope(m, k) => m = k
  /\ \A m \in net, r \in answers : ~SameEnvelope(m, r)
  /\ \A n \in Nodes : (task[n].job = "sync" /\ task[n].waiting # 0)
                          => task[n].waiting = mem[n].outbound[task[n].peer]
  /\ LiveNeverReplay

\* every announcement of p that is anywhere in the system
Noted(p) ==
  {m.note : m \in {k \in net : k.from = p}}
    \cup {r.note : r \in {k \in answers : k.from = p}}
    \cup (UNION {{m.note : m \in {k \in Carried(task[n]) : k.from = p}} : n \in Nodes})
    \cup (UNION {mem[n].heard[p] : n \in Nodes})
    \cup (UNION {disk[n].heard[p] : n \in Nodes})

\* a note agrees with a store that announced or may announce at its tick
Agrees(x, st) == x.slot = st.tick => x.state = Commitment(st.accepted)

\* Announcements: a tick that was announced is in the state file, and the
\* history of an announced tick never changes again.
NotesOK ==
  \A p \in Honest :
    /\ disk[p].store.tick <= mem[p].store.tick
    /\ task[p].job = "import" => disk[p].store.tick < mem[p].store.tick
    /\ \A x \in Noted(p) : /\ x.slot <= disk[p].store.tick
                            /\ Agrees(x, disk[p].store)
                            /\ Agrees(x, mem[p].store)
    /\ \A x, y \in Noted(p) : x.slot = y.slot => x = y

\* a response that lists the whole store of its sender
WholeInventory(r) ==
  \E st : /\ StoreOK(st)
          /\ r.note.state = Commitment(st.accepted)
          /\ Range(r.list) = Known(st)

Fits(m, j) ==
  m.op = (IF j.phase = "final" THEN "inventory" ELSE j.phase) /\ m.cursor = j.cursor

\* The last inventory: a request that is still awaited is the one its sender
\* made in this phase, and what answers it is one page of a store.
FinalOK ==
  /\ \A m \in net : ~m.copy /\ Awaits(m.from, m.to, m.seq) => Fits(m, task[m.from])
  /\ \A n \in Nodes : \A m \in Carried(task[n]) :
       ~m.copy /\ Awaits(m.from, n, m.seq) => Fits(m, task[m.from])
  /\ \A n \in Nodes : (task[n].job = "sync" /\ task[n].phase = "final"
                          /\ task[n].seen = <<>>) => task[n].cursor = 0
  /\ \A r \in answers :
       (Awaits(r.to, r.from, r.conn) /\ task[r.to].phase = "final")
         => /\ r.next # 0 => r.list # <<>>
            /\ (r.next = 0 /\ task[r.to].seen = <<>>) => WholeInventory(r)

\* Conflicts of a request that is being answered are on record.
RecordedOK ==
  \A n \in Nodes : \A m \in Answering(task[n]) :
    \A a \in Conflicts(mem[n], m.from, m.note) :
      [peer |-> m.from, first |-> a, second |-> m.note, seq |-> m.seq] \in mem[n].evidence

IInv == TypesOK /\ CountersOK /\ NotesOK /\ FinalOK /\ RecordedOK
-----------------------------------------------------------------------------
(* What one operation does to a node *)

\* A store that is replaced leaves the rest of the node alone.
LEMMA StoreChange ==
  ASSUME NEW node, NodeOK(node), NEW st, StoreOK(st)
  PROVE  LET new == [node EXCEPT !.store = st]
         IN  /\ NodeOK(new)
             /\ new.store = st
             /\ new.inbound = node.inbound
             /\ new.outbound = node.outbound
             /\ new.heard = node.heard
             /\ new.evidence = node.evidence
<1> DEFINE new == [node EXCEPT !.store = st]
<1>1. st \in StoreType /\ node \in NodeType
  BY DEF StoreOK, PromotableOK, NodeOK
<1>2. /\ new \in NodeType
      /\ new.store = st
      /\ new.inbound = node.inbound
      /\ new.outbound = node.outbound
      /\ new.heard = node.heard
      /\ new.evidence = node.evidence
  BY <1>1 DEF NodeType
<1> HIDE DEF new
<1>3. NodeOK(new)
  BY <1>2 DEF NodeOK
<1> QED
  BY <1>2, <1>3 DEF new

\* Taking the next sequence number changes one counter (_next_outbound).
LEMMA OutboundChange ==
  ASSUME NEW node, NodeOK(node), NEW p \in Nodes
  PROVE  LET new == NextOutbound(node, p)
         IN  /\ NodeOK(new)
             /\ new.store = node.store
             /\ new.inbound = node.inbound
             /\ new.outbound = [node.outbound EXCEPT ![p] = @ + 1]
             /\ new.heard = node.heard
             /\ new.evidence = node.evidence
<1> DEFINE new == NextOutbound(node, p)
<1>1. node \in NodeType
  BY DEF NodeOK
<1>2. /\ new \in NodeType
      /\ new.store = node.store
      /\ new.inbound = node.inbound
      /\ new.outbound = [node.outbound EXCEPT ![p] = @ + 1]
      /\ new.heard = node.heard
      /\ new.evidence = node.evidence
  BY <1>1, SMTT(90) DEF NodeType, NextOutbound
<1> HIDE DEF new
<1>3. NodeOK(new)
  BY <1>2 DEF NodeOK
<1> QED
  BY <1>2, <1>3 DEF new

\* Accepting an envelope changes one counter (_authenticate_inbound).
LEMMA InboundChange ==
  ASSUME NEW node, NodeOK(node), NEW p \in Nodes, NEW seq \in Nat
  PROVE  LET new == [node EXCEPT !.inbound[p] = seq]
         IN  /\ NodeOK(new)
             /\ new.store = node.store
             /\ new.inbound = [node.inbound EXCEPT ![p] = seq]
             /\ new.outbound = node.outbound
             /\ new.heard = node.heard
             /\ new.evidence = node.evidence
<1> DEFINE new == [node EXCEPT !.inbound[p] = seq]
<1>1. node \in NodeType
  BY DEF NodeOK
<1>2. /\ new \in NodeType
      /\ new.store = node.store
      /\ new.inbound = [node.inbound EXCEPT ![p] = seq]
      /\ new.outbound = node.outbound
      /\ new.heard = node.heard
      /\ new.evidence = node.evidence
  BY <1>1 DEF NodeType
<1> HIDE DEF new
<1>3. NodeOK(new)
  BY <1>2 DEF NodeOK
<1> QED
  BY <1>2, <1>3 DEF new

\* A node announces a history that some valid graph selects (_announcement).
LEMMA AnnouncementTyped ==
  ASSUME NEW node, NodeOK(node)
  PROVE  /\ Announcement(node) \in NoteType
         /\ Announcement(node).slot = node.store.tick
         /\ Announcement(node).state = Commitment(node.store.accepted)
<1>1. /\ node.store.tick \in Nat
      /\ node.store.accepted \in SUBSET Shares
      /\ GraphOrEmpty(node.store.accepted)
  BY DEF NodeOK, StoreOK, PromotableOK, StoreType
<1>2. Commitment(node.store.accepted) \in Histories
  BY <1>1 DEF Histories
<1> QED
  BY <1>1, <1>2 DEF Announcement, NoteType

\* The table of announced slots keeps its bound and one note for a slot.
LEMMA RememberOK ==
  ASSUME NEW slots \in SUBSET NoteType, HeardOK(slots), NEW note \in NoteType
  PROVE  /\ HeardOK(Remember(slots, note))
         /\ Remember(slots, note) \subseteq slots \cup {note}
<1>1. \A x \in slots \cup {note} : x.slot \in Nat
  BY DEF NoteType
<1>2. MaxSlots \in Nat /\ MaxSlots > 0 /\ Cardinality(slots) \in Nat
  BY SyncAssumption, FS_CardinalityType, SMTT(90) DEF HeardOK
<1>3. CASE \E x \in slots : x.slot = note.slot
  BY <1>3 DEF Remember
<1>4. CASE ~(\E x \in slots : x.slot = note.slot) /\ Cardinality(slots) < MaxSlots
  <2>1. Remember(slots, note) = slots \cup {note}
    BY <1>4 DEF Remember
  <2>2. /\ IsFiniteSet(slots \cup {note})
        /\ Cardinality(slots \cup {note}) = Cardinality(slots) + 1
    BY <1>4, FS_AddElement DEF HeardOK
  <2> QED
    BY <1>2, <1>4, <2>1, <2>2, SMTT(90) DEF HeardOK
<1>5. CASE ~(\E x \in slots : x.slot = note.slot) /\ ~(Cardinality(slots) < MaxSlots)
  <2> DEFINE oldest == CHOOSE x \in slots : \A y \in slots : x.slot <= y.slot
             N == {x.slot : x \in slots}
             new == (slots \ {oldest}) \cup {note}
  <2>1. slots # {}
    BY <1>2, <1>5, FS_EmptySet
  <2>2. N \in SUBSET Nat /\ N # {}
    BY <1>1, <2>1
  <2>3. PICK k \in N : \A i \in N : k <= i
    BY <2>2, LeastNatural
  <2>4. oldest \in slots
    BY <2>3
  <2>5. Remember(slots, note) = IF note.slot <= oldest.slot THEN slots ELSE new
    BY <1>5 DEF Remember
  <2> HIDE DEF oldest
  <2>6. IsFiniteSet(new) /\ Cardinality(new) = Cardinality(slots)
    <3>1. /\ IsFiniteSet(slots \ {oldest})
          /\ Cardinality(slots \ {oldest}) = Cardinality(slots) - 1
      BY <2>4, FS_RemoveElement DEF HeardOK
    <3>2. note \notin slots \ {oldest}
      BY <1>5
    <3>3. /\ IsFiniteSet(new)
          /\ Cardinality(new) = Cardinality(slots \ {oldest}) + 1
      BY <3>1, <3>2, FS_AddElement
    <3> QED
      BY <1>2, <3>1, <3>3, SMTT(90)
  <2>7. \A x, y \in new : x.slot = y.slot => x = y
    BY <1>5 DEF HeardOK
  <2> QED
    BY <2>5, <2>6, <2>7 DEF HeardOK
<1> QED
  BY <1>3, <1>4, <1>5

\* what an observation leaves: the tables have grown, the rest is as it was
Observed(node, p, note, seq, new) ==
  /\ NodeOK(new)
  /\ new.store = node.store
  /\ new.inbound = node.inbound
  /\ new.outbound = node.outbound
  /\ new.heard = [node.heard EXCEPT ![p] = Remember(@, note)]
  /\ new.evidence = node.evidence \cup
       {[peer |-> p, first |-> a, second |-> note, seq |-> seq] : a \in Conflicts(node, p, note)}

\* Observing an announcement keeps the tables within their limits and adds
\* evidence against faulty members only (_observe_announcement).
LEMMA ObserveOK ==
  ASSUME NEW node, NodeOK(node), NEW p \in Nodes, NEW note \in NoteType, NEW seq \in Nat,
         Conflicts(node, p, note) # {} => /\ p \in Faulty
                                          /\ Cardinality(node.evidence) < MaxEvidence
  PROVE  Observed(node, p, note, seq, Observe(node, p, note, seq))
<1> DEFINE new  == Observe(node, p, note, seq)
           more == {[peer |-> p, first |-> a, second |-> note, seq |-> seq] :
                      a \in Conflicts(node, p, note)}
<1>1. node \in NodeType
  BY DEF NodeOK
<1>2. /\ HeardOK(Remember(node.heard[p], note))
      /\ Remember(node.heard[p], note) \subseteq node.heard[p] \cup {note}
      /\ node.heard[p] \subseteq NoteType
  <2>1. node.heard[p] \in SUBSET NoteType /\ HeardOK(node.heard[p])
    BY <1>1 DEF NodeOK, NodeType
  <2> QED
    BY <2>1, RememberOK
<1>3. more \subseteq EvidenceType
  BY <1>2, SMTT(90) DEF Conflicts, EvidenceType
<1>4. /\ new \in NodeType
      /\ new.store = node.store
      /\ new.inbound = node.inbound
      /\ new.outbound = node.outbound
      /\ new.heard = [node.heard EXCEPT ![p] = Remember(@, note)]
      /\ new.evidence = node.evidence \cup more
  <2> DEFINE h == Remember(node.heard[p], note)
  <2>1. new = [node EXCEPT !.heard = [node.heard EXCEPT ![p] = h],
                           !.evidence = node.evidence \cup more]
    BY <1>1 DEF Observe, NodeType
  <2>2. h \in SUBSET NoteType
    BY <1>2
  <2> HIDE DEF h, more, new
  <2>3. [node.heard EXCEPT ![p] = h] \in [Nodes -> SUBSET NoteType]
    BY <1>1, <2>2 DEF NodeType
  <2>4. node.evidence \cup more \in SUBSET EvidenceType
    BY <1>1, <1>3 DEF NodeType
  <2>5. /\ new \in NodeType
        /\ new.store = node.store
        /\ new.inbound = node.inbound
        /\ new.outbound = node.outbound
        /\ new.heard = [node.heard EXCEPT ![p] = h]
        /\ new.evidence = node.evidence \cup more
    BY <1>1, <2>1, <2>3, <2>4 DEF NodeType
  <2> QED
    BY <2>5 DEF h
<1>5. /\ IsFiniteSet(node.evidence \cup more)
      /\ Cardinality(node.evidence \cup more) <= MaxEvidence
      /\ \A e \in more : e.peer \in Faulty
  <2>1. CASE Conflicts(node, p, note) = {}
    <3>1. more = {}
      BY <2>1
    <3> HIDE DEF more
    <3>2. node.evidence \cup more = node.evidence
      BY <3>1
    <3> QED
      BY <3>1, <3>2 DEF NodeOK
  <2>2. CASE Conflicts(node, p, note) # {}
    <3>1. PICK a \in Conflicts(node, p, note) : TRUE
      BY <2>2
    <3>2. Conflicts(node, p, note) = {a}
      <4>1. \A x, y \in node.heard[p] : x.slot = y.slot => x = y
        BY DEF NodeOK, HeardOK
      <4> QED
        BY <3>1, <4>1 DEF Conflicts
    <3> DEFINE e == [peer |-> p, first |-> a, second |-> note, seq |-> seq]
    <3>3. more = {e} /\ e.peer = p
      BY <3>2
    <3> HIDE DEF e
    <3> HIDE DEF more
    <3>4. /\ IsFiniteSet(node.evidence \cup {e})
          /\ Cardinality(node.evidence \cup {e}) <= Cardinality(node.evidence) + 1
          /\ Cardinality(node.evidence) \in Nat
      <4>1. IsFiniteSet(node.evidence) /\ Cardinality(node.evidence) \in Nat
        BY FS_CardinalityType DEF NodeOK
      <4>2. /\ IsFiniteSet(node.evidence \cup {e})
            /\ Cardinality(node.evidence \cup {e})
                 = IF e \in node.evidence THEN Cardinality(node.evidence)
                   ELSE Cardinality(node.evidence) + 1
        BY <4>1, FS_AddElement
      <4> QED
        BY <4>1, <4>2, SMTT(90)
    <3>5. Cardinality(node.evidence \cup {e}) \in Nat /\ MaxEvidence \in Nat
      BY <3>4, FS_CardinalityType, SyncAssumption
    <3> QED
      BY <2>2, <3>3, <3>4, <3>5, SMTT(90)
  <2> QED
    BY <2>1, <2>2
<1> HIDE DEF new, more
<1>6. \A q \in Nodes : HeardOK(new.heard[q])
  <2> SUFFICES ASSUME NEW q \in Nodes PROVE HeardOK(new.heard[q])
    OBVIOUS
  <2>1. node.heard \in [Nodes -> SUBSET NoteType]
    BY <1>1 DEF NodeType
  <2>2. new.heard[q] = IF q = p THEN Remember(node.heard[p], note) ELSE node.heard[q]
    BY <1>4, <2>1
  <2> QED
    BY <1>2, <2>2 DEF NodeOK
<1>7. NodeOK(new)
  BY <1>4, <1>5, <1>6 DEF NodeOK
<1> QED
  BY <1>4, <1>7 DEF Observed, new, more
-----------------------------------------------------------------------------
(* What the holder of a lock may turn to *)

\* A task is one of seven records, told apart by its job.
LEMMA TaskCases ==
  ASSUME NEW t \in TaskType
  PROVE  /\ t.job \in {"idle", "finish", "serve", "reply", "sync", "import", "pulled"}
         /\ t.job = "idle" => t = Idle
         /\ t.job = "serve" => t \in ServeType
         /\ t.job = "reply" => t \in ReplyType
         /\ t.job = "sync" => t \in SyncType
         /\ t.job = "import" => t \in ImportType
         /\ t.job = "pulled" => t \in PulledType
  BY SMTT(90) DEF TaskType, Idle, FinishType, ServeType, ReplyType, SyncType, ImportType, PulledType

\* A request that a task carries is a message.
LEMMA CarriedTyped ==
  ASSUME NEW t \in TaskType
  PROVE  /\ Carried(t) \subseteq MessageType
         /\ Answering(t) \subseteq Carried(t)
<1>1. t.job = "import" => t.then \in FinishType \cup ReplyType \cup PullingType
  BY TaskCases DEF ImportType
<1>2. \A x \in FinishType \cup ReplyType \cup PullingType : x.job = "reply" => x \in ReplyType
  BY DEF FinishType, ReplyType, PullingType, SyncType
<1>3. \A x \in ReplyType \cup ServeType : x.req \in MessageType
  BY DEF ReplyType, ServeType
<1>4. Answering(t) \subseteq MessageType
  BY <1>1, <1>2, <1>3, TaskCases DEF Answering
<1>5. Answering(t) \subseteq Carried(t)
  BY DEF Carried, Answering
<1> QED
  BY <1>3, <1>4, <1>5, TaskCases DEF Carried

\* The inventory of a consistent store.
LEMMA AllRecordsOK ==
  ASSUME NEW st, StoreOK(st)
  PROVE  /\ AllRecords(st) \in Seq(Shares)
         /\ Len(AllRecords(st)) = Cardinality(Known(st))
         /\ Cardinality(Known(st)) \in Nat
         /\ Range(AllRecords(st)) = Known(st)
<1>1. IsFiniteSet(Known(st)) /\ Cardinality(Known(st)) \in Nat
  BY KnownFinite DEF StoreOK, PromotableOK
<1>2. Known(st) \in SUBSET Shares
  BY DEF StoreOK, PromotableOK, StoreType, OrphanType, Known, Waiting
<1>3. /\ AllRecords(st) \in Seq(Known(st))
      /\ Len(AllRecords(st)) = Cardinality(Known(st))
      /\ Range(AllRecords(st)) = Known(st)
  BY <1>1, <1>2, SortedLists DEF AllRecords
<1>4. AllRecords(st) \in Seq(Shares)
  BY <1>2, <1>3, SMTT(90)
<1> QED
  BY <1>1, <1>3, <1>4

\* The smaller of two numbers.
LEMMA MinTwo ==
  ASSUME NEW a \in Nat, NEW b \in Nat
  PROVE  /\ Min({a, b}) \in Nat
         /\ Min({a, b}) <= a /\ Min({a, b}) <= b
         /\ Min({a, b}) = a \/ Min({a, b}) = b
<1>1. \E x \in {a, b} : \A y \in {a, b} : x <= y
  BY SMTT(90)
<1>2. Min({a, b}) \in {a, b} /\ \A y \in {a, b} : Min({a, b}) <= y
  BY <1>1 DEF Min
<1> QED
  BY <1>2

\* The part of a queue that goes out, and the part that stays.
LEMMA BatchTyped ==
  ASSUME NEW queue \in Seq(Shares)
  PROVE  Batch(queue) \in BatchType /\ Rest(queue) \in Seq(Shares)
<1> DEFINE k == Min({MaxBatch, Len(queue)})
<1>1. MaxBatch \in Nat /\ Len(queue) \in Nat
  BY LimitAssumption, SMTT(90)
<1>2. k \in Nat /\ k <= MaxBatch /\ k <= Len(queue)
  BY <1>1, MinTwo
<1> HIDE DEF k
<1>3. SubSeq(queue, 1, k) \in Seq(Shares) /\ Len(SubSeq(queue, 1, k)) = k
  BY <1>1, <1>2, SMTT(90)
<1>4. SubSeq(queue, MaxBatch + 1, Len(queue)) \in Seq(Shares)
  BY <1>1, SMTT(90)
<1> QED
  BY <1>2, <1>3, <1>4 DEF Batch, Rest, BatchType, k

\* A page that is not the last one lists something, and a last page that
\* starts at the beginning lists the whole store (_handle_inventory).
LEMMA PageOK ==
  ASSUME NEW st, StoreOK(st), NEW cursor \in Nat
  PROVE  /\ InventoryPage(st, cursor) \in Seq(Shares)
         /\ NextCursor(st, cursor) \in Nat
         /\ NextCursor(st, cursor) # 0 => InventoryPage(st, cursor) # <<>>
         /\ (cursor = 0 /\ NextCursor(st, cursor) = 0)
              => Range(InventoryPage(st, cursor)) = Known(st)
<1> DEFINE all  == AllRecords(st)
           N    == Cardinality(Known(st))
           last == Min({cursor + PageSize, N})
           page == SubSeq(all, cursor + 1, last)
<1>1. all \in Seq(Shares) /\ Len(all) = N /\ N \in Nat /\ Range(all) = Known(st)
  BY AllRecordsOK
<1>2. PageSize \in Nat /\ PageSize > 0
  BY SyncAssumption, SMTT(90)
<1>3. InventoryPage(st, cursor) = page
  BY DEF InventoryPage
<1>4. NextCursor(st, cursor) = IF cursor + Len(page) >= N THEN 0 ELSE cursor + Len(page)
  BY <1>3 DEF NextCursor
<1> HIDE DEF all, N
<1>5. /\ last \in Nat /\ last <= cursor + PageSize /\ last <= N
      /\ last = cursor + PageSize \/ last = N
  BY <1>1, <1>2, MinTwo, SMTT(90)
<1> HIDE DEF last
<1>6. /\ page \in Seq(Shares)
      /\ Len(page) = IF cursor + 1 <= last THEN last - cursor ELSE 0
  BY <1>1, <1>5, SMTT(90)
<1>7. cursor = 0 /\ Len(page) >= N => page = all
  BY <1>1, <1>5, <1>6, SMTT(90)
<1> HIDE DEF page
<1>8. NextCursor(st, cursor) \in Nat
  BY <1>1, <1>4, <1>5, <1>6, SMTT(90)
<1>9. NextCursor(st, cursor) # 0 => Len(page) # 0
  BY <1>1, <1>2, <1>4, <1>5, <1>6, SMTT(90)
<1>10. page = <<>> => Len(page) = 0
  BY SMTT(90)
<1>11. (cursor = 0 /\ NextCursor(st, cursor) = 0) => page = all
  BY <1>1, <1>2, <1>4, <1>5, <1>6, <1>7, SMTT(90)
<1> QED
  BY <1>1, <1>3, <1>6, <1>8, <1>9, <1>10, <1>11

\* a sync that is about to send, at the start of its last inventory or not
Between(j) ==
  /\ j \in SyncType
  /\ j.waiting = 0
  /\ (j.phase = "final" /\ j.seen = <<>>) => j.cursor = 0

\* The phases of sync_peer follow each other without a message on the way.
LEMMA PhasesTyped ==
  ASSUME NEW j \in SyncType, j.waiting = 0, NEW st, StoreOK(st)
  PROVE  /\ Between(FinalPhase(j))
         /\ Between(PushPhase(j, st))
         /\ Between(PullPhase(j, st))
<1>1. <<>> \in Seq(Shares)
  BY SMTT(90)
<1>2. Between(FinalPhase(j))
  <2>1. FinalPhase(j) \in SyncType
    BY <1>1 DEF FinalPhase, SyncType
  <2>2. FinalPhase(j).waiting = 0 /\ FinalPhase(j).cursor = 0
    BY DEF FinalPhase, SyncType
  <2> QED
    BY <2>1, <2>2 DEF Between
<1>3. ASSUME NEW q \in Seq(Shares), NEW ph \in {"pull", "push"}
      PROVE  Between([j EXCEPT !.phase = ph, !.queue = q])
  <2> DEFINE k == [j EXCEPT !.phase = ph, !.queue = q]
  <2>1. k \in SyncType /\ k.waiting = 0 /\ k.phase = ph
    BY DEF SyncType
  <2> QED
    BY <2>1 DEF Between
<1>4. Between(PushPhase(j, st))
  <2>1. Kept(AllRecords(st), Shares \ Range(j.seen)) \in Seq(Shares)
    BY AllRecordsOK, KeptLists
  <2> QED
    BY <1>2, <1>3, <2>1 DEF PushPhase
<1>5. Between(PullPhase(j, st))
  <2>1. j.seen \in Seq(Shares)
    BY DEF SyncType
  <2>2. Kept(j.seen, Shares \ Known(st)) \in Seq(Shares)
    BY <2>1, KeptLists
  <2> QED
    BY <1>3, <1>4, <2>2 DEF PullPhase
<1> QED
  BY <1>2, <1>4, <1>5

\* The clock of a store: ageing advances it, an import does not.
LEMMA StoreTicks ==
  ASSUME NEW st, StoreOK(st)
  PROVE  /\ st.tick \in Nat
         /\ \A k \in Nat : Aged(st, k).tick = st.tick + k
         /\ \A s \in Shares : ImportOne(st, s).tick = st.tick
         /\ PromoteOrphans(st).tick = st.tick
<1>1. st \in StoreType
  BY DEF StoreOK, PromotableOK
<1>2. \A x \in StoreType : PromoteOrphans(x).tick = x.tick
  BY DEF PromoteOrphans, StoreType
<1>3. \A k \in Nat : Aged(st, k).tick = st.tick + k
  BY <1>1 DEF Aged, PruneOrphans, StoreType
<1>4. ASSUME NEW s \in Shares PROVE ImportOne(st, s).tick = st.tick
  <2>1. CASE BecomesAccepted(st, s)
    <3> DEFINE x == [st EXCEPT !.accepted = @ \cup {s}]
    <3>1. x \in StoreType /\ x.tick = st.tick
      BY <1>1 DEF StoreType
    <3>2. ImportOne(st, s) = PromoteOrphans(x)
      BY <2>1 DEF ImportOne
    <3> QED
      BY <1>2, <3>1, <3>2
  <2>2. CASE ~BecomesAccepted(st, s)
    BY <1>1, <2>2 DEF ImportOne, StoreType
  <2> QED
    BY <2>1, <2>2
<1> QED
  BY <1>1, <1>2, <1>3, <1>4 DEF StoreType
-----------------------------------------------------------------------------
(* Steps that change one store and take no sequence number *)

Local(n, st, t) ==
  /\ mem' = [mem EXCEPT ![n] = [mem[n] EXCEPT !.store = st]]
  /\ \/ disk' = disk /\ (t.job = "import" => disk[n].store.tick < st.tick)
     \/ disk' = [disk EXCEPT ![n] = [mem[n] EXCEPT !.store = st]] /\ t.job # "import"
     \/ disk' = [disk EXCEPT ![n] = mem[n]] /\ mem[n].store.tick < st.tick
  /\ task' = [task EXCEPT ![n] = t]
  /\ net' \subseteq net
  /\ answers' \subseteq answers
  /\ StoreOK(st)
  /\ mem[n].store.tick <= st.tick
  /\ st = mem[n].store \/ disk[n].store.tick < st.tick
  /\ t \in TaskType
  /\ t.job = "sync" => Between(t)
  /\ t.job # "serve"
  /\ Answering(t) \subseteq Answering(task[n])

\* What is known of the node that takes a step.
LEMMA NodeFacts ==
  ASSUME TypesOK, NotesOK, NEW n \in Honest
  PROVE  /\ n \in Nodes
         /\ NodeOK(mem[n]) /\ NodeOK(disk[n])
         /\ StoreOK(mem[n].store) /\ StoreOK(disk[n].store)
         /\ mem[n].store.tick \in Nat /\ disk[n].store.tick \in Nat
         /\ disk[n].store.tick <= mem[n].store.tick
         /\ task[n] \in TaskType
<1>1. n \in Nodes
  BY DEF Honest
<1>2. NodeOK(mem[n]) /\ NodeOK(disk[n])
  BY <1>1 DEF TypesOK
<1>3. StoreOK(mem[n].store) /\ StoreOK(disk[n].store)
  BY <1>2 DEF NodeOK
<1> QED
  BY <1>1, <1>2, <1>3, StoreTicks DEF TypesOK, NotesOK

\* The node as it is, without its store written anew.
LEMMA SameStore ==
  ASSUME NEW node \in NodeType
  PROVE  [node EXCEPT !.store = node.store] = node
  BY DEF NodeType

\* Idle, finishing and answering tasks carry nothing new.
LEMMA SimpleTasks ==
  /\ Idle \in TaskType /\ Idle.job = "idle" /\ Answering(Idle) = {}
  /\ [job |-> "finish"] \in TaskType /\ Answering([job |-> "finish"]) = {}
  /\ \A j \in SyncType : j \in TaskType /\ j.job = "sync" /\ Answering(j) = {}
<1>1. \A j \in SyncType : j.job = "sync"
  BY DEF SyncType
<1>2. \A j \in SyncType : j \in TaskType /\ j.job = "sync" /\ Answering(j) = {}
  BY <1>1 DEF TaskType, Answering
<1> QED
  BY <1>2 DEF TaskType, Idle, FinishType, Answering

\* Every operation of a controller ages the store (handle_envelope).
LEMMA ControlLocal ==
  ASSUME TypesOK, NotesOK, NEW n \in Honest, Control(n)
  PROVE  \E st, t : Local(n, st, t)
<1>1. NodeOK(mem[n]) /\ StoreOK(mem[n].store) /\ task[n] \in TaskType
  BY NodeFacts
<1>2. ASSUME NEW k \in Nat, k > 0
      PROVE  /\ AgedNode(mem[n], k) = [mem[n] EXCEPT !.store = Aged(mem[n].store, k)]
             /\ StoreOK(Aged(mem[n].store, k))
             /\ mem[n].store.tick <= Aged(mem[n].store, k).tick
             /\ mem[n].store.tick < Aged(mem[n].store, k).tick
             /\ disk[n].store.tick < Aged(mem[n].store, k).tick
  <2>1. Aged(mem[n].store, k).tick = mem[n].store.tick + k
    BY <1>1, StoreTicks
  <2>2. StoreOK(Aged(mem[n].store, k))
    BY <1>1, AgedOK
  <2>3. /\ mem[n].store.tick \in Nat /\ disk[n].store.tick \in Nat
        /\ disk[n].store.tick <= mem[n].store.tick
    BY NodeFacts
  <2> QED
    BY <1>2, <2>1, <2>2, <2>3, SMTT(90) DEF AgedNode
<1>3. ASSUME NEW batch \in Imports, ControlImport(n, batch)
      PROVE  \E st, t : Local(n, st, t)
  <2> DEFINE st == Aged(mem[n].store, 2)
             t  == [job |-> "import", todo |-> batch, then |-> [job |-> "finish"]]
  <2>1. t \in TaskType /\ t.job = "import" /\ Answering(t) = {}
    <3>1. batch \in Seq(Shares)
      BY SyncAssumption
    <3>2. t \in ImportType /\ t.job = "import" /\ t.then.job = "finish"
      BY <3>1 DEF ImportType, FinishType
    <3> QED
      BY <3>2 DEF TaskType, Answering
  <2>2. /\ mem' = [mem EXCEPT ![n] = AgedNode(mem[n], 2)]
        /\ task' = [task EXCEPT ![n] = t]
        /\ disk' = [disk EXCEPT ![n] = mem[n]]
        /\ UNCHANGED <<net, answers>>
    BY <1>3 DEF ControlImport, Become, Persist, Turn
  <2>3. /\ AgedNode(mem[n], 2) = [mem[n] EXCEPT !.store = st]
        /\ StoreOK(st)
        /\ mem[n].store.tick <= st.tick /\ mem[n].store.tick < st.tick
        /\ disk[n].store.tick < st.tick
    <3>1. 2 \in Nat /\ 2 > 0
      BY SMTT(90)
    <3> QED
      BY <3>1, <1>2
  <2> HIDE DEF st, t
  <2>4. Local(n, st, t)
    BY <2>1, <2>2, <2>3 DEF Local
  <2> QED
    BY <2>4
<1>4. ASSUME NEW count \in 0 .. MaxOrphanAge + 1, ControlTick(n, count)
      PROVE  \E st, t : Local(n, st, t)
  <2> DEFINE st == Aged(mem[n].store, 1 + count)
             t  == [job |-> "finish"]
  <2>1. /\ mem' = [mem EXCEPT ![n] = AgedNode(mem[n], 1 + count)]
        /\ task' = [task EXCEPT ![n] = t]
        /\ disk' = [disk EXCEPT ![n] = mem[n]]
        /\ UNCHANGED <<net, answers>>
    BY <1>4 DEF ControlTick, Become, Persist, Turn
  <2>2. 1 + count \in Nat /\ 1 + count > 0
    BY LimitAssumption, SMTT(90)
  <2>3. t \in TaskType /\ Answering(t) = {} /\ t.job = "finish"
    BY SimpleTasks
  <2>4. /\ AgedNode(mem[n], 1 + count) = [mem[n] EXCEPT !.store = st]
        /\ StoreOK(st)
        /\ mem[n].store.tick <= st.tick /\ mem[n].store.tick < st.tick
        /\ disk[n].store.tick < st.tick
    BY <1>2, <2>2
  <2> HIDE DEF st, t
  <2>5. Local(n, st, t)
    BY <2>1, <2>3, <2>4 DEF Local
  <2> QED
    BY <2>5
<1>5. CASE ControlFails(n)
  <2> DEFINE st == Aged(mem[n].store, 1)
  <2>1. /\ mem' = [mem EXCEPT ![n] = AgedNode(mem[n], 1)]
        /\ task[n] = Idle
        /\ task' = task
        /\ disk' = [disk EXCEPT ![n] = mem[n]]
        /\ UNCHANGED <<net, answers>>
    BY <1>5 DEF ControlFails, Become, Persist
  <2>2. task' = [task EXCEPT ![n] = Idle]
    BY <2>1 DEF TypesOK
  <2>3. /\ AgedNode(mem[n], 1) = [mem[n] EXCEPT !.store = st]
        /\ StoreOK(st)
        /\ mem[n].store.tick <= st.tick /\ mem[n].store.tick < st.tick
        /\ disk[n].store.tick < st.tick
    BY <1>2, SMTT(90)
  <2> HIDE DEF st
  <2>4. Local(n, st, Idle)
    BY <2>1, <2>2, <2>3, SimpleTasks DEF Local
  <2> QED
    BY <2>4
<1>6. ASSUME NEW p \in Honest \ {n}, ControlSync(n, p)
      PROVE  \E st, t : Local(n, st, t)
  <2> DEFINE st == Aged(mem[n].store, 1)
             t  == [job |-> "sync", peer |-> p, phase |-> "inventory", cursor |-> 0,
                    seen |-> <<>>, queue |-> <<>>, waiting |-> 0]
  <2>1. /\ mem' = [mem EXCEPT ![n] = AgedNode(mem[n], 1)]
        /\ task' = [task EXCEPT ![n] = t]
        /\ disk' = [disk EXCEPT ![n] = mem[n]]
        /\ UNCHANGED <<net, answers>>
    BY <1>6 DEF ControlSync, Become, Persist, Turn
  <2>2. t \in SyncType /\ t.waiting = 0 /\ t.phase = "inventory"
    <3>1. <<>> \in Seq(Shares)
      BY SMTT(90)
    <3> QED
      BY <3>1 DEF SyncType
  <2>3. Between(t)
    BY <2>2 DEF Between
  <2>4. /\ AgedNode(mem[n], 1) = [mem[n] EXCEPT !.store = st]
        /\ StoreOK(st)
        /\ mem[n].store.tick <= st.tick /\ mem[n].store.tick < st.tick
        /\ disk[n].store.tick < st.tick
    BY <1>2, SMTT(90)
  <2> HIDE DEF st, t
  <2>5. t \in TaskType /\ t.job = "sync" /\ Answering(t) = {}
    BY <2>2, SimpleTasks
  <2>6. Local(n, st, t)
    BY <2>1, <2>3, <2>4, <2>5 DEF Local
  <2> QED
    BY <2>6
<1> QED
  BY <1>3, <1>4, <1>5, <1>6 DEF Control

Quiet(n) ==
  \/ Control(n) \/ Finish(n) \/ ImportNext(n) \/ EndImport(n)
  \/ ServeRaises(n) \/ ImportPulled(n) \/ TimeOut(n)
  \/ \E m \in net : RefuseReplay(n, m)

\* A step that leaves the store alone and frees the lock, saving or not.
LEMMA ReleaseLocal ==
  ASSUME TypesOK, NotesOK, NEW n \in Honest,
         mem' = mem, task' = [task EXCEPT ![n] = Idle],
         disk' = disk \/ disk' = [disk EXCEPT ![n] = mem[n]],
         net' \subseteq net, answers' \subseteq answers
  PROVE  \E st, t : Local(n, st, t)
<1> DEFINE st == mem[n].store
<1>1. /\ n \in Nodes /\ mem[n] \in NodeType
      /\ StoreOK(st) /\ st.tick \in Nat /\ st.tick <= st.tick
  <2>1. n \in Nodes /\ NodeOK(mem[n]) /\ StoreOK(st) /\ st.tick \in Nat
    BY NodeFacts
  <2> QED
    BY <2>1, SMTT(90) DEF NodeOK
<1>2. [mem[n] EXCEPT !.store = st] = mem[n]
  BY <1>1, SameStore
<1>3. mem' = [mem EXCEPT ![n] = mem[n]]
  BY DEF TypesOK
<1> HIDE DEF st
<1>4. Local(n, st, Idle)
  BY <1>1, <1>2, <1>3, SimpleTasks DEF Local, st
<1> QED
  BY <1>4

\* Nothing that a node does on its own takes a sequence number, and what it
\* imports is imported at a tick that it has not announced.
LEMMA QuietLocal ==
  ASSUME TypesOK, NotesOK, NEW n \in Honest, Quiet(n)
  PROVE  \E st, t : Local(n, st, t)
<1> DEFINE old == mem[n].store
<1>1. /\ n \in Nodes
      /\ NodeOK(mem[n]) /\ mem[n] \in NodeType
      /\ StoreOK(old) /\ old.tick \in Nat
      /\ disk[n].store.tick \in Nat /\ disk[n].store.tick <= old.tick
      /\ task[n] \in TaskType
  BY NodeFacts DEF NodeOK
<1>2. /\ Aged(old, 1).tick = old.tick + 1
      /\ StoreOK(Aged(old, 1))
      /\ AgedNode(mem[n], 1) = [mem[n] EXCEPT !.store = Aged(old, 1)]
  BY <1>1, StoreTicks, AgedOK DEF AgedNode
<1>3. CASE Control(n)
  BY <1>3, ControlLocal
<1>4. CASE Finish(n)
  BY <1>4, ReleaseLocal DEF Finish, Persist, Turn
<1>5. CASE ImportNext(n)
  <2> DEFINE st == ImportOne(old, Head(task[n].todo))
             t  == [task[n] EXCEPT !.todo = Tail(@)]
  <2>1. task[n] \in ImportType /\ task[n].todo # <<>> /\ task[n].job = "import"
    BY <1>1, <1>5, TaskCases DEF ImportNext
  <2>2. Head(task[n].todo) \in Shares /\ Tail(task[n].todo) \in Seq(Shares)
    BY <2>1, SMTT(90) DEF ImportType
  <2>3. StoreOK(st) /\ st.tick = old.tick
    BY <1>1, <2>2, ImportOneOK, StoreTicks
  <2>4. t \in ImportType /\ t.job = "import" /\ t.then = task[n].then
    BY <2>1, <2>2 DEF ImportType
  <2>5. t \in TaskType /\ Answering(t) = Answering(task[n])
    BY <2>1, <2>4 DEF TaskType, Answering
  <2>6. disk[n].store.tick < old.tick
    BY <2>1 DEF NotesOK
  <2>7. /\ mem' = [mem EXCEPT ![n] = [mem[n] EXCEPT !.store = st]]
        /\ task' = [task EXCEPT ![n] = t]
        /\ UNCHANGED <<disk, net, answers>>
    BY <1>5 DEF ImportNext, Become, Turn
  <2> HIDE DEF st, t
  <2>8. Local(n, st, t)
    BY <1>1, <2>3, <2>4, <2>5, <2>6, <2>7, SMTT(90) DEF Local
  <2> QED
    BY <2>8
<1>6. CASE EndImport(n)
  <2> DEFINE st == PromoteOrphans(old)
             t  == AfterImport(task[n].then, st)
  <2>1. task[n] \in ImportType /\ task[n].job = "import"
    BY <1>1, <1>6, TaskCases DEF EndImport
  <2>2. StoreOK(st) /\ st.tick = old.tick
    BY <1>1, PromoteOrphansOK, StoreTicks DEF StoreOK
  <2>3. disk[n].store.tick < old.tick
    BY <2>1 DEF NotesOK
  <2>4. /\ mem' = [mem EXCEPT ![n] = [mem[n] EXCEPT !.store = st]]
        /\ disk' = [disk EXCEPT ![n] = [mem[n] EXCEPT !.store = st]]
        /\ task' = [task EXCEPT ![n] = t]
        /\ UNCHANGED <<net, answers>>
    BY <1>6 DEF EndImport, Become, Persist, Turn
  <2> HIDE DEF st
  <2>5. /\ t \in TaskType /\ t.job \notin {"import", "serve"}
        /\ t.job = "sync" => Between(t)
        /\ Answering(t) \subseteq Answering(task[n])
    <3>1. CASE task[n].then \in FinishType
      <4>1. task[n].then = [job |-> "finish"]
        BY <3>1 DEF FinishType
      <4> QED
        BY <4>1, SimpleTasks, SMTT(90) DEF AfterImport
    <3>2. CASE task[n].then \in ReplyType
      <4>1. t = task[n].then /\ t.job = "reply"
        BY <3>2 DEF AfterImport, ReplyType
      <4> QED
        BY <2>1, <3>2, <4>1 DEF TaskType, Answering
    <3>3. CASE task[n].then \in PullingType
      <4>1. /\ task[n].then \in SyncType /\ task[n].then.waiting = 0
            /\ task[n].then.phase = "pull"
        BY <3>3 DEF PullingType
      <4>2. Between(task[n].then)
        BY <4>1 DEF Between
      <4>3. Between(t)
        BY <2>2, <4>1, <4>2, PhasesTyped DEF AfterImport
      <4> HIDE DEF t
      <4> QED
        BY <4>3, SimpleTasks DEF Between
    <3> QED
      BY <2>1, <3>1, <3>2, <3>3 DEF ImportType
  <2> HIDE DEF t
  <2>6. Local(n, st, t)
    BY <1>1, <2>2, <2>3, <2>4, <2>5, SMTT(90) DEF Local
  <2> QED
    BY <2>6
<1>7. CASE ServeRaises(n)
  <2> DEFINE st == Aged(old, 1)
  <2>1. /\ mem' = [mem EXCEPT ![n] = AgedNode(mem[n], 1)]
        /\ task' = [task EXCEPT ![n] = Idle]
        /\ UNCHANGED <<disk, net, answers>>
    BY <1>7 DEF ServeRaises, Become, Turn
  <2>2. old.tick <= st.tick /\ disk[n].store.tick < st.tick
    BY <1>1, <1>2, SMTT(90)
  <2> HIDE DEF st
  <2>3. Local(n, st, Idle)
    BY <1>2, <2>1, <2>2, SimpleTasks DEF Local, st
  <2> QED
    BY <2>3
<1>8. CASE ImportPulled(n)
  <2> DEFINE st == Aged(old, 1)
             t  == [task[n] EXCEPT !.job = "import"]
  <2>1. task[n] \in PulledType
    BY <1>1, <1>8, TaskCases DEF ImportPulled
  <2>2. /\ mem' = [mem EXCEPT ![n] = AgedNode(mem[n], 1)]
        /\ task' = [task EXCEPT ![n] = t]
        /\ UNCHANGED <<disk, net, answers>>
    BY <1>8 DEF ImportPulled, Become, Turn
  <2>3. old.tick <= st.tick /\ disk[n].store.tick < st.tick
    BY <1>1, <1>2, SMTT(90)
  <2>4. t \in ImportType /\ t.job = "import" /\ t.then.job = "sync"
    <3>1. /\ task[n].todo \in Seq(Shares)
          /\ task[n].then \in PullingType
          /\ task[n].then.job = "sync"
      BY <2>1 DEF PulledType, BatchType, PullingType, SyncType
    <3> QED
      BY <2>1, <3>1 DEF PulledType, ImportType
  <2> HIDE DEF st, t
  <2>5. t \in TaskType /\ Answering(t) = {}
    BY <2>4 DEF TaskType, Answering
  <2>6. Local(n, st, t)
    BY <1>2, <2>2, <2>3, <2>4, <2>5 DEF Local, st
  <2> QED
    BY <2>6
<1>9. CASE TimeOut(n)
  BY <1>9, ReleaseLocal DEF TimeOut, Turn
<1>10. ASSUME NEW m \in net, RefuseReplay(n, m) PROVE \E st, t : Local(n, st, t)
  <2>1. /\ task[n] = Idle /\ net' \subseteq net
        /\ UNCHANGED <<mem, disk, task, answers>>
    BY <1>10 DEF RefuseReplay
  <2>2. task' = [task EXCEPT ![n] = Idle]
    BY <2>1 DEF TypesOK
  <2> QED
    BY <2>1, <2>2, ReleaseLocal
<1> QED
  BY <1>3, <1>4, <1>5, <1>6, <1>7, <1>8, <1>9, <1>10 DEF Quiet
-----------------------------------------------------------------------------
(* What a step that changes one node keeps of each part of the invariant *)

Step(n, node, d, t) ==
  /\ mem' = [mem EXCEPT ![n] = node]
  /\ disk' = [disk EXCEPT ![n] = d]
  /\ task' = [task EXCEPT ![n] = t]

\* What every node is after such a step.
LEMMA StepAt ==
  ASSUME TypesOK, NEW n \in Nodes, NEW node, NEW d, NEW t, Step(n, node, d, t)
  PROVE  /\ mem'[n] = node /\ disk'[n] = d /\ task'[n] = t
         /\ \A k \in Nodes \ {n} :
              mem'[k] = mem[k] /\ disk'[k] = disk[k] /\ task'[k] = task[k]
  BY DEF TypesOK, Step

\* The types, for whatever node and task the step leaves behind.
LEMMA TypesFrame ==
  ASSUME TypesOK, NEW n \in Nodes, NEW node, NEW d, NEW t \in TaskType,
         Step(n, node, d, t), NodeOK(node), NodeOK(d),
         n \in Faulty => t = Idle,
         net' \subseteq MessageType, answers' \subseteq AnswerType
  PROVE  TypesOK'
<1>1. node \in NodeType /\ d \in NodeType
  BY DEF NodeOK
<1>2. /\ mem' \in [Nodes -> NodeType]
      /\ disk' \in [Nodes -> NodeType]
      /\ task' \in [Nodes -> TaskType]
  BY <1>1 DEF TypesOK, Step
<1>3. \A k \in Nodes : NodeOK(mem'[k]) /\ NodeOK(disk'[k])
  <2> SUFFICES ASSUME NEW k \in Nodes PROVE NodeOK(mem'[k]) /\ NodeOK(disk'[k])
    OBVIOUS
  <2>1. NodeOK(mem[k]) /\ NodeOK(disk[k])
    BY DEF TypesOK
  <2> QED
    BY <2>1, StepAt, SMTT(90)
<1>4. \A k \in Faulty : task'[k] = Idle
  BY StepAt, SyncAssumption DEF TypesOK
<1> QED
  BY <1>2, <1>3, <1>4 DEF TypesOK

\* What a message is made of.
LEMMA MessageFields ==
  ASSUME TypesOK
  PROVE  /\ \A m \in net : /\ m.from \in Nodes /\ m.to \in Nodes
                            /\ m.seq \in Nat /\ m.seq > 0 /\ m.note \in NoteType
         /\ \A r \in answers : /\ r.from \in Honest /\ r.from \in Nodes /\ r.to \in Nodes
                                /\ r.seq \in Nat /\ r.conn \in Nat /\ r.note \in NoteType
         /\ \A n \in Nodes : \A m \in Carried(task[n]) :
              /\ m.from \in Nodes /\ m.to \in Nodes
              /\ m.seq \in Nat /\ m.seq > 0 /\ m.note \in NoteType
         /\ \A p, q \in Nodes : mem[p].inbound[q] \in Nat /\ mem[p].outbound[q] \in Nat
<1>1. \A m \in MessageType : /\ m.from \in Nodes /\ m.to \in Nodes
                             /\ m.seq \in Nat /\ m.seq > 0 /\ m.note \in NoteType
  BY DEF MessageType, RequestType
<1>2. \A n \in Nodes : Carried(task[n]) \subseteq MessageType
  BY CarriedTyped DEF TypesOK
<1>3. \A r \in AnswerType : /\ r.from \in Honest /\ r.from \in Nodes /\ r.to \in Nodes
                            /\ r.seq \in Nat /\ r.conn \in Nat /\ r.note \in NoteType
  BY DEF AnswerType, Honest
<1>4. \A p, q \in Nodes : mem[p].inbound[q] \in Nat /\ mem[p].outbound[q] \in Nat
  BY DEF TypesOK, NodeType
<1>5. net \subseteq MessageType /\ answers \subseteq AnswerType
  BY DEF TypesOK
<1> QED
  BY <1>1, <1>2, <1>3, <1>4, <1>5

\* A step that takes no sequence number and sends nothing keeps the counters
\* in order, as long as it does not start to wait.
LEMMA CountersFrame ==
  ASSUME TypesOK, CountersOK, NEW n \in Nodes, NEW node, NEW d, NEW t,
         Step(n, node, d, t),
         node.inbound = mem[n].inbound, node.outbound = mem[n].outbound,
         d.inbound = disk[n].inbound, d.outbound = disk[n].outbound,
         net' \subseteq net, answers' \subseteq answers,
         Carried(t) \subseteq Carried(task[n]),
         t = task[n] \/ (t.job = "sync" => t.waiting = 0)
  PROVE  CountersOK'
<1>1. \A k \in Nodes : /\ mem'[k].inbound = mem[k].inbound
                       /\ mem'[k].outbound = mem[k].outbound
                       /\ disk'[k].inbound = disk[k].inbound
                       /\ disk'[k].outbound = disk[k].outbound
                       /\ Carried(task'[k]) \subseteq Carried(task[k])
                       /\ task'[k] = task[k] \/ (task'[k].job = "sync" => task'[k].waiting = 0)
  <2>1. /\ mem'[n] = node /\ disk'[n] = d /\ task'[n] = t
        /\ \A k \in Nodes \ {n} :
             mem'[k] = mem[k] /\ disk'[k] = disk[k] /\ task'[k] = task[k]
    BY StepAt
  <2> QED
    BY <2>1
<1>2. \A k \in Honest : /\ disk'[k].inbound = mem'[k].inbound
                        /\ disk'[k].outbound = mem'[k].outbound
  BY <1>1, SMTT(90) DEF CountersOK, Honest
<1>3. \A p, q \in Nodes : mem'[q].inbound[p] <= mem'[p].outbound[q]
  BY <1>1 DEF CountersOK
<1>4. \A m \in net' : m.seq <= mem'[m.from].outbound[m.to]
  BY <1>1, MessageFields DEF CountersOK
<1>5. \A k \in Nodes : \A m \in Carried(task'[k]) :
        m.to = k /\ m.seq <= mem'[m.from].outbound[k]
  BY <1>1, MessageFields DEF CountersOK
<1>6. \A r \in answers' : /\ r.seq <= mem'[r.from].outbound[r.to]
                          /\ 0 < r.conn
                          /\ r.conn <= mem'[r.to].outbound[r.from]
  BY <1>1, MessageFields DEF CountersOK
<1>7. /\ \A m, k \in net' : SameEnvelope(m, k) => m = k
      /\ \A m \in net', r \in answers' : ~SameEnvelope(m, r)
  BY DEF CountersOK
<1>8. \A k \in Nodes : (task'[k].job = "sync" /\ task'[k].waiting # 0)
                          => task'[k].waiting = mem'[k].outbound[task'[k].peer]
  BY <1>1, SMTT(90) DEF CountersOK
<1>9. LiveNeverReplay'
  <2>1. \A k, p \in Nodes, seq \in Nat : seq > 0 /\ Awaits(k, p, seq)' => Awaits(k, p, seq)
    BY <1>1, SMTT(90) DEF Awaits
  <2>2. \A m \in net' : ~m.copy /\ Awaits(m.from, m.to, m.seq)'
                           => m.seq > mem'[m.to].inbound[m.from]
    <3> SUFFICES ASSUME NEW m \in net', ~m.copy, Awaits(m.from, m.to, m.seq)'
                 PROVE  m.seq > mem'[m.to].inbound[m.from]
      OBVIOUS
    <3>1. m \in net /\ m.from \in Nodes /\ m.to \in Nodes /\ m.seq \in Nat /\ m.seq > 0
      BY MessageFields
    <3>2. Awaits(m.from, m.to, m.seq)
      BY <2>1, <3>1
    <3> QED
      BY <1>1, <3>1, <3>2 DEF CountersOK, LiveNeverReplay, Authentic
  <2>3. \A r \in answers' : Awaits(r.to, r.from, r.conn)'
                               => r.seq > mem'[r.to].inbound[r.from]
    <3> SUFFICES ASSUME NEW r \in answers', Awaits(r.to, r.from, r.conn)'
                 PROVE  r.seq > mem'[r.to].inbound[r.from]
      OBVIOUS
    <3>1. r \in answers /\ r.from \in Nodes /\ r.to \in Nodes /\ r.conn \in Nat /\ r.conn > 0
      BY MessageFields DEF CountersOK
    <3>2. Awaits(r.to, r.from, r.conn)
      BY <2>1, <3>1
    <3> QED
      BY <1>1, <3>1, <3>2 DEF CountersOK, LiveNeverReplay, Authentic
  <2> QED
    BY <2>2, <2>3 DEF LiveNeverReplay, Authentic
<1> QED
  BY <1>2, <1>3, <1>4, <1>5, <1>6, <1>7, <1>8, <1>9
     DEF CountersOK, SameEnvelope, Carried, Answering

\* Where an announcement can be.
NotedSomewhere ==
  \A p, x : x \in Noted(p) <=>
    \/ \E m \in net : m.from = p /\ m.note = x
    \/ \E r \in answers : r.from = p /\ r.note = x
    \/ \E n \in Nodes : \E m \in Carried(task[n]) : m.from = p /\ m.note = x
    \/ \E n \in Nodes : x \in mem[n].heard[p]
    \/ \E n \in Nodes : x \in disk[n].heard[p]

\* An announcement is in a message, in a task or in a table of heard slots.
LEMMA NotedIs == NotedSomewhere
<1> SUFFICES ASSUME NEW p, NEW x
             PROVE  x \in Noted(p) <=>
                      \/ \E m \in net : m.from = p /\ m.note = x
                      \/ \E r \in answers : r.from = p /\ r.note = x
                      \/ \E n \in Nodes : \E m \in Carried(task[n]) : m.from = p /\ m.note = x
                      \/ \E n \in Nodes : x \in mem[n].heard[p]
                      \/ \E n \in Nodes : x \in disk[n].heard[p]
  BY DEF NotedSomewhere
<1> DEFINE A == {m.note : m \in {k \in net : k.from = p}}
           B == {r.note : r \in {k \in answers : k.from = p}}
           C(n) == {m.note : m \in {k \in Carried(task[n]) : k.from = p}}
           D == UNION {C(n) : n \in Nodes}
           E == UNION {mem[n].heard[p] : n \in Nodes}
           F == UNION {disk[n].heard[p] : n \in Nodes}
<1>1. x \in A <=> \E m \in net : m.from = p /\ m.note = x
  OBVIOUS
<1>2. x \in B <=> \E r \in answers : r.from = p /\ r.note = x
  OBVIOUS
<1>3. x \in D <=> \E n \in Nodes : \E m \in Carried(task[n]) : m.from = p /\ m.note = x
  <2>1. \A n : x \in C(n) <=> \E m \in Carried(task[n]) : m.from = p /\ m.note = x
    OBVIOUS
  <2> HIDE DEF C
  <2> QED
    BY <2>1
<1>4. x \in E <=> \E n \in Nodes : x \in mem[n].heard[p]
  OBVIOUS
<1>5. x \in F <=> \E n \in Nodes : x \in disk[n].heard[p]
  OBVIOUS
<1>6. Noted(p) = A \cup B \cup D \cup E \cup F
  BY DEF Noted
<1> HIDE DEF A, B, D, E, F
<1> QED
  BY <1>1, <1>2, <1>3, <1>4, <1>5, <1>6

\* The same, place by place.
LEMMA NotedPlaces ==
  ASSUME NEW p
  PROVE  /\ \A m \in net : m.from = p => m.note \in Noted(p)
         /\ \A r \in answers : r.from = p => r.note \in Noted(p)
         /\ \A n \in Nodes : \A m \in Carried(task[n]) : m.from = p => m.note \in Noted(p)
         /\ \A n \in Nodes : mem[n].heard[p] \subseteq Noted(p)
         /\ \A n \in Nodes : disk[n].heard[p] \subseteq Noted(p)
  BY NotedIs DEF NotedSomewhere

\* Announcements that a step may add, place by place.
LEMMA NotedWithin ==
  ASSUME TypesOK, NEW n \in Nodes, NEW node, NEW d, NEW t, Step(n, node, d, t),
         NEW p \in Nodes, NEW W, Noted(p) \subseteq W,
         \A m \in net' : m.from = p => m.note \in W,
         \A r \in answers' : r.from = p => r.note \in W,
         \A m \in Carried(t) : m.from = p => m.note \in W,
         node.heard[p] \subseteq W, d.heard[p] \subseteq W
  PROVE  Noted(p)' \subseteq W
<1>1. /\ mem'[n] = node /\ disk'[n] = d /\ task'[n] = t
      /\ \A k \in Nodes \ {n} :
           mem'[k] = mem[k] /\ disk'[k] = disk[k] /\ task'[k] = task[k]
  BY StepAt
<1>2. \A k \in Nodes : mem'[k].heard[p] \subseteq W /\ disk'[k].heard[p] \subseteq W
  <2>1. \A k \in Nodes : mem[k].heard[p] \subseteq W /\ disk[k].heard[p] \subseteq W
    BY NotedPlaces
  <2> QED
    BY <1>1, <2>1
<1>3. \A k \in Nodes : \A m \in Carried(task'[k]) : m.from = p => m.note \in W
  <2>1. \A k \in Nodes : \A m \in Carried(task[k]) : m.from = p => m.note \in W
    BY NotedPlaces
  <2> QED
    BY <1>1, <2>1
<1>4. NotedSomewhere'
  BY NotedIs, PTL
<1> QED
  BY <1>2, <1>3, <1>4 DEF NotedSomewhere

\* Announcements are typed wherever they are.
LEMMA NotedTyped ==
  ASSUME TypesOK, NEW p \in Nodes
  PROVE  Noted(p) \subseteq NoteType
<1>1. \A m \in net : m.note \in NoteType
  BY MessageFields
<1>2. \A r \in answers : r.note \in NoteType
  BY MessageFields
<1>3. \A k \in Nodes : \A m \in Carried(task[k]) : m.note \in NoteType
  BY MessageFields
<1>4. \A k \in Nodes : mem[k].heard[p] \subseteq NoteType /\ disk[k].heard[p] \subseteq NoteType
  BY DEF TypesOK, NodeType
<1> QED
  BY <1>1, <1>2, <1>3, <1>4, NotedIs DEF NotedSomewhere

\* how a node's file and memory may change: from a and b to c and e
StoresMove(a, b, c, e) ==
  \/ /\ c = a
     /\ e = b \/ e = a \/ a.tick < e.tick
  \/ /\ c = e
     /\ e = b \/ a.tick < e.tick
  \/ c = b /\ b.tick < e.tick

\* What agreed with the file and with memory goes on to agree with both.
LEMMA NotesAgree ==
  ASSUME NEW a, NEW b, NEW c, NEW e, StoresMove(a, b, c, e),
         a.tick \in Nat, b.tick \in Nat, c.tick \in Nat, e.tick \in Nat, a.tick <= b.tick,
         NEW x, x.slot \in Nat, x.slot <= a.tick, Agrees(x, a), Agrees(x, b)
  PROVE  x.slot <= c.tick /\ Agrees(x, c) /\ Agrees(x, e)
  BY SMTT(90) DEF StoresMove, Agrees

\* An announcement is its slot and its state.
LEMMA SameNote ==
  ASSUME NEW x \in NoteType, NEW y \in NoteType, x.slot = y.slot, x.state = y.state
  PROVE  x = y
  BY SMTT(90) DEF NoteType

\* A step that saves what it announces, and imports at a new tick only, keeps
\* one history for every announced tick.
LEMMA NotesFrame ==
  ASSUME TypesOK, NotesOK, NEW n \in Nodes, NEW node, NEW d, NEW t,
         Step(n, node, d, t), NodeOK(node), NodeOK(d),
         \A p \in Honest \ {n} : Noted(p)' \subseteq Noted(p),
         n \in Honest =>
           /\ \/ Noted(n)' \subseteq Noted(n)
              \/ /\ Noted(n)' \subseteq Noted(n) \cup {Announcement(mem[n])}
                 /\ d.store = mem[n].store /\ node.store = mem[n].store
           /\ \/ /\ d.store = disk[n].store
                 /\ \/ node.store = mem[n].store
                    \/ node.store = disk[n].store
                    \/ disk[n].store.tick < node.store.tick
              \/ /\ d.store = node.store
                 /\ node.store = mem[n].store \/ disk[n].store.tick < node.store.tick
              \/ d.store = mem[n].store /\ mem[n].store.tick < node.store.tick
           /\ d.store.tick <= node.store.tick
           /\ t.job = "import" => d.store.tick < node.store.tick
  PROVE  NotesOK'
<1> SUFFICES ASSUME NEW p \in Honest
             PROVE  /\ disk'[p].store.tick <= mem'[p].store.tick
                    /\ task'[p].job = "import" => disk'[p].store.tick < mem'[p].store.tick
                    /\ \A x \in Noted(p)' : /\ x.slot <= disk'[p].store.tick
                                             /\ Agrees(x, disk'[p].store)
                                             /\ Agrees(x, mem'[p].store)
                    /\ \A x, y \in Noted(p)' : x.slot = y.slot => x = y
  BY DEF NotesOK
<1>1. p \in Nodes
  BY DEF Honest
<1>2. CASE p # n
  <2>1. mem'[p] = mem[p] /\ disk'[p] = disk[p] /\ task'[p] = task[p]
    BY <1>1, <1>2, StepAt
  <2>2. Noted(p)' \subseteq Noted(p)
    BY <1>2
  <2> QED
    BY <2>1, <2>2 DEF NotesOK
<1>3. CASE p = n
  <2>1. mem'[p] = node /\ disk'[p] = d /\ task'[p] = t
    BY <1>3, StepAt, SMTT(90)
  <2>2. /\ node.store.tick \in Nat /\ d.store.tick \in Nat
        /\ mem[n].store.tick \in Nat /\ disk[n].store.tick \in Nat
        /\ disk[n].store.tick <= mem[n].store.tick
    BY <1>3, NodeFacts, StoreTicks DEF NodeOK
  <2>3. \A x \in Noted(n) : /\ x.slot <= disk[n].store.tick
                            /\ Agrees(x, disk[n].store) /\ Agrees(x, mem[n].store)
    BY <1>3 DEF NotesOK
  <2>4. \A x \in Noted(n) : x \in NoteType /\ x.slot \in Nat
    BY NotedTyped DEF NoteType
  <2>5. \A x \in Noted(n) : /\ x.slot <= d.store.tick
                            /\ Agrees(x, d.store) /\ Agrees(x, node.store)
    <3>1. StoresMove(disk[n].store, mem[n].store, d.store, node.store)
      BY <1>3 DEF StoresMove
    <3> QED
      BY <2>2, <2>3, <2>4, <3>1, NotesAgree, SMTT(90)
  <2>6. CASE Noted(n)' \subseteq Noted(n)
    BY <1>3, <2>1, <2>5, <2>6 DEF NotesOK
  <2>7. CASE /\ Noted(n)' \subseteq Noted(n) \cup {Announcement(mem[n])}
             /\ d.store = mem[n].store /\ node.store = mem[n].store
    <3> DEFINE new == Announcement(mem[n])
    <3>1. /\ new.slot = mem[n].store.tick
          /\ new.state = Commitment(mem[n].store.accepted)
          /\ new \in NoteType
      BY <1>1, <1>3, AnnouncementTyped DEF TypesOK
    <3>2. mem[n].store.tick <= mem[n].store.tick
      BY <2>2, SMTT(90)
    <3>3. \A x \in Noted(n)' : x \in Noted(n) \/ x = new
      BY <2>7
    <3> HIDE DEF new
    <3>4. \A x \in Noted(n) : x.slot = new.slot => x = new
      BY <2>3, <2>4, <3>1, SameNote DEF Agrees
    <3>5. \A x \in Noted(n)' : /\ x.slot <= d.store.tick
                               /\ Agrees(x, d.store) /\ Agrees(x, node.store)
      BY <2>5, <2>7, <3>1, <3>2, <3>3 DEF Agrees
    <3>6. \A x, y \in Noted(n)' : x.slot = y.slot => x = y
      BY <1>3, <3>3, <3>4 DEF NotesOK
    <3> QED
      BY <1>3, <2>1, <3>5, <3>6
  <2> QED
    BY <1>3, <2>6, <2>7
<1> QED
  BY <1>2, <1>3

\* Only a client that goes on waiting awaits anything after such a step.
LEMMA AwaitsFrame ==
  ASSUME TypesOK, NEW n \in Nodes, NEW node, NEW d, NEW t, Step(n, node, d, t),
         t = task[n] \/ (t.job = "sync" => t.waiting = 0)
  PROVE  \A k, p \in Nodes, seq \in Nat : (seq > 0 /\ Awaits(k, p, seq)')
           => Awaits(k, p, seq) /\ task'[k] = task[k]
  BY StepAt, SMTT(90) DEF Awaits

\* What the tasks carry after such a step.
LEMMA CarriedFrame ==
  ASSUME TypesOK, NEW n \in Nodes, NEW node, NEW d, NEW t, Step(n, node, d, t),
         \A m \in Carried(t) : m \in Carried(task[n]) \/ (m \in net /\ m.to = n)
  PROVE  \A k \in Nodes : \A m \in Carried(task'[k]) :
           m \in Carried(task[k]) \/ (m \in net /\ m.to = k)
  BY StepAt, SMTT(90)

\* A step that sends nothing keeps what is known of the last inventory.
LEMMA FinalFrame ==
  ASSUME TypesOK, CountersOK, FinalOK,
         NEW n \in Nodes, NEW node, NEW d, NEW t, Step(n, node, d, t),
         \A m \in net' : m \in net \/ m.copy,
         answers' \subseteq answers,
         \A m \in Carried(t) : m \in Carried(task[n]) \/ (m \in net /\ m.to = n),
         t = task[n] \/ (t.job = "sync" => Between(t))
  PROVE  FinalOK'
<1>1. \A k, p \in Nodes, seq \in Nat : (seq > 0 /\ Awaits(k, p, seq)')
         => Awaits(k, p, seq) /\ task'[k] = task[k]
  BY AwaitsFrame DEF Between
<1>2. \A m \in net' : ~m.copy /\ Awaits(m.from, m.to, m.seq)' => Fits(m, task'[m.from])
  BY <1>1, MessageFields DEF FinalOK
<1>3. \A k \in Nodes : \A m \in Carried(task'[k]) :
        ~m.copy /\ Awaits(m.from, k, m.seq)' => Fits(m, task'[m.from])
  <2> SUFFICES ASSUME NEW k \in Nodes, NEW m \in Carried(task'[k]),
                      ~m.copy, Awaits(m.from, k, m.seq)'
               PROVE  Fits(m, task'[m.from])
    OBVIOUS
  <2>1. m \in Carried(task[k]) \/ (m \in net /\ m.to = k)
    BY CarriedFrame
  <2>2. m.from \in Nodes /\ m.seq \in Nat /\ m.seq > 0
    BY <2>1, MessageFields
  <2>3. Awaits(m.from, k, m.seq) /\ task'[m.from] = task[m.from]
    BY <1>1, <2>2
  <2> QED
    BY <2>1, <2>3 DEF FinalOK
<1>4. \A k \in Nodes : (task'[k].job = "sync" /\ task'[k].phase = "final"
                          /\ task'[k].seen = <<>>) => task'[k].cursor = 0
  <2>1. /\ mem'[n] = node /\ disk'[n] = d /\ task'[n] = t
        /\ \A k \in Nodes \ {n} :
             mem'[k] = mem[k] /\ disk'[k] = disk[k] /\ task'[k] = task[k]
    BY StepAt
  <2>2. \A k \in Nodes : task'[k] = task[k] \/ (task'[k].job = "sync" => Between(task'[k]))
    BY <2>1
  <2> QED
    BY <2>2 DEF FinalOK, Between
<1>5. \A r \in answers' :
        (Awaits(r.to, r.from, r.conn)' /\ task'[r.to].phase = "final")
          => /\ r.next # 0 => r.list # <<>>
             /\ (r.next = 0 /\ task'[r.to].seen = <<>>) => WholeInventory(r)
  <2> SUFFICES ASSUME NEW r \in answers', Awaits(r.to, r.from, r.conn)',
                      task'[r.to].phase = "final"
               PROVE  /\ r.next # 0 => r.list # <<>>
                      /\ (r.next = 0 /\ task'[r.to].seen = <<>>) => WholeInventory(r)
    OBVIOUS
  <2>1. r \in answers /\ r.to \in Nodes /\ r.from \in Nodes /\ r.conn \in Nat /\ r.conn > 0
    BY MessageFields DEF CountersOK
  <2>2. Awaits(r.to, r.from, r.conn) /\ task'[r.to] = task[r.to]
    BY <1>1, <2>1
  <2> QED
    BY <2>1, <2>2 DEF FinalOK
<1> QED
  BY <1>2, <1>3, <1>4, <1>5 DEF FinalOK

\* A step that leaves the tables of its node alone keeps what is on record.
LEMMA RecordedFrame ==
  ASSUME TypesOK, RecordedOK,
         NEW n \in Nodes, NEW node, NEW d, NEW t, Step(n, node, d, t),
         \/ Answering(t) = {}
         \/ /\ Answering(t) \subseteq Answering(task[n])
            /\ node.heard = mem[n].heard
            /\ node.evidence = mem[n].evidence
  PROVE  RecordedOK'
<1> SUFFICES ASSUME NEW k \in Nodes, NEW m \in Answering(task'[k]),
                    NEW a \in Conflicts(mem'[k], m.from, m.note)
             PROVE  [peer |-> m.from, first |-> a, second |-> m.note, seq |-> m.seq]
                      \in mem'[k].evidence
  BY DEF RecordedOK
<1>1. CASE k # n
  BY <1>1, StepAt, SMTT(90) DEF RecordedOK
<1>2. CASE k = n
  <2>1. mem'[k] = node /\ task'[k] = t
    BY <1>2, StepAt, SMTT(90)
  <2>2. m \in Answering(task[n]) /\ a \in Conflicts(mem[n], m.from, m.note)
    BY <1>2, <2>1 DEF Conflicts
  <2> QED
    BY <1>2, <2>1, <2>2 DEF RecordedOK
<1> QED
  BY <1>1, <1>2
=============================================================================
