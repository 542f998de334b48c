-------------------------- MODULE AccountingProofs --------------------------
(***************************************************************************)
(* Safety of the replicated ledgers and of the settlement made from them,  *)
(* for any number of replicas, receipts, requests, stops and failed        *)
(* writes.  The argument rests on what a ledger file can lose: only a line *)
(* that was left without its newline, which no answer ever reported, and   *)
(* only in a write that leaves the file unreadable for good.               *)
(***************************************************************************)
EXTENDS Accounting, TLAPS

Tails == {Clean, Torn} \cup [kind : {"bare"}, line : Receipts]

Jobs ==
  {Idle, Down} \cup [step : {"fetch"}, peer : Replicas]
    \cup [step : {"append", "claims"}, incoming : SUBSET Receipts, share : BOOLEAN]

\* every plan a replica can answer with
Plans == {PlanOf(S, WorkOf(S), Value) : S \in SUBSET Receipts}

LedgerTypeOK ==
  /\ ledger \in [Replicas -> SUBSET Receipts]
  /\ tail \in [Replicas -> Tails]
  /\ claims \in [Replicas -> SUBSET Receipts]
  /\ job \in [Replicas -> Jobs]
  /\ accepted \in [Replicas -> SUBSET Receipts]
  /\ miner \in [step : {"asking", "refused", "published"}, plans : Seq(Plans)]

\* What is true of a replica between any two steps: a line without newline
\* was never answered for, a share on its way to 202 is on a complete line,
\* and the claims lag only behind a failed write or a request in progress.
ReplicaOK(r) ==
  /\ \A x, y \in ledger[r] : WorkId(x) = WorkId(y) => x = y
  /\ accepted[r] \subseteq ledger[r]
  /\ tail[r].kind = "bare" => tail[r].line \notin accepted[r]
  /\ job[r].step = "claims" /\ job[r].share /\ Loads(r) =>
       tail[r] = Clean /\ job[r].incoming \subseteq ledger[r]
  /\ Loads(r) => claims[r] \subseteq Counted(ledger[r])
  /\ job[r].step \in {"idle", "fetch", "append"} /\ Loads(r) =>
       claims[r] = Counted(ledger[r]) \/ r \in behind

\* A plan the miner holds was a readable ledger of the replica that gave it.
MinerOK ==
  /\ Len(miner.plans) <= Len(Peers)
  /\ \A i \in 1 .. Len(miner.plans) :
       /\ Loads(Peers[i]) => miner.plans[i].receipts \subseteq ledger[Peers[i]]
       /\ TotalOf(miner.plans[i].outputs, "value") = Value
  /\ miner.step = "published" => Len(miner.plans) = Len(Peers) /\ Agree(miner.plans)

IInv == LedgerTypeOK /\ (\A r \in Replicas : ReplicaOK(r)) /\ MinerOK
-----------------------------------------------------------------------------
LEMMA InitOK == Init => IInv
  <1> SUFFICES ASSUME Init PROVE IInv
    OBVIOUS
  <1>1. LedgerTypeOK
    BY DEF Init, LedgerTypeOK, Tails, Jobs, Clean, Idle
  <1>2. \A r \in Replicas : ReplicaOK(r)
    BY DEF Init, ReplicaOK, Clean, Idle, Counted
  <1>3. MinerOK
    BY AccountingAssumption DEF Init, MinerOK
  <1> QED  BY <1>1, <1>2, <1>3 DEF IInv

\* A step leaves a replica alone whose files, thread and claims it keeps.
LEMMA ReplicaFrame ==
  ASSUME NEW q, ReplicaOK(q),
         ledger'[q] = ledger[q], tail'[q] = tail[q], claims'[q] = claims[q],
         job'[q] = job[q], accepted'[q] = accepted[q], q \in behind => q \in behind'
  PROVE  ReplicaOK(q)'
  BY DEF ReplicaOK, Loads, Counted, WorkId

\* The miner's plans stay true while readable ledgers only grow.
LEMMA MinerFrame ==
  ASSUME LedgerTypeOK, MinerOK, UNCHANGED miner,
         \A q \in Replicas : Loads(q)' => Loads(q) /\ ledger[q] \subseteq ledger'[q]
  PROVE  MinerOK'
  <1>1. \A i \in 1 .. Len(miner.plans) : Peers[i] \in Replicas
    BY AccountingAssumption DEF MinerOK, LedgerTypeOK
  <1> QED  BY <1>1 DEF MinerOK, Agree

\* What an append does to a file that loads: the file keeps everything and
\* gains the new lines, or it becomes unreadable and loses at most the line
\* that had no newline.
LEMMA WriteFacts ==
  ASSUME LedgerTypeOK, NEW r \in Replicas, NEW new \in SUBSET Receipts,
         NEW ending \in Tails, Loads(r), Write(r, new, ending)
  PROVE  /\ ledger' \in [Replicas -> SUBSET Receipts]
         /\ tail' \in [Replicas -> Tails]
         /\ \A q \in Replicas \ {r} : ledger'[q] = ledger[q] /\ tail'[q] = tail[q]
         /\ ledger'[r] \subseteq ledger[r] \cup new
         /\ tail'[r] # Torn => ledger'[r] = ledger[r] \cup new /\ tail'[r] = ending
         /\ tail'[r] \in {ending, Torn}
         /\ \A x \in ledger[r] \ ledger'[r] : tail[r].kind = "bare" /\ x = tail[r].line
  BY DEF LedgerTypeOK, Write, Tails, Torn

\* An append that is not refused brings in no second receipt of a work
\* identity (merge_receipts).
LEMMA NoSecondWork ==
  ASSUME NEW have, NEW incoming, NEW S \in SUBSET (have \cup incoming),
         \A x, y \in have : WorkId(x) = WorkId(y) => x = y,
         ~Conflict(have, incoming)
  PROVE  \A x, y \in S : WorkId(x) = WorkId(y) => x = y
  BY DEF Conflict

\* The steps that touch neither file: a request comes in, a peer answers, an
\* append is refused, or the process ends.
LEMMA QuietOK ==
  ASSUME IInv, NEW r \in Replicas, NEW j \in Jobs, Goto(r, j),
         UNCHANGED <<ledger, tail, claims, accepted, miner, behind>>,
         \/ j.step = "down"
         \/ /\ j.step \in {"idle", "fetch", "append"}
            /\ job[r].step \in {"idle", "fetch", "append"}
  PROVE  IInv'
  <1>1. LedgerTypeOK'
    BY DEF IInv, LedgerTypeOK, Goto
  <1>2. job'[r] = j /\ \A q \in Replicas \ {r} : job'[q] = job[q]
    BY DEF IInv, LedgerTypeOK, Goto
  <1>3. ReplicaOK(r)'
    BY <1>2 DEF IInv, ReplicaOK, Loads, Counted, WorkId
  <1>4. \A q \in Replicas \ {r} : ReplicaOK(q)'
    BY <1>2, ReplicaFrame DEF IInv
  <1>5. MinerOK'
    BY MinerFrame DEF IInv, Loads
  <1> QED  BY <1>1, <1>3, <1>4, <1>5 DEF IInv

LEMMA AppendAllOK ==
  ASSUME IInv, NEW r \in Replicas, AppendAll(r)
  PROVE  IInv'
  <1> DEFINE new == job[r].incoming \ ledger[r]
             j   == [job[r] EXCEPT !.step = "claims"]
  <1>1. job[r] \in [step : {"append"}, incoming : SUBSET Receipts, share : BOOLEAN]
    BY DEF IInv, LedgerTypeOK, Jobs, AppendAll, At, Idle, Down
  <1>2. /\ j \in [step : {"claims"}, incoming : SUBSET Receipts, share : BOOLEAN]
        /\ j.incoming = job[r].incoming /\ j.share = job[r].share
    BY <1>1
  <1>3. Loads(r) /\ ~Conflict(ledger[r], job[r].incoming) /\ (job[r].share => new # {})
    BY <1>1 DEF AppendAll, RefusesAppend
  <1> HIDE DEF j
  <1>4. /\ job'[r] = j /\ job' \in [Replicas -> Jobs]
        /\ \A q \in Replicas \ {r} : job'[q] = job[q]
    BY <1>2 DEF IInv, LedgerTypeOK, AppendAll, Goto, Jobs, j
  <1>5. /\ ledger' \in [Replicas -> SUBSET Receipts]
        /\ tail' \in [Replicas -> Tails]
        /\ \A q \in Replicas \ {r} : ledger'[q] = ledger[q] /\ tail'[q] = tail[q]
        /\ ledger'[r] \subseteq ledger[r] \cup new
        /\ tail'[r] # Torn => ledger'[r] = ledger[r] \cup new
                               /\ (new # {} => tail'[r] = Clean)
        /\ new # {} => tail'[r] \in {Clean, Torn}
        /\ new = {} => tail'[r] = tail[r]
        /\ \A x \in ledger[r] \ ledger'[r] : tail[r].kind = "bare" /\ x = tail[r].line
    <2>1. CASE new = {}
      BY <2>1 DEF AppendAll, IInv, LedgerTypeOK
    <2>2. CASE new # {}
      <3>1. new \in SUBSET Receipts /\ Clean \in Tails /\ Write(r, new, Clean)
        BY <1>1, <2>2 DEF AppendAll, Tails
      <3>2. LedgerTypeOK
        BY DEF IInv
      <3> HIDE DEF new
      <3> QED  BY <1>3, <2>2, <3>1, <3>2, WriteFacts
    <2> QED  BY <2>1, <2>2
  <1>6. LedgerTypeOK'
    BY <1>4, <1>5 DEF AppendAll, IInv, LedgerTypeOK
  <1>7. ReplicaOK(r)'
    <2>1. ReplicaOK(r) /\ UNCHANGED <<claims, accepted, behind>>
      BY DEF IInv, AppendAll
    <2>2. \A x, y \in ledger'[r] : WorkId(x) = WorkId(y) => x = y
      BY <1>3, <1>5, <2>1, NoSecondWork DEF ReplicaOK
    <2>3. accepted'[r] \subseteq ledger'[r]
      BY <1>5, <2>1 DEF ReplicaOK
    <2>4. tail'[r].kind = "bare" => tail'[r].line \notin accepted'[r]
      BY <1>5, <2>1 DEF ReplicaOK, Clean, Torn
    <2>5. tail'[r] # Torn => claims'[r] \subseteq Counted(ledger'[r])
      BY <1>3, <1>5, <2>1 DEF ReplicaOK, Counted
    <2>6. job'[r].step = "claims" /\ job'[r].share /\ tail'[r] # Torn =>
            tail'[r] = Clean /\ job'[r].incoming \subseteq ledger'[r]
      BY <1>2, <1>3, <1>4, <1>5
    <2>7. job'[r].step = "claims"
      BY <1>2, <1>4
    <2> QED  BY <2>2, <2>3, <2>4, <2>5, <2>6, <2>7 DEF ReplicaOK, Loads, Counted, WorkId
  <1>8. \A q \in Replicas \ {r} : ReplicaOK(q)'
    BY <1>4, <1>5, ReplicaFrame DEF IInv, AppendAll
  <1>9. MinerOK'
    BY <1>3, <1>5, MinerFrame DEF IInv, AppendAll, Loads
  <1> QED  BY <1>6, <1>7, <1>8, <1>9 DEF IInv

LEMMA CutAppendOK ==
  ASSUME IInv, NEW r \in Replicas, CutAppend(r)
  PROVE  IInv'
  <1>1. job[r].incoming \in SUBSET Receipts
    BY DEF IInv, LedgerTypeOK, Jobs, CutAppend, At, Idle, Down
  <1>2. LedgerTypeOK /\ Loads(r) /\ ~Conflict(ledger[r], job[r].incoming)
    BY DEF CutAppend, RefusesAppend, IInv
  <1>3. PICK new \in SUBSET (job[r].incoming \ ledger[r]), ending \in Tails :
          /\ Write(r, new, ending)
          /\ ending.kind = "bare" => ending.line \notin ledger[r]
    <2>1. PICK last \in job[r].incoming \ ledger[r] :
            \/ Write(r, {x \in job[r].incoming \ ledger[r] : x <= last}, Clean)
            \/ Write(r, {x \in job[r].incoming \ ledger[r] : x <= last}, Bare(last))
            \/ Write(r, {x \in job[r].incoming \ ledger[r] : x < last}, Torn)
      BY DEF CutAppend
    <2>2. {Clean, Torn, Bare(last)} \subseteq Tails /\ Bare(last).line = last
          /\ Clean.kind # "bare" /\ Torn.kind # "bare"
      BY <1>1 DEF Tails, Bare, Clean, Torn
    <2> QED  BY <2>1, <2>2
  <1>4. /\ ledger' \in [Replicas -> SUBSET Receipts]
        /\ tail' \in [Replicas -> Tails]
        /\ \A q \in Replicas \ {r} : ledger'[q] = ledger[q] /\ tail'[q] = tail[q]
        /\ ledger'[r] \subseteq ledger[r] \cup new
        /\ tail'[r] # Torn => ledger'[r] = ledger[r] \cup new
        /\ tail'[r] \in {ending, Torn}
        /\ \A x \in ledger[r] \ ledger'[r] : tail[r].kind = "bare" /\ x = tail[r].line
    <2>1. new \in SUBSET Receipts
      BY <1>1
    <2> QED  BY <1>2, <1>3, <2>1, WriteFacts
  <1>5. /\ job' \in [Replicas -> Jobs]
        /\ \A q \in Replicas \ {r} : job'[q] = job[q] /\ (q \in behind => q \in behind')
        /\ job'[r] = Down \/ (job'[r] = Idle /\ r \in behind')
    BY <1>2 DEF LedgerTypeOK, CutAppend, Goto, Jobs
  <1>6. LedgerTypeOK'
    BY <1>4, <1>5 DEF CutAppend, IInv, LedgerTypeOK
  <1>7. ReplicaOK(r)'
    <2>1. ReplicaOK(r) /\ UNCHANGED <<claims, accepted>>
      BY DEF IInv, CutAppend
    <2>2. \A x, y \in ledger'[r] : WorkId(x) = WorkId(y) => x = y
      BY <1>2, <1>4, <2>1, NoSecondWork DEF ReplicaOK
    <2>3. accepted'[r] \subseteq ledger'[r]
      BY <1>4, <2>1 DEF ReplicaOK
    <2>4. tail'[r].kind = "bare" => tail'[r].line \notin accepted'[r]
      BY <1>3, <1>4, <2>1 DEF ReplicaOK, Torn
    <2>5. tail'[r] # Torn => claims'[r] \subseteq Counted(ledger'[r])
      BY <1>2, <1>4, <2>1 DEF ReplicaOK, Counted
    <2>6. job'[r].step # "claims" /\ (job'[r].step = "idle" => r \in behind')
          /\ job'[r].step \notin {"fetch", "append"}
      BY <1>5 DEF Idle, Down
    <2> QED  BY <2>2, <2>3, <2>4, <2>5, <2>6 DEF ReplicaOK, Loads, Counted, WorkId
  <1>8. \A q \in Replicas \ {r} : ReplicaOK(q)'
    BY <1>4, <1>5, ReplicaFrame DEF IInv, CutAppend
  <1>9. MinerOK'
    BY <1>2, <1>4, MinerFrame DEF IInv, CutAppend, Loads
  <1> QED  BY <1>6, <1>7, <1>8, <1>9 DEF IInv

\* The claims file is replaced, or cannot be: at the end of a request and at
\* the start of a process.
LEMMA ClaimsOK ==
  ASSUME IInv, NEW r \in Replicas, WriteClaims(r) \/ ClaimsFail(r) \/ Start(r)
  PROVE  IInv'
  <1>1. /\ LedgerTypeOK /\ ReplicaOK(r) /\ UNCHANGED <<ledger, tail, miner>>
        /\ job' = [job EXCEPT ![r] = Idle]
    BY DEF IInv, WriteClaims, ClaimsFail, Start, Goto
  <1>2. /\ job'[r] = Idle /\ job' \in [Replicas -> Jobs]
        /\ \A q \in Replicas \ {r} : job'[q] = job[q] /\ (q \in behind => q \in behind')
    BY <1>1 DEF LedgerTypeOK, Jobs, WriteClaims, ClaimsFail, Start
  <1>3. job[r].step = "claims" =>
          job[r] \in [step : {"claims"}, incoming : SUBSET Receipts, share : BOOLEAN]
    BY <1>1 DEF LedgerTypeOK, Jobs, Idle, Down
  <1>4. Counted(ledger[r]) \in SUBSET Receipts
    BY <1>1 DEF LedgerTypeOK, Counted
  <1>5. /\ claims' \in [Replicas -> SUBSET Receipts]
        /\ accepted' \in [Replicas -> SUBSET Receipts]
        /\ \A q \in Replicas \ {r} : claims'[q] = claims[q] /\ accepted'[q] = accepted[q]
    BY <1>1, <1>3, <1>4 DEF LedgerTypeOK, WriteClaims, ClaimsFail, Start, At
  <1>6. accepted'[r] = accepted[r] \/
          (tail[r] = Clean /\ accepted'[r] \subseteq accepted[r] \cup ledger[r])
    BY <1>1, <1>3 DEF LedgerTypeOK, ReplicaOK, WriteClaims, ClaimsFail, Start, At
  <1>7. Loads(r) => claims'[r] = Counted(ledger[r]) \/ (claims'[r] = claims[r] /\ r \in behind')
    BY <1>1 DEF LedgerTypeOK, WriteClaims, ClaimsFail, Start
  <1>8. ReplicaOK(r)'
    <2>1. accepted'[r] \subseteq ledger[r] /\ (tail[r].kind = "bare" => tail[r].line \notin accepted'[r])
      BY <1>1, <1>6 DEF ReplicaOK, Clean
    <2>2. Loads(r) => claims'[r] \subseteq Counted(ledger[r])
      BY <1>1, <1>7 DEF ReplicaOK
    <2> QED  BY <1>1, <1>2, <1>7, <2>1, <2>2 DEF ReplicaOK, Loads, Counted, WorkId, Idle
  <1>9. \A q \in Replicas \ {r} : ReplicaOK(q)'
    BY <1>1, <1>2, <1>5, ReplicaFrame DEF IInv
  <1>10. MinerOK'
    BY <1>1, MinerFrame DEF IInv, Loads
  <1>11. LedgerTypeOK'
    BY <1>1, <1>2, <1>5 DEF LedgerTypeOK
  <1> QED  BY <1>8, <1>9, <1>10, <1>11 DEF IInv

\* The miner asks, settles or starts again.
LEMMA SettlementOK ==
  ASSUME IInv, Ask \/ Settle \/ Rerun
  PROVE  IInv'
  <1>1. UNCHANGED <<ledger, tail, claims, job, accepted, behind>>
    BY DEF Ask, Settle, Rerun
  <1>2. \A r \in Replicas : ReplicaOK(r)'
    BY <1>1, ReplicaFrame DEF IInv
  <1>3. miner \in [step : {"asking", "refused", "published"}, plans : Seq(Plans)] /\ MinerOK
    BY DEF IInv, LedgerTypeOK
  <1>4. Len(Peers) \in Nat /\ \A i \in 1 .. Len(Peers) : Peers[i] \in Replicas
    BY AccountingAssumption
  <1>5. CASE Ask
    <2> DEFINE r == Peers[Len(miner.plans) + 1]
    <2>1. Len(miner.plans) \in Nat /\ Len(miner.plans) < Len(Peers) /\ r \in Replicas
          /\ miner.step = "asking"
      BY <1>3, <1>4, <1>5 DEF Ask
    <2>2. CASE miner' = [miner EXCEPT !.step = "refused"]
      BY <1>1, <1>2, <1>3, <2>2 DEF IInv, LedgerTypeOK, MinerOK, Agree, Loads
    <2>3. CASE /\ miner' = [miner EXCEPT !.plans = Append(@, Plan(r))]
               /\ Loads(r) /\ MinerAccepts(Plan(r), Value)
      <3>1. Plan(r) \in Plans /\ Plan(r).receipts = ledger[r]
        BY <2>1 DEF IInv, LedgerTypeOK, Plan, Plans, PlanOf
      <3>2. TotalOf(Plan(r).outputs, "value") = Value
        BY <2>3 DEF MinerAccepts
      <3> PICK plan \in Plans : plan = Plan(r)
        BY <3>1
      <3>3. miner'.plans = Append(miner.plans, plan) /\ miner'.step = "asking"
            /\ miner' \in [step : {"asking", "refused", "published"}, plans : Seq(Plans)]
        <4>1. miner' = [miner EXCEPT !.plans = Append(miner.plans, plan)]
          BY <2>3
        <4>2. Append(miner.plans, plan) \in Seq(Plans)
          BY <1>3
        <4> QED  BY <1>3, <2>1, <4>1, <4>2
      <3>4. /\ Len(miner'.plans) = Len(miner.plans) + 1
            /\ miner'.plans[Len(miner.plans) + 1] = plan
            /\ \A i \in 1 .. Len(miner.plans) : miner'.plans[i] = miner.plans[i]
        BY <1>3, <3>3
      <3>5. ASSUME NEW i \in 1 .. Len(miner'.plans)
            PROVE  /\ Loads(Peers[i])' => miner'.plans[i].receipts \subseteq ledger'[Peers[i]]
                   /\ TotalOf(miner'.plans[i].outputs, "value") = Value
        <4>1. CASE i \in 1 .. Len(miner.plans)
          BY <1>1, <1>3, <3>4, <4>1 DEF MinerOK, Loads
        <4>2. CASE i = Len(miner.plans) + 1
          BY <1>1, <3>1, <3>2, <3>4, <4>2
        <4>3. i \in 1 .. Len(miner.plans) \/ i = Len(miner.plans) + 1
          BY <2>1, <3>4
        <4> QED  BY <4>1, <4>2, <4>3
      <3>6. MinerOK'
        BY <1>4, <2>1, <3>3, <3>4, <3>5 DEF MinerOK
      <3> QED  BY <1>1, <1>2, <3>3, <3>6 DEF IInv, LedgerTypeOK
    <2> QED  BY <1>5, <2>2, <2>3 DEF Ask
  <1>6. CASE Settle
    <2>1. /\ miner' \in [step : {"asking", "refused", "published"}, plans : Seq(Plans)]
          /\ miner'.plans = miner.plans
          /\ miner'.step = "published" => Len(miner.plans) = Len(Peers) /\ Agree(miner.plans)
      BY <1>3, <1>6 DEF Settle
    <2> QED  BY <1>1, <1>2, <1>3, <2>1 DEF IInv, LedgerTypeOK, MinerOK, Loads
  <1>7. CASE Rerun
    BY <1>1, <1>2, <1>4, <1>7 DEF Rerun, IInv, LedgerTypeOK, MinerOK
  <1> QED  BY <1>5, <1>6, <1>7

\* Every step of every replica and of the miner keeps IInv.
LEMMA NextOK == ASSUME IInv, [Next]_vars PROVE IInv'
  <1>1. \A r \in Replicas : job[r] \in Jobs /\ ledger[r] \in SUBSET Receipts
    BY DEF IInv, LedgerTypeOK
  <1>2. ASSUME NEW r \in Replicas, NEW x \in Receipts, PostShare(r, x) PROVE IInv'
    <2> DEFINE j == [step |-> "append", incoming |-> {x}, share |-> TRUE]
    <2>1. j \in Jobs /\ j.step = "append"
      BY DEF Jobs
    <2>2. job[r].step = "idle" /\ Goto(r, j)
          /\ UNCHANGED <<ledger, tail, claims, accepted, miner, behind>>
      BY <1>2 DEF PostShare, At
    <2> QED  BY <2>1, <2>2, QuietOK
  <1>3. ASSUME NEW r \in Replicas, NEW peer \in Replicas, PostReconcile(r, peer) PROVE IInv'
    <2> DEFINE j == [step |-> "fetch", peer |-> peer]
    <2>1. j \in Jobs /\ j.step = "fetch"
      BY DEF Jobs
    <2>2. job[r].step = "idle" /\ Goto(r, j)
          /\ UNCHANGED <<ledger, tail, claims, accepted, miner, behind>>
      BY <1>3 DEF PostReconcile, At
    <2> QED  BY <2>1, <2>2, QuietOK
  <1>4. ASSUME NEW r \in Replicas, Fetch(r) PROVE IInv'
    <2> DEFINE j == [step |-> "append", incoming |-> ledger[job[r].peer], share |-> FALSE]
    <2>1. job[r].peer \in Replicas
      BY <1>1, <1>4 DEF Fetch, At, Jobs, Idle, Down
    <2>2. j \in Jobs /\ j.step = "append"
      BY <1>1, <2>1 DEF Jobs
    <2>3. job[r].step = "fetch" /\ Goto(r, j)
          /\ UNCHANGED <<ledger, tail, claims, accepted, miner, behind>>
      BY <1>4 DEF Fetch, At
    <2> QED  BY <2>2, <2>3, QuietOK
  <1>5. ASSUME NEW r \in Replicas, FetchFails(r) \/ AppendRefused(r) \/ Stop(r) PROVE IInv'
    <2>1. Idle \in Jobs /\ Down \in Jobs /\ Idle.step = "idle" /\ Down.step = "down"
      BY DEF Jobs, Idle, Down
    <2> QED  BY <1>5, <2>1, QuietOK DEF FetchFails, AppendRefused, Stop, At
  <1>6. CASE UNCHANGED vars
    <2>1. \A r \in Replicas : ReplicaOK(r)'
      BY <1>6, ReplicaFrame DEF IInv, vars
    <2>2. MinerOK'
      BY <1>6, MinerFrame DEF IInv, vars, Loads
    <2> QED  BY <1>6, <2>1, <2>2 DEF IInv, LedgerTypeOK, vars
  <1> QED  BY <1>2, <1>3, <1>4, <1>5, <1>6, AppendAllOK, CutAppendOK, ClaimsOK, SettlementOK
              DEF Next, Serve

LEMMA AccountingInvariant == Spec => []IInv
  <1>1. IInv /\ [Next]_vars => IInv'
    BY NextOK
  <1> QED  BY InitOK, <1>1, PTL DEF Spec
-----------------------------------------------------------------------------
\* Whatever shares and receipt sets arrive, in whatever order, and wherever
\* stops and failed writes fall: no ledger ever holds two receipts of one work
\* identity (merge_receipts).
THEOREM LedgerWorkOnce == Spec => []WorkRecordedOnce
  <1>1. IInv => WorkRecordedOnce
    BY DEF IInv, ReplicaOK, WorkRecordedOnce
  <1> QED  BY <1>1, AccountingInvariant, PTL

\* A share that was answered with 202 is on a complete line of the ledger for
\* good: the only line a later write can spoil was never answered for
\* (append_receipts, do_POST).
THEOREM LedgerKeepsAccepted == Spec => []AcceptedIsRecorded
  <1>1. IInv => AcceptedIsRecorded
    BY DEF IInv, ReplicaOK, AcceptedIsRecorded
  <1> QED  BY <1>1, AccountingInvariant, PTL

\* Between requests the claims file shows the claims of the ledger, or part
\* of them after a failed write and until the next one (do_POST, main).
THEOREM ClaimsFollowLedger == Spec => []ClaimsCurrentWhenIdle
  <1>1. IInv => ClaimsCurrentWhenIdle
    BY DEF IInv, ReplicaOK, ClaimsCurrentWhenIdle, At
  <1> QED  BY <1>1, AccountingInvariant, PTL

\* A published settlement pays the whole value from a receipt set that every
\* replica asked has recorded, however many replicas there are and whatever
\* they recorded between the questions (SettlementPlanProvider.fetch).
THEOREM SettlementSound == Spec => []SettledFromEveryLedger
  <1>1. ASSUME IInv, miner.step = "published" PROVE SettledFromEveryLedger
    <2>1. /\ Len(miner.plans) = Len(Peers) /\ Agree(miner.plans)
          /\ DOMAIN miner.plans = 1 .. Len(Peers) /\ DOMAIN Peers = 1 .. Len(Peers)
      BY <1>1, AccountingAssumption DEF IInv, MinerOK, LedgerTypeOK
    <2>2. \A i, j \in 1 .. Len(Peers) : miner.plans[i] = miner.plans[j]
      BY <2>1 DEF Agree
    <2> QED  BY <1>1, <2>1, <2>2 DEF IInv, MinerOK, SettledFromEveryLedger
  <1>2. IInv => SettledFromEveryLedger
    BY <1>1 DEF SettledFromEveryLedger
  <1> QED  BY <1>2, AccountingInvariant, PTL

\* No step takes a receipt out of a ledger that can still be read after it: a
\* write that spoils a line leaves the file unreadable (append_receipts,
\* load_receipts).
THEOREM LedgerLosesNothing == Spec => ReadableLosesNothing
  <1>1. ASSUME IInv, [Next]_vars, NEW r \in Replicas, Loads(r)'
        PROVE  ledger[r] \subseteq ledger'[r]
    <2>1. ASSUME NEW q \in Replicas, AppendAll(q) \/ CutAppend(q)
          PROVE  ledger[r] \subseteq ledger'[r]
      <3>1. \/ UNCHANGED <<ledger, tail>>
            \/ \E new, ending : Write(q, new, ending)
        BY <2>1 DEF AppendAll, CutAppend
      <3> QED  BY <1>1, <3>1 DEF Write, Loads, IInv, LedgerTypeOK
    <2>2. CASE UNCHANGED ledger
      BY <2>2
    <2> QED  BY <1>1, <2>1, <2>2 DEF Next, vars, PostShare, PostReconcile, Serve, Fetch,
               FetchFails, AppendRefused, WriteClaims, ClaimsFail, Stop, Start, Ask, Settle, Rerun
  <1>2. IInv /\ [Next]_vars => [\A r \in Replicas : Loads(r)' => ledger[r] \subseteq ledger'[r]]_vars
    BY <1>1
  <1> QED  BY <1>2, AccountingInvariant, PTL DEF Spec, ReadableLosesNothing
=============================================================================
