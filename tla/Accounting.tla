----------------------------- MODULE Accounting -----------------------------
(***************************************************************************)
(* Replicated share accounting (share_accounting_coordinator.py) and the   *)
(* settlement of one block from it (SettlementPlanProvider and             *)
(* mine_one_block of autonomous_labnet_miner.py).                          *)
(*                                                                         *)
(* A replica is one single-threaded HTTP server with an append-only ledger *)
(* file and a claims file.  It serves one request at a time; what other    *)
(* processes see changes between the steps below.  It may be stopped       *)
(* between them or inside the append, and a write to either file may fail: *)
(* do_POST does not catch OSError, so the connection is dropped without an *)
(* answer and the server goes on with whatever was written.                *)
(***************************************************************************)
EXTENDS PayoutPlan

CONSTANTS
  Replicas,
  Peers,          \* the replicas the miner asks, in order
  Value,          \* coinbase value of the miner's template
  MaxBody,        \* receipts that fit in MAX_REPLICA_BODY
  MaxRequests,    \* bound on the requests posted
  MaxFaults       \* bound on the stops and failed writes

ASSUME AccountingAssumption ==
  /\ Peers \in Seq(Replicas) /\ Len(Peers) >= 2
  /\ {Value, MaxBody, MaxRequests, MaxFaults} \subseteq Nat

VARIABLES
  ledger,     \* receipts on complete lines of each ledger file
  tail,       \* how each ledger file ends: "clean", "torn" inside a line, or
              \* "bare", the line of a receipt without its newline
  claims,     \* receipts counted in each claims file
  job,        \* what each replica's thread is doing
  accepted,   \* history: shares answered 202, per replica
  miner,      \* progress of the settlement
  posted,     \* requests posted so far
  faults,     \* stops and failed writes so far
  behind      \* history: replicas whose last write of claims failed

vars == <<ledger, tail, claims, job, accepted, miner, posted, faults, behind>>

Clean == [kind |-> "clean"]
Torn == [kind |-> "torn"]
Bare(x) == [kind |-> "bare", line |-> x]

Idle == [step |-> "idle"]
Down == [step |-> "down"]

Init ==
  /\ ledger = [r \in Replicas |-> {}]
  /\ tail = [r \in Replicas |-> Clean]
  /\ claims = [r \in Replicas |-> {}]
  /\ job = [r \in Replicas |-> Idle]
  /\ accepted = [r \in Replicas |-> {}]
  /\ miner = [step |-> "asking", plans |-> <<>>]
  /\ posted = 0
  /\ faults = 0
  /\ behind = {}
-----------------------------------------------------------------------------
(* Receipts, which also have a header and a height, and the ledger file *)

\* work_id_sha256 of validate_receipt
WorkId(x) == <<Catalog[x].header, Catalog[x].height>>

\* load_receipts
Loads(r) == tail[r] # Torn

\* Mutant: only receipts of one owner can conflict.
ConflictSameOwner(have, incoming) ==
  \E x \in incoming \ have, y \in have \cup incoming :
    x # y /\ WorkId(x) = WorkId(y) /\ Catalog[x].owner = Catalog[y].owner

\* merge_receipts refuses the whole collection when one receipt conflicts
Conflict(have, incoming) ==
  \E x \in incoming \ have, y \in have \cup incoming : x # y /\ WorkId(x) = WorkId(y)

\* GET /plan: the plan commits to the whole receipt set
Plan(r) == PlanOf(ledger[r], WorkOf(ledger[r]), Value)

At(r, step) == job[r].step = step
Goto(r, j) == job' = [job EXCEPT ![r] = j]
-----------------------------------------------------------------------------
(* Requests, from the time their body has been read.  An answer frees the  *)
(* thread; only 202 is recorded.                                           *)

PostShare(r, x) ==
  /\ At(r, "idle") /\ posted < MaxRequests
  /\ posted' = posted + 1
  /\ Goto(r, [step |-> "append", incoming |-> {x}, share |-> TRUE])
  /\ UNCHANGED <<ledger, tail, claims, accepted, miner, faults, behind>>

PostReconcile(r, peer) ==
  /\ At(r, "idle") /\ posted < MaxRequests
  /\ peer # r
  /\ posted' = posted + 1
  /\ Goto(r, [step |-> "fetch", peer |-> peer])
  /\ UNCHANGED <<ledger, tail, claims, accepted, miner, faults, behind>>

\* fetch_receipt_set, answered by the peer between two requests of its own
Fetch(r) ==
  /\ At(r, "fetch")
  /\ At(job[r].peer, "idle") /\ Loads(job[r].peer)
  /\ Cardinality(ledger[job[r].peer]) <= MaxBody
  /\ Goto(r, [step |-> "append", incoming |-> ledger[job[r].peer], share |-> FALSE])
  /\ UNCHANGED <<ledger, tail, claims, accepted, miner, posted, faults, behind>>

\* Mutant: the fetch waits as long as the peer's process is there.
FetchFailsIfDown(r) ==
  /\ At(r, "fetch")
  /\ At(job[r].peer, "down")
  /\ Goto(r, Idle)
  /\ UNCHANGED <<ledger, tail, claims, accepted, miner, posted, faults, behind>>

\* the peer is down, busy past the timeout, cannot load, or sends too much
FetchFails(r) ==
  /\ At(r, "fetch")
  /\ Goto(r, Idle)
  /\ UNCHANGED <<ledger, tail, claims, accepted, miner, posted, faults, behind>>

\* Mutant: a share that is already there is answered as if recorded.
RefusesAppendIfConflict(r) ==
  \/ ~Loads(r)
  \/ Conflict(ledger[r], job[r].incoming)

\* append_receipts or append_receipt raises before it writes
RefusesAppend(r) ==
  \/ ~Loads(r)
  \/ Conflict(ledger[r], job[r].incoming)
  \/ job[r].share /\ job[r].incoming \subseteq ledger[r]

AppendRefused(r) ==
  /\ At(r, "append")
  /\ RefusesAppend(r)
  /\ Goto(r, Idle)
  /\ UNCHANGED <<ledger, tail, claims, accepted, miner, posted, faults, behind>>

\* Mutant: the file is opened for writing, not for appending.
WriteTruncates(r, new, ending) ==
  /\ ledger' = [ledger EXCEPT ![r] = new]
  /\ tail' = [tail EXCEPT ![r] = ending]

\* What a write adds.  A line that follows one without newline runs into it,
\* and both are lost; lines after them are written too but left out here, as
\* load_receipts refuses the file from then on.
Write(r, new, ending) ==
  IF tail[r].kind = "bare"
  THEN /\ ledger' = [ledger EXCEPT ![r] = @ \ {tail[r].line}]
       /\ tail' = [tail EXCEPT ![r] = Torn]
  ELSE /\ ledger' = [ledger EXCEPT ![r] = @ \cup new]
       /\ tail' = [tail EXCEPT ![r] = ending]

AppendAll(r) ==
  LET new == job[r].incoming \ ledger[r]
  IN  /\ At(r, "append")
      /\ ~RefusesAppend(r)
      /\ IF new = {} THEN UNCHANGED <<ledger, tail>> ELSE Write(r, new, Clean)
      /\ Goto(r, [job[r] EXCEPT !.step = "claims"])
      /\ UNCHANGED <<claims, accepted, miner, posted, faults, behind>>

\* the ledger is loaded once more, the claims file replaced and 202 sent
WriteClaims(r) ==
  /\ At(r, "claims")
  /\ claims' = IF Loads(r) THEN [claims EXCEPT ![r] = Counted(ledger[r])] ELSE claims
  /\ behind' = IF Loads(r) THEN behind \ {r} ELSE behind
  /\ accepted' = IF Loads(r) /\ job[r].share THEN [accepted EXCEPT ![r] = @ \cup job[r].incoming] ELSE accepted
  /\ Goto(r, Idle)
  /\ UNCHANGED <<ledger, tail, miner, posted, faults>>

Stop(r) ==
  /\ ~At(r, "down") /\ faults < MaxFaults
  /\ faults' = faults + 1
  /\ Goto(r, Down)
  /\ UNCHANGED <<ledger, tail, claims, accepted, miner, posted, behind>>

\* the claims file cannot be written: the request is dropped
ClaimsFail(r) ==
  /\ At(r, "claims") /\ faults < MaxFaults
  /\ faults' = faults + 1
  /\ behind' = behind \cup {r}
  /\ Goto(r, Idle)
  /\ UNCHANGED <<ledger, tail, claims, accepted, miner, posted>>

\* A stop or a failed write inside the append: some whole lines, then nothing,
\* a line without its newline, or part of a line.  After a failed write the
\* request is dropped and the replica goes on.
CutAppend(r) ==
  LET new == job[r].incoming \ ledger[r]
  IN  /\ At(r, "append") /\ faults < MaxFaults
      /\ ~RefusesAppend(r)
      /\ \E last \in new :
           \/ Write(r, {x \in new : x <= last}, Clean)
           \/ Write(r, {x \in new : x <= last}, Bare(last))
           \/ Write(r, {x \in new : x < last}, Torn)
      /\ faults' = faults + 1
      /\ \/ Goto(r, Down) /\ UNCHANGED behind
         \/ Goto(r, Idle) /\ behind' = behind \cup {r}
      /\ UNCHANGED <<claims, accepted, miner, posted>>

\* Mutant: the claims file is left as it was found.
StartUnclaimed(r) ==
  /\ At(r, "down")
  /\ Loads(r)
  /\ Goto(r, Idle)
  /\ UNCHANGED <<ledger, tail, claims, accepted, miner, posted, faults, behind>>

\* main: a ledger that does not load ends the process
Start(r) ==
  /\ At(r, "down")
  /\ Loads(r)
  /\ claims' = [claims EXCEPT ![r] = Counted(ledger[r])]
  /\ behind' = behind \ {r}
  /\ Goto(r, Idle)
  /\ UNCHANGED <<ledger, tail, accepted, miner, posted, faults>>
-----------------------------------------------------------------------------
(* The miner's settlement: SettlementPlanProvider.fetch and the block *)

Ask ==
  LET r == Peers[Len(miner.plans) + 1]
      works == At(r, "idle") /\ Loads(r) /\ Builds(WorkOf(ledger[r]), Value)
                 /\ MinerAccepts(Plan(r), Value)
  IN  /\ miner.step = "asking" /\ Len(miner.plans) < Len(Peers)
      /\ miner' = IF works THEN [miner EXCEPT !.plans = Append(@, Plan(r))]
                           ELSE [miner EXCEPT !.step = "refused"]
      /\ UNCHANGED <<ledger, tail, claims, job, accepted, posted, faults, behind>>

\* Mutant: the replicas agree when they would pay the same outputs.
AgreeOnOutputs(plans) == \A i \in DOMAIN plans : plans[i].outputs = plans[1].outputs

Agree(plans) == \A i \in DOMAIN plans : plans[i] = plans[1]

\* the replicas disagree, or no block is found or accepted
Settle ==
  /\ miner.step = "asking" /\ Len(miner.plans) = Len(Peers)
  /\ \/ Agree(miner.plans) /\ miner' = [miner EXCEPT !.step = "published"]
     \/ miner' = [miner EXCEPT !.step = "refused"]
  /\ UNCHANGED <<ledger, tail, claims, job, accepted, posted, faults, behind>>

\* the operator runs the miner again after a refusal
Rerun ==
  /\ miner.step = "refused"
  /\ miner' = [step |-> "asking", plans |-> <<>>]
  /\ UNCHANGED <<ledger, tail, claims, job, accepted, posted, faults, behind>>
-----------------------------------------------------------------------------
Serve(r) == Fetch(r) \/ FetchFails(r) \/ AppendRefused(r) \/ AppendAll(r) \/ WriteClaims(r)

Next ==
  \/ \E r \in Replicas :
       \/ \E x \in Receipts : PostShare(r, x)
       \/ \E peer \in Replicas : PostReconcile(r, peer)
       \/ Serve(r) \/ ClaimsFail(r) \/ CutAppend(r) \/ Stop(r) \/ Start(r)
  \/ Ask \/ Settle \/ Rerun

Spec == Init /\ [][Next]_vars

\* a replica that is running serves the request it has, and its fetch ends
FairSpec == Spec /\ \A r \in Replicas : WF_vars(Serve(r))
-----------------------------------------------------------------------------
(* Properties *)

\* A ledger never holds two receipts of one work identity, whichever way they
\* came, and however often a replica is stopped (merge_receipts).
WorkRecordedOnce ==
  \A r \in Replicas : \A x, y \in ledger[r] : WorkId(x) = WorkId(y) => x = y

\* A share answered with 202 stays on a complete line of the ledger, also of
\* one that no longer loads (append_receipts, do_POST).
AcceptedIsRecorded == \A r \in Replicas : accepted[r] \subseteq ledger[r]

\* A replica that waits for requests shows exactly the claims of its ledger,
\* although the two files are written one after the other and a stop can fall
\* between them (do_POST, main).  After a failed write it may be behind, until
\* the next share or start, but never shows a receipt it has not recorded.
ClaimsCurrentWhenIdle ==
  \A r \in Replicas : At(r, "idle") /\ Loads(r) =>
    claims[r] = Counted(ledger[r]) \/ (r \in behind /\ claims[r] \subseteq Counted(ledger[r]))

\* A published plan pays from a receipt set that every replica the miner asked
\* has recorded, although they were asked one after the other and may have
\* been stopped since (SettlementPlanProvider.fetch).
SettledFromEveryLedger ==
  miner.step = "published" =>
    \A i \in DOMAIN miner.plans, j \in DOMAIN Peers :
      /\ Loads(Peers[j]) => miner.plans[i].receipts \subseteq ledger[Peers[j]]
      /\ TotalOf(miner.plans[i].outputs, "value") = Value

\* A ledger that can still be read has lost nothing it held before, whatever
\* stops and failed writes fell into appends (append_receipts, load_receipts).
\* A write that makes the file unreadable is exempt: it may spoil the line
\* that was left without its newline.
ReadableLosesNothing ==
  [][\A r \in Replicas : Loads(r)' => ledger[r] \subseteq ledger'[r]]_vars

\* One proof of work, one header and nonce, is counted for one owner only.
ProofCountedOnce ==
  \A r \in Replicas : \A x, y \in Counted(ledger[r]) :
    Catalog[x].header = Catalog[y].header => Catalog[x].owner = Catalog[y].owner

\* Every request that was received ends: time and again no replica is busy,
\* also when two of them reconcile from each other (the timeout of
\* fetch_receipt_set).  Reading a request has no timeout and is not covered.
RequestAnswered == []<>(\A r \in Replicas : job[r].step \in {"idle", "down"})
=============================================================================
