----------------------------- MODULE PayoutPlan -----------------------------
(***************************************************************************)
(* build_claims and build_payout_plan of share_accounting_coordinator.py:  *)
(* the coinbase value divided among payout scripts by largest remainder,   *)
(* with the receipts each output is paid for; and validate_payout_plan of  *)
(* autonomous_labnet_miner.py, which checks the document on its own.       *)
(* Receipt ids and scripts are ordered as their hexadecimal text is.       *)
(* canonical_hash over a document stands for the document: a plan carries  *)
(* the receipt set itself, and its own commitment always matches.          *)
(***************************************************************************)
EXTENDS Integers, FiniteSets, SequencesExt

CONSTANTS
  Catalog,       \* valid receipts by id: owner (its script), work, candidate
  MinPayout,     \* MIN_DIRECT_PAYOUT of the coordinator
  MinerMinimum,  \* least output the miner accepts
  MaxOutputs     \* most outputs the miner accepts

Receipts == DOMAIN Catalog

ASSUME PayoutAssumption == {MinPayout, MinerMinimum, MaxOutputs} \subseteq Nat
-----------------------------------------------------------------------------
(* Claims: the work and the receipts of each script *)

Counted(S) == {x \in S : Catalog[x].candidate}
ClaimedBy(S, script) == {x \in Counted(S) : Catalog[x].owner = script}

WorkOf(S) ==
  [s \in {Catalog[x].owner : x \in Counted(S)} |->
    SumFunction([x \in ClaimedBy(S, s) |-> Catalog[x].work])]
-----------------------------------------------------------------------------
(* The division of the coinbase value *)

Floor(work, value, s) == (value * work[s]) \div SumFunction(work)
Remainder(work, value, s) == (value * work[s]) % SumFunction(work)

Unallocated(work, value) ==
  value - SumFunction([s \in DOMAIN work |-> Floor(work, value, s)])

\* Mutant: equal remainders are not told apart.
FirstTied(work, value, s, t) ==
  Remainder(work, value, s) > Remainder(work, value, t)

\* s comes before t among those that get one more unit
First(work, value, s, t) ==
  \/ Remainder(work, value, s) > Remainder(work, value, t)
  \/ Remainder(work, value, s) = Remainder(work, value, t) /\ s < t

Payout(work, value) ==
  [s \in DOMAIN work |->
    Floor(work, value, s)
      + IF Cardinality({t \in DOMAIN work : First(work, value, t, s)}) < Unallocated(work, value)
        THEN 1 ELSE 0]
-----------------------------------------------------------------------------
(* The plan: the coordinator's side *)

\* build_payout_plan does not raise
Builds(work, value) ==
  LET paid == Payout(work, value)
  IN  /\ value > 0
      /\ DOMAIN work # {}
      /\ \A s \in DOMAIN paid : paid[s] >= MinPayout
      /\ SumFunction(paid) = value

OutputsOf(S, work, value) ==
  LET paid == Payout(work, value)
      scripts == SetToSortSeq(DOMAIN work, <)
  IN  [i \in DOMAIN scripts |->
        [script |-> scripts[i], value |-> paid[scripts[i]], work |-> work[scripts[i]],
         ids |-> SetToSortSeq(ClaimedBy(S, scripts[i]), <)]]

\* Mutant: the plan counts the receipts of the set, eligible or not.
PlanCountingAll(S, work, value) ==
  [value |-> value, receipts |-> S, count |-> Cardinality(S),
   work |-> SumFunction(work), outputs |-> OutputsOf(S, work, value)]

\* the document for receipts S, whose claims give each script its work
PlanOf(S, work, value) ==
  [value |-> value, receipts |-> S, count |-> Cardinality(Counted(S)),
   work |-> SumFunction(work), outputs |-> OutputsOf(S, work, value)]
-----------------------------------------------------------------------------
(* The plan: the miner's side *)

TotalOf(outputs, field) == SumFunction([i \in DOMAIN outputs |-> outputs[i][field]])

OutputOK(output) ==
  /\ output.value >= MinerMinimum
  /\ output.work > 0
  /\ output.ids # <<>>
  /\ \A i, j \in DOMAIN output.ids : i < j => output.ids[i] <= output.ids[j]

\* what the miner requires of a plan before it builds a coinbase from it
MinerAccepts(plan, value) ==
  LET outputs == plan.outputs
      ids == FlattenSeq([i \in DOMAIN outputs |-> outputs[i].ids])
  IN  /\ plan.value = value
      /\ plan.count > 0 /\ plan.work > 0
      /\ Len(outputs) \in 2 .. MaxOutputs
      /\ \A i \in DOMAIN outputs : OutputOK(outputs[i])
      /\ \A i, j \in DOMAIN outputs : i < j => outputs[i].script < outputs[j].script
      /\ TotalOf(outputs, "value") = value
      /\ TotalOf(outputs, "work") = plan.work
      /\ IsInjective(ids)
      /\ Len(ids) = plan.count
=============================================================================
