---------------------------- MODULE MCAlgorithms ----------------------------
(***************************************************************************)
(* The pure algorithms on every input of a bounded size, each against a    *)
(* second implementation in the repository or a definition of what it      *)
(* should compute.  A behaviour grows the input of one of them.            *)
(***************************************************************************)
EXTENDS ListValidator, ShareUniverse, PeerDiversity, PayoutPlan

CONSTANT MaxValue

VARIABLES
  algorithm,     \* whose input grows: "lists", "tables" or "plans"
  receipts,      \* ids of the receipts a plan is built from
  work,          \* the work of each script that has claims from them
  value,         \* the coinbase value divided
  plan           \* the document built

planVars == <<receipts, work, value, plan>>
vars == <<algorithm, list, table, planVars>>

MCShares == {Root, One, Block, NextRound, Fork, ForkTwo, Stale, Reassigned,
             OtherRoot, BadSeq, NoParent, Weak, LateRoot, Untrusted, Unmarked}

\* four scripts with receipts of different work, one of them no candidate
Receipt(owner, units, candidate) == [owner |-> owner, work |-> units, candidate |-> candidate]
MCCatalog ==
  << Receipt(1, 1, TRUE), Receipt(2, 3, TRUE), Receipt(3, 1, TRUE), Receipt(4, 1, TRUE),
     Receipt(1, 3, TRUE), Receipt(2, 1, TRUE), Receipt(3, 2, TRUE), Receipt(4, 3, TRUE),
     Receipt(1, 2, FALSE) >>

Init ==
  /\ algorithm \in {"lists", "tables", "plans"}
  /\ ListInit
  /\ TableInit
  /\ receipts \in IF algorithm = "plans" THEN SUBSET Receipts ELSE {{}}
  /\ work = WorkOf(receipts)
  /\ value = 0
  /\ plan = PlanOf(receipts, work, 0)

\* the plan for the next larger coinbase value
RaiseValue ==
  /\ value < MaxValue
  /\ value' = value + 1
  /\ plan' = PlanOf(receipts, work, value + 1)
  /\ UNCHANGED <<receipts, work>>

\* Labels are interchangeable: only tables that use them in order are tried.
InOrder(entries, field) ==
  \A i \in DOMAIN entries : \A n \in 1 .. entries[i][field] - 1 :
    \E j \in 1 .. i - 1 : entries[j][field] = n

Next ==
  \/ algorithm = "lists" /\ ListNext /\ UNCHANGED <<algorithm, table, planVars>>
  \/ /\ algorithm = "tables" /\ TableNext
     /\ \A field \in {"prefix", "operator", "transport"} : InOrder(table', field)
     /\ UNCHANGED <<algorithm, list, planVars>>
  \/ algorithm = "plans" /\ RaiseValue /\ UNCHANGED <<algorithm, list, table>>

Spec == Init /\ [][Next]_vars
-----------------------------------------------------------------------------
\* The outputs add up to the coinbase value, so the conservation check at the
\* end of build_payout_plan never refuses a plan; each is the exact share
\* rounded down or up; and although the units that rounding leaves go one by
\* one, more work is never paid less.
ExactDivision ==
  LET paid == Payout(work, value)
      total == SumFunction(work)
  IN  value > 0 /\ DOMAIN work # {} =>
        /\ SumFunction(paid) = value
        /\ \A s \in DOMAIN work :
             /\ paid[s] * total < value * work[s] + total
             /\ value * work[s] < paid[s] * total + total
        /\ \A s, t \in DOMAIN work : work[s] > work[t] => paid[s] >= paid[t]

\* The miner's checks and the coordinator's are written separately, in two
\* programs.  The miner accepts the document built for a receipt set, with its
\* totals, its outputs and the receipts each is paid for, exactly when the
\* coordinator does not refuse to build it and it has two outputs or more
\* (build_payout_plan against validate_payout_plan).
MinerAgrees ==
  MinerAccepts(plan, value) <=>
    Builds(work, value) /\ Cardinality(DOMAIN work) \in 2 .. MaxOutputs
=============================================================================
