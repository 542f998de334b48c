------------------------------- MODULE Miner -------------------------------
(***************************************************************************)
(* mine_one_block of autonomous_labnet_miner.py with its coordinators:     *)
(* JobDeclarator.declare, CoordinatorSelector.declare and the view         *)
(* registry miners share.  Miners that build on one block with one payout  *)
(* configuration commit to one template, named here by the height it       *)
(* builds on.  Coordinators answer anything at any time.                   *)
(*                                                                         *)
(* The node is external: it extends its best chain by a submitted block on *)
(* top of it, answers "inconclusive" to any other, and may receive blocks  *)
(* from elsewhere between any two calls.                                   *)
(***************************************************************************)
EXTENDS Naturals, Sequences

CONSTANTS
  Miners,
  Coordinators,   \* sequence of the configured coordinators
  Views,          \* coordinator state commitments
  MaxHeight       \* bound on the blocks of the chain

Names == {Coordinators[i] : i \in DOMAIN Coordinators}

ASSUME MinerAssumption ==
  Coordinators \in Seq(Names) /\ Len(Coordinators) > 0 /\ MaxHeight \in Nat

VARIABLES
  chain,        \* finders of the blocks of the node's best chain
  miner,        \* what each miner is doing
  views,        \* registry: views[<<coordinator, template>>]
  quarantined,  \* registry: coordinators no longer used
  accepts,      \* history: coordinator, template and view of accepted jobs
  said          \* history: the views coordinators answered with

vars == <<chain, miner, views, quarantined, accepts, said>>

Init ==
  /\ chain = <<>>
  /\ miner = [m \in Miners |-> [step |-> "ready"]]
  /\ views = [k \in {} |-> 0]
  /\ quarantined = {}
  /\ accepts = {}
  /\ said = {}

At(m, step) == miner[m].step = step
Goto(m, step) == miner' = [miner EXCEPT ![m].step = step]

\* a block from elsewhere
OtherBlock ==
  /\ Len(chain) < MaxHeight
  /\ chain' = Append(chain, "other")
  /\ UNCHANGED <<miner, views, quarantined, accepts, said>>

\* getblockchaininfo
ReadTip(m) ==
  /\ At(m, "ready") /\ Len(chain) < MaxHeight
  /\ miner' = [miner EXCEPT ![m] = [step |-> "template", tip |-> Len(chain)]]
  /\ UNCHANGED <<chain, views, quarantined, accepts, said>>

\* getblocktemplate, refused when it is not for the tip read before; the
\* replicas may also refuse a payout plan for it
BuildTemplate(m) ==
  /\ At(m, "template")
  /\ \/ /\ miner[m].tip = Len(chain)
        /\ miner' = [miner EXCEPT ![m] = [step |-> "declare", tip |-> @.tip, next |-> 1]]
     \/ Goto(m, "failed")
  /\ UNCHANGED <<chain, views, quarantined, accepts, said>>
-----------------------------------------------------------------------------
(* CoordinatorSelector.declare.  The registry is consulted before a         *)
(* coordinator is asked and again when it answers with a view.             *)

Coordinator(m) == Coordinators[miner[m].next]

\* Mutant: views are kept per coordinator and not per template.
KeyByName(m) == <<Coordinator(m), 0>>

Key(m) == <<Coordinator(m), miner[m].tip>>

\* Mutant: after a failure the same coordinator is tried again.
RetrySame(m) == Goto(m, "declare")

\* the next coordinator, or direct fallback after the last
NextCoordinator(m) ==
  miner' = [miner EXCEPT ![m] =
    IF @.next < Len(Coordinators)
    THEN [step |-> "declare", tip |-> @.tip, next |-> @.next + 1]
    ELSE [step |-> "solve", tip |-> @.tip]]

Ask(m) ==
  /\ At(m, "declare")
  /\ IF Coordinator(m) \in quarantined THEN NextCoordinator(m) ELSE Goto(m, "asked")
  /\ UNCHANGED <<chain, views, quarantined, accepts, said>>

\* every way JobDeclarator.declare ends without a usable acceptance
NotAccepted(m) ==
  /\ At(m, "asked")
  /\ NextCoordinator(m)
  /\ UNCHANGED <<chain, views, quarantined, accepts, said>>

Solving(m) == miner' = [miner EXCEPT ![m] = [step |-> "solve", tip |-> @.tip]]

\* accepted without a state commitment: the registry is not consulted
AcceptPlain(m) ==
  /\ At(m, "asked")
  /\ Solving(m)
  /\ UNCHANGED <<chain, views, quarantined, accepts, said>>

Consistent(m, view) == Key(m) \in DOMAIN views => views[Key(m)] = view

\* CoordinatorViewRegistry.observe of the view in an acceptance
AcceptView(m, view) ==
  LET answer == [coordinator |-> Coordinator(m), template |-> miner[m].tip, view |-> view]
  IN  /\ At(m, "asked")
      /\ said' = said \cup {answer}
      /\ \/ /\ Coordinator(m) \in quarantined
            /\ NextCoordinator(m)
            /\ UNCHANGED <<views, quarantined, accepts>>
         \/ /\ Coordinator(m) \notin quarantined /\ Consistent(m, view)
            /\ views' = [k \in DOMAIN views \cup {Key(m)} |->
                          IF k \in DOMAIN views THEN views[k] ELSE view]
            /\ accepts' = accepts \cup {answer}
            /\ Solving(m)
            /\ UNCHANGED quarantined
         \/ /\ Coordinator(m) \notin quarantined /\ ~Consistent(m, view)
            /\ quarantined' = quarantined \cup {Coordinator(m)}
            /\ NextCoordinator(m)
            /\ UNCHANGED <<views, accepts>>
      /\ UNCHANGED chain
-----------------------------------------------------------------------------
(* Solving and publication *)

\* solve_header finds a nonce or runs out of them
Solve(m) ==
  /\ At(m, "solve")
  /\ Goto(m, "submit") \/ Goto(m, "failed")
  /\ UNCHANGED <<chain, views, quarantined, accepts, said>>

\* Mutant: the result of submitblock is not looked at.
SubmitUnchecked(m) ==
  /\ At(m, "submit")
  /\ IF miner[m].tip = Len(chain)
     THEN chain' = Append(chain, m)
     ELSE UNCHANGED chain
  /\ Goto(m, "published")
  /\ UNCHANGED <<views, quarantined, accepts, said>>

\* submitblock; the call may also fail after the node took the block
Submit(m) ==
  /\ At(m, "submit")
  /\ IF miner[m].tip = Len(chain)
     THEN chain' = Append(chain, m) /\ (Goto(m, "confirm") \/ Goto(m, "failed"))
     ELSE UNCHANGED chain /\ Goto(m, "failed")
  /\ UNCHANGED <<views, quarantined, accepts, said>>

\* getbestblockhash
Confirm(m) ==
  /\ At(m, "confirm")
  /\ Goto(m, IF Len(chain) = miner[m].tip + 1 THEN "published" ELSE "unadopted")
  /\ UNCHANGED <<chain, views, quarantined, accepts, said>>

\* the next of the blocks a process mines
Again(m) ==
  /\ At(m, "published")
  /\ miner' = [miner EXCEPT ![m] = [step |-> "ready"]]
  /\ UNCHANGED <<chain, views, quarantined, accepts, said>>

\* a call of sovr-cli fails or times out, and the process ends
CallFails(m) ==
  /\ miner[m].step \in {"ready", "template", "submit", "confirm"}
  /\ Goto(m, "failed")
  /\ UNCHANGED <<chain, views, quarantined, accepts, said>>

Step(m) ==
  \/ ReadTip(m) \/ BuildTemplate(m)
  \/ Ask(m) \/ NotAccepted(m) \/ AcceptPlain(m) \/ \E view \in Views : AcceptView(m, view)
  \/ Solve(m) \/ Submit(m) \/ Confirm(m) \/ Again(m) \/ CallFails(m)

Next == OtherBlock \/ \E m \in Miners : Step(m)

Spec == Init /\ [][Next]_vars

\* every call a miner makes returns or times out
FairSpec == Spec /\ \A m \in Miners : WF_vars(Step(m))
-----------------------------------------------------------------------------
(* Properties *)

\* A coordinator is quarantined only after it answered one template with two
\* state commitments, and before a second of them is accepted, whichever
\* miners were given them (CoordinatorViewRegistry.observe).
QuarantineJustified ==
  /\ \A c \in quarantined : \E x, y \in said :
       x.coordinator = c /\ y.coordinator = c /\ x.template = y.template /\ x.view # y.view
  /\ \A x, y \in accepts :
       x.coordinator = y.coordinator /\ x.template = y.template => x.view = y.view

\* A block reported as published is in the node's chain, on the block its
\* template was built for (the checks around submitblock in mine_one_block).
PublishedIsInChain ==
  \A m \in Miners : At(m, "published") => chain[miner[m].tip + 1] = m

\* Coordinators that refuse, stall, equivocate or are quarantined never keep a
\* miner from solving its own template (CoordinatorSelector.declare).
CoordinatorsNeverHalt == \A m \in Miners : At(m, "declare") ~> At(m, "solve")
=============================================================================
