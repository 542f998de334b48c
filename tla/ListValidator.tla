--------------------------- MODULE ListValidator ----------------------------
(***************************************************************************)
(* The second validator, select_state of independent_sharechain_v0.py: it  *)
(* reads a LIST of shares, rejects at the first fault and accumulates work *)
(* in sequence order.  `list' grows by any share at any place, repeated    *)
(* ones included; each state is one input to both validators.              *)
(***************************************************************************)
EXTENDS ShareGraph, SequencesExt

CONSTANT MaxList   \* bound: longest list that is tried

VARIABLE list
-----------------------------------------------------------------------------
(* First pass: each share on its own; identifiers and proofs do not repeat *)

\* check_share
CheckShare(s) ==
  LET proof == s.header.hash
  IN  ~ \/ <<s.height, s.prevBlock>> \notin TrustedRounds
        \/ s.header.prev # s.prevBlock
        \/ proof > ShareTarget
        \/ s.candidate # (proof <= NetworkTarget)

ListRepeats ==
  \E i, j \in DOMAIN list :
    i # j /\ (list[i].id = list[j].id \/ WorkId(list[i]) = WorkId(list[j]))

ListRoots == SelectSeq(list, IsRoot)

(* Second pass: accumulated work, in sequence order *)

BySequence == SortSeq(list, LAMBDA s, t : s.sequence < t.sequence)

\* the round of the child is neither the parent's nor the one it opens
RoundFault(parent, s) ==
  IF <<s.height, s.prevBlock>> = <<parent.height, parent.prevBlock>>
  THEN parent.candidate
  ELSE \/ ~parent.candidate
       \/ s.height # parent.height + 1
       \/ s.prevBlock # parent.header.hash

Accumulate(acc, s) ==
  LET parents == {p \in ToSet(list) : IsParent(p, s)}
      parent  == CHOOSE p \in parents : TRUE
  IN  IF acc.rejected THEN acc
      ELSE IF IsRoot(s)
      THEN [acc EXCEPT !.work = @ @@ (s.id :> ShareWorkUnits)]
      ELSE IF \/ parents = {}
              \/ s.sequence # parent.sequence + 1
              \/ parent.id \notin DOMAIN acc.work
              \/ RoundFault(parent, s)
      THEN [acc EXCEPT !.rejected = TRUE]
      ELSE [acc EXCEPT !.work = @ @@ (s.id :> @[parent.id] + ShareWorkUnits)]

Accumulated ==
  FoldLeft(Accumulate, [rejected |-> FALSE, work |-> << >>], BySequence)

Accepts ==
  /\ Len(list) \in 1 .. MaxShares
  /\ \A i \in DOMAIN list : CheckShare(list[i])
  /\ ~ListRepeats
  /\ Len(ListRoots) = 1 /\ ListRoots[1].sequence = 0
  /\ ~Accumulated.rejected

(* The winning tip and the walk back from it *)

Winner ==
  LET work  == Accumulated.work
      ids   == DOMAIN work \ {list[i].previous : i \in DOMAIN list}
      best  == Max({work[i] : i \in ids})
  IN  Min({i \in ids : work[i] = best})

RECURSIVE WalkBack(_)
WalkBack(id) ==
  IF id = ZeroId THEN <<>>
  ELSE LET s == CHOOSE x \in ToSet(list) : x.id = id
       IN  Append(WalkBack(s.previous), s)

SelectState ==
  LET chosen == WalkBack(Winner)
      kept   == IF Len(chosen) > FinalityDepth
                THEN SubSeq(chosen, 1, Len(chosen) - FinalityDepth) ELSE <<>>
      window == SubSeq(kept, Max({1, Len(kept) - PayoutWindow + 1}), Len(kept))
  IN  [ tip       |-> Winner,
        work      |-> Accumulated.work[Winner],
        path      |-> chosen,
        finalized |-> kept,
        claims    |-> [ p \in {s.payout : s \in ToSet(window)} |->
                          SelectSeq(window, LAMBDA s : s.payout = p) ] ]
-----------------------------------------------------------------------------
ListInit == list = <<>>

Insert(s, i) ==
  /\ Len(list) < MaxList
  /\ list' = InsertAt(list, i, s)

ListNext == \E s \in Shares, i \in 1 .. Len(list) + 1 : Insert(s, i)

\* Reference and independent validator decide alike on every list and select
\* the same tip, work, path, finalized prefix and claims, whatever the order
\* of the list: what _validate_graph_pair relies on to fail closed.
ValidatorsAgree ==
  LET S == ToSet(list)
  IN  /\ Accepts <=> Cardinality(S) = Len(list) /\ ValidGraph(S)
      /\ Accepts => SelectState = EvaluateGraph(S)

\* No work is credited twice and none is lost: every claimed share is
\* finalized, is claimed by one payout, and the claims together hold the
\* newest PayoutWindow finalized shares (or all of them, when fewer).
ClaimsCoverWindow ==
  Accepts =>
    LET e       == EvaluateGraph(ToSet(list))
        claimed == UNION {ToSet(e.claims[p]) : p \in DOMAIN e.claims}
        count   == SumFunction([p \in DOMAIN e.claims |-> Len(e.claims[p])])
    IN  /\ claimed \subseteq ToSet(e.finalized)
        /\ count = Cardinality(claimed)
        /\ count = Min({PayoutWindow, Len(e.finalized)})
        /\ \A s \in ToSet(e.finalized) \ claimed, t \in claimed : s.sequence < t.sequence
=============================================================================
