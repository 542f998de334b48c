--------------------------- MODULE PromotionLoop ----------------------------
(***************************************************************************)
(* Orphan promotion the way _promote_orphans runs it: passes over the      *)
(* orphans in (sequence, id) order, each deciding which parents are        *)
(* present from a snapshot taken when the pass starts, until a pass makes  *)
(* no progress.  ShareStore replaces the loop by its fixed point; the      *)
(* store's runs compare the two.                                           *)
(***************************************************************************)
EXTENDS ShareStore, SequencesExt

SortedOrphans(st) ==
  [ i \in 1 .. Cardinality(st.orphans) |->
      CHOOSE o \in st.orphans :
        Cardinality({q \in st.orphans : Before(q.share, o.share)}) = i - 1 ]

TryPromote(snapshot, st, o) ==
  LET dropped == [st EXCEPT !.orphans = @ \ {o}]
  IN  IF ~ParentKnown(snapshot, o.share) THEN st
      ELSE IF ValidGraph(st.accepted \cup {o.share})
      THEN [dropped EXCEPT !.accepted = @ \cup {o.share}]
      ELSE dropped

PromotionPass(st) ==
  FoldLeft(LAMBDA acc, o : TryPromote(st.accepted, acc, o), st, SortedOrphans(st))

\* Mutant: a pass is not repeated.
PromoteSinglePass(st) == PromotionPass(st)

RECURSIVE PromoteLoop(_)
PromoteLoop(st) ==
  LET after == PromotionPass(st)
  IN  IF after = st THEN st ELSE PromoteLoop(after)

\* For every share the node could accept next, the loop of the code and the
\* fixed point of the model leave the same accepted shares and orphans, so
\* neither the order of the passes nor their stale snapshots matter.
LoopReachesFixedPoint ==
  \A s \in Shares :
    BecomesAccepted(store, s) =>
      LET st == [store EXCEPT !.accepted = @ \cup {s}]
      IN  PromoteLoop(st) = PromoteOrphans(st)
=============================================================================
