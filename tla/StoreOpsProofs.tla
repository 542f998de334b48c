--------------------------- MODULE StoreOpsProofs ---------------------------
(***************************************************************************)
(* What the operations of module StoreOps keep, proved for every set of    *)
(* shares, every round table and every limit.                              *)
(*                                                                         *)
(* StoreOK is kept by every operation and says more than the properties:   *)
(* an orphan is never a root (so promotion adds no second root), accepted  *)
(* and waiting shares together repeat no proof and stay within MaxKnown    *)
(* (so promotion cannot fail on either), and no orphan has an accepted     *)
(* parent.                                                                 *)
(***************************************************************************)
EXTENDS StoreOps, FiniteSetTheorems, WellFoundedInduction, TLAPS

\* What holds of a store between the acceptance of a share and the promotion
\* that follows it.
PromotableOK(st) ==
  /\ st \in StoreType
  /\ IsFiniteSet(st.accepted) /\ IsFiniteSet(st.orphans)
  /\ \A s \in Known(st) : ValidShare(s)
  /\ DistinctWork(Known(st))
  /\ GraphOrEmpty(st.accepted)
  /\ \A o \in st.orphans : ~IsRoot(o.share) /\ o.arrival <= st.tick
  /\ \A o, q \in st.orphans : o.share = q.share => o = q
  /\ Cardinality(st.orphans) <= MaxOrphans
  /\ Cardinality(Known(st)) <= MaxKnown

StoreOK(st) ==
  /\ PromotableOK(st)
  /\ \A o \in st.orphans : ~ParentKnown(st.accepted, o.share)
-----------------------------------------------------------------------------
(* The fixed point of promotion *)

\* The promoted orphans are closed: none that extends an accepted or a
\* promoted share is left out (_promote_orphans runs until no progress).
LEMMA PromotedClosed ==
  ASSUME NEW acc, NEW pool
  PROVE  ClosedUnderPromotion(acc, pool, Promoted(acc, pool))
<1> DEFINE Pr == Promoted(acc, pool)
<1> SUFFICES ASSUME NEW s \in pool, NEW p \in acc \cup Pr, Extends(p, s),
                    NEW P \in SUBSET pool, ClosedUnderPromotion(acc, pool, P)
             PROVE  s \in P
  BY DEF ClosedUnderPromotion, Promoted
<1>1. p \in acc \cup P
  BY DEF Promoted
<1> QED
  BY <1>1 DEF ClosedUnderPromotion

\* Every promoted orphan extends an accepted or a promoted share.
LEMMA PromotedSupported ==
  ASSUME NEW acc, NEW pool, NEW s \in Promoted(acc, pool)
  PROVE  \E p \in acc \cup Promoted(acc, pool) : Extends(p, s)
<1> DEFINE Pr == Promoted(acc, pool)
           Q  == {x \in Pr : \E p \in acc \cup Pr : Extends(p, x)}
<1>1. Q \in SUBSET pool
  BY DEF Promoted
<1>2. ClosedUnderPromotion(acc, pool, Q)
  <2> SUFFICES ASSUME NEW x \in pool, NEW p \in acc \cup Q, Extends(p, x)
               PROVE  x \in Q
    BY DEF ClosedUnderPromotion
  <2>1. p \in acc \cup Pr
    OBVIOUS
  <2>2. x \in Pr
    BY <2>1, PromotedClosed DEF ClosedUnderPromotion
  <2> QED
    BY <2>1, <2>2
<1>3. s \in Q
  BY <1>1, <1>2 DEF Promoted
<1> QED
  BY <1>3

\* Nothing is promoted into an empty history.
LEMMA PromotedIntoEmpty ==
  ASSUME NEW pool
  PROVE  Promoted({}, pool) = {}
<1>1. ClosedUnderPromotion({}, pool, {})
  BY DEF ClosedUnderPromotion
<1> QED
  BY <1>1 DEF Promoted

\* Promotion keeps a valid graph valid, all at once: the per-share check of
\* _promote_orphans fails for no orphan that extends its parent.
LEMMA PromotedGraphValid ==
  ASSUME NEW acc, NEW pool,
         IsFiniteSet(acc \cup pool),
         Cardinality(acc \cup pool) <= MaxShares,
         ValidGraph(acc),
         \A s \in pool : ValidShare(s) /\ ~IsRoot(s),
         DistinctWork(acc \cup pool)
  PROVE  ValidGraph(acc \cup Promoted(acc, pool))
<1> DEFINE Pr == Promoted(acc, pool)
           G  == acc \cup Pr
<1>1. Pr \subseteq pool
  BY DEF Promoted
<1>2. Cardinality(G) <= MaxShares
  <2>1. G \subseteq acc \cup pool
    BY <1>1
  <2>2. /\ IsFiniteSet(G)
        /\ Cardinality(G) <= Cardinality(acc \cup pool)
    BY <2>1, FS_Subset
  <2>3. Cardinality(G) \in Nat /\ Cardinality(acc \cup pool) \in Nat
    BY <2>2, FS_CardinalityType
  <2> QED
    BY <2>2, <2>3, ProfileAssumption
<1>3. \A s \in G : ValidShare(s)
  BY <1>1 DEF ValidGraph
<1>4. DistinctWork(G)
  BY <1>1 DEF DistinctWork
<1>5. OneRoot(G)
  BY <1>1 DEF ValidGraph, OneRoot
<1>6. Linked(G)
  BY PromotedSupported DEF ValidGraph, Linked
<1> QED
  BY <1>2, <1>3, <1>4, <1>5, <1>6 DEF ValidGraph
-----------------------------------------------------------------------------
(* Each operation on a store *)

\* A node without a state file starts from a store that keeps the invariant
\* (_empty_state).
LEMMA EmptyStoreOK == StoreOK(EmptyStore)
<1>1. Known(EmptyStore) = {} /\ EmptyStore.accepted = {} /\ EmptyStore.orphans = {}
      /\ EmptyStore \in StoreType
  BY DEF Known, Waiting, EmptyStore, StoreType
<1>2. IsFiniteSet({}) /\ Cardinality({}) = 0
  BY FS_EmptySet
<1> QED
  BY <1>1, <1>2, LimitAssumption
     DEF StoreOK, PromotableOK, DistinctWork, GraphOrEmpty

\* Known is a finite set, so its cardinality is a number.
LEMMA KnownFinite ==
  ASSUME NEW st, IsFiniteSet(st.accepted), IsFiniteSet(st.orphans)
  PROVE  /\ IsFiniteSet(Waiting(st))
         /\ IsFiniteSet(Known(st))
         /\ Cardinality(Known(st)) \in Nat
         /\ Cardinality(st.orphans) \in Nat
<1>1. IsFiniteSet(Waiting(st))
  <2> DEFINE share == [o \in st.orphans |-> o.share]
  <2>1. share \in Surjection(st.orphans, Waiting(st))
    BY DEF Surjection, Waiting
  <2> QED
    BY <2>1, FS_Surjection
<1>2. IsFiniteSet(Known(st))
  BY <1>1, FS_Union DEF Known
<1> QED
  BY <1>1, <1>2, FS_CardinalityType

\* A store that loses orphans and gains nothing keeps its bounds.
LEMMA FewerKnown ==
  ASSUME NEW st, NEW new, PromotableOK(st),
         Known(new) \subseteq Known(st), new.orphans \subseteq st.orphans
  PROVE  /\ IsFiniteSet(new.orphans)
         /\ Cardinality(new.orphans) <= MaxOrphans
         /\ IsFiniteSet(Known(new))
         /\ Cardinality(Known(new)) <= MaxKnown
<1>1. /\ IsFiniteSet(Known(st)) /\ Cardinality(Known(st)) \in Nat
      /\ Cardinality(st.orphans) \in Nat
  BY KnownFinite DEF PromotableOK
<1>2. /\ IsFiniteSet(Known(new))
      /\ Cardinality(Known(new)) <= Cardinality(Known(st))
  BY <1>1, FS_Subset
<1>3. /\ IsFiniteSet(new.orphans)
      /\ Cardinality(new.orphans) <= Cardinality(st.orphans)
  BY FS_Subset DEF PromotableOK
<1>4. Cardinality(Known(new)) \in Nat /\ Cardinality(new.orphans) \in Nat
  BY <1>2, <1>3, FS_CardinalityType
<1> QED
  BY <1>1, <1>2, <1>3, <1>4, LimitAssumption DEF PromotableOK

\* Ageing forgets expired orphans and nothing else (_prune_orphans).
LEMMA AgedOK ==
  ASSUME NEW st, NEW ticks \in Nat, StoreOK(st)
  PROVE  StoreOK(Aged(st, ticks))
<1> DEFINE later == [st EXCEPT !.tick = @ + ticks]
           new   == Aged(st, ticks)
<1>1. st \in StoreType
  BY DEF StoreOK, PromotableOK
<1>2. /\ new.tick = st.tick + ticks
      /\ new.accepted = st.accepted
      /\ new.orphans \subseteq st.orphans
      /\ new \in StoreType
  <2>1. /\ later.tick = st.tick + ticks
        /\ later.accepted = st.accepted
        /\ later.orphans = st.orphans
        /\ later \in StoreType
    BY <1>1 DEF StoreType
  <2>2. new = [later EXCEPT !.orphans = {o \in @ : o.arrival >= later.tick - MaxOrphanAge}]
    BY DEF Aged, PruneOrphans
  <2> HIDE DEF later, new
  <2> QED
    BY <2>1, <2>2 DEF StoreType
<1>3. Known(new) \subseteq Known(st)
  BY <1>2 DEF Known, Waiting
<1>4. /\ IsFiniteSet(new.orphans)
      /\ Cardinality(new.orphans) <= MaxOrphans
      /\ Cardinality(Known(new)) <= MaxKnown
  BY <1>2, <1>3, FewerKnown DEF StoreOK
<1>5. \A o \in new.orphans : ~IsRoot(o.share) /\ o.arrival <= new.tick
  <2> SUFFICES ASSUME NEW o \in new.orphans
               PROVE  ~IsRoot(o.share) /\ o.arrival <= new.tick
    OBVIOUS
  <2>1. ~IsRoot(o.share) /\ o.arrival <= st.tick
    BY <1>2 DEF StoreOK, PromotableOK
  <2>2. o.arrival \in Nat /\ st.tick \in Nat
    BY <1>1, <1>2 DEF StoreType, OrphanType
  <2> QED
    BY <1>2, <2>1, <2>2
<1>6. DistinctWork(Known(new)) /\ \A s \in Known(new) : ValidShare(s)
  BY <1>3 DEF StoreOK, PromotableOK, DistinctWork
<1> QED
  BY <1>2, <1>4, <1>5, <1>6 DEF StoreOK, PromotableOK

\* Promotion restores the whole invariant (_promote_orphans).
LEMMA PromoteOrphansOK ==
  ASSUME NEW st, PromotableOK(st)
  PROVE  StoreOK(PromoteOrphans(st))
<1> DEFINE pool == Waiting(st)
           Pr   == Promoted(st.accepted, pool)
           acc  == st.accepted \cup Pr
           new  == PromoteOrphans(st)
<1>1. st \in StoreType
  BY DEF PromotableOK
<1>2. Pr \subseteq pool /\ pool \subseteq Shares
  BY <1>1 DEF Promoted, Waiting, StoreType, OrphanType
<1>3. /\ new.tick = st.tick
      /\ new.accepted = acc
      /\ new.orphans = {o \in st.orphans : ~ParentKnown(acc, o.share)}
      /\ new \in StoreType
  BY <1>1, <1>2 DEF PromoteOrphans, StoreType
<1>4. Known(new) \subseteq Known(st)
  BY <1>2, <1>3 DEF Known, Waiting
<1>5. /\ IsFiniteSet(new.orphans)
      /\ Cardinality(new.orphans) <= MaxOrphans
      /\ IsFiniteSet(Known(new))
      /\ Cardinality(Known(new)) <= MaxKnown
  BY <1>3, <1>4, FewerKnown
<1>6. IsFiniteSet(new.accepted)
  BY <1>5, FS_Subset DEF Known
<1>7. GraphOrEmpty(new.accepted)
  <2>1. CASE st.accepted = {}
    BY <2>1, <1>3, PromotedIntoEmpty DEF GraphOrEmpty
  <2>2. CASE st.accepted # {}
    <3>1. ValidGraph(st.accepted)
      BY <2>2 DEF PromotableOK, GraphOrEmpty
    <3>2. Known(st) = st.accepted \cup pool
      BY DEF Known
    <3>3. IsFiniteSet(Known(st)) /\ Cardinality(Known(st)) \in Nat
      BY KnownFinite DEF PromotableOK
    <3>4. Cardinality(Known(st)) <= MaxShares
      BY <3>3, LimitAssumption, ProfileAssumption DEF PromotableOK
    <3>5. \A s \in pool : ValidShare(s) /\ ~IsRoot(s)
      BY <3>2 DEF PromotableOK, Waiting
    <3>6. DistinctWork(Known(st))
      BY DEF PromotableOK
    <3>7. ValidGraph(acc)
      BY <3>1, <3>2, <3>3, <3>4, <3>5, <3>6, PromotedGraphValid
    <3> QED
      BY <1>3, <3>7 DEF GraphOrEmpty
  <2> QED
    BY <2>1, <2>2
<1>8. DistinctWork(Known(new)) /\ \A s \in Known(new) : ValidShare(s)
  BY <1>4 DEF PromotableOK, DistinctWork
<1>9. /\ \A o \in new.orphans : /\ ~IsRoot(o.share) /\ o.arrival <= new.tick
                               /\ ~ParentKnown(new.accepted, o.share)
      /\ \A o, q \in new.orphans : o.share = q.share => o = q
  BY <1>3 DEF PromotableOK
<1> QED
  BY <1>3, <1>5, <1>6, <1>7, <1>8, <1>9 DEF StoreOK, PromotableOK

\* One more known share that repeats no proof.
LEMMA FreshKnown ==
  ASSUME NEW st, NEW s \in Shares, PromotableOK(st), Fresh(st, s),
         NEW new, Known(new) = Known(st) \cup {s}
  PROVE  /\ Cardinality(Known(new)) <= MaxKnown
         /\ DistinctWork(Known(new))
         /\ \A k \in Known(new) : ValidShare(k)
<1>1. IsFiniteSet(Known(st)) /\ Cardinality(Known(st)) \in Nat
  BY KnownFinite DEF PromotableOK
<1>2. s \notin Known(st)
  BY DEF Fresh
<1>3. Cardinality(Known(st) \cup {s}) = Cardinality(Known(st)) + 1
  BY <1>1, <1>2, FS_AddElement
<1>4. Cardinality(Known(st)) < MaxKnown
  BY DEF Fresh
<1>5. Cardinality(Known(new)) <= MaxKnown
  BY <1>1, <1>3, <1>4, LimitAssumption
<1>6. DistinctWork(Known(new))
  BY DEF Fresh, DistinctWork, PromotableOK
<1> QED
  BY <1>5, <1>6 DEF Fresh, PromotableOK

\* Importing one share, whatever it is, keeps the invariant (_import_one).
LEMMA ImportOneOK ==
  ASSUME NEW st, NEW s \in Shares, StoreOK(st)
  PROVE  StoreOK(ImportOne(st, s))
<1>1. st \in StoreType /\ PromotableOK(st)
  BY DEF StoreOK, PromotableOK
<1>2. CASE BecomesAccepted(st, s)
  <2> DEFINE new == [st EXCEPT !.accepted = @ \cup {s}]
  <2>1. /\ new.tick = st.tick
        /\ new.accepted = st.accepted \cup {s}
        /\ new.orphans = st.orphans
        /\ new \in StoreType
    BY <1>1 DEF StoreType
  <2>2. ImportOne(st, s) = PromoteOrphans(new)
    BY <1>2 DEF ImportOne
  <2> HIDE DEF new
  <2>3. Known(new) = Known(st) \cup {s}
    BY <2>1 DEF Known, Waiting
  <2>4. /\ Cardinality(Known(new)) <= MaxKnown
        /\ DistinctWork(Known(new))
        /\ \A k \in Known(new) : ValidShare(k)
    BY <1>1, <1>2, <2>3, FreshKnown DEF BecomesAccepted
  <2>5. IsFiniteSet(new.accepted)
    <3>1. IsFiniteSet(st.accepted)
      BY <1>1 DEF PromotableOK
    <3> QED
      BY <2>1, <3>1, FS_AddElement
  <2>6. GraphOrEmpty(new.accepted)
    BY <1>2, <2>1 DEF BecomesAccepted, GraphOrEmpty
  <2>7. PromotableOK(new)
    BY <1>1, <2>1, <2>4, <2>5, <2>6 DEF PromotableOK
  <2> QED
    BY <2>2, <2>7, PromoteOrphansOK
<1>3. CASE ~BecomesAccepted(st, s) /\ BecomesOrphan(st, s)
  <2> DEFINE orphan == [share |-> s, arrival |-> st.tick]
             new    == [st EXCEPT !.orphans = @ \cup {orphan}]
  <2>1. orphan \in OrphanType /\ orphan.share = s /\ orphan.arrival = st.tick
    BY <1>1 DEF StoreType, OrphanType
  <2>2. ImportOne(st, s) = new
    BY <1>3 DEF ImportOne
  <2> HIDE DEF orphan
  <2>3. /\ new.tick = st.tick
        /\ new.accepted = st.accepted
        /\ new.orphans = st.orphans \cup {orphan}
        /\ new \in StoreType
    BY <1>1, <2>1 DEF StoreType
  <2> HIDE DEF new
  <2>4. Known(new) = Known(st) \cup {s}
    BY <2>1, <2>3 DEF Known, Waiting
  <2>5. s \notin Known(st)
    BY <1>3 DEF BecomesOrphan, Fresh
  <2>6. orphan \notin st.orphans
    BY <2>1, <2>5 DEF Known, Waiting
  <2>7. /\ Cardinality(Known(new)) <= MaxKnown
        /\ DistinctWork(Known(new))
        /\ \A k \in Known(new) : ValidShare(k)
    BY <1>1, <1>3, <2>4, FreshKnown DEF BecomesOrphan
  <2>8. IsFiniteSet(new.orphans) /\ Cardinality(new.orphans) <= MaxOrphans
    <3>1. IsFiniteSet(st.orphans) /\ Cardinality(st.orphans) \in Nat
      BY <1>1, KnownFinite DEF PromotableOK
    <3>2. /\ IsFiniteSet(st.orphans \cup {orphan})
          /\ Cardinality(st.orphans \cup {orphan}) = Cardinality(st.orphans) + 1
      BY <2>6, <3>1, FS_AddElement
    <3>3. Cardinality(st.orphans) < MaxOrphans
      BY <1>3 DEF BecomesOrphan
    <3> QED
      BY <2>3, <3>1, <3>2, <3>3, LimitAssumption
  <2>9. \A o \in new.orphans : ~ParentKnown(new.accepted, o.share)
    BY <1>3, <2>1, <2>3 DEF StoreOK, BecomesOrphan
  <2>10. \A o \in new.orphans : ~IsRoot(o.share) /\ o.arrival <= new.tick
    <3>1. st.tick \in Nat
      BY <1>1 DEF StoreType
    <3> QED
      BY <1>1, <2>1, <2>3, <2>9, <3>1 DEF PromotableOK, ParentKnown
  <2>11. \A o, q \in new.orphans : o.share = q.share => o = q
    <3>1. \A o \in st.orphans : o.share # s
      BY <2>5 DEF Known, Waiting
    <3> QED
      BY <1>1, <2>1, <2>3, <3>1 DEF PromotableOK
  <2> QED
    BY <1>1, <2>2, <2>3, <2>7, <2>8, <2>9, <2>10, <2>11 DEF StoreOK, PromotableOK
<1>4. CASE ~BecomesAccepted(st, s) /\ ~BecomesOrphan(st, s)
  BY <1>4 DEF ImportOne
<1> QED
  BY <1>2, <1>3, <1>4

\* Accepted and waiting shares are disjoint: an accepted share that is no
\* root has its parent among the accepted ones, an orphan has not.
LEMMA AcceptedNotWaiting ==
  ASSUME NEW st, StoreOK(st)
  PROVE  st.accepted \cap Waiting(st) = {}
<1> SUFFICES ASSUME NEW o \in st.orphans, o.share \in st.accepted
             PROVE  FALSE
  BY DEF Waiting
<1>1. ValidGraph(st.accepted)
  BY DEF StoreOK, PromotableOK, GraphOrEmpty
<1>2. ParentKnown(st.accepted, o.share)
  BY <1>1 DEF ValidGraph, Linked, ParentKnown, Extends
<1> QED
  BY <1>2 DEF StoreOK

\* The shares of a store that satisfies the invariant pass _load_state.
LEMMA StoreLoads ==
  ASSUME NEW st, StoreOK(st)
  PROVE  LoadSharesOK(st)
<1>1. \A o \in st.orphans : ValidShare(o.share)
  BY DEF StoreOK, PromotableOK, Known, Waiting
<1> QED
  BY <1>1, AcceptedNotWaiting DEF StoreOK, PromotableOK, LoadSharesOK
-----------------------------------------------------------------------------
(* Equal inventories select equal histories *)

\* A set of numbers that is not empty has a least element; used to pick the
\* first share of a history that another store would not have accepted.
LEMMA LeastNatural ==
  ASSUME NEW N \in SUBSET Nat, N # {}
  PROVE  \E n \in N : \A m \in N : n <= m
<1>1. PICK n \in N : \A m \in N : <<m, n>> \notin OpToRel(<, Nat)
  BY NatLessThanWellFounded, WFMin, Zenon
<1>2. \A m \in N : ~(m < n)
  <2> SUFFICES ASSUME NEW m \in N, m < n PROVE FALSE
    OBVIOUS
  <2>1. <<m, n>> \in {p \in Nat \X Nat : p[1] < p[2]}
    OBVIOUS
  <2>2. <<m, n>> \in OpToRel(<, Nat)
    BY <2>1, Zenon DEF OpToRel
  <2> QED
    BY <1>1, <2>2, Zenon
<1> QED
  BY <1>2

\* A share that one store accepted is accepted by every store that knows the
\* same shares: the first one that is not would have its parent accepted and
\* be left behind.
LEMMA SameKnownSubset ==
  ASSUME NEW a, NEW b, StoreOK(a), StoreOK(b), Known(a) = Known(b)
  PROVE  a.accepted \subseteq b.accepted
<1> DEFINE D == a.accepted \ b.accepted
           N == {s.sequence : s \in D}
<1> SUFFICES ASSUME D # {} PROVE FALSE
  OBVIOUS
<1>1. a.accepted \subseteq Shares
  BY DEF StoreOK, PromotableOK, StoreType
<1>2. \A s \in a.accepted : s.sequence \in Nat
  BY <1>1, ShareAssumption DEF ShareType
<1>3. PICK s \in D : \A t \in D : s.sequence <= t.sequence
  <2>1. N \in SUBSET Nat /\ N # {}
    BY <1>2
  <2>2. PICK n \in N : \A m \in N : n <= m
    BY <2>1, LeastNatural
  <2> QED
    BY <2>2
<1>4. ValidGraph(a.accepted)
  BY DEF StoreOK, PromotableOK, GraphOrEmpty
<1>5. PICK o \in b.orphans : o.share = s
  BY DEF Known, Waiting
<1>6. ~ParentKnown(b.accepted, s)
  BY <1>5 DEF StoreOK
<1>7. PICK p \in a.accepted : Extends(p, s)
  BY <1>4, <1>6 DEF ValidGraph, Linked, ParentKnown
<1>8. p \in b.accepted
  BY <1>2, <1>3, <1>7 DEF Extends
<1> QED
  BY <1>6, <1>7, <1>8 DEF ParentKnown, Extends

\* Two stores that know the same shares have accepted the same history, in
\* whatever order and through whatever orphan pool the shares came: why
\* sync_peer may compare identifiers and report one selected state.
THEOREM SameKnownSameAccepted ==
  ASSUME NEW a, NEW b, StoreOK(a), StoreOK(b), Known(a) = Known(b)
  PROVE  a.accepted = b.accepted
  BY SameKnownSubset
=============================================================================
