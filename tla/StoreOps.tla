----------------------------- MODULE StoreOps -------------------------------
(***************************************************************************)
(* What the share store of a node (class ShareSyncNode of                  *)
(* sharechain_sync_v0.py, without its network half) holds and how one      *)
(* operation changes it: ageing, importing one share, promoting orphans,   *)
(* and the check a restarting node makes of the shares in its state file.  *)
(*                                                                         *)
(* The lists of the code are sets here: nothing depends on their order.    *)
(***************************************************************************)
EXTENDS ShareGraph

CONSTANTS
  MaxOrphans,     \* MAX_ORPHANS
  MaxOrphanAge,   \* MAX_ORPHAN_AGE_TICKS
  MaxKnown,       \* MAX_KNOWN_SHARES
  MaxBatch        \* MAX_SHARES_PER_MESSAGE

ASSUME LimitAssumption ==
  /\ MaxOrphans \in Nat
  /\ MaxOrphanAge \in Nat
  /\ MaxKnown \in Nat /\ MaxKnown <= MaxShares
  /\ MaxBatch \in Nat \ {0}

OrphanType == [share : Shares, arrival : Nat]

StoreType == [tick : Nat, accepted : SUBSET Shares, orphans : SUBSET OrphanType]

EmptyStore == [tick |-> 0, accepted |-> {}, orphans |-> {}]

Waiting(st) == {o.share : o \in st.orphans}

Known(st) == st.accepted \cup Waiting(st)

\* the order of _all_records and of a promotion pass
Before(s, t) ==
  s.sequence < t.sequence \/ (s.sequence = t.sequence /\ s.id < t.id)
-----------------------------------------------------------------------------
(* Ageing *)

PruneOrphans(st) ==
  [st EXCEPT !.orphans = {o \in @ : o.arrival >= st.tick - MaxOrphanAge}]

Aged(st, ticks) == PruneOrphans([st EXCEPT !.tick = @ + ticks])
-----------------------------------------------------------------------------
(* Promotion.  The code repeats passes over the orphans until one changes  *)
(* nothing; the result is the least set that holds every orphan extending  *)
(* an accepted or a promoted share.  What is left with an accepted parent  *)
(* failed validation and is dropped with the promoted ones.                *)

ParentKnown(acc, s) == IsRoot(s) \/ \E p \in acc : IsParent(p, s)

ClosedUnderPromotion(acc, pool, P) ==
  \A s \in pool : (\E p \in acc \cup P : Extends(p, s)) => s \in P

\* Mutant: an orphan is promoted without validation once its parent is there.
PromotedUnchecked(acc, pool) == {s \in pool : ParentKnown(acc, s)}

Promoted(acc, pool) ==
  {s \in pool : \A P \in SUBSET pool : ClosedUnderPromotion(acc, pool, P) => s \in P}

\* Mutant: one pass, without the loop around it.
PromoteOnce(st) ==
  LET ready == {o \in st.orphans : ParentKnown(st.accepted, o.share)}
  IN  [st EXCEPT !.accepted = @ \cup {o.share : o \in {r \in ready :
                                  \E p \in st.accepted : Extends(p, r.share)}},
                 !.orphans = @ \ ready]

PromoteOrphans(st) ==
  LET acc == st.accepted \cup Promoted(st.accepted, Waiting(st))
  IN  [st EXCEPT !.accepted = acc,
                 !.orphans = {o \in @ : ~ParentKnown(acc, o.share)}]
-----------------------------------------------------------------------------
(* Importing one share *)

\* Mutant: only the share id is compared with the known shares.
FreshById(st, s) ==
  /\ ValidShare(s)
  /\ s \notin Known(st)
  /\ Cardinality(Known(st)) < MaxKnown

Fresh(st, s) ==
  /\ ValidShare(s)
  /\ \A k \in Known(st) : WorkId(k) # WorkId(s)
  /\ Cardinality(Known(st)) < MaxKnown

\* Mutant: the orphan pool takes one more than its limit.
BecomesOrphanOneMore(st, s) ==
  /\ Fresh(st, s)
  /\ ~ParentKnown(st.accepted, s)
  /\ Cardinality(st.orphans) <= MaxOrphans

BecomesOrphan(st, s) ==
  /\ Fresh(st, s)
  /\ ~ParentKnown(st.accepted, s)
  /\ Cardinality(st.orphans) < MaxOrphans

BecomesAccepted(st, s) ==
  /\ Fresh(st, s)
  /\ ParentKnown(st.accepted, s)
  /\ ValidGraph(st.accepted \cup {s})

\* Mutant: an orphan is filed under the oldest tick that is still kept.
ImportOneBackdated(st, s) ==
  IF BecomesAccepted(st, s)
  THEN PromoteOrphans([st EXCEPT !.accepted = @ \cup {s}])
  ELSE IF BecomesOrphan(st, s)
  THEN [st EXCEPT !.orphans = @ \cup {[share |-> s, arrival |-> st.tick - MaxOrphanAge]}]
  ELSE st

\* A duplicate and a refused share leave the store as it is.
ImportOne(st, s) ==
  IF BecomesAccepted(st, s)
  THEN PromoteOrphans([st EXCEPT !.accepted = @ \cup {s}])
  ELSE IF BecomesOrphan(st, s)
  THEN [st EXCEPT !.orphans = @ \cup {[share |-> s, arrival |-> st.tick]}]
  ELSE st
-----------------------------------------------------------------------------
(* What a restarting node requires of the shares in its state file *)

GraphOrEmpty(S) == S = {} \/ ValidGraph(S)

LoadSharesOK(st) ==
  /\ GraphOrEmpty(st.accepted)
  /\ Cardinality(st.orphans) <= MaxOrphans
  /\ \A o \in st.orphans : ValidShare(o.share) /\ o.arrival <= st.tick
  /\ st.accepted \cap Waiting(st) = {}
  /\ \A o, q \in st.orphans : o.share = q.share => o = q
  /\ Cardinality(Known(st)) <= MaxKnown
  /\ DistinctWork(Known(st))
=============================================================================
