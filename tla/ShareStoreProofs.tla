-------------------------- MODULE ShareStoreProofs --------------------------
(***************************************************************************)
(* What module ShareStore promises, proved for every set of shares, every  *)
(* round table and every limit.  The invariant StoreOK of StoreOpsProofs   *)
(* holds of the store in memory and of the one in the file.                *)
(***************************************************************************)
EXTENDS ShareStore, StoreOpsProofs

IInv ==
  /\ StoreOK(store)
  /\ StoreOK(saved)
  /\ todo \in Seq(Shares)
  /\ busy \in BOOLEAN
-----------------------------------------------------------------------------
(* The invariant and what follows from it *)

\* A node starts with the invariant in memory and in its file (__init__).
LEMMA InitIInv == Init => IInv
<1> SUFFICES ASSUME Init PROVE IInv
  OBVIOUS
<1>1. StoreOK(store) /\ StoreOK(saved)
  BY EmptyStoreOK DEF Init
<1>2. todo \in Seq(Shares)
  BY DEF Init
<1>3. busy \in BOOLEAN
  BY DEF Init
<1> QED
  BY <1>1, <1>2, <1>3 DEF IInv

\* Every step of the store keeps the invariant.
LEMMA NextIInv == IInv /\ [Next]_vars => IInv'
<1> SUFFICES ASSUME IInv, [Next]_vars PROVE IInv'
  OBVIOUS
<1> USE DEF IInv
<1>1. ASSUME NEW ticks \in 1 .. 2, NEW batch \in Batches, BeginImport(ticks, batch)
      PROVE  IInv'
  <2>1. StoreOK(Aged(store, ticks))
    BY AgedOK
  <2> QED
    BY <1>1, <2>1, BoundAssumption DEF BeginImport, SaveFirst
<1>2. CASE ImportNext
  <2>1. Head(todo) \in Shares /\ Tail(todo) \in Seq(Shares)
    BY <1>2 DEF ImportNext
  <2>2. StoreOK(ImportOne(store, Head(todo)))
    BY <2>1, ImportOneOK
  <2> QED
    BY <1>2, <2>1, <2>2 DEF ImportNext
<1>3. CASE EndImport
  <2>1. StoreOK(PromoteOrphans(store))
    BY PromoteOrphansOK DEF StoreOK
  <2> QED
    BY <1>3, <2>1 DEF EndImport
<1>4. ASSUME NEW ticks \in 1 .. MaxOrphanAge + 2, Age(ticks)
      PROVE  IInv'
  <2>1. StoreOK(Aged(store, ticks))
    BY AgedOK, LimitAssumption
  <2> QED
    BY <1>4, <2>1 DEF Age, SaveFirst
<1>5. CASE Save
  BY <1>5 DEF Save
<1>6. CASE Restart
  <2>1. todo' \in Seq(Shares)
    BY <1>6 DEF Restart
  <2> QED
    BY <1>6, <2>1 DEF Restart
<1>7. CASE UNCHANGED vars
  BY <1>7 DEF vars
<1> QED
  BY <1>1, <1>2, <1>3, <1>4, <1>5, <1>6, <1>7 DEF Next

\* The inductive invariant holds in every reachable state: the store is
\* consistent between any two shares of a batch, and so is the file
\* (import_shares, _promote_orphans, _save, _load_state).
THEOREM StoreInvariant == Spec => []IInv
  BY InitIInv, NextIInv, PTL DEF Spec

\* The store keeps its types through imports, ageing, saves and restarts.
THEOREM StoreTypes == Spec => []TypeOK
<1>1. IInv => TypeOK
  BY DEF IInv, StoreOK, PromotableOK, TypeOK
<1> QED
  BY <1>1, StoreInvariant, PTL

\* The accepted shares are a valid history after every step, in mid-batch and
\* after a crash included (_validate_graph_pair, _promote_orphans).
THEOREM StoreGraphValid == Spec => []AcceptedGraphValid
<1>1. IInv => AcceptedGraphValid
  BY DEF IInv, StoreOK, PromotableOK, AcceptedGraphValid
<1> QED
  BY <1>1, StoreInvariant, PTL

\* No proof is ever held twice (_work_ids).
THEOREM StoreWorkOnce == Spec => []WorkHeldOnce
<1>1. IInv => WorkHeldOnce
  BY DEF IInv, StoreOK, PromotableOK, WorkHeldOnce
<1> QED
  BY <1>1, StoreInvariant, PTL

\* Promotion never stops short of an orphan whose parent is accepted.
THEOREM StoreNoneLeftBehind == Spec => []NoOrphanLeftBehind
<1>1. IInv => NoOrphanLeftBehind
  BY DEF IInv, StoreOK, NoOrphanLeftBehind
<1> QED
  BY <1>1, StoreInvariant, PTL

\* After a crash at any step the shares in the state file pass the checks
\* that _load_state makes of shares.
THEOREM StoreSharesLoad == Spec => []SavedSharesLoad
<1>1. IInv => SavedSharesLoad
  BY StoreLoads DEF IInv, SavedSharesLoad
<1> QED
  BY <1>1, StoreInvariant, PTL
=============================================================================
