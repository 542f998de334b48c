---------------------------- MODULE MCShareSync -----------------------------
(***************************************************************************)
(* Instances of ShareSync: histories that grow on two sides, an orphan     *)
(* whose parent is elsewhere, and two roots that can never be reconciled.  *)
(***************************************************************************)
EXTENDS ShareSyncStore, ShareUniverse, TLC

CONSTANTS a, b, f

Symmetry == Permutations({a, b})

MCShares == {Root, One, Fork, OtherRoot}
MCImports == {<<Root>>, <<One>>, <<Root, Fork>>, <<OtherRoot>>}

FewShares == {Root, One}
FewImports == {<<Root>>, <<One>>}

\* One sorts before Fork, so that it shifts a page that was already read.
PagedShares == {Root, Fork, ForkTwo, One}
PagedImports == {<<Root, Fork, ForkTwo>>, <<One>>}

\* A faulty member repeats a slot with different histories.
NoHistory == [slot |-> 2, state |-> <<>>]
RootHistory == [slot |-> 2, state |-> <<5>>]
LateHistory == [slot |-> 3, state |-> <<5>>]
Notes == {NoHistory, RootHistory, LateHistory}
=============================================================================
