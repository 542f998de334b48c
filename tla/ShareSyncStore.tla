--------------------------- MODULE ShareSyncStore ---------------------------
(***************************************************************************)
(* The store inside a node of ShareSync is the store of module ShareStore. *)
(* An import that has begun is a batch the store is working through; every *)
(* place where the node writes its state file is a save.                   *)
(***************************************************************************)
EXTENDS ShareSync

NodeStore == INSTANCE ShareStore
  WITH store <- mem[Watched].store, saved <- disk[Watched].store,
       todo <- IF task[Watched].job = "import" THEN task[Watched].todo ELSE <<>>,
       busy <- (task[Watched].job = "import"),
       Batches <- UNION {[1 .. k -> Shares] : k \in 0 .. MaxBatch}, StartTicks <- Nat

\* The store of a node behaves like module ShareStore: the network half of
\* the node never changes it but by its operations, under its lock.
NodeRefinesStore == NodeStore!Spec
=============================================================================
