----------------------------- MODULE ShareStore -----------------------------
(***************************************************************************)
(* The share store of one node as a state machine, and what it promises to *)
(* the rest of the node.                                                   *)
(*                                                                         *)
(* An import holds the node's lock, ages the store and works through its   *)
(* batch one share at a time; only its last step writes the state file, so *)
(* a crash can fall between any two shares of a batch.                     *)
(***************************************************************************)
EXTENDS StoreOps

CONSTANTS
  Batches,     \* the share lists that are submitted to the node
  StartTicks   \* bound: an operation that ages the store starts at one of these

ASSUME BoundAssumption ==
  /\ Batches \subseteq Seq(Shares)
  /\ StartTicks \subseteq Nat

VARIABLES
  store,   \* self.state of the running node
  saved,   \* the state file
  todo,    \* shares of the current batch still to import
  busy     \* an import holds the lock

vars == <<store, saved, todo, busy>>

Init ==
  /\ store = EmptyStore
  /\ saved = EmptyStore
  /\ todo = <<>>
  /\ busy = FALSE

\* a controller's request is authenticated, which saves, before it is handled
SaveFirst == saved' \in {saved, store}

\* import_shares; a request that carries the batch ages the store once more
BeginImport(ticks, batch) ==
  /\ ~busy
  /\ store.tick \in StartTicks
  /\ Len(batch) <= MaxBatch
  /\ SaveFirst
  /\ store' = Aged(store, ticks)
  /\ todo' = batch
  /\ busy' = TRUE

ImportNext ==
  /\ busy
  /\ todo # <<>>
  /\ store' = ImportOne(store, Head(todo))
  /\ todo' = Tail(todo)
  /\ UNCHANGED <<saved, busy>>

EndImport ==
  /\ busy
  /\ todo = <<>>
  /\ store' = PromoteOrphans(store)
  /\ saved' = store'
  /\ busy' = FALSE
  /\ UNCHANGED todo

\* a request that only ages the store (status, tick, inventory, pull, sync)
Age(ticks) ==
  /\ ~busy
  /\ store.tick \in StartTicks
  /\ SaveFirst
  /\ store' = Aged(store, ticks)
  /\ UNCHANGED <<todo, busy>>

Save ==
  /\ ~busy
  /\ saved' = store
  /\ UNCHANGED <<store, todo, busy>>

\* _load_state, as far as it is about the shares; ShareSync has the tables of
\* the network half
Restart ==
  /\ LoadSharesOK(saved)
  /\ store' = saved
  /\ todo' = <<>>
  /\ busy' = FALSE
  /\ UNCHANGED saved

Next ==
  \/ \E ticks \in 1 .. 2, batch \in Batches : BeginImport(ticks, batch)
  \/ ImportNext
  \/ EndImport
  \/ \E ticks \in 1 .. MaxOrphanAge + 2 : Age(ticks)
  \/ Save
  \/ Restart

Spec == Init /\ [][Next]_vars
-----------------------------------------------------------------------------
(* Properties *)

\* Memory and file hold stores, and a batch is a list of shares, whatever the
\* order of imports, saves and restarts (_empty_state, _load_state).
TypeOK ==
  /\ store \in StoreType
  /\ saved \in StoreType
  /\ todo \in Seq(Shares)
  /\ busy \in BOOLEAN

\* However shares arrive, and wherever an import is cut by a crash, the
\* accepted shares of the running node are a history both validators accept
\* (the gate of _validate_graph_pair, kept through orphan promotion).
AcceptedGraphValid == GraphOrEmpty(store.accepted)

\* No proof is held twice, under two payouts or two parents, among accepted
\* and waiting shares together (_work_ids).
WorkHeldOnce == DistinctWork(Known(store))

\* No orphan is left behind once its parent is accepted: promotion reaches
\* the end of every chain of orphans (_promote_orphans), even in mid-batch.
NoOrphanLeftBehind ==
  \A o \in store.orphans : ~ParentKnown(store.accepted, o.share)

\* Whatever step a crash follows, the shares in the state file pass the checks
\* that _load_state makes of shares: the graph of the accepted ones, the limits,
\* the arrival ticks and the uniqueness of shares and proofs.
SavedSharesLoad == LoadSharesOK(saved)

\* The history the state file selects never gets worse: more work, or the
\* same work with a lower tip id, or the same tip.  A restart, an expiring
\* orphan or a losing fork never moves the selection back.
SelectionNeverWorsens ==
  [][ saved.accepted # {} =>
        LET old == EvaluateGraph(saved.accepted)
            new == EvaluateGraph(saved'.accepted)
        IN  \/ new.work > old.work
            \/ new.work = old.work /\ new.tip <= old.tip ]_saved
=============================================================================
