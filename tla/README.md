# Verification of the Soveroot share labnet

TLA+ models of Soveroot's own protocol code under `contrib/mining_autonomy/`:
the part of the repository that is not inherited from Bitcoin Core. TLC checks
the models on small instances; TLAPS proves the safety of the share store, of
share synchronization, of share accounting, of the miner and of job declaration
for every value of the constants. `PROJECT.json` maps every definition to the
lines it models and lists runs, mutants, hazards and findings.

## 1. The system

A *share* is a proof of work below the share target. Nodes exchange shares so
that each computes, from the same shares, the same payout claims. A second,
older path does the same with *receipts* in replicated ledgers, from which a
miner builds the coinbase of its own template.

| Part | Code | State | Operations | Talks to |
|---|---|---|---|---|
| Sharechain profile v0 | `sharechain_v0.py`, `independent_sharechain_v0.py` | none | validate a share; evaluate a graph: work, tip, path, finalized prefix, claims | every node, which runs both and fails closed if they differ |
| Share store | `sharechain_sync_v0.py` | accepted shares, orphans with arrival ticks, tick; one state file | import a batch, promote and expire orphans, save, load | handler and sync client |
| Share synchronization v0 | `sharechain_sync_v0.py` | per-peer sequences, announcements, equivocation evidence, one lock | status, import, tick, sync, inventory, pull, push | other nodes, over authenticated messages |
| Admission controller | `sharechain_multihost_v1.py` | tick, token buckets, nonces, quarantines, session counts | admit a handshake or a message, close, quarantine, snapshot, restore | routed listener |
| Peer selection | `sharechain_multihost_v1.py` | none | choose peers within caps, reach a diversity floor | routed configuration |
| Routed sessions v1 | `sharechain_routed_v1.py` | sidecar file, connection slots, one thread per connection | hello, frames, error paths, restart; round trips to a peer | admission, share synchronization, routed peers |
| Share accounting | `share_accounting_coordinator.py`, `share_replica_client.py` | append-only ledger, claims file | post a share, reconcile, build claims and plans | miners, other replicas |
| Autonomous miner | `autonomous_labnet_miner.py` | view registry, quarantined coordinators | fetch plans, declare a job, solve, submit, fall back | coordinators, replicas, node RPC |
| Operator kit | `operator_kit_v1.py` | files written once | initialise, assemble, verify evidence | the routed configuration |
| Stratum V2 job declaration | `sv2-reference`, `sv2-independent-miner`, `sv2_job_declaration_vectors.py` | one declared job, session and job counters; a task per connection | allocate a token, declare a job, register it as a custom job | miners, one coordinator |

What makes this code hard: locks held across network calls, requests handled
after their client gave up, state files that lag memory, shares that arrive
before their parents, clocks read before a lock is taken and clocks that differ,
one slot that several miners write, two files that must agree, and answers collected one after the other from processes that change.
Each such place is a hazard in `PROJECT.json`, at its line, with the properties
that would catch it going wrong.

## 2. Modules

| Module | Models | State and actions |
|---|---|---|
| `ShareGraph` | reference validator | operators over sets of shares: `ValidShare`, `ValidGraph`, `EvaluateGraph` |
| `ListValidator` | independent validator | the shares as a list, inserted anywhere; `CheckShare`, `Accepts` and `SelectState` follow `check_share` and `select_state` |
| `StoreOps` | the operations of a store | `Aged`, `ImportOne`, `PromoteOrphans`, `LoadSharesOK` (what the loader requires of the shares) |
| `ShareStore` | one node's store and its file | `BeginImport`, `ImportNext` (one share of a batch), `EndImport`, `Age`, `Save`, `Restart` |
| `PromotionLoop` | `_promote_orphans` pass by pass | compared with the fixed point `StoreOps` uses |
| `ShareSync` | nodes, network, locks, `sync_peer` | one action per locked section of handler and client; `LoadTablesOK` is what the loader requires of sequences, announcements and evidence; `Lose`, duplicates, `TimeOut`, `Restart`, `Misannounce` |
| `AdmissionOps`, `Admission` | `AdmissionController` | one action per method; `RateLimiter` is the abstract specification |
| `RoutedSessions` | `handle_peer_session` in threads | one action per locked section or blocking call; `Hold` and `Deliver` are a hello that comes late or more than once |
| `RoutedLink` | `_peer_round_trip` against the listener of another host | a control connection that waits for the node lock with a slot in its hand (`Connect`), its call, the thread that serves it, two clocks |
| `PeerDiversity` | `select_diverse_peers`, `validate_manifest_set`, `load_config`'s peer table | operators over a table of manifests |
| `PayoutPlan` | `build_claims`, `build_payout_plan`, `validate_payout_plan` | operators: the plan document with its totals and outputs (`PlanOf`), and the miner's checks of it with a minimum of its own (`MinerAccepts`, `MinerMinimum`) |
| `Accounting` | replicas, ledger and claims files, settlement | one action per request step; `CutAppend` is a stop or a failed write anywhere in a line, `ClaimsFail` a claims file that cannot be written |
| `Miner` | `mine_one_block`, selector, view registry | one action per call |
| `JobDeclaration` | the coordinator's tasks and both declaration clients | one action per message of `handle_server_connection`, `handle_jd`, `handle_mining`, `run_client`; `Restart`, `FallBack` |
| `ShareSyncStore` | the store inside a node of `ShareSync` | the mapping to `ShareStore`, for one watched node |
| `StoreOpsProofs` | theorems on the operations of a store | |
| `ShareStoreProofs` | theorems on `ShareStore` | |
| `ShareSyncLemmas`, `ShareSyncSteps`, `ShareSyncProofs` | theorems on `ShareSync`: the invariant and what a step of one node keeps; the steps, one lemma each; the theorems | |
| `AccountingProofs`, `MinerProofs`, `JobDeclarationProofs` | theorems on `Accounting`, `Miner`, `JobDeclaration` | |
| `ShareUniverse`, `MC*` | instances | |

Composition: `ShareStore`, `ShareSync` share `StoreOps`; `Admission` and
`RoutedSessions` share `AdmissionOps`; `Accounting` extends `PayoutPlan`. Two
refinements are checked: the store inside a networked node implements
`ShareStore` (`NodeRefinesStore`), and the admission controller, with its late
refills and dropped buckets, implements the plain limiter `RateLimiter`
(`ImplementsLimiter`).

Abstractions. Hashes are identifiers, a signature is the sender's name, a
header's proof is its hash value, a state commitment is the selected path it
determines. Lists whose order the code never uses are sets. Header search finds
a nonce or does not. The node (`submitblock`, `getbestblockhash`) and the clock
are external.

In `ShareSync` a node's lock is its `task`: while `sync_peer` waits for its peer
the node handles nothing else, as in the code, where the control handler calls
`sync_peer` inside `with self.lock`. `disk` changes exactly where the code calls
`_save`; a control message is saved with its sequence before the clock advances.
Nodes sync with peers that run this code; the faulty member sends requests and is
never the responder of a sync, so an answer never carries a conflict and a client
never meets the evidence limit. Evidence is told apart by the message it came in.

A restart in `ShareSync` passes the loader's checks of shares, sequences,
announcements and evidence. Announcements in the model have natural slots and come
from pinned peers. The code is less strict where it observes them than where it
loads them: a slot may be any JSON integer, booleans included, and an announcement
in a control message is recorded under the control identity, while the loader
wants decimal slots and pinned peers. Such messages are outside the model, and what
is said of files that load does not extend to them.

`ListValidator` and `ShareGraph` have the checks of a single share each in their own
words, from the two programs, over one abstract share: what both leave out (byte
formats, hexadecimal text, hashes of bodies) is not compared.

A plan in `PayoutPlan` is the document the coordinator sends. Lists that both
programs sort are sequences, commitments are what they commit to, so a plan's own
commitment always matches. The two minimums, `MIN_DIRECT_PAYOUT` and the literal 546
of the miner, are two constants.

`Accounting` starts a request when its body has been read: the read itself has no
timeout in the code, and a client that never finishes sending holds a replica.

`RoutedLink` looks at one round trip from both ends where `RoutedSessions` looks
at one listener in depth. Its server admits or refuses without the controller,
whose limits only make calls fail, and reads the last accepted sequence in the step
that answers the hello; the code reads it just after. A connection that its caller gave up is
kept until the thread behind it ends. The call is made on behalf of a control
connection, as in the code, so it occupies a slot of its own host too.

In `JobDeclaration` a signed token is the position of its declaration in the
history `declared`; the code draws 32 random bytes. The two clients send the same
messages in the same order, so one client stands for both. A restarted
coordinator has forgotten its job and its counters; its clients learn of it by a
closed connection or not at all.

`Miner` shares one view registry between miners, as
`docs/noncustodial-payout-failover-labnet.md` describes and
`test/mining_autonomy/test_autonomous_labnet_miner.py` does. `main` builds one
selector per process, so there the registry protects one miner over time.

## 3. Runs

| Run | Question | Instance |
|---|---|---|
| `store` | Does any order of batches, ageing, saves and crashes break the store or its file? | 7 shares (a chain across a block, a fork, a stale share, a reassigned proof), batches of up to 2, 2 orphans, 5 known shares, ticks to 4 |
| `algorithms` | Do the two validators agree on every list and claims cover the window; does a manifest set that is accepted load everywhere; is the division exact, fair and monotone, and does the plan document pass the miner's own checks? | lists of up to 5 of 15 shares with every kind of defect; every table of 4 manifests over 4 prefixes, 4 operators and 3 transports; every set of 9 receipts of 4 scripts, one not eligible, value to 16 |
| `sync` | Do nodes keep evidence, replay protection and convergence sound, and is a conflicting announcement on disk before it is answered? | 2 honest nodes and 1 faulty member, 4 shares with two roots, 3 operations, 1 captured message, 1 restart |
| `sync_live` | Does everyone get the lock back, and is the store inside a node `ShareStore`? | 2 nodes, 2 shares |
| `sync_paged` | (violated) Does reported convergence mean equal identifier sets? | pages of 2, 4 shares |
| `admission` | Is a used nonce or a quarantined peer ever admitted, does the snapshot restore, and is it the plain limiter? | 3 identities behind 2 prefixes, 4 nonces, ticks to 2 |
| `routed` | Do concurrent sessions answer a hello once, keep the rate and leak nothing? | 2 threads that may serve one peer, 4 hellos over two ticks against a bucket of 2 that refills by 1, one hello held back and repeated, a clock that moves both ways |
| `link` | Do hosts that call each other get their slots and locks back, are requests handled once and in order, and what do differing clocks cost? | 2 hosts, 2 slots each, 3 calls, clocks that agree or differ by one tick, hello lifetime 1, session lifetime 2 |
| `accounting` | Do ledgers and claims survive stops and failed writes, and do replicas answer? | 2 replicas, 4 receipts, 4 requests, 1 fault |
| `accounting_heights` | (violated) Is a proof counted for one owner? | one header with two heights |
| `miner` | Are accepted views consistent, publications real, and can coordinators halt a miner? | 2 miners, 2 coordinators, 2 views, 3 blocks |
| `declaration` | Whose job is accepted, why is one refused, and when do views differ? | 2 miners, 3 calls, every mode of the coordinator, 1 restart |

Why the bounds are enough for the cases in question. Every limit of the code
(orphans, known shares, slots, evidence, buckets, nonces, sessions) is a
constant small enough to be reached. Orphan chains are two long, so
promotion needs two passes. Ticks run past every lifetime. Two requests or
threads are what each race in the hazard list needs; a third party appears
where two are not enough (the faulty member of `sync`). `PayoutWindow` and `FinalityDepth` are
met from both sides in `algorithms`. In `declaration` the third call is what lets a
miner declare again while its first task still runs; in `link` it lets an abandoned
frame meet a newer one. In `routed` four hellos are two for each of two ticks: a
bucket that refills too much over an interval needs the fourth. `MaxHeld`, `MaxRestarts`, `MaxFaults`, `MaxOps`, `MaxCalls`, `MaxCopies`, `MaxLog`, `MaxHellos`, `MaxRequests`, `MaxHeight`, `MaxTick` and `StartTicks` (the ticks at which an operation on a store may start)
bound behaviours only. The Python limits themselves (4096 shares, 512 per page
and so on) are far beyond a model checker; the theorems below hold for them.

Symmetry is used for nodes, threads and nonces, which the modules only compare,
and in no run with a liveness property. The labels of manifests are interchangeable
too; `algorithms` tries the tables that use them in order.

Deadlock checking is off where behaviours end at a bound, or where the system
may stop (a miner that failed).

Fairness. `ShareSync`: weak fairness of a node's own steps, because the thread
that holds the lock runs and every socket has a timeout. Messages and restarts
have none. `Accounting`: weak fairness of a running replica's current request; a
fetch has a two-second timeout. `Miner`: weak fairness of each miner's steps;
calls time out. `RoutedLink`: weak fairness of a call's failure, because its socket
has a timeout, of a control connection that finds the node lock free, and of a connection that is queued, waits for a free lock or has a
thread; nothing of what the other host sends. A call may therefore always fail,
and `AllReleased` does not rest on any that succeeds.

## 4. Proofs

Every theorem holds for all values of the constants that satisfy the `ASSUME`s of
its modules: any number of shares, nodes, faulty members, replicas, miners,
operations, messages, faults and restarts. The assumptions say no more than the
code: constants have their types; share identifiers are unique and
`MaxKnown <= MaxShares`, both 4096 in the code; limits the code indexes with are
positive; a settlement asks two replicas or more; the modes of the coordinator
are those of its `enum`. Each component has one inductive invariant `IInv`, shown
to hold initially (`Init...`) and to survive every action (`Next...`, one step per
action); the listed properties follow from it.

**Share store** (`StoreOpsProofs`, `ShareStoreProofs`): `StoreTypes`,
`StoreGraphValid`, `StoreWorkOnce`, `StoreNoneLeftBehind`, `StoreSharesLoad`, five
invariants of run `store`. The last says that the shares, orphans and ticks of the
state file pass the loader's checks of them; the tables of a networked node are
`SyncFilesLoad`'s. `AcceptedGraphValid` alone is lost at the
first promotion: an orphan root, or an orphan repeating a proof, would make the
graph invalid. `IInv` therefore says `StoreOK` of memory and of the file: orphans
are never roots, accepted and waiting shares together repeat no proof and stay
within `MaxKnown`, every known share is valid, arrival ticks are not in the
future, and no orphan has an accepted parent. Between the acceptance of a share
and the promotion after it only `PromotableOK`, without the last part, holds;
`PromoteOrphansOK` restores it. The argument about promotion is that the least
closed set is closed (`PromotedClosed`) and supported (`PromotedSupported`), so a
graph stays linked when it is added (`PromotedGraphValid`).

`SameKnownSameAccepted`: two stores that know the same shares have accepted the
same ones. It takes the share of least sequence number accepted on one
side only: its parent is accepted on both, so on the other side it would be an
orphan left behind. It is why `sync_peer` may compare identifiers of accepted and
waiting shares and report one state.

**Share synchronization** (`ShareSyncLemmas`, `ShareSyncSteps`,
`ShareSyncProofs`): `SyncTypes`, `SyncEvidence`, `SyncNeverReplay`,
`SyncConflictDurable`, `SyncConvergedState`, all safety properties of run `sync`; and
`SyncFilesLoad`: shares, sequences, announcements and evidence of every state file
pass the loader, so the guards of `Restart` never hold a node back.
Five parts make the invariant.

- `TypesOK`: types, limits, and `StoreOK` of the store in memory and in the file of
  every node.
- `CountersOK`, for `LiveNeverReplay`: sequence numbers are saved before they are
  used, no message carries a number beyond its sender's counter, no two messages
  on the network are of one sender, receiver and number, and a client waits for its
  latest number only. So raising the counter of one peer passes nothing that is awaited.
- `NotesOK`, for `EvidenceOnlyAgainstFaulty`: the tick of every announcement that is
  anywhere (in a message, a task, a table in memory or on disk) has reached the
  state file of its sender, and a store at that tick, in memory or in the file,
  still has the history that was announced. This is what a restart could break: a
  node that announced a tick it had not saved would come back, reach the tick again
  with other shares and be accused by its peers.
- `RecordedOK`, for `AnsweredConflictIsDurable`: the conflicts of a request are on
  record while it is being answered.
- `FinalOK`, for `ConvergedSameState`: a request that is still awaited is the one its
  sender made in its current phase, and an answer to the last inventory that ends
  on its first page lists the whole store of its sender, with the commitment of that
  store. With `SameKnownSameAccepted` equal identifiers then mean equal histories.

The property and the theorem speak of an inventory of one page; on more pages the
claim is false (section 5).

**Share accounting** (`AccountingProofs`): `LedgerWorkOnce`,
`LedgerKeepsAccepted`, `ClaimsFollowLedger`, `SettlementSound` and the action
property `LedgerLosesNothing`. A write can spoil one line of a ledger: the one that
was left without its newline. The invariant says that such a line was never
answered for, that a share on its way to its answer is on a complete line, and that
a spoilt file stays unreadable. A plan that the miner holds was a readable ledger
of the replica that gave it, and ledgers that can be read only grow: so equal plans
are recorded everywhere although the replicas were asked one after the other.

**Miner** (`MinerProofs`): `MinerQuarantine` and `MinerPublished`. What the registry
holds was said, and every acceptance agrees with it; the block of a miner whose
submission succeeded stays where it was put.

**Job declaration** (`JobDeclarationProofs`): `DeclarationOwnJob`,
`DeclarationRejection`, `DeclarationViews`. The invariant follows a token from the
declaration to the custom job: an open connection is the one its client uses
(`EndsOK`), a token stays with the call that declared it and is registered once
(`TokensOK`), the one job of the coordinator is the latest declaration since its
restart and is unused only if nobody registered it (`LedgerOK`), a refusal on its
way names a token that was replaced or forgotten (`RepliesOK`), and job numbers
count registrations when the coordinator equivocates (`NumbersOK`).

What is only model-checked, and why:

- all liveness: `LockReleased`, `AllReleased` and the others rest on fairness and
  `ENABLED`, which the prover does not have;
- the refinements `NodeRefinesStore` and `ImplementsLimiter`. An instance of a whole
  module multiplies the context of every proof step; that the operations of a node
  keep `StoreOK` is proved inside `SyncInvariant`;
- what recursive definitions compute: `SelectionNeverWorsens` (cumulative work),
  `ValidatorsAgree`, `LoopReachesFixedPoint` (that the fixed point of `StoreOps` is
  what the promotion loop reaches), `ClaimsCoverWindow`, `ExactDivision`,
  `MinerAgrees`, `AssembledSetLoads`. They need induction over data;
- `RestoreNeverRefused`, a sum over all buckets of a snapshot, for the same reason;
- the remaining properties of `Admission`, `RoutedSessions` and `RoutedLink`.

## 5. Findings

1. **Paged inventory** (`sync_paged`). `docs/sharechain-sync-v0.md:77`: "It rereads
   the bounded inventory and fails unless both identifier sets agree". A share
   imported at the peer between two pages of the final inventory, sorting before
   the cursor, shifts the list; the client skips an identifier and reports
   convergence. It needs an inventory of more than one page. On one page the
   claim holds in the stronger form `ConvergedSameState`.
2. **Height in the work identity** (`accounting_heights`).
   `docs/replicated-share-settlement-labnet.md:49`: "The same proof cannot be
   counted under a new owner." The identity includes a reported height that is
   not bound to the header.

Two further places where a message says more than the code knows, met while
modelling and stated as hazards rather than runs: `select_diverse_peers` is
greedy, so "candidate set cannot satisfy the frozen diversity floor" can be
raised for a list that has a diverse choice (four operators with three peers each
are decided alike in every order, `AssembledSetLoads`); and "node accepted no error but
did not adopt the submitted block" is also said of a block that was adopted and
built upon before `getbestblockhash`.

What the runs show beside that, for a reader of the code. The coordinator of
`JobDeclaration` has room for one declared job, so of two miners that declare at
the same time the first is refused its custom job and mines directly; it is never
given the other's. Clocks of routed hosts that differ by *d* ticks make every call
that succeeds take at least *2d* ticks (`SkewNeedsTime`), because no tolerance is
allowed in either direction.

## 6. Not modelled

- Hello, session, Noise and AEAD cryptography; byte formats and size limits of
  messages; the Stratum V2 codecs and fixed vectors.
- `MAX_SYNC_OPERATIONS`: two inventories of at most 8 pages, 64 pulls and 64 pushes
  are 144 operations, the ceiling itself, so it is never exceeded.
- `catchup_plan`, rejection and transcript counters, which no decision reads; the
  loaders' limit of 64 rejection reasons, more than the code has names for in the
  admission controller, and the range of 63 bits of sequences.
- Repair of a torn ledger, which is an operator's work.
- Reorganisations of the node's chain: the miner reads the tip after it submitted
  and does not watch its block afterwards.
- Operator kit: key, manifest and configuration files are written once by a
  sequential program, and evidence is checked field by field. A configuration
  whose controller has the listener's own address is written and then refused;
  the address is a command-line argument and not part of the manifest set.
- Labs, evidence builders, research code and the labnet kit: drivers, reports,
  numerical experiments and packaging.
- The full node inherited from Bitcoin Core, apart from the calls the miner makes,
  and its Qt translation catalogues (`src/qt/locale/*.ts`), which are data: they
  have no state and no operation to model.

## 7. Plan

Done: profile, store, synchronization, admission, routed listener and client,
manifest sets, payout, accounting, miner, job declaration; proofs for store,
synchronization, accounting, miner and job declaration.

Next, proofs: `BarredNotAdmitted`, `AppliedInOrder` and `LiveSessionsCounted`;
`NodeRefinesStore`, from the lemmas of `ShareSyncSteps`.

Next, models, if wanted: `RoutedLink` with the admission controller of
`RoutedSessions` in place of a choice; reorganisations under `Miner`.
