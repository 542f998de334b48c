--------------------------- MODULE PeerDiversity ---------------------------
(***************************************************************************)
(* select_diverse_peers of sharechain_multihost_v1.py, one pass over the   *)
(* candidates in order of priority that keeps each one the caps allow, and *)
(* the two that rely on it: validate_manifest_set of operator_kit_v1.py,   *)
(* which decides whether signed manifests make an operator set, and        *)
(* load_config of sharechain_routed_v1.py, which a node starts with.       *)
(*                                                                         *)
(* `table' grows by any manifest; each state is one input.  A manifest's   *)
(* position stands for its node id, endpoint and key, which are distinct.  *)
(***************************************************************************)
EXTENDS Naturals, FiniteSets, SequencesExt

CONSTANTS
  Networks, Operators, Transports,   \* labels manifests carry
  MaxPerPrefix, MaxPerOperator, MaxPerTransport,
  MinPeers, MinPrefixes, MinOperators, MinTransports,
  MaxCandidates,                     \* MAX_PEER_CANDIDATES
  MaxPeers,                          \* MAX_PEERS
  OperatorCount,                     \* REQUIRED_OPERATOR_COUNT
  MaxTable                           \* bound on the manifests that are tried

ASSUME DiversityAssumption ==
  {MaxPerPrefix, MaxPerOperator, MaxPerTransport, MinPeers, MinPrefixes, MinOperators,
   MinTransports, MaxCandidates, MaxPeers, OperatorCount, MaxTable} \subseteq Nat

Manifests == [prefix : Networks, operator : Operators, transport : Transports]

VARIABLE table
-----------------------------------------------------------------------------
(* select_diverse_peers *)

Labels(list, field) == {list[i][field] : i \in DOMAIN list}
Sharing(list, field, value) == Cardinality({i \in DOMAIN list : list[i][field] = value})

Room(kept, c) ==
  /\ Sharing(kept, "prefix", c.prefix) < MaxPerPrefix
  /\ Sharing(kept, "operator", c.operator) < MaxPerOperator
  /\ Sharing(kept, "transport", c.transport) < MaxPerTransport

Selected(list) ==
  FoldLeft(LAMBDA kept, c : IF Room(kept, c) THEN Append(kept, c) ELSE kept, <<>>, list)

Diverse(list) ==
  LET kept == Selected(list)
  IN  /\ Len(list) <= MaxCandidates
      /\ Len(kept) >= MinPeers
      /\ Cardinality(Labels(kept, "prefix")) >= MinPrefixes
      /\ Cardinality(Labels(kept, "operator")) >= MinOperators
      /\ Cardinality(Labels(kept, "transport")) >= MinTransports
-----------------------------------------------------------------------------
(* The operator set and the configuration of each operator *)

\* Mutant: the table of the first operator stands for all.
ValidSetOfFirst(list) ==
  /\ Len(list) = OperatorCount
  /\ Cardinality(Labels(list, "operator")) = OperatorCount
  /\ Cardinality(Labels(list, "prefix")) = OperatorCount
  /\ Diverse(Tail(list))

\* validate_manifest_set
ValidSet(list) ==
  /\ Len(list) = OperatorCount
  /\ Cardinality(Labels(list, "operator")) = OperatorCount
  /\ Cardinality(Labels(list, "prefix")) = OperatorCount
  /\ \A i \in DOMAIN list : Diverse(RemoveAt(list, i))

\* load_config, what it requires of the local node and its pinned peers; that
\* the controller's address, an argument, is not the listener's is taken as given
Loads(local, peers) ==
  /\ Len(peers) \in 3 .. MaxPeers
  /\ Diverse(peers)
  /\ local.prefix \notin Labels(peers, "prefix")
-----------------------------------------------------------------------------
TableInit == table = <<>>

AddManifest(m) ==
  /\ Len(table) < MaxTable
  /\ table' = Append(table, m)

TableNext == \E m \in Manifests : AddManifest(m)

Reordered(list) == {[i \in DOMAIN list |-> list[p[i]]] : p \in Permutations(DOMAIN list)}

\* Four operators who hold the same manifests reach the same verdict, in
\* whatever order each names them, and the configuration that assemble_config
\* then writes for any of them, peers in order of node id, is one that its
\* node loads, given a controller with an address of its own (assemble_config
\* writes the file before it tries to load it).
AssembledSetLoads ==
  Len(table) = OperatorCount =>
    /\ \A other \in Reordered(table) : ValidSet(other) <=> ValidSet(table)
    /\ ValidSet(table) => \A i \in DOMAIN table :
         \A peers \in Reordered(RemoveAt(table, i)) : Loads(table[i], peers)
=============================================================================
