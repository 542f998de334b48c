-------------------------- MODULE MCRoutedSessions --------------------------
(* One or two peers, each behind its own prefix. *)
EXTENDS RoutedSessions, TLC

CONSTANTS a, b, p, q, t1, t2

MCPrefixOf == [i \in Identities |-> IF i = a THEN p ELSE q]

ThreadSymmetry == Permutations(Threads)
=============================================================================
