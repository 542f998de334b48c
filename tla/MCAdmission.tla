---------------------------- MODULE MCAdmission ----------------------------
(* Two identities behind one source prefix and a third behind another. *)
EXTENDS Admission, TLC

CONSTANTS a, b, d, p, q, n1, n2, n3, n4

MCPrefixOf == (a :> p) @@ (b :> p) @@ (d :> q)

NonceSymmetry == Permutations(Nonces)
=============================================================================
