---------------------------- MODULE MCAccounting ----------------------------
(***************************************************************************)
(* Two replicas.  In MCCatalog one header is claimed by two owners, a      *)
(* second header belongs to the other owner, and a third does not meet its *)
(* block target.  In MCHeights one header comes with two heights.          *)
(***************************************************************************)
EXTENDS Accounting

CONSTANTS a, b

MCPeers == <<a, b>>

Receipt(header, height, owner) ==
  [header |-> header, height |-> height, owner |-> owner, work |-> 1, candidate |-> header # "C"]

MCCatalog == << Receipt("A", 1, 1), Receipt("A", 1, 2), Receipt("B", 2, 2), Receipt("C", 2, 1) >>
MCHeights == << Receipt("A", 1, 1), Receipt("A", 2, 2), Receipt("B", 2, 2) >>
=============================================================================
