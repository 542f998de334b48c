---------------------------- MODULE MCRoutedLink ----------------------------
(* Two hosts whose clocks agree or differ by a tick, either way. *)
EXTENDS RoutedLink

CONSTANTS a, b

MCOffsets == {[h \in {a, b} |-> IF h = a THEN 1 ELSE n] : n \in 0 .. 2}
MCMaxCalls == (a :> 2) @@ (b :> 1)
=============================================================================
