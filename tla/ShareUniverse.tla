--------------------------- MODULE ShareUniverse ----------------------------
(***************************************************************************)
(* Concrete shares for model checking.  They follow the histories of the   *)
(* adversarial corpus of sharechain_v0.py: a linear chain across a block,  *)
(* forks, a stale extension, a reassigned proof, a second root, a wrong    *)
(* sequence, an absent parent and an insufficient proof; then a round that *)
(* is not in the table and a candidate that is not marked as one.  Header  *)
(* hashes up to 9 are block candidates, up to 19 shares.                   *)
(***************************************************************************)
EXTENDS Integers

Share(id, sequence, previous, height, prevBlock, hash, payout) ==
  [ id |-> id, sequence |-> sequence, previous |-> previous,
    height |-> height, prevBlock |-> prevBlock,
    header |-> [hash |-> hash, prev |-> prevBlock],
    candidate |-> hash <= 9, payout |-> payout ]

Rounds == {<<1, 30>>, <<2, 5>>}

Root       == Share(5, 0, 0, 1, 30, 11, 1)
One        == Share(2, 1, 5, 1, 30, 12, 2)
Block      == Share(7, 2, 2, 1, 30, 5, 1)
NextRound  == Share(1, 3, 7, 2, 5, 13, 2)
Fork       == Share(4, 1, 5, 1, 30, 14, 2)
ForkTwo    == Share(3, 2, 4, 1, 30, 16, 2)
Stale      == Share(6, 3, 7, 1, 30, 15, 2)
Reassigned == Share(8, 1, 5, 1, 30, 12, 3)
OtherRoot  == Share(9, 0, 0, 1, 30, 17, 2)
BadSeq     == Share(10, 3, 2, 1, 30, 18, 2)
NoParent   == Share(11, 1, 99, 1, 30, 19, 2)
Weak       == Share(12, 1, 5, 1, 30, 25, 2)
LateRoot   == Share(13, 1, 0, 1, 30, 10, 2)
Untrusted  == Share(14, 3, 7, 2, 6, 13, 2)
Unmarked   == [Share(15, 1, 5, 1, 30, 8, 2) EXCEPT !.candidate = FALSE]
=============================================================================
