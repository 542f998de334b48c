--------------------------- MODULE MCShareStore -----------------------------
(* One node's store over the corpus shares, batches of at most two. *)
EXTENDS PromotionLoop, ShareUniverse

MCShares == {Root, One, Block, NextRound, Fork, Stale, Reassigned}

MCBatches == {<<>>} \cup {<<s>> : s \in MCShares}
             \cup {<<s, t>> : s \in MCShares, t \in MCShares}

MCStartTicks == 0 .. 3
=============================================================================
