----------------------------- MODULE ShareGraph -----------------------------
(***************************************************************************)
(* The sharechain profile v0: which sets of shares are a valid history,    *)
(* and which tip, finalized prefix and payout claims a valid history       *)
(* selects (sharechain_v0.py).  Everything here is a function of the SET   *)
(* of shares; module ListValidator states the same selection the way the   *)
(* second validator computes it, share by share over a list.               *)
(*                                                                         *)
(* A share is a record.  Its `id' stands for share_id_sha256 and is a      *)
(* positive number because ids are compared (ties go to the lowest id).    *)
(* A header is its hash, read as the number the targets are compared with, *)
(* and the previous block it commits to.                                   *)
(***************************************************************************)
EXTENDS Integers, Sequences, FiniteSets

CONSTANTS
  Shares,          \* every share any participant can come to hold
  TrustedRounds,   \* <<height, previous block hash>> pairs of the round table
  NetworkTarget,   \* a header hash at or below it is a block candidate
  ShareTarget,     \* a header hash above it is no share at all
  ShareWorkUnits,  \* work of one accepted share
  FinalityDepth,   \* shares behind the tip that are not final
  PayoutWindow,    \* number of finalized shares that earn claims
  MaxShares        \* most shares one graph may hold

\* previous_share_id of a root; no share has this id
ZeroId == 0

ShareType ==
  [ id        : Nat \ {ZeroId},
    sequence  : Nat,
    previous  : Nat,
    height    : Nat,
    prevBlock : Nat,
    header    : [hash : Nat, prev : Nat],
    candidate : BOOLEAN,
    payout    : Nat ]

\* Share identifiers are collision-free: one id names one share body.
ASSUME ShareAssumption ==
  /\ Shares \subseteq ShareType
  /\ \A s, t \in Shares : s.id = t.id => s = t

ASSUME ProfileAssumption ==
  /\ NetworkTarget \in Nat
  /\ ShareTarget \in Nat
  /\ ShareWorkUnits \in Nat \ {0}
  /\ FinalityDepth \in Nat
  /\ PayoutWindow \in Nat \ {0}
  /\ MaxShares \in Nat \ {0}
-----------------------------------------------------------------------------
(* One share on its own, and one link of the chain *)

WorkId(s) == <<s.height, s.header>>

ValidShare(s) ==
  /\ <<s.height, s.prevBlock>> \in TrustedRounds
  /\ s.header.prev = s.prevBlock
  /\ s.header.hash <= ShareTarget
  /\ s.candidate = (s.header.hash <= NetworkTarget)

IsRoot(s) == s.previous = ZeroId

IsParent(p, s) == p.id = s.previous

SameRound(p, s) == p.height = s.height /\ p.prevBlock = s.prevBlock

\* A block candidate ends its round: its children are in the round it opens.
RoundTransition(p, s) ==
  \/ SameRound(p, s) /\ ~p.candidate
  \/ /\ ~SameRound(p, s)
     /\ p.candidate
     /\ s.height = p.height + 1
     /\ s.prevBlock = p.header.hash

Extends(p, s) ==
  /\ IsParent(p, s)
  /\ s.sequence = p.sequence + 1
  /\ RoundTransition(p, s)
-----------------------------------------------------------------------------
(* A set of shares that evaluate_graph accepts *)

DistinctWork(S) == \A s, t \in S : WorkId(s) = WorkId(t) => s = t

OneRoot(S) ==
  \E r \in S : /\ IsRoot(r) /\ r.sequence = 0
               /\ \A s \in S : IsRoot(s) => s = r

Linked(S) == \A s \in S : IsRoot(s) \/ \E p \in S : Extends(p, s)

ValidGraph(S) ==
  /\ Cardinality(S) <= MaxShares
  /\ \A s \in S : ValidShare(s)
  /\ DistinctWork(S)
  /\ OneRoot(S)
  /\ Linked(S)
-----------------------------------------------------------------------------
(* What a valid graph selects *)

ParentIn(S, s) == CHOOSE p \in S : IsParent(p, s)

CumulativeWork(S) ==
  LET work[s \in S] ==
        ShareWorkUnits + (IF IsRoot(s) THEN 0 ELSE work[ParentIn(S, s)])
  IN  work

Tips(S) == {s \in S : \A t \in S : ~IsParent(s, t)}

\* Mutant: a tie goes to the highest id.
BeatsHighestId(S, s, t) ==
  LET work == CumulativeWork(S)
  IN  work[s] > work[t] \/ (work[s] = work[t] /\ s.id >= t.id)

\* Most accumulated work first, then the lowest share id.
Beats(S, s, t) ==
  LET work == CumulativeWork(S)
  IN  work[s] > work[t] \/ (work[s] = work[t] /\ s.id <= t.id)

SelectedTip(S) == CHOOSE s \in Tips(S) : \A t \in Tips(S) : Beats(S, s, t)

PathTo(S, tip) ==
  LET path[s \in S] ==
        Append(IF IsRoot(s) THEN <<>> ELSE path[ParentIn(S, s)], s)
  IN  path[tip]

\* Mutant: one share too few is held back.
FinalizedTooSoon(path) == SubSeq(path, 1, Len(path) - FinalityDepth + 1)

Finalized(path) == SubSeq(path, 1, Len(path) - FinalityDepth)

\* Mutant: the window drops its oldest share.
WindowTooShort(final) ==
  SubSeq(final,
         IF Len(final) > PayoutWindow THEN Len(final) - PayoutWindow + 2 ELSE 1,
         Len(final))

Window(final) ==
  SubSeq(final,
         IF Len(final) > PayoutWindow THEN Len(final) - PayoutWindow + 1 ELSE 1,
         Len(final))

Claims(window) ==
  [ p \in {window[i].payout : i \in DOMAIN window} |->
      SelectSeq(window, LAMBDA s : s.payout = p) ]

EvaluateGraph(S) ==
  LET tip  == SelectedTip(S)
      path == PathTo(S, tip)
  IN  [ tip       |-> tip.id,
        work      |-> CumulativeWork(S)[tip],
        path      |-> path,
        finalized |-> Finalized(path),
        claims    |-> Claims(Window(Finalized(path))) ]
=============================================================================
