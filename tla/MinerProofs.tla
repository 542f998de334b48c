---------------------------- MODULE MinerProofs ----------------------------
(***************************************************************************)
(* Safety of mine_one_block and of the registry of coordinator views, for  *)
(* any number of miners, coordinators, views and blocks.                   *)
(***************************************************************************)
EXTENDS Miner, TLAPS

\* what a miner's record holds at each step of mine_one_block
MinerStates ==
  [step : {"ready", "failed"}]
    \cup [step : {"template", "solve", "submit", "confirm", "published",
                  "unadopted", "failed"}, tip : Nat]
    \cup [step : {"declare", "asked"}, tip : Nat, next : 1..Len(Coordinators)]

MinerTypeOK ==
  /\ chain \in Seq(Miners \cup {"other"})
  /\ miner \in [Miners -> MinerStates]

\* the block of a miner whose submitblock succeeded stays where it was put
Adopted ==
  \A m \in Miners : miner[m].step \in {"confirm", "published"} =>
    miner[m].tip + 1 \in 1..Len(chain) /\ chain[miner[m].tip + 1] = m

\* what the registry holds was said, and every acceptance agrees with it
RegistryOK ==
  /\ \A c, t : <<c, t>> \in DOMAIN views =>
       [coordinator |-> c, template |-> t, view |-> views[<<c, t>>]] \in said
  /\ \A x \in accepts : <<x.coordinator, x.template>> \in DOMAIN views
                          /\ views[<<x.coordinator, x.template>>] = x.view

\* the first half of QuarantineJustified
Equivocated(c) == \E x, y \in said :
  x.coordinator = c /\ y.coordinator = c /\ x.template = y.template /\ x.view # y.view

IInv == MinerTypeOK /\ Adopted /\ RegistryOK /\ \A c \in quarantined : Equivocated(c)
-----------------------------------------------------------------------------
LEMMA InitOK == Init => IInv
  BY DEF Init, IInv, MinerTypeOK, Adopted, RegistryOK, MinerStates

\* Moving on to another step keeps the rest of a miner's record.
LEMMA GotoOK ==
  ASSUME MinerTypeOK, NEW m \in Miners, NEW s, Goto(m, s),
         \/ s = "failed"
         \/ s = "asked" /\ At(m, "declare")
         \/ s \in {"submit", "confirm", "published", "unadopted"}
              /\ miner[m].step \in {"solve", "submit", "confirm"},
         miner[m].step \notin {"declare", "asked"} \/ s = "asked"
  PROVE  /\ miner' \in [Miners -> MinerStates]
         /\ miner'[m].step = s
         /\ s \in {"confirm", "published"} => miner'[m].tip = miner[m].tip
         /\ \A n \in Miners \ {m} : miner'[n] = miner[n]
  <1>1. miner[m] \in MinerStates /\ miner' = [miner EXCEPT ![m].step = s]
    BY DEF MinerTypeOK, Goto
  <1>2. CASE miner[m].step \in {"declare", "asked"}
    <2>1. miner[m] \in [step : {"declare", "asked"}, tip : Nat, next : 1..Len(Coordinators)]
      BY <1>1, <1>2 DEF MinerStates
    <2>2. s = "asked"
      BY <1>2 DEF At
    <2> QED  BY <1>1, <2>1, <2>2 DEF MinerTypeOK, MinerStates
  <1>3. CASE miner[m] \in [step : {"ready", "failed"}]
    BY <1>1, <1>3 DEF MinerTypeOK, MinerStates, At
  <1>4. CASE miner[m] \in [step : {"template", "solve", "submit", "confirm", "published",
                                  "unadopted", "failed"}, tip : Nat]
    BY <1>1, <1>4 DEF MinerTypeOK, MinerStates, At
  <1> QED  BY <1>1, <1>2, <1>3, <1>4 DEF MinerStates

\* Passing to the next coordinator, or to solving, keeps the types and puts no
\* miner at a step that claims an adopted block.
LEMMA NextCoordinatorOK ==
  ASSUME MinerTypeOK, NEW m \in Miners, miner[m].step \in {"declare", "asked"},
         NextCoordinator(m) \/ Solving(m)
  PROVE  /\ miner' \in [Miners -> MinerStates]
         /\ miner'[m].step \notin {"confirm", "published"}
         /\ \A n \in Miners \ {m} : miner'[n] = miner[n]
  BY MinerAssumption DEF NextCoordinator, Solving, MinerTypeOK, MinerStates

\* The steps that touch neither the chain nor the registry.
LEMMA LocalStepOK ==
  ASSUME IInv, NEW m \in Miners,
         UNCHANGED <<chain, views, quarantined, accepts, said>>,
         miner' \in [Miners -> MinerStates],
         \A n \in Miners \ {m} : miner'[n] = miner[n],
         miner'[m].step \in {"confirm", "published"} =>
           miner[m].step \in {"confirm", "published"} /\ miner'[m].tip = miner[m].tip
  PROVE  IInv'
  BY DEF IInv, MinerTypeOK, Adopted, RegistryOK, Equivocated

LEMMA AcceptViewOK ==
  ASSUME IInv, NEW m \in Miners, NEW view \in Views, AcceptView(m, view)
  PROVE  IInv'
  <1> DEFINE answer == [coordinator |-> Coordinator(m), template |-> miner[m].tip, view |-> view]
  <1>1. /\ miner' \in [Miners -> MinerStates]
        /\ miner'[m].step \notin {"confirm", "published"}
        /\ \A n \in Miners \ {m} : miner'[n] = miner[n]
    BY NextCoordinatorOK DEF AcceptView, At, IInv
  <1>2. MinerTypeOK' /\ Adopted'
    BY <1>1 DEF AcceptView, IInv, MinerTypeOK, Adopted
  <1>3. said' = said \cup {answer}
    BY DEF AcceptView
  <1>4. ASSUME NEW c \in quarantined PROVE Equivocated(c)'
    BY <1>3, <1>4 DEF IInv, Equivocated
  <1>5. CASE UNCHANGED <<views, quarantined, accepts>>
    BY <1>2, <1>3, <1>4, <1>5 DEF IInv, RegistryOK
  <1>6. CASE /\ Consistent(m, view)
             /\ views' = [k \in DOMAIN views \cup {Key(m)} |->
                           IF k \in DOMAIN views THEN views[k] ELSE view]
             /\ accepts' = accepts \cup {answer}
             /\ UNCHANGED quarantined
    <2>1. views'[Key(m)] = view /\ \A k \in DOMAIN views : views'[k] = views[k]
      BY <1>6 DEF Consistent
    <2>2. DOMAIN views' = DOMAIN views \cup {Key(m)}
      BY <1>6
    <2>3. ASSUME NEW c, NEW t, <<c, t>> \in DOMAIN views'
          PROVE  [coordinator |-> c, template |-> t, view |-> views'[<<c, t>>]] \in said'
      <3>1. CASE <<c, t>> \in DOMAIN views
        BY <1>3, <2>1, <3>1 DEF IInv, RegistryOK
      <3>2. CASE <<c, t>> = Key(m)
        BY <1>3, <2>1, <3>2 DEF Key
      <3> QED  BY <2>2, <2>3, <3>1, <3>2
    <2>4. ASSUME NEW x \in accepts'
          PROVE  /\ <<x.coordinator, x.template>> \in DOMAIN views'
                 /\ views'[<<x.coordinator, x.template>>] = x.view
      <3>1. CASE x \in accepts
        BY <2>1, <2>2, <3>1 DEF IInv, RegistryOK
      <3>2. CASE x = answer
        BY <2>1, <2>2, <3>2 DEF Key
      <3> QED  BY <1>6, <2>4, <3>1, <3>2
    <2> QED  BY <1>2, <1>4, <1>6, <2>3, <2>4 DEF IInv, RegistryOK
  <1>7. CASE /\ ~Consistent(m, view)
             /\ quarantined' = quarantined \cup {Coordinator(m)}
             /\ UNCHANGED <<views, accepts>>
    <2>1. PICK c : c = Coordinator(m)
      OBVIOUS
    <2> DEFINE first == [coordinator |-> c, template |-> miner[m].tip, view |-> views[Key(m)]]
    <2>2. first \in said /\ first.view # view
      BY <1>7, <2>1 DEF IInv, RegistryOK, Consistent, Key
    <2>3. answer.coordinator = c /\ answer.template = first.template /\ answer.view = view
      BY <2>1
    <2>4. Equivocated(c)'
      BY <1>3, <2>2, <2>3 DEF Equivocated
    <2> QED  BY <1>2, <1>3, <1>4, <1>7, <2>1, <2>4 DEF IInv, RegistryOK
  <1> QED  BY <1>5, <1>6, <1>7 DEF AcceptView

\* Every step of every miner, and every block from elsewhere, keeps IInv.
LEMMA NextOK == ASSUME IInv, [Next]_vars PROVE IInv'
  <1>1. CASE OtherBlock
    BY <1>1 DEF OtherBlock, IInv, MinerTypeOK, Adopted, RegistryOK, Equivocated
  <1>2. ASSUME NEW m \in Miners, Step(m) PROVE IInv'
    <2>1. MinerTypeOK  BY DEF IInv
    <2>2. CASE ReadTip(m)
      BY <2>1, <2>2, LocalStepOK DEF ReadTip, MinerTypeOK, MinerStates
    <2>3. CASE BuildTemplate(m)
      <3>1. CASE Goto(m, "failed")
        BY <2>1, <2>3, <3>1, GotoOK, LocalStepOK DEF BuildTemplate, At
      <3>2. CASE miner' = [miner EXCEPT ![m] = [step |-> "declare", tip |-> @.tip, next |-> 1]]
        BY <2>1, <2>3, <3>2, LocalStepOK, MinerAssumption
           DEF BuildTemplate, At, MinerTypeOK, MinerStates
      <3> QED  BY <2>3, <3>1, <3>2 DEF BuildTemplate
    <2>4. CASE Ask(m)
      <3>1. CASE NextCoordinator(m)
        BY <2>1, <2>4, <3>1, NextCoordinatorOK, LocalStepOK DEF Ask, At
      <3>2. CASE Goto(m, "asked")
        BY <2>1, <2>4, <3>2, GotoOK, LocalStepOK DEF Ask, At
      <3> QED  BY <2>4, <3>1, <3>2 DEF Ask
    <2>5. CASE NotAccepted(m)
      BY <2>1, <2>5, NextCoordinatorOK, LocalStepOK DEF NotAccepted, At
    <2>6. CASE AcceptPlain(m)
      BY <2>1, <2>6, NextCoordinatorOK, LocalStepOK DEF AcceptPlain, At
    <2>7. CASE \E view \in Views : AcceptView(m, view)
      BY <2>7, AcceptViewOK
    <2>8. CASE Solve(m)
      BY <2>1, <2>8, GotoOK, LocalStepOK DEF Solve, At
    <2>9. CASE Submit(m)
      <3>1. CASE Goto(m, "failed") /\ UNCHANGED chain
        BY <2>1, <2>9, <3>1, GotoOK, LocalStepOK DEF Submit, At
      <3>2. CASE /\ miner[m].tip = Len(chain)
                 /\ chain' = Append(chain, m)
                 /\ Goto(m, "confirm") \/ Goto(m, "failed")
        <4>1. /\ miner' \in [Miners -> MinerStates]
              /\ miner'[m].step = "confirm" => miner'[m].tip = miner[m].tip
              /\ miner'[m].step # "published"
              /\ \A n \in Miners \ {m} : miner'[n] = miner[n]
          BY <2>1, <2>9, <3>2, GotoOK DEF Submit, At
        <4>2. MinerTypeOK' /\ Adopted'
          BY <3>2, <4>1 DEF IInv, MinerTypeOK, Adopted
        <4> QED  BY <2>9, <4>2 DEF Submit, IInv, RegistryOK, Equivocated
      <3> QED  BY <2>9, <3>1, <3>2 DEF Submit
    <2>10. CASE Confirm(m)
      BY <2>1, <2>10, GotoOK, LocalStepOK DEF Confirm, At
    <2>11. CASE Again(m)
      BY <2>1, <2>11, LocalStepOK DEF Again, MinerTypeOK, MinerStates
    <2>12. CASE CallFails(m)
      BY <2>1, <2>12, GotoOK, LocalStepOK DEF CallFails
    <2> QED  BY <1>2, <2>2, <2>3, <2>4, <2>5, <2>6, <2>7, <2>8, <2>9, <2>10, <2>11, <2>12
                 DEF Step
  <1>3. CASE UNCHANGED vars
    BY <1>3 DEF vars, IInv, MinerTypeOK, Adopted, RegistryOK, Equivocated
  <1> QED  BY <1>1, <1>2, <1>3 DEF Next

LEMMA MinerInvariant == Spec => []IInv
  <1>1. IInv /\ [Next]_vars => IInv'
    BY NextOK
  <1> QED  BY InitOK, <1>1, PTL DEF Spec
-----------------------------------------------------------------------------
\* However many miners share the registry, whatever the coordinators answer
\* and in whatever order the answers arrive: a coordinator is quarantined only
\* after it gave two state commitments for one template, and no two
\* acceptances of one coordinator and template carry different ones
\* (CoordinatorViewRegistry.observe).
THEOREM MinerQuarantine == Spec => []QuarantineJustified
  <1>1. ASSUME IInv PROVE QuarantineJustified
    <2>1. \A c \in quarantined : Equivocated(c)
      BY <1>1 DEF IInv
    <2>2. \A x, y \in accepts :
            x.coordinator = y.coordinator /\ x.template = y.template => x.view = y.view
      BY <1>1 DEF IInv, RegistryOK
    <2> QED  BY <2>1, <2>2, Zenon DEF Equivocated, QuarantineJustified
  <1> QED  BY <1>1, MinerInvariant, PTL

\* However many miners and other sources extend the chain between the calls
\* of mine_one_block: a block reported as published is in the node's chain
\* on the block its template was built for.
THEOREM MinerPublished == Spec => []PublishedIsInChain
  <1>1. IInv => PublishedIsInChain
    BY DEF IInv, Adopted, PublishedIsInChain, At
  <1> QED  BY <1>1, MinerInvariant, PTL
=============================================================================
