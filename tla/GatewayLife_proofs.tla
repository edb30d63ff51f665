-------------------------- MODULE GatewayLife_proofs --------------------------
(***************************************************************************)
(* GatewayPv gives every PV and its gateVcData the life of VcLife, for     *)
(* every set of names and pvlist files, either cache mode and any timeout. *)
(***************************************************************************)
EXTENDS GatewayPv_proofs

Connected == {"Active", "Inactive"}

\* Only a PV that is connected is marked; its VC waits for the first event exactly
\* as long as it is.
MarkedOK(n) ==
  /\ need[n] => CacheMode /\ st[n] \in Connected
  /\ vc[n] = "Connect" => need[n]
  /\ vc[n] = "Ready" => ~need[n]

Marked == \A n \in Names : MarkedOK(n)

\* What a step may do to the PV n.
Kept(n) ==
  /\ vc'[n] = vc[n] /\ need'[n] = need[n]
  /\ st'[n] = st[n] \/ (st[n] \notin Connected /\ st'[n] \notin Connected)

Comes(n) ==
  /\ st[n] \notin Connected /\ st'[n] = "Inactive"
  /\ vc'[n] = vc[n] /\ need'[n] = need[n]

Activated(n) ==
  /\ st[n] = "Inactive" /\ st'[n] = "Active"
  /\ \/ vc'[n] = (IF CacheMode THEN "Connect" ELSE "Ready") /\ need'[n] = (need[n] \/ CacheMode)
     \/ CacheMode /\ vc'[n] = vc[n] /\ need'[n] = TRUE

Completed(n) ==
  /\ st'[n] = st[n] /\ vc[n] = "Connect" /\ vc'[n] = "Ready"
  /\ need[n] = TRUE /\ need'[n] = FALSE

Released(n) ==
  /\ vc[n] # "none" /\ vc'[n] = "none" /\ st'[n] = "Inactive" /\ need'[n] = need[n]

Gone(n) == st'[n] \notin Connected /\ vc'[n] = "none" /\ need'[n] = FALSE

Effect(n) ==
  \/ Kept(n) \/ Comes(n) \/ Activated(n) \/ Completed(n) \/ Released(n) \/ Gone(n)

\* The PVs S are destroyed.
LEMMA DestroyEffect ==
  ASSUME Typed, NEW S \in SUBSET Names, Destroy(S), NEW n \in Names
  PROVE  Effect(n)
BY DEF Typed, Destroy, Effect, Kept, Gone, Connected

\* The PVs S, all connecting, die.
LEMMA DeathEffect ==
  ASSUME Typed, Structure, Marked, NEW S \in SUBSET Names, DeathFromConnect(S),
         \A m \in S : st[m] = "Connect", NEW n \in Names
  PROVE  Effect(n)
<1>1. CASE n \in S
  <2>1. vc[n] = "none" /\ st'[n] = "Dead" /\ need'[n] = FALSE /\ vc'[n] \in {"none", vc[n]}
    BY <1>1 DEF DeathFromConnect, Structure, VcFollowsPv
  <2> QED BY <2>1 DEF Effect, Gone, Connected
<1>2. CASE n \notin S
  <2>1. st'[n] = st[n] /\ need'[n] = need[n] /\ vc'[n] = vc[n]
    BY <1>2 DEF DeathFromConnect, Typed
  <2> QED BY <2>1 DEF Effect, Kept
<1> QED BY <1>1, <1>2

\* The handlers of a running gateway, one at a time.
LEMMA StepEffect ==
  ASSUME Typed, Structure, Marked, Next, NEW n \in Names
  PROVE  \/ run = "up" /\ run' = "up" /\ Effect(n)
         \/ run = "up" /\ run' = "crashed" /\ UNCHANGED <<st, vc, need>>
         \/ run = "crashed" /\ run' = "up" /\ st'[n] = "None" /\ vc'[n] = "none" /\ need'[n] = FALSE
<1> DEFINE Goal == run = "up" /\ run' = "up" /\ Effect(n)
<1>1. ASSUME NEW t \in Tests, NEW x \in Requests,
             ExistTestKnown(t, x) \/ ExistTestPending(t, x) \/ ExistTestNewFails(t, x)
      PROVE  Goal
  BY <1>1 DEF ExistTestKnown, ExistTestPending, ExistTestNewFails, InCallbacks, pvVars, Effect, Kept
<1>2. ASSUME NEW t \in Tests, NEW x \in Requests, ExistTestNew(t, x)
      PROVE  Goal
  <2> DEFINE m == RealName(x)
  <2>1. m \in Names /\ m \notin pvList \cup conList /\ NewPv(m)
        /\ run = "up" /\ run' = "up" /\ vc' = vc
    BY <1>2, RealNameType DEF ExistTestNew, InCallbacks
  <2> HIDE DEF m
  <2>2. st[m] = "None"
    BY <2>1 DEF Structure, ListsFollowState, Typed, PvState
  <2>3. need[m] = FALSE
    BY <2>1, <2>2 DEF Marked, MarkedOK, Connected, Typed
  <2>4. need' = need
    BY <2>1, <2>3 DEF NewPv, Typed
  <2> QED BY <2>1, <2>2, <2>4 DEF NewPv, Typed, Effect, Kept, Connected
<1>3. ASSUME NEW x \in Requests, Attach(x) PROVE Goal
  <2> DEFINE m == RealName(x)
  <2>1. /\ m \in Names /\ vc[m] = "none" /\ st[m] = "Inactive"
        /\ st' = [st EXCEPT ![m] = "Active"]
        /\ need' = [need EXCEPT ![m] = @ \/ CacheMode]
        /\ vc' = [vc EXCEPT ![m] = IF CacheMode THEN "Connect" ELSE "Ready"]
        /\ run = "up" /\ run' = "up"
    BY <1>3, RealNameType DEF Attach, InCallbacks
  <2> HIDE DEF m
  <2> QED BY <2>1 DEF Typed, Effect, Kept, Activated
<1>4. ASSUME NEW x \in Requests, AttachGetFails(x) PROVE Goal
  <2> DEFINE m == RealName(x)
  <2>1. /\ m \in Names /\ vc[m] = "none" /\ st[m] = "Inactive" /\ CacheMode
        /\ st' = [st EXCEPT ![m] = "Active"]
        /\ need' = [need EXCEPT ![m] = TRUE]
        /\ vc' = vc /\ run = "up" /\ run' = "up"
    BY <1>4, RealNameType DEF AttachGetFails, InCallbacks
  <2> HIDE DEF m
  <2> QED BY <2>1 DEF Typed, Effect, Kept, Activated
<1>5. ASSUME NEW x \in Requests, AttachRefused(x) PROVE Goal
  <2>1. /\ RealName(x) \in Names /\ RealName(x) \in pvList
        /\ need' = [need EXCEPT ![RealName(x)] = @ \/ st[RealName(x)] = "Connect"]
        /\ UNCHANGED <<st, vc, run>> /\ run = "up"
    BY <1>5, RealNameType DEF AttachRefused, InCallbacks
  <2>2. st[RealName(x)] # "Connect"
    BY <2>1 DEF Structure, ListsFollowState
  <2>3. need' = need
    BY <2>1, <2>2 DEF Typed
  <2> QED BY <2>1, <2>3 DEF Effect, Kept
<1>6. ASSUME NEW m \in Names, VcDestroy(m) PROVE Goal
  <2>1. st[m] = "Active"
    BY <1>6 DEF VcDestroy, Structure, VcFollowsPv
  <2> QED BY <1>6, <2>1 DEF VcDestroy, InCallbacks, Typed, Effect, Kept, Released
<1>7. ASSUME NEW m \in Names, LifeFromConnect(m) PROVE Goal
  <2>1. need[m] = FALSE
    BY <1>7 DEF LifeFromConnect, Structure, NoActivationWhileConnecting, Typed
  <2> QED BY <1>7, <2>1 DEF LifeFromConnect, InCaPoll, Typed, Effect, Kept, Comes, Connected
<1>8. ASSUME NEW m \in Names, Revive(m) PROVE Goal
  BY <1>8 DEF Revive, InCaPoll, Typed, Effect, Kept, Comes, Connected
<1>9. ASSUME NEW m \in Names, ConnectionLost(m) PROVE Goal
  <2>1. st[m] = "Inactive" => vc[m] = "none"
    BY <1>9 DEF Structure, VcFollowsPv
  <2>2. st[m] = "Active" /\ ~pvc[m] => vc[m] = "none"
    BY <1>9 DEF Structure, VcFollowsPv
  <2> QED BY <1>9, <2>1, <2>2 DEF ConnectionLost, InCaPoll, Typed, Effect, Kept, Gone, Connected
<1>10. ASSUME NEW m \in Names, FirstEvent(m) PROVE Goal
  BY <1>10 DEF FirstEvent, InCaPoll, Typed, Effect, Kept, Completed
<1>11. ASSUME Tick \/ NoCommand PROVE Goal
  BY <1>11 DEF Tick, NoCommand, InCaPoll, pvVars, Effect, Kept
<1>12. ASSUME ConnectCleanup PROVE Goal
  <2>1. CASE sinceCon < ConnectTimeout
    BY <1>12, <2>1 DEF ConnectCleanup, InCallbacks, pvVars, Effect, Kept
  <2>2. CASE ~(sinceCon < ConnectTimeout)
    <3>1. PICK S \in SUBSET Names : DeathFromConnect(S) /\ \A m \in S : st[m] = "Connect"
      BY <1>12, <2>2 DEF ConnectCleanup, InState, Typed
    <3> QED BY <1>12, <3>1, DeathEffect DEF ConnectCleanup, InCallbacks
  <2> QED BY <2>1, <2>2
<1>13. ASSUME InactiveDeadCleanup PROVE Goal
  <2>1. CASE sinceIdc < DeadTimeout /\ sinceIdc < InactiveTimeout
    BY <1>13, <2>1 DEF InactiveDeadCleanup, pvVars, Effect, Kept
  <2>2. CASE ~(sinceIdc < DeadTimeout /\ sinceIdc < InactiveTimeout)
    <3>1. PICK S \in SUBSET Names : Destroy(S)
      BY <1>13, <2>2 DEF InactiveDeadCleanup, Typed
    <3> QED BY <1>13, <3>1, DestroyEffect DEF InactiveDeadCleanup
  <2> QED BY <2>1, <2>2
<1>14. ASSUME NewAs PROVE Goal
  <2>1. PICK S \in SUBSET Names : Destroy(S)
    BY <1>14 DEF NewAs, KillDenied
  <2> QED BY <1>14, <2>1, DestroyEffect DEF NewAs
<1>15. ASSUME TouchFreed \/ NewAsTouchFreed
       PROVE  run = "up" /\ run' = "crashed" /\ UNCHANGED <<st, vc, need>>
  BY <1>15 DEF TouchFreed, NewAsTouchFreed, pvVars
<1>16. ASSUME Restart
       PROVE  /\ run = "crashed" /\ run' = "up"
              /\ st'[n] = "None" /\ vc'[n] = "none" /\ need'[n] = FALSE
  BY <1>16 DEF Restart
<1> HIDE DEF Goal
<1>17. \/ Goal
       \/ run = "up" /\ run' = "crashed" /\ UNCHANGED <<st, vc, need>>
       \/ run = "crashed" /\ run' = "up" /\ st'[n] = "None" /\ vc'[n] = "none" /\ need'[n] = FALSE
  BY <1>1, <1>2, <1>3, <1>4, <1>5, <1>6, <1>7, <1>8, <1>9, <1>10, <1>11, <1>12, <1>13,
     <1>14, <1>15, <1>16 DEF Next
<1> QED BY <1>17 DEF Goal

-----------------------------------------------------------------------------
(* The refinement *)

\* The marks: no PV that is not connected is left needAddRemove, and the first
\* event of a VC finds its PV marked.
LEMMA MarkedStep ==
  Typed /\ Structure /\ Marked /\ [Next]_vars => Marked'
<1> SUFFICES ASSUME Typed, Structure, Marked, [Next]_vars, NEW n \in Names
             PROVE  MarkedOK(n)'
  BY DEF Marked
<1>1. MarkedOK(n) /\ vc[n] \in VcState /\ need[n] \in BOOLEAN
  BY DEF Marked, Typed
<1>2. st[n] # "Active" => vc[n] = "none"
  BY DEF Structure, VcFollowsPv
<1>3. ASSUME Effect(n) PROVE MarkedOK(n)'
  <2>1. CASE Kept(n) \/ Comes(n)
    BY <1>1, <2>1 DEF Kept, Comes, MarkedOK, Connected
  <2>2. CASE Activated(n) \/ Completed(n)
    BY <1>1, <1>2, <2>2, ModeAssumption
       DEF Activated, Completed, MarkedOK, Connected
  <2>3. CASE Released(n) \/ Gone(n)
    BY <1>1, <2>3 DEF Released, Gone, MarkedOK, Connected
  <2> QED BY <1>3, <2>1, <2>2, <2>3 DEF Effect
<1>4. CASE UNCHANGED <<st, vc, need>>
  BY <1>1, <1>4 DEF MarkedOK
<1>5. CASE st'[n] = "None" /\ vc'[n] = "none" /\ need'[n] = FALSE
  BY <1>5 DEF MarkedOK
<1>6. CASE UNCHANGED vars
  BY <1>4, <1>6 DEF vars, pvVars
<1> QED BY <1>3, <1>4, <1>5, <1>6, StepEffect

\* What happens to a PV of a gateway that runs on is a step of its life.
LEMMA EffectLives ==
  ASSUME Typed, Structure, Marked, run = "up", run' = "up", NEW n \in Names, Effect(n)
  PROVE  [Life(n)!LNext]_(Life(n)!lvars)
<1>1. vc[n] \in VcState /\ need[n] \in BOOLEAN /\ MarkedOK(n)
      /\ (st[n] # "Active" => vc[n] = "none")
  BY DEF Marked, Typed, Structure, VcFollowsPv
<1>2. CASE Kept(n)
  BY <1>2 DEF Kept, Life!lvars, Connected
<1>3. CASE Comes(n)
  <2>1. Life(n)!Found
    BY <1>3 DEF Comes, Life!Found, Connected
  <2> QED BY <2>1 DEF Life!LNext
<1>4. CASE Activated(n)
  <2>1. Life(n)!Activate \/ Life(n)!ActivationFails
    BY <1>1, <1>4 DEF Activated, Life!Activate, Life!ActivationFails
  <2> QED BY <2>1 DEF Life!LNext
<1>5. CASE Completed(n)
  <2>1. Life(n)!Complete
    BY <1>5 DEF Completed, Life!Complete
  <2> QED BY <2>1 DEF Life!LNext
<1>6. CASE Released(n)
  <2>1. Life(n)!Release
    BY <1>6 DEF Released, Life!Release
  <2> QED BY <2>1 DEF Life!LNext
<1>7. CASE Gone(n)
  <2>1. CASE st[n] \in Connected
    <3>1. Life(n)!Lose
      BY <1>7, <2>1 DEF Gone, Life!Lose, Connected
    <3> QED BY <3>1 DEF Life!LNext
  <2>2. CASE st[n] \notin Connected
    <3>1. vc[n] = "none" /\ need[n] = FALSE
      BY <1>1, <2>2 DEF MarkedOK, Connected
    <3> QED BY <1>7, <2>2, <3>1 DEF Gone, Life!lvars, Connected
  <2> QED BY <2>1, <2>2
<1> QED BY <1>2, <1>3, <1>4, <1>5, <1>6, <1>7 DEF Effect

LEMMA LifeStep ==
  ASSUME NEW n \in Names
  PROVE  Typed /\ Structure /\ Marked /\ [Next]_vars => [Life(n)!LNext]_(Life(n)!lvars)
<1> SUFFICES ASSUME Typed, Structure, Marked, [Next]_vars
             PROVE  [Life(n)!LNext]_(Life(n)!lvars)
  OBVIOUS
<1>1. CASE run = "up" /\ run' = "up" /\ Effect(n)
  BY <1>1, EffectLives
<1>2. CASE run = "up" /\ run' = "crashed" /\ UNCHANGED <<st, vc, need>>
  <2>1. CASE st[n] \in Connected
    <3>1. Life(n)!Lose
      BY <1>2, <2>1 DEF Life!Lose, Connected
    <3> QED BY <3>1 DEF Life!LNext
  <2>2. CASE st[n] \notin Connected
    <3>1. vc[n] = "none" /\ need[n] = FALSE
      BY <2>2 DEF Marked, MarkedOK, Typed, Structure, VcFollowsPv, Connected
    <3> QED BY <1>2, <2>2, <3>1 DEF Life!lvars, Connected
  <2> QED BY <2>1, <2>2
<1>3. CASE run = "crashed" /\ run' = "up" /\ st'[n] = "None" /\ vc'[n] = "none" /\ need'[n] = FALSE
  BY <1>3 DEF Life!lvars
<1>4. CASE UNCHANGED vars
  BY <1>4 DEF Life!lvars, vars, pvVars
<1> QED BY <1>1, <1>2, <1>3, <1>4, StepEffect

LEMMA LifeInit ==
  ASSUME NEW n \in Names
  PROVE  Init => Life(n)!LInit
BY DEF Init, Life!LInit

\* No PV is marked needAddRemove for a VC that is not there to be completed after
\* its connection went, and no VC that waits has a PV that is not marked: eventCB
\* would ignore the event it waits for.
THEOREM MarksFollowVc == Spec => []Marked
<1>1. Init => Marked
  BY DEF Init, Marked, MarkedOK
<1> QED BY <1>1, MarkedStep, AlwaysTyped, StructureHolds, PTL DEF Spec

\* Each PV has the life that GatewayVc_proofs proves of its requests, gets and
\* callbacks.
THEOREM PvHasItsLife ==
  ASSUME NEW n \in Names
  PROVE  Spec => Life(n)!LSpec
<1>1. Init => Life(n)!LInit
  BY LifeInit
<1>2. Typed /\ Structure /\ Marked /\ [Next]_vars => [Life(n)!LNext]_(Life(n)!lvars)
  BY LifeStep
<1> QED BY <1>1, <1>2, AlwaysTyped, StructureHolds, MarksFollowVc, PTL DEF Spec, Life!LSpec

\* The same for all PVs at once: every step is a step, or none, of the life of
\* each of them.
THEOREM AllPvsLive == Spec => VcLives
<1>1. Init => \A n \in Names : Life(n)!LInit
  BY LifeInit
<1>2. Typed /\ Structure /\ Marked /\ [Next]_vars
        => [\A n \in Names : [Life(n)!LNext]_(Life(n)!lvars)]_vars
  BY LifeStep
<1> QED BY <1>1, <1>2, AlwaysTyped, StructureHolds, MarksFollowVc, PTL DEF Spec, VcLives

-----------------------------------------------------------------------------
(* When the documentation is right: three of its statements that TLC refutes *)
(* hold with a configuration that keeps clear of the reason.               *)

\* Without the cache a connected PV is Active just when it has a client, as
\* docs/Gateway.html:201 has it: only the get of an activation with the cache can
\* fail and leave the PV Active (gatePv.cc:384).
THEOREM ActiveHasVcUncached ==
  ASSUME ~CacheMode
  PROVE  Spec => []ActiveHasVc
<1>1. Init => ActiveHasVc
  BY DEF Init, ActiveHasVc
<1>2. Typed /\ Structure /\ Marked /\ ActiveHasVc /\ [Next]_vars => ActiveHasVc'
  <2> SUFFICES ASSUME Typed, Structure, Marked, ActiveHasVc, [Next]_vars,
                      NEW n \in Names, st'[n] = "Active"
               PROVE  vc'[n] # "none"
    BY DEF ActiveHasVc
  <2>1. CASE Effect(n)
    BY <2>1 DEF Effect, Kept, Comes, Activated, Completed, Released, Gone, Connected, ActiveHasVc
  <2>2. CASE UNCHANGED <<st, vc, need>>
    BY <2>2 DEF ActiveHasVc
  <2>3. CASE UNCHANGED vars
    BY <2>2, <2>3 DEF vars, pvVars
  <2> QED BY <2>1, <2>2, <2>3, StepEffect
<1> QED BY <1>1, <1>2, AlwaysTyped, StructureHolds, MarksFollowVc, PTL DEF Spec

\* Disconnected PVs are held for -disconnect_timeout (docs/Gateway.html:381) if
\* that is no longer than -inactive_timeout, the one that inactiveDeadCleanup
\* consults (gateServer.cc:1482).
THEOREM DisconnectedHeld ==
  ASSUME DisconnectTimeout <= InactiveTimeout
  PROVE  Spec => DisconnectedHeldForTimeout
<1>1. ASSUME Typed, [Next]_vars, NEW n \in Names,
             run = "up", phase = "idc", st[n] = "Disconnect", st'[n] = "None"
      PROVE  nc[n] >= DisconnectTimeout
  <2>1. InactiveDeadCleanup
    <3>1. ~InCallbacks /\ ~InCaPoll /\ phase # "flags"
      BY <1>1 DEF InCallbacks, InCaPoll
    <3>2. st' # st
      BY <1>1
    <3> QED BY <1>1, <3>1, <3>2
            DEF Next, vars, pvVars, ExistTestKnown, ExistTestPending, ExistTestNew,
                ExistTestNewFails, Attach, AttachGetFails, AttachRefused, VcDestroy,
                LifeFromConnect, Revive, ConnectionLost, FirstEvent, Tick, ConnectCleanup,
                NoCommand, NewAs, TouchFreed, NewAsTouchFreed, Restart
  <2>2. Expired(n)
    BY <1>1, <2>1 DEF InactiveDeadCleanup, Destroy, pvVars
  <2>3. nc[n] \in Nat /\ DisconnectTimeout \in Nat /\ InactiveTimeout \in Nat
    BY <1>1, TimesAssumption DEF Typed, Age
  <2> QED BY <1>1, <2>2, <2>3 DEF Expired
<1>2. Typed /\ [Next]_vars
        => [\A n \in Names : run = "up" /\ phase = "idc" /\ st[n] = "Disconnect" /\ st'[n] = "None"
              => nc[n] >= DisconnectTimeout]_vars
  BY <1>1
<1> QED BY <1>2, AlwaysTyped, PTL DEF Spec, DisconnectedHeldForTimeout

\* A reread of the same pvlist file takes no PV from its clients
\* (docs/Gateway.html:713) if the file has no alias: newAs looks for the real name,
\* and that is then the name the client asked for.
THEOREM RereadKeepsUnaliased ==
  ASSUME \A f \in PvLists : \A x \in DOMAIN f : f[x] = x
  PROVE  Spec => RereadKeepsServedPvs
<1>1. ASSUME Typed, Structure, [Next]_vars, NEW n \in Names,
             run = "up", run' = "up", phase = "flags", phase' = "callbacks",
             st[n] = "Active", rules' = rules, NEW x \in DOMAIN rules, rules[x] = n
      PROVE  st'[n] = "Active"
  <2>1. NewAs \/ NoCommand
    BY <1>1
       DEF Next, vars, InCallbacks, ExistTestKnown, ExistTestPending, ExistTestNew,
           ExistTestNewFails, Attach, AttachGetFails, AttachRefused, VcDestroy,
           LifeFromConnect, Revive, ConnectionLost, FirstEvent, Tick, ConnectCleanup,
           InactiveDeadCleanup, TouchFreed, NewAsTouchFreed, Restart
  <2>2. n \in DOMAIN rules
    BY <1>1 DEF Typed
  <2>3. CASE NewAs
    <3>1. PICK f \in PvLists : KillDenied(f)
      BY <2>3 DEF NewAs
    <3>2. f = rules
      BY <1>1, <3>1 DEF KillDenied
    <3>3. PICK S \in SUBSET Names : Destroy(S) /\ n \notin S
      BY <2>2, <3>1, <3>2 DEF KillDenied
    <3> QED BY <1>1, <3>3 DEF Destroy
  <2>4. CASE NoCommand
    BY <1>1, <2>4 DEF NoCommand, pvVars
  <2> QED BY <2>1, <2>3, <2>4
<1>2. Typed /\ Structure /\ [Next]_vars
        => [\A n \in Names :
              (/\ run = "up" /\ run' = "up" /\ phase = "flags" /\ phase' = "callbacks"
               /\ st[n] = "Active" /\ rules' = rules
               /\ \E x \in DOMAIN rules : rules[x] = n)
                => st'[n] = "Active"]_vars
  BY <1>1
<1> QED BY <1>2, AlwaysTyped, StructureHolds, PTL DEF Spec, RereadKeepsServedPvs
==============================================================================
