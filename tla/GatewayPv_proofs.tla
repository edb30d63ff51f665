-------------------------- MODULE GatewayPv_proofs --------------------------
(* Proofs about GatewayPv, for every set of names, tests and pvlist files and *)
(* every timeout.                                                             *)
EXTENDS GatewayPv, FiniteSetTheorems, TLAPS

\* TypeOK without the counters, whose sign depends on what they count.
Typed ==
  /\ st \in [Names -> PvState] /\ vc \in [Names -> VcState]
  /\ pvc \in [Names -> BOOLEAN] /\ need \in [Names -> BOOLEAN]
  /\ up \in [Names -> BOOLEAN]
  /\ da \in [Names -> Age] /\ nc \in [Names -> Age]
  /\ eio \in [Names -> SUBSET Tests] /\ answer \in [Tests -> Answer]
  /\ sought \in [Tests -> SUBSET Names]
  /\ pvList \subseteq Names /\ conList \subseteq Names
  /\ rules \in PvLists
  /\ sinceCon \in Age /\ sinceIdc \in Age /\ sinceBeacon \in Age
  /\ suppressed \in BOOLEAN
  /\ leaked \in 0..MaxLeaked
  /\ phase \in Phase /\ run \in {"up", "crashed"}

\* The shape of the data structures: inductive together with Typed.
Structure ==
  /\ ListsFollowState
  /\ ParkedTestsAreWaitedFor
  /\ VcFollowsPv
  /\ NoActivationWhileConnecting
  /\ StateFollowsChannel

-----------------------------------------------------------------------------
(* Lemmas about the helpers.                                               *)

\* Ages stay under their cap.
LEMMA OlderType == ASSUME NEW a \in Age PROVE Older(a) \in Age
BY TimesAssumption DEF Older, Age

\* An allowed request names a PV the gateway can make.
LEMMA RealNameType ==
  ASSUME Typed, NEW x \in Requests, Allowed(x) PROVE RealName(x) \in Names
BY PvListsAssumption DEF Typed, Allowed, RealName

\* A beacon anomaly, sent or suppressed, keeps the types.
LEMMA BeaconType ==
  ASSUME Typed, BeaconAnomaly
  PROVE  sinceBeacon' \in Age /\ suppressed' \in BOOLEAN
<1>1. 0 \in Age
  BY TimesAssumption DEF Age
<1>2. CASE sinceBeacon >= ReconnectInhibit
  BY <1>1, <1>2 DEF BeaconAnomaly
<1>3. CASE ~(sinceBeacon >= ReconnectInhibit)
  BY <1>3 DEF Typed, BeaconAnomaly
<1>4. QED
  BY <1>2, <1>3

\* What ~gatePvData does to the objects S keeps the types.
LEMMA DestroyType ==
  ASSUME Typed, NEW S \in SUBSET Names, Destroy(S)
  PROVE  /\ st' \in [Names -> PvState] /\ vc' \in [Names -> VcState]
         /\ pvc' \in [Names -> BOOLEAN] /\ need' \in [Names -> BOOLEAN]
         /\ up' \in [Names -> BOOLEAN]
         /\ da' \in [Names -> Age] /\ nc' \in [Names -> Age]
         /\ eio' \in [Names -> SUBSET Tests]
<1>1. 0 \in Age
  BY TimesAssumption DEF Age
<1>2. QED
  BY <1>1 DEF Typed, Destroy, Unpark, PvState, VcState

-----------------------------------------------------------------------------
\* The gateway starts well typed.
LEMMA TypedInit == Init => Typed
<1> SUFFICES ASSUME Init PROVE Typed
  OBVIOUS
<1>1. 0 \in Age /\ 0 \in 0..MaxLeaked
  BY TimesAssumption DEF Age
<1>2. st \in [Names -> PvState] /\ vc \in [Names -> VcState]
  BY DEF Init, PvState, VcState
<1>3. pvc \in [Names -> BOOLEAN] /\ need \in [Names -> BOOLEAN] /\ up \in [Names -> BOOLEAN]
  BY DEF Init
<1>4. da \in [Names -> Age] /\ nc \in [Names -> Age]
  BY <1>1 DEF Init
<1>5. /\ eio \in [Names -> SUBSET Tests] /\ answer \in [Tests -> Answer]
      /\ sought \in [Tests -> SUBSET Names]
  BY DEF Init, Answer
<1>6. QED
  BY <1>1, <1>2, <1>3, <1>4, <1>5 DEF Init, Typed, Phase

\* Every action keeps the types.
LEMMA TypedStep == Typed /\ [Next]_vars => Typed'
<1> SUFFICES ASSUME Typed, [Next]_vars PROVE Typed'
  OBVIOUS
<1> USE DEF Typed
<1>1. ASSUME NEW t \in Tests, NEW x \in Requests, ExistTestKnown(t, x)
      PROVE Typed'
  BY <1>1, RealNameType DEF ExistTestKnown, Reply, Answer, pvVars, listVars, clockVars
<1>2. ASSUME NEW t \in Tests, NEW x \in Requests, ExistTestPending(t, x)
      PROVE Typed'
  BY <1>2, RealNameType DEF ExistTestPending, Park, Answer, pvVars, listVars, clockVars
<1>3. ASSUME NEW t \in Tests, NEW x \in Requests, ExistTestNew(t, x)
      PROVE Typed'
  BY <1>3, RealNameType, TimesAssumption
     DEF ExistTestNew, NewPv, Park, Answer, PvState, Age, clockVars
<1>4. ASSUME NEW t \in Tests, NEW x \in Requests, ExistTestNewFails(t, x)
      PROVE Typed'
  BY <1>4, RealNameType, TimesAssumption
     DEF ExistTestNewFails, Reply, Answer, pvVars, listVars, clockVars
<1>5. ASSUME NEW x \in Requests, Attach(x)
      PROVE Typed'
  BY <1>5, RealNameType, TimesAssumption, ModeAssumption
     DEF Attach, PvState, VcState, Age, testVars, listVars, clockVars
<1>6. ASSUME NEW x \in Requests, AttachGetFails(x)
      PROVE Typed'
  BY <1>6, RealNameType, TimesAssumption
     DEF AttachGetFails, PvState, Age, testVars, listVars, clockVars
<1>7. ASSUME NEW x \in Requests, AttachRefused(x)
      PROVE Typed'
  BY <1>7, RealNameType DEF AttachRefused, testVars, listVars, clockVars
<1>8. ASSUME NEW n \in Names, VcDestroy(n)
      PROVE Typed'
  BY <1>8, TimesAssumption
     DEF VcDestroy, PvState, VcState, Age, testVars, listVars, clockVars
<1>9. ASSUME NEW n \in Names, LifeFromConnect(n)
      PROVE Typed'
  BY <1>9, TimesAssumption
     DEF LifeFromConnect, Flush, Unpark, PostAll, PvState, Answer, Age, clockVars
<1>10. ASSUME NEW n \in Names, Revive(n)
       PROVE Typed'
  <2>1. sinceBeacon' \in Age /\ suppressed' \in BOOLEAN
    BY <1>10, BeaconType DEF Revive
  <2>2. da' \in [Names -> Age]
    BY <1>10, TimesAssumption DEF Revive, Age
  <2>3. QED
    BY <1>10, <2>1, <2>2 DEF Revive, PvState, testVars, listVars
<1>11. ASSUME NEW n \in Names, ConnectionLost(n)
       PROVE Typed'
  <2>1. 0 \in Age
    BY TimesAssumption DEF Age
  <2>2. st' \in [Names -> PvState] /\ vc' \in [Names -> VcState]
    BY <1>11 DEF ConnectionLost, PvState, VcState
  <2>3. /\ pvc' \in [Names -> BOOLEAN] /\ need' \in [Names -> BOOLEAN]
        /\ up' \in [Names -> BOOLEAN]
        /\ da' \in [Names -> Age] /\ nc' \in [Names -> Age]
    BY <1>11, <2>1 DEF ConnectionLost
  <2>4. QED
    BY <1>11, <2>2, <2>3 DEF ConnectionLost, testVars, listVars, clockVars
<1>12. ASSUME NEW n \in Names, FirstEvent(n)
       PROVE Typed'
  BY <1>12 DEF FirstEvent, VcState, testVars, listVars, clockVars
<1>13. CASE Tick
  BY <1>13, OlderType DEF Tick, testVars, listVars
<1>14. CASE ConnectCleanup
  <2>1. 0 \in Age
    BY TimesAssumption DEF Age
  <2>2. ASSUME NEW S \in SUBSET Names, DeathFromConnect(S)
        PROVE  /\ st' \in [Names -> PvState] /\ vc' \in [Names -> VcState]
               /\ pvc' \in [Names -> BOOLEAN] /\ need' \in [Names -> BOOLEAN]
               /\ da' \in [Names -> Age] /\ nc' \in [Names -> Age]
               /\ eio' \in [Names -> SUBSET Tests] /\ answer' \in [Tests -> Answer]
               /\ sought' \in [Tests -> SUBSET Names]
               /\ pvList' \subseteq Names
    BY <2>1, <2>2 DEF DeathFromConnect, Flush, Unpark, PostAll, PvState, VcState, Answer
  <2>3. CASE sinceCon < ConnectTimeout
    BY <1>14, <2>3 DEF ConnectCleanup, Phase, pvVars, testVars, listVars
  <2>4. CASE ~(sinceCon < ConnectTimeout)
    <3> DEFINE old == {n \in conList : da[n] >= ConnectTimeout}
    <3>1. DeathFromConnect(InState(old, "Connect")) /\ InState(old, "Connect") \subseteq Names
      BY <1>14, <2>4 DEF ConnectCleanup, InState
    <3> HIDE DEF old
    <3>2. /\ conList' \subseteq Names /\ sinceCon' \in Age /\ phase' \in Phase
          /\ UNCHANGED <<up, rules, sinceIdc, sinceBeacon, suppressed, leaked, run>>
      BY <1>14, <2>1, <2>4 DEF ConnectCleanup, Phase
    <3>3. QED
      BY <2>2, <3>1, <3>2
  <2>5. QED
    BY <2>3, <2>4
<1>15. CASE InactiveDeadCleanup
  <2>1. CASE sinceIdc < DeadTimeout /\ sinceIdc < InactiveTimeout
    BY <1>15, <2>1 DEF InactiveDeadCleanup, Phase, pvVars
  <2>2. CASE ~(sinceIdc < DeadTimeout /\ sinceIdc < InactiveTimeout)
    <3> DEFINE old == {n \in pvList : Expired(n)}
    <3>1. old \subseteq Names /\ Destroy(old)
      BY <1>15, <2>2 DEF InactiveDeadCleanup
    <3>2. /\ pvList' \subseteq Names /\ sinceIdc' \in Age /\ phase' \in Phase
          /\ UNCHANGED <<answer, sought, conList, rules, sinceCon, sinceBeacon, suppressed,
                         leaked, run>>
      BY <1>15, <2>2, TimesAssumption DEF InactiveDeadCleanup, Phase, Age
    <3> HIDE DEF old
    <3>3. QED
      BY DestroyType, <3>1, <3>2
  <2>3. QED
    BY <2>1, <2>2
<1>16. CASE NoCommand
  BY <1>16 DEF NoCommand, Phase, pvVars, testVars, listVars, clockVars
<1>17. CASE NewAs
  <2>1. PICK f \in PvLists : KillDenied(f)
    BY <1>17 DEF NewAs
  <2>2. PICK S \in SUBSET Names, T \in SUBSET Names :
          Destroy(S) /\ PostAll(T, "notHere")
    BY <2>1 DEF KillDenied, InState
  <2>3. answer' \in [Tests -> Answer] /\ sought' = sought
    BY <2>1, <2>2 DEF PostAll, Answer, KillDenied
  <2>4. /\ pvList' \subseteq Names /\ conList' \subseteq Names /\ rules' \in PvLists
        /\ phase' \in Phase
        /\ UNCHANGED <<sinceCon, sinceIdc, leaked, run>>
    BY <1>17, <2>1 DEF NewAs, KillDenied, Phase
  <2>5. sinceBeacon' \in Age /\ suppressed' \in BOOLEAN
    BY <1>17, BeaconType DEF NewAs
  <2>6. QED
    BY DestroyType, <2>2, <2>3, <2>4, <2>5
<1>18. CASE TouchFreed
  BY <1>18 DEF TouchFreed, pvVars, testVars, listVars, clockVars
<1>19. CASE NewAsTouchFreed
  BY <1>19 DEF NewAsTouchFreed, pvVars, testVars, listVars, clockVars
<1>20. CASE Restart
  <2>1. 0 \in Age /\ 0 \in 0..MaxLeaked
    BY TimesAssumption DEF Age
  <2>2. st' \in [Names -> PvState] /\ vc' \in [Names -> VcState]
    BY <1>20 DEF Restart, PvState, VcState
  <2>3. /\ pvc' \in [Names -> BOOLEAN] /\ need' \in [Names -> BOOLEAN]
        /\ up' \in [Names -> BOOLEAN]
    BY <1>20 DEF Restart
  <2>4. da' \in [Names -> Age] /\ nc' \in [Names -> Age]
    BY <1>20, <2>1 DEF Restart
  <2>5. /\ eio' \in [Names -> SUBSET Tests] /\ answer' \in [Tests -> Answer]
        /\ sought' \in [Tests -> SUBSET Names]
    BY <1>20 DEF Restart, Answer
  <2>6. QED
    BY <1>20, <2>1, <2>2, <2>3, <2>4, <2>5 DEF Restart, Phase
<1>21. CASE UNCHANGED vars
  BY <1>21 DEF vars, pvVars, testVars, listVars, clockVars
<1>22. QED
  BY <1>1, <1>2, <1>3, <1>4, <1>5, <1>6, <1>7, <1>8, <1>9, <1>10, <1>11, <1>12,
     <1>13, <1>14, <1>15, <1>16, <1>17, <1>18, <1>19, <1>20, <1>21 DEF Next

\* Every behaviour of the gateway is well typed.
THEOREM AlwaysTyped == Spec => []Typed
BY TypedInit, TypedStep, PTL DEF Spec
-----------------------------------------------------------------------------

\* With no object there is nothing to disagree.
LEMMA StructureInit == Init => Structure
BY DEF Init, Structure, ListsFollowState, ParkedTestsAreWaitedFor, VcFollowsPv,
       NoActivationWhileConnecting, StateFollowsChannel

\* The part of Structure about parked tests looks at nothing else.
LEMMA SameTests ==
  ASSUME Structure, UNCHANGED <<eio, answer>>,
         \A n \in Names : eio[n] # {} => st'[n] = st[n]
  PROVE  ParkedTestsAreWaitedFor'
BY DEF Structure, ParkedTestsAreWaitedFor

\* All who wait for a PV of W get an answer; no one else of S is waited for.
LEMMA FlushedTests ==
  ASSUME Typed, Structure, NEW S \in SUBSET Names, NEW W \in SUBSET S, NEW a,
         a # "parked", Unpark(S), PostAll(W, a),
         \A n \in S \ W : eio[n] = {},
         \A n \in Names \ S : st'[n] = st[n]
  PROVE  ParkedTestsAreWaitedFor'
<1>1. /\ \A n \in S : eio'[n] = {}
      /\ \A n \in Names \ S : eio'[n] = eio[n]
  BY DEF Unpark
<1>2. \A t \in Tests : answer'[t] = IF \E n \in W : t \in eio[n] THEN a ELSE answer[t]
  BY DEF PostAll
<1>3. ASSUME NEW t \in Tests
      PROVE  answer'[t] = "parked" <=> \E n \in Names : t \in eio'[n]
  <2>1. CASE \E n \in W : t \in eio[n]
    BY <1>1, <1>2, <2>1 DEF Structure, ParkedTestsAreWaitedFor
  <2>2. CASE ~\E n \in W : t \in eio[n]
    BY <1>1, <1>2, <2>2 DEF Structure, ParkedTestsAreWaitedFor
  <2>3. QED
    BY <2>1, <2>2
<1>4. \A n \in Names : eio'[n] # {} => st'[n] = "Connect"
  BY <1>1 DEF Structure, ParkedTestsAreWaitedFor
<1>5. \A n, m \in Names : n # m => eio'[n] \cap eio'[m] = {}
  BY <1>1 DEF Structure, ParkedTestsAreWaitedFor
<1>6. QED
  BY <1>3, <1>4, <1>5 DEF ParkedTestsAreWaitedFor

\* The objects S, none of which has an unanswered test, are deleted and leave
\* the lists; the others stay where they are.
LEMMA DestroyStructure ==
  ASSUME Typed, Structure, NEW S \in SUBSET Names, Destroy(S),
         \A n \in Names \ S : (n \in pvList' <=> n \in pvList)
                              /\ (n \in conList' <=> n \in conList)
  PROVE  /\ ListsFollowState' /\ VcFollowsPv'
         /\ NoActivationWhileConnecting' /\ StateFollowsChannel'
<1>1. \A n \in S : st'[n] = "None" /\ ~pvc'[n] /\ ~up'[n] /\ vc'[n] = "none"
  BY DEF Destroy
<1>2. \A n \in Names \ S : /\ st'[n] = st[n] /\ pvc'[n] = pvc[n] /\ need'[n] = need[n]
                           /\ up'[n] = up[n] /\ vc'[n] = vc[n]
  BY DEF Destroy, Typed
<1>3. QED
  BY <1>1, <1>2
     DEF Structure, ListsFollowState, VcFollowsPv, NoActivationWhileConnecting,
         StateFollowsChannel

\* The PVs S, all connecting, die and answer their tests.
LEMMA DeathStructure ==
  ASSUME Typed, Structure, NEW S \in SUBSET Names, DeathFromConnect(S), UNCHANGED up,
         \A n \in S : st[n] = "Connect",
         \A n \in Names \ S : st[n] = "Connect" => n \in conList'
  PROVE  Structure'
<1>1. \A n \in S : st'[n] = "Dead" /\ ~pvc'[n] /\ ~up'[n] /\ vc'[n] = "none" /\ eio'[n] = {}
  BY DEF DeathFromConnect, Flush, Unpark, Structure, StateFollowsChannel,
         NoActivationWhileConnecting, VcFollowsPv
<1>2. \A n \in Names \ S : /\ st'[n] = st[n] /\ pvc'[n] = pvc[n] /\ need'[n] = need[n]
                           /\ up'[n] = up[n] /\ vc'[n] = vc[n] /\ eio'[n] = eio[n]
  BY DEF DeathFromConnect, Flush, Unpark, Typed
<1>3. pvList' = pvList \cup S
  BY DEF DeathFromConnect
<1>4. ListsFollowState'
  BY <1>1, <1>2, <1>3 DEF Structure, ListsFollowState
<1>5. ParkedTestsAreWaitedFor'
  BY <1>2, FlushedTests DEF DeathFromConnect, Flush
<1>6. VcFollowsPv' /\ NoActivationWhileConnecting' /\ StateFollowsChannel'
  BY <1>1, <1>2
     DEF Structure, VcFollowsPv, NoActivationWhileConnecting, StateFollowsChannel
<1>7. QED
  BY <1>4, <1>5, <1>6 DEF Structure

\* Every action keeps the structure.
LEMMA StructureStep == Typed /\ Structure /\ [Next]_vars => Structure'
<1> SUFFICES ASSUME Typed, Structure, [Next]_vars PROVE Structure'
  OBVIOUS
<1> USE DEF Structure
<1>1. ASSUME NEW t \in Tests, NEW x \in Requests, ExistTestKnown(t, x)
      PROVE Structure'
  <2>1. UNCHANGED <<st, pvc, need, up, vc, pvList, conList, eio>>
    BY <1>1 DEF ExistTestKnown, Reply, pvVars, listVars
  <2>2. ParkedTestsAreWaitedFor'
    BY <1>1 DEF ExistTestKnown, Reply, ParkedTestsAreWaitedFor, Typed, pvVars
  <2>3. QED
    BY <2>1, <2>2 DEF ListsFollowState, VcFollowsPv, NoActivationWhileConnecting,
                      StateFollowsChannel
<1>2. ASSUME NEW t \in Tests, NEW x \in Requests, ExistTestPending(t, x)
      PROVE Structure'
  \* A PV with a live node on pv_con_list only is connecting.
  <2>1. RealName(x) \in Names /\ st[RealName(x)] = "Connect"
    BY <1>2, RealNameType
       DEF ExistTestPending, Freed, ListsFollowState, Typed, PvState
  <2>2. ParkedTestsAreWaitedFor'
    BY <1>2, <2>1 DEF ExistTestPending, Park, ParkedTestsAreWaitedFor, Typed, pvVars
  <2>3. QED
    BY <1>2, <2>2 DEF ExistTestPending, ListsFollowState, VcFollowsPv,
                      NoActivationWhileConnecting, StateFollowsChannel, pvVars, listVars
<1>3. ASSUME NEW t \in Tests, NEW x \in Requests, ExistTestNew(t, x)
      PROVE Structure'
  <2> DEFINE n == RealName(x)
  \* A PV that no list holds does not exist.
  <2>1. n \in Names /\ n \notin pvList /\ st[n] = "None"
    BY <1>3, RealNameType
       DEF ExistTestNew, ListsFollowState, Typed, PvState
  <2>2. /\ st' = [st EXCEPT ![n] = "Connect"] /\ pvc' = [pvc EXCEPT ![n] = FALSE]
        /\ need' = [need EXCEPT ![n] = FALSE] /\ conList' = conList \cup {n}
        /\ Park(t, n) /\ answer[t] # "parked" /\ UNCHANGED <<up, vc, pvList>>
    BY <1>3 DEF ExistTestNew, NewPv
  <2> HIDE DEF n
  <2>3. ListsFollowState'
    BY <2>1, <2>2 DEF ListsFollowState, Typed
  <2>4. ParkedTestsAreWaitedFor'
    BY <2>1, <2>2 DEF Park, ParkedTestsAreWaitedFor, Typed
  <2>5. VcFollowsPv' /\ NoActivationWhileConnecting' /\ StateFollowsChannel'
    BY <2>1, <2>2 DEF VcFollowsPv, NoActivationWhileConnecting, StateFollowsChannel, Typed
  <2>6. QED
    BY <2>3, <2>4, <2>5
<1>4. ASSUME NEW t \in Tests, NEW x \in Requests, ExistTestNewFails(t, x)
      PROVE Structure'
  <2>1. ParkedTestsAreWaitedFor'
    BY <1>4 DEF ExistTestNewFails, Reply, ParkedTestsAreWaitedFor, Typed, pvVars
  <2>2. QED
    BY <1>4, <2>1 DEF ExistTestNewFails, ListsFollowState, VcFollowsPv,
                      NoActivationWhileConnecting, StateFollowsChannel, pvVars, listVars
<1>5. ASSUME NEW x \in Requests, Attach(x)
      PROVE Structure'
  <2> DEFINE n == RealName(x)
  <2>1. /\ n \in Names /\ st[n] = "Inactive"
        /\ st' = [st EXCEPT ![n] = "Active"] /\ pvc' = [pvc EXCEPT ![n] = TRUE]
        /\ need' = [need EXCEPT ![n] = @ \/ CacheMode]
        /\ vc' = [vc EXCEPT ![n] = IF CacheMode THEN "Connect" ELSE "Ready"]
        /\ UNCHANGED <<up, eio, answer, pvList, conList>>
    BY <1>5, RealNameType DEF Attach, testVars, listVars
  <2> HIDE DEF n
  <2>2. ListsFollowState' /\ StateFollowsChannel'
    BY <2>1 DEF ListsFollowState, StateFollowsChannel, Typed
  <2>3. ParkedTestsAreWaitedFor'
    BY <2>1, SameTests DEF ParkedTestsAreWaitedFor, Typed
  <2>4. VcFollowsPv' /\ NoActivationWhileConnecting'
    BY <2>1 DEF VcFollowsPv, NoActivationWhileConnecting, Typed
  <2>5. QED
    BY <2>2, <2>3, <2>4
<1>6. ASSUME NEW x \in Requests, AttachGetFails(x)
      PROVE Structure'
  <2> DEFINE n == RealName(x)
  <2>1. /\ n \in Names /\ st[n] = "Inactive" /\ vc[n] = "none"
        /\ st' = [st EXCEPT ![n] = "Active"] /\ pvc' = [pvc EXCEPT ![n] = FALSE]
        /\ need' = [need EXCEPT ![n] = TRUE]
        /\ UNCHANGED <<up, vc, eio, answer, pvList, conList>>
    BY <1>6, RealNameType DEF AttachGetFails, testVars, listVars
  <2> HIDE DEF n
  <2>2. ListsFollowState' /\ StateFollowsChannel'
    BY <2>1 DEF ListsFollowState, StateFollowsChannel, Typed
  <2>3. ParkedTestsAreWaitedFor'
    BY <2>1, SameTests DEF ParkedTestsAreWaitedFor, Typed
  <2>4. VcFollowsPv' /\ NoActivationWhileConnecting'
    BY <2>1 DEF VcFollowsPv, NoActivationWhileConnecting, Typed
  <2>5. QED
    BY <2>2, <2>3, <2>4
<1>7. ASSUME NEW x \in Requests, AttachRefused(x)
      PROVE Structure'
  <2> DEFINE n == RealName(x)
  \* On pv_list, so not connecting: the mark is never set.
  <2>1. n \in Names /\ vc[n] = "none" /\ st[n] # "Connect"
    BY <1>7, RealNameType DEF AttachRefused, ListsFollowState
  <2>2. /\ pvc' = [pvc EXCEPT ![n] = FALSE] /\ need' = [need EXCEPT ![n] = @ \/ st[n] = "Connect"]
        /\ UNCHANGED <<st, up, vc, eio, answer, pvList, conList>>
    BY <1>7 DEF AttachRefused, testVars, listVars
  <2> HIDE DEF n
  <2>3. VcFollowsPv' /\ NoActivationWhileConnecting'
    BY <2>1, <2>2 DEF VcFollowsPv, NoActivationWhileConnecting, Typed
  <2>4. QED
    BY <2>2, <2>3 DEF ListsFollowState, ParkedTestsAreWaitedFor, StateFollowsChannel
<1>8. ASSUME NEW n \in Names, VcDestroy(n)
      PROVE Structure'
  \* A PV with a VC is Active, and goes on as Inactive.
  <2>1. /\ st[n] = "Active"
        /\ st' = [st EXCEPT ![n] = "Inactive"] /\ vc' = [vc EXCEPT ![n] = "none"]
        /\ pvc' = [pvc EXCEPT ![n] = FALSE]
        /\ need' = [need EXCEPT ![n] = @ /\ st[n] # "Connect"]
        /\ UNCHANGED <<up, eio, answer, pvList, conList>>
    BY <1>8 DEF VcDestroy, VcFollowsPv, Typed, testVars, listVars
  <2>2. ListsFollowState' /\ StateFollowsChannel'
    BY <2>1 DEF ListsFollowState, StateFollowsChannel, Typed
  <2>3. ParkedTestsAreWaitedFor'
    BY <2>1, SameTests DEF ParkedTestsAreWaitedFor, Typed
  <2>4. VcFollowsPv' /\ NoActivationWhileConnecting'
    BY <2>1 DEF VcFollowsPv, NoActivationWhileConnecting, Typed
  <2>5. QED
    BY <2>2, <2>3, <2>4
<1>9. ASSUME NEW n \in Names, LifeFromConnect(n)
      PROVE Structure'
  <2>1. ~need[n] /\ ~pvc[n] /\ st[n] = "Connect"
    BY <1>9 DEF LifeFromConnect, NoActivationWhileConnecting
  <2>2. /\ st' = [st EXCEPT ![n] = "Inactive"] /\ up' = [up EXCEPT ![n] = TRUE]
        /\ pvList' = pvList \cup {n} /\ UNCHANGED <<pvc, need, vc, conList>>
        /\ Flush({n}, "exists")
    BY <1>9, <2>1 DEF LifeFromConnect
  <2>3. ListsFollowState' /\ StateFollowsChannel'
    BY <2>1, <2>2 DEF ListsFollowState, StateFollowsChannel, Typed
  <2>4. ParkedTestsAreWaitedFor'
    BY <2>1, <2>2, FlushedTests DEF Flush, Typed
  <2>5. VcFollowsPv' /\ NoActivationWhileConnecting'
    BY <2>1, <2>2 DEF VcFollowsPv, NoActivationWhileConnecting, Typed
  <2>6. QED
    BY <2>3, <2>4, <2>5
<1>10. ASSUME NEW n \in Names, Revive(n)
       PROVE Structure'
  <2>1. /\ st[n] \in {"Disconnect", "Dead"}
        /\ st' = [st EXCEPT ![n] = "Inactive"] /\ up' = [up EXCEPT ![n] = TRUE]
        /\ UNCHANGED <<pvc, need, vc, eio, answer, pvList, conList>>
    BY <1>10 DEF Revive, testVars, listVars
  <2>2. ListsFollowState' /\ StateFollowsChannel'
    BY <2>1 DEF ListsFollowState, StateFollowsChannel, Typed
  <2>3. ParkedTestsAreWaitedFor'
    BY <2>1, SameTests DEF ParkedTestsAreWaitedFor, Typed
  <2>4. VcFollowsPv' /\ NoActivationWhileConnecting'
    BY <2>1 DEF VcFollowsPv, NoActivationWhileConnecting, Typed
  <2>5. QED
    BY <2>2, <2>3, <2>4
<1>11. ASSUME NEW n \in Names, ConnectionLost(n)
       PROVE Structure'
  <2>1. /\ st[n] \in {"Active", "Inactive"}
        /\ st' = [st EXCEPT ![n] = "Disconnect"] /\ up' = [up EXCEPT ![n] = FALSE]
        /\ vc' = [vc EXCEPT ![n] = IF st[n] = "Active" /\ pvc[n] THEN "none" ELSE @]
        /\ pvc' = [pvc EXCEPT ![n] = FALSE] /\ need' = [need EXCEPT ![n] = FALSE]
        /\ UNCHANGED <<eio, answer, pvList, conList>>
    BY <1>11 DEF ConnectionLost, testVars, listVars
  <2>2. ListsFollowState' /\ StateFollowsChannel'
    BY <2>1 DEF ListsFollowState, StateFollowsChannel, Typed
  <2>3. ParkedTestsAreWaitedFor'
    BY <2>1, SameTests DEF ParkedTestsAreWaitedFor, Typed
  <2>4. VcFollowsPv' /\ NoActivationWhileConnecting'
    BY <2>1 DEF VcFollowsPv, NoActivationWhileConnecting, Typed
  <2>5. QED
    BY <2>2, <2>3, <2>4
<1>12. ASSUME NEW n \in Names, FirstEvent(n)
       PROVE Structure'
  <2>1. VcFollowsPv' /\ NoActivationWhileConnecting'
    BY <1>12 DEF FirstEvent, VcFollowsPv, NoActivationWhileConnecting, Typed
  <2>2. QED
    BY <1>12, <2>1 DEF FirstEvent, ListsFollowState, ParkedTestsAreWaitedFor,
                       StateFollowsChannel, testVars, listVars
<1>13. CASE Tick
  BY <1>13 DEF Tick, ListsFollowState, ParkedTestsAreWaitedFor, VcFollowsPv,
               NoActivationWhileConnecting, StateFollowsChannel, testVars, listVars
<1>14. CASE ConnectCleanup
  <2>1. CASE sinceCon < ConnectTimeout
    BY <1>14, <2>1
       DEF ConnectCleanup, ListsFollowState, ParkedTestsAreWaitedFor, VcFollowsPv,
           NoActivationWhileConnecting, StateFollowsChannel, pvVars, testVars, listVars
  <2>2. CASE ~(sinceCon < ConnectTimeout)
    <3> DEFINE old  == {n \in conList : da[n] >= ConnectTimeout}
               dead == InState(old, "Connect")
    <3>1. conList' = conList \ old /\ DeathFromConnect(dead) /\ UNCHANGED up
      BY <1>14, <2>2 DEF ConnectCleanup
    <3>2. dead \in SUBSET Names /\ \A n \in dead : st[n] = "Connect"
      BY DEF InState, Typed
    \* What stays connecting is too young to leave the list.
    <3>3. \A n \in Names \ dead : st[n] = "Connect" => n \in conList'
      BY <3>1 DEF InState, ListsFollowState
    <3> HIDE DEF dead
    <3>4. QED
      BY <3>1, <3>2, <3>3, DeathStructure
  <2>3. QED
    BY <2>1, <2>2
<1>15. CASE InactiveDeadCleanup
  <2>1. CASE sinceIdc < DeadTimeout /\ sinceIdc < InactiveTimeout
    BY <1>15, <2>1
       DEF InactiveDeadCleanup, ListsFollowState, ParkedTestsAreWaitedFor, VcFollowsPv,
           NoActivationWhileConnecting, StateFollowsChannel, pvVars
  <2>2. CASE ~(sinceIdc < DeadTimeout /\ sinceIdc < InactiveTimeout)
    <3> DEFINE old == {n \in pvList : Expired(n)}
    <3>1. Destroy(old) /\ pvList' = pvList \ old /\ UNCHANGED <<answer, conList>>
      BY <1>15, <2>2 DEF InactiveDeadCleanup
    <3>2. old \in SUBSET Names /\ \A n \in old : st[n] # "Connect"
      BY DEF Expired, Typed
    <3> HIDE DEF old
    <3>3. /\ ListsFollowState' /\ VcFollowsPv'
          /\ NoActivationWhileConnecting' /\ StateFollowsChannel'
      BY <3>1, <3>2, DestroyStructure
    \* Nobody waits for an object that is not connecting.
    <3>4. eio' = eio /\ \A n \in Names \ old : st'[n] = st[n]
      BY <3>1, <3>2 DEF Destroy, Unpark, ParkedTestsAreWaitedFor, Typed
    <3>5. ParkedTestsAreWaitedFor'
      BY <3>1, <3>2, <3>4, SameTests DEF ParkedTestsAreWaitedFor
    <3>6. QED
      BY <3>3, <3>5
  <2>3. QED
    BY <2>1, <2>2
<1>16. CASE NoCommand
  BY <1>16 DEF NoCommand, ListsFollowState, ParkedTestsAreWaitedFor, VcFollowsPv,
               NoActivationWhileConnecting, StateFollowsChannel, pvVars, testVars, listVars
<1>17. CASE NewAs
  <2>1. PICK f \in PvLists : KillDenied(f)
    BY <1>17 DEF NewAs
  <2> DEFINE known   == {n \in pvList : n \notin DOMAIN f}
             fresh   == {n \in conList \ pvList : n \notin DOMAIN f}
             waiting == InState(fresh, "Connect")
             gone    == known \cup fresh
  <2>2. /\ Destroy(gone) /\ PostAll(waiting, "notHere")
        /\ pvList' = (pvList \ known) \cup fresh
        /\ conList' = conList \ fresh
    <3>1. /\ known = pvList \cap {n \in Names : n \notin DOMAIN f}
          /\ fresh = (conList \ pvList) \cap {n \in Names : n \notin DOMAIN f}
      BY DEF Typed
    <3>2. QED
      BY <2>1, <3>1 DEF KillDenied
  <2>3. /\ gone \in SUBSET Names /\ waiting \subseteq gone
        /\ \A n \in gone \ waiting : st[n] # "Connect"
        /\ \A n \in Names \ gone : n \notin known /\ n \notin fresh
    BY DEF Typed, InState, ListsFollowState
  <2> HIDE DEF known, fresh, waiting, gone
  <2>4. /\ ListsFollowState' /\ VcFollowsPv'
        /\ NoActivationWhileConnecting' /\ StateFollowsChannel'
    BY <2>2, <2>3, DestroyStructure
  \* Only the objects in waiting have tests, and all of these are answered.
  <2>5. /\ \A n \in Names \ gone : st'[n] = st[n]
        /\ \A n \in gone \ waiting : eio[n] = {}
    BY <2>2, <2>3 DEF Destroy, ParkedTestsAreWaitedFor
  <2>6. ParkedTestsAreWaitedFor'
    BY <2>2, <2>3, <2>5, FlushedTests DEF Destroy
  <2>7. QED
    BY <2>4, <2>6
<1>18. CASE TouchFreed
  BY <1>18 DEF TouchFreed, ListsFollowState, ParkedTestsAreWaitedFor, VcFollowsPv,
               NoActivationWhileConnecting, StateFollowsChannel, pvVars, testVars, listVars
<1>19. CASE NewAsTouchFreed
  BY <1>19 DEF NewAsTouchFreed, ListsFollowState, ParkedTestsAreWaitedFor, VcFollowsPv,
               NoActivationWhileConnecting, StateFollowsChannel, pvVars, testVars, listVars
<1>20. CASE Restart
  BY <1>20 DEF Restart, ListsFollowState, ParkedTestsAreWaitedFor, VcFollowsPv,
               NoActivationWhileConnecting, StateFollowsChannel
<1>21. CASE UNCHANGED vars
  BY <1>21 DEF vars, ListsFollowState, ParkedTestsAreWaitedFor, VcFollowsPv,
               NoActivationWhileConnecting, StateFollowsChannel, pvVars, testVars, listVars
<1>22. QED
  BY <1>1, <1>2, <1>3, <1>4, <1>5, <1>6, <1>7, <1>8, <1>9, <1>10, <1>11, <1>12,
     <1>13, <1>14, <1>15, <1>16, <1>17, <1>18, <1>19, <1>20, <1>21 DEF Next

\* The lists, the parked tests, the served PVs and the channels always agree
\* with the states of the PVs.
THEOREM StructureHolds == Spec => []Structure
<1>1. Init => Typed /\ Structure
  BY TypedInit, StructureInit
<1>2. Typed /\ Structure /\ [Next]_vars => Typed' /\ Structure'
  BY TypedStep, StructureStep
<1>3. QED
  BY <1>1, <1>2, PTL DEF Spec

\* connectCleanup and pvExistTest find every object on the list its state
\* implies.
THEOREM ListsHold == Spec => []ListsFollowState
<1>1. Structure => ListsFollowState
  BY DEF Structure
<1>2. QED
  BY <1>1, StructureHolds, PTL

\* A postponed exist test waits on exactly one PV, which is still connecting:
\* no handler answers it and leaves it queued, or deletes its PV and forgets it.
THEOREM ParkedTestsHold == Spec => []ParkedTestsAreWaitedFor
<1>1. Structure => ParkedTestsAreWaitedFor
  BY DEF Structure
<1>2. QED
  BY <1>1, StructureHolds, PTL

\* A gateVcData and the Active gatePvData under it point at each other.
THEOREM VcHolds == Spec => []VcFollowsPv
<1>1. Structure => VcFollowsPv
  BY DEF Structure
<1>2. QED
  BY <1>1, StructureHolds, PTL

\* The branch of death() for a connecting PV with a VC, "Should never be the
\* case" (gatePv.cc:620), is dead code.
THEOREM NoEarlyActivation == Spec => []NoActivationWhileConnecting
<1>1. Structure => NoActivationWhileConnecting
  BY DEF Structure
<1>2. QED
  BY <1>1, StructureHolds, PTL

\* gatePvData::pv_state says connected exactly while the CA channel is.
THEOREM ChannelStateHolds == Spec => []StateFollowsChannel
<1>1. Structure => StateFollowsChannel
  BY DEF Structure
<1>2. QED
  BY <1>1, StructureHolds, PTL

-----------------------------------------------------------------------------
(* The statistics.                                                         *)

\* The counters are integers that count what they say.
Counted == count \in [Counter -> Int] /\ CountersMatch

\* A number of PVs in one state is a natural number.
LEMMA HowManyNat ==
  ASSUME NEW S \in SUBSET Names, NEW s
  PROVE  IsFiniteSet(InState(S, s)) /\ HowMany(S, s) \in Nat
<1>1. InState(S, s) \subseteq Names
  BY DEF InState
<1>2. QED
  BY <1>1, NamesAssumption, FS_Subset, FS_CardinalityType DEF HowMany

\* When the PVs S move to the state b, each state loses those of S it had and b
\* gains S.
LEMMA HowManyMoved ==
  ASSUME NEW S \in SUBSET Names, NEW b, NEW s,
         \A n \in S : st'[n] = b, \A n \in Names \ S : st'[n] = st[n]
  PROVE  HowMany(Names, s)' = HowMany(Names, s) - HowMany(S, s)
                               + (IF s = b THEN Cardinality(S) ELSE 0)
<1> DEFINE stay == InState(Names \ S, s)
           come == IF s = b THEN S ELSE {}
<1>1. /\ InState(Names, s) = stay \cup InState(S, s)
      /\ stay \cap InState(S, s) = {}
      /\ InState(Names, s)' = stay \cup come
      /\ stay \cap come = {}
  BY DEF InState
<1>2. IsFiniteSet(stay) /\ IsFiniteSet(InState(S, s)) /\ HowMany(S, s) \in Nat
  BY HowManyNat
<1>3. IsFiniteSet(come) /\ Cardinality(come) = IF s = b THEN Cardinality(S) ELSE 0
  BY NamesAssumption, FS_Subset, FS_EmptySet
<1>4. Cardinality(stay) \in Nat /\ Cardinality(come) \in Nat
  BY <1>2, <1>3, FS_CardinalityType
<1> HIDE DEF stay, come
<1>5. Cardinality(InState(Names, s)) = Cardinality(stay) + Cardinality(InState(S, s))
  BY <1>1, <1>2, <1>4, FS_Union, FS_EmptySet DEF HowMany
<1>6. Cardinality(InState(Names, s)') = Cardinality(stay) + Cardinality(come)
  BY <1>1, <1>2, <1>3, <1>4, FS_Union, FS_EmptySet
<1>7. HowMany(Names, s)' = Cardinality(InState(Names, s)')
  BY DEF HowMany
<1>8. QED
  BY <1>2, <1>3, <1>4, <1>5, <1>6, <1>7 DEF HowMany

\* One PV moves from its state to the state b.
LEMMA OneMoved ==
  ASSUME Typed, NEW n \in Names, NEW b, st' = [st EXCEPT ![n] = b], NEW s
  PROVE  HowMany(Names, s)' = HowMany(Names, s) + (IF s = b THEN 1 ELSE 0)
                                                - (IF s = st[n] THEN 1 ELSE 0)
<1>1. InState({n}, s) = IF s = st[n] THEN {n} ELSE {}
  BY DEF InState
<1>2. HowMany({n}, s) = (IF s = st[n] THEN 1 ELSE 0) /\ Cardinality({n}) = 1
  BY <1>1, FS_EmptySet, FS_Singleton DEF HowMany
<1>3. HowMany(Names, s)' = HowMany(Names, s) - HowMany({n}, s)
                            + (IF s = b THEN Cardinality({n}) ELSE 0)
  <2>1. /\ {n} \in SUBSET Names
        /\ \A m \in {n} : st'[m] = b
        /\ \A m \in Names \ {n} : st'[m] = st[m]
    BY DEF Typed
  <2>2. QED
    BY <2>1, HowManyMoved
<1>4. HowMany(Names, s) \in Nat
  BY HowManyNat
<1>5. QED
  BY <1>2, <1>3, <1>4

\* The PVs keep their states.
LEMMA NoneMoved ==
  ASSUME UNCHANGED st, NEW s
  PROVE  HowMany(Names, s)' = HowMany(Names, s)
BY DEF HowMany, InState

\* A set of served PVs is finite.
LEMMA ServedNat == IsFiniteSet(Served) /\ Cardinality(Served) \in Nat
BY NamesAssumption, FS_Subset, FS_CardinalityType DEF Served

\* One PV gets its gateVcData.
LEMMA OneServed ==
  ASSUME Typed, NEW n \in Names, vc[n] = "none", NEW v, v # "none",
         vc' = [vc EXCEPT ![n] = v]
  PROVE  Cardinality(Served') = Cardinality(Served) + 1
<1>1. Served' = Served \cup {n} /\ n \notin Served
  BY DEF Served, Typed
<1>2. QED
  BY <1>1, ServedNat, FS_AddElement

\* One PV loses its gateVcData.
LEMMA OneDropped ==
  ASSUME Typed, NEW n \in Names, vc[n] # "none", vc' = [vc EXCEPT ![n] = "none"]
  PROVE  Cardinality(Served') = Cardinality(Served) - 1
<1>1. Served' = Served \ {n} /\ n \in Served
  BY DEF Served, Typed
<1>2. QED
  BY <1>1, ServedNat, FS_RemoveElement

\* The PVs S lose their gateVcData objects.
LEMMA SetDropped ==
  ASSUME NEW S \in SUBSET Names,
         \A n \in S : vc'[n] = "none", \A n \in Names \ S : vc'[n] = vc[n]
  PROVE  /\ Cardinality(Served') = Cardinality(Served) - Cardinality({n \in S : vc[n] # "none"})
         /\ Cardinality({n \in S : vc[n] # "none"}) \in Nat
<1> DEFINE drop == {n \in S : vc[n] # "none"}
<1>1. Served' = Served \ drop /\ Served \cap drop = drop /\ drop \in SUBSET Served
  BY DEF Served
<1>2. IsFiniteSet(drop) /\ Cardinality(drop) \in Nat
  BY <1>1, ServedNat, FS_Subset, FS_CardinalityType
<1> HIDE DEF drop
<1>3. Cardinality(Served \ drop) = Cardinality(Served) - Cardinality(Served \cap drop)
  BY <1>2, ServedNat, FS_Difference
<1>4. Cardinality(Served') = Cardinality(Served) - Cardinality(drop)
  BY <1>1, <1>3
<1>5. QED
  BY <1>2, <1>4 DEF drop

-----------------------------------------------------------------------------
\* Counters that are all zero are right when there are no objects.
LEMMA FreshCounters ==
  /\ /\ st = [n \in Names |-> "None"] /\ vc = [n \in Names |-> "none"]
     /\ count = [c \in Counter |-> 0] /\ leaked = 0
     => Counted
  /\ /\ st' = [n \in Names |-> "None"] /\ vc' = [n \in Names |-> "none"]
     /\ count' = [c \in Counter |-> 0] /\ leaked' = 0
     => Counted'
<1>1. ASSUME NEW S, S = {n \in Names : FALSE} PROVE Cardinality(S) = 0
  BY <1>1, FS_EmptySet
<1>2. ASSUME st = [n \in Names |-> "None"], vc = [n \in Names |-> "none"],
             count = [c \in Counter |-> 0], leaked = 0
      PROVE  Counted
  <2>1. \A s \in PvState \ {"None"} : HowMany(Names, s) = 0
    BY <1>1, <1>2 DEF HowMany, InState
  <2>2. Cardinality(Served) = 0
    BY <1>1, <1>2 DEF Served
  <2>3. QED
    BY <1>2, <2>1, <2>2 DEF Counted, CountersMatch, Counter, PvState
<1>3. ASSUME st' = [n \in Names |-> "None"], vc' = [n \in Names |-> "none"],
             count' = [c \in Counter |-> 0], leaked' = 0
      PROVE  Counted'
  <2>1. \A s \in PvState \ {"None"} : HowMany(Names, s)' = 0
    BY <1>1, <1>3 DEF HowMany, InState
  <2>2. Cardinality(Served') = 0
    BY <1>1, <1>3 DEF Served
  <2>3. QED
    BY <1>3, <2>1, <2>2 DEF Counted, CountersMatch, Counter, PvState
<1>4. QED
  BY <1>2, <1>3

\* The counters after an adjustment, one by one.
LEMMA Adjusted ==
  ASSUME Counted, NEW plus, NEW minus, count' = Adjust(plus, minus)
  PROVE  /\ count' \in [Counter -> Int]
         /\ \A c \in Counter : count'[c] = count[c] + (IF c \in plus THEN 1 ELSE 0)
                                                  - (IF c \in minus THEN 1 ELSE 0)
BY DEF Adjust, Counted

\* The gateway starts with no objects and all counters zero.
LEMMA CountedInit == Init => Counted
BY FreshCounters DEF Init

\* Deleting the objects S with the statistics of their death and deletion.
LEMMA CountedDestroy ==
  ASSUME Typed, Counted, NEW S \in SUBSET Names, Destroy(S), count' = Uncounted(S),
         UNCHANGED leaked
  PROVE  Counted'
<1> DEFINE drop == Cardinality({n \in S : vc[n] # "none"})
<1>1. /\ \A s : HowMany(Names, s) \in Nat /\ HowMany(S, s) \in Nat
      /\ Cardinality(Served) \in Nat
      /\ leaked \in Nat
  BY HowManyNat, ServedNat, TimesAssumption DEF Typed
<1>2. \A s \in PvState \ {"None"} : HowMany(Names, s)' = HowMany(Names, s) - HowMany(S, s)
  <2>1. /\ \A n \in S : st'[n] = "None"
        /\ \A n \in Names \ S : st'[n] = st[n]
    BY DEF Destroy
  <2>2. ASSUME NEW s \in PvState \ {"None"}
        PROVE  HowMany(Names, s)' = HowMany(Names, s) - HowMany(S, s)
    <3>1. HowMany(Names, s)' = HowMany(Names, s) - HowMany(S, s)
                                + (IF s = "None" THEN Cardinality(S) ELSE 0)
      BY <2>1, HowManyMoved
    <3>2. QED
      BY <1>1, <3>1
  <2>3. QED
    BY <2>2
<1>3. Cardinality(Served') = Cardinality(Served) - drop /\ drop \in Nat
  BY SetDropped DEF Destroy
<1> HIDE DEF drop
<1>4. count' = [count EXCEPT
        !["active"] = @ - HowMany(S, "Active"),
        !["inactive"] = @ - HowMany(S, "Inactive"),
        !["connecting"] = @ - HowMany(S, "Connect"),
        !["dead"] = @ - HowMany(S, "Dead"),
        !["disconnected"] = @ - HowMany(S, "Disconnect"),
        !["alive"] = @ - (HowMany(S, "Active") + HowMany(S, "Inactive")),
        !["unconnected"] = @ - (HowMany(S, "Connect") + HowMany(S, "Dead")
                                  + HowMany(S, "Disconnect")),
        !["pv"] = @ - (HowMany(S, "Active") + HowMany(S, "Inactive"))
                    - (HowMany(S, "Connect") + HowMany(S, "Dead") + HowMany(S, "Disconnect")),
        !["vc"] = @ - drop]
  BY DEF Uncounted, drop
<1>5. QED
  BY <1>1, <1>2, <1>3, <1>4 DEF Counted, CountersMatch, Counter, PvState

\* A handler that touches neither the states nor the counters.
LEMMA CountedSame ==
  ASSUME Counted, UNCHANGED <<st, vc, count, leaked>> PROVE Counted'
<1>1. Served' = Served
  BY DEF Served
<1>2. QED
  BY <1>1, NoneMoved DEF Counted, CountersMatch

\* Every action keeps the counters right.
LEMMA CountedStep == Typed /\ Structure /\ Counted /\ [Next]_vars => Counted'
<1> SUFFICES ASSUME Typed, Structure, Counted, [Next]_vars PROVE Counted'
  OBVIOUS
<1>0. /\ \A s : HowMany(Names, s) \in Nat
      /\ Cardinality(Served) \in Nat
      /\ leaked \in Nat
  BY HowManyNat, ServedNat, TimesAssumption DEF Typed
<1>1. ASSUME NEW t \in Tests, NEW x \in Requests, ExistTestKnown(t, x)
      PROVE Counted'
  BY <1>1, CountedSame DEF ExistTestKnown, pvVars
<1>2. ASSUME NEW t \in Tests, NEW x \in Requests, ExistTestPending(t, x)
      PROVE Counted'
  BY <1>2, CountedSame DEF ExistTestPending, pvVars
<1>3. ASSUME NEW t \in Tests, NEW x \in Requests, ExistTestNew(t, x)
      PROVE Counted'
  <2> DEFINE n == RealName(x)
  <2>1. n \in Names /\ st[n] = "None"
    BY <1>3, RealNameType
       DEF ExistTestNew, Structure, ListsFollowState, Typed, PvState
  <2>2. /\ st' = [st EXCEPT ![n] = "Connect"] /\ UNCHANGED <<vc, leaked>>
        /\ count' = Adjust({"connecting", "unconnected", "pv"}, {})
    BY <1>3 DEF ExistTestNew, NewPv
  <2> HIDE DEF n
  <2>3. \A s : HowMany(Names, s)' = HowMany(Names, s) + (IF s = "Connect" THEN 1 ELSE 0)
                                     - (IF s = "None" THEN 1 ELSE 0)
    BY <2>1, <2>2, OneMoved
  <2>4. Served' = Served
    BY <2>2 DEF Served
  <2>5. QED
    BY <1>0, <2>2, <2>3, <2>4 DEF Counted, CountersMatch, Adjust, Counter
<1>4. ASSUME NEW t \in Tests, NEW x \in Requests, ExistTestNewFails(t, x)
      PROVE Counted'
  <2>1. /\ UNCHANGED <<st, vc>> /\ leaked' = leaked + 1
        /\ count' = Adjust({"dead", "unconnected", "pv"}, {})
    BY <1>4 DEF ExistTestNewFails, pvVars
  <2>2. Served' = Served /\ \A s : HowMany(Names, s)' = HowMany(Names, s)
    BY <2>1, NoneMoved DEF Served
  <2>3. QED
    BY <1>0, <2>1, <2>2 DEF Counted, CountersMatch, Adjust, Counter
<1>5. ASSUME NEW x \in Requests, Attach(x)
      PROVE Counted'
  <2> DEFINE n == RealName(x)
             v == IF CacheMode THEN "Connect" ELSE "Ready"
  <2>1. n \in Names /\ st[n] = "Inactive" /\ st' = [st EXCEPT ![n] = "Active"]
    BY <1>5, RealNameType DEF Attach
  <2>2. vc[n] = "none" /\ v # "none" /\ vc' = [vc EXCEPT ![n] = v]
    BY <1>5 DEF Attach
  <2>3. UNCHANGED leaked /\ count' = Adjust({"active", "vc"}, {"inactive"})
    BY <1>5 DEF Attach
  <2> HIDE DEF n, v
  <2>4. \A s : HowMany(Names, s)' = HowMany(Names, s) + (IF s = "Active" THEN 1 ELSE 0)
                                     - (IF s = "Inactive" THEN 1 ELSE 0)
    BY <2>1, OneMoved
  <2>5. Cardinality(Served') = Cardinality(Served) + 1
    BY <2>1, <2>2, OneServed
  <2>6. /\ count' \in [Counter -> Int]
        /\ \A c \in Counter : count'[c] = count[c] + (IF c \in {"active", "vc"} THEN 1 ELSE 0)
                                                 - (IF c \in {"inactive"} THEN 1 ELSE 0)
    BY <2>3, Adjusted
  <2>7. (count.disconnected = HowMany(Names, "Disconnect"))'
    <3>1. HowMany(Names, "Disconnect")' = HowMany(Names, "Disconnect")
      BY <1>0, <2>4
    <3>2. count'["disconnected"] = count["disconnected"]
      BY <2>6 DEF Counted, Counter
    <3>3. QED
      BY <3>1, <3>2 DEF Counted, CountersMatch
  <2>8. /\ (count.active = HowMany(Names, "Active"))'
        /\ (count.inactive = HowMany(Names, "Inactive"))'
        /\ (count.connecting = HowMany(Names, "Connect"))'
        /\ (count.dead = HowMany(Names, "Dead") + leaked)'
    BY <1>0, <2>3, <2>4, <2>6 DEF Counted, CountersMatch, Counter
  <2>9. /\ (count.alive = count.active + count.inactive)'
        /\ (count.unconnected = count.connecting + count.dead + count.disconnected)'
        /\ (count.pv = count.alive + count.unconnected)'
    BY <1>0, <2>6 DEF Counted, CountersMatch, Counter
  <2>10. (count.vc = Cardinality(Served))'
    BY <1>0, <2>5, <2>6 DEF Counted, CountersMatch, Counter
  <2>11. QED
    BY <2>6, <2>7, <2>8, <2>9, <2>10 DEF Counted, CountersMatch
<1>6. ASSUME NEW x \in Requests, AttachGetFails(x)
      PROVE Counted'
  <2> DEFINE n == RealName(x)
  <2>1. /\ n \in Names /\ st[n] = "Inactive"
        /\ st' = [st EXCEPT ![n] = "Active"] /\ UNCHANGED <<vc, leaked>>
        /\ count' = Adjust({"active"}, {"inactive"})
    BY <1>6, RealNameType DEF AttachGetFails
  <2> HIDE DEF n
  <2>2. \A s : HowMany(Names, s)' = HowMany(Names, s) + (IF s = "Active" THEN 1 ELSE 0)
                                     - (IF s = "Inactive" THEN 1 ELSE 0)
    BY <2>1, OneMoved
  <2>3. Served' = Served
    BY <2>1 DEF Served
  <2>4. QED
    BY <1>0, <2>1, <2>2, <2>3 DEF Counted, CountersMatch, Adjust, Counter
<1>7. ASSUME NEW x \in Requests, AttachRefused(x)
      PROVE Counted'
  BY <1>7, CountedSame DEF AttachRefused
<1>8. ASSUME NEW n \in Names, VcDestroy(n)
      PROVE Counted'
  \* A PV with a VC is Active.
  <2>1. /\ st[n] = "Active" /\ vc[n] # "none"
        /\ st' = [st EXCEPT ![n] = "Inactive"] /\ vc' = [vc EXCEPT ![n] = "none"]
        /\ UNCHANGED leaked /\ count' = Adjust({"inactive"}, {"active", "vc"})
    BY <1>8 DEF VcDestroy, Structure, VcFollowsPv, Typed
  <2>2. \A s : HowMany(Names, s)' = HowMany(Names, s) + (IF s = "Inactive" THEN 1 ELSE 0)
                                     - (IF s = "Active" THEN 1 ELSE 0)
    BY <2>1, OneMoved
  <2>3. Cardinality(Served') = Cardinality(Served) - 1
    BY <2>1, OneDropped
  <2>4. QED
    BY <1>0, <2>1, <2>2, <2>3 DEF Counted, CountersMatch, Adjust, Counter
<1>9. ASSUME NEW n \in Names, LifeFromConnect(n)
      PROVE Counted'
  <2>1. ~need[n] /\ st[n] = "Connect"
    BY <1>9 DEF LifeFromConnect, Structure, NoActivationWhileConnecting
  <2>2. /\ st' = [st EXCEPT ![n] = "Inactive"] /\ UNCHANGED <<vc, leaked>>
        /\ count' = Adjust({"alive", "inactive"}, {"connecting", "unconnected"})
    BY <1>9, <2>1 DEF LifeFromConnect, Typed
  <2>3. \A s : HowMany(Names, s)' = HowMany(Names, s) + (IF s = "Inactive" THEN 1 ELSE 0)
                                     - (IF s = "Connect" THEN 1 ELSE 0)
    BY <2>1, <2>2, OneMoved
  <2>4. Served' = Served
    BY <2>2 DEF Served
  <2>5. QED
    BY <1>0, <2>2, <2>3, <2>4 DEF Counted, CountersMatch, Adjust, Counter
<1>10. ASSUME NEW n \in Names, Revive(n)
       PROVE Counted'
  <2>1. /\ st[n] \in {"Disconnect", "Dead"}
        /\ st' = [st EXCEPT ![n] = "Inactive"] /\ UNCHANGED <<vc, leaked>>
        /\ count' = Adjust({"inactive", "alive"},
                           {"unconnected", IF st[n] = "Dead" THEN "dead" ELSE "disconnected"})
    BY <1>10 DEF Revive
  <2>2. \A s : HowMany(Names, s)' = HowMany(Names, s) + (IF s = "Inactive" THEN 1 ELSE 0)
                                     - (IF s = st[n] THEN 1 ELSE 0)
    BY <2>1, OneMoved
  <2>3. Served' = Served
    BY <2>1 DEF Served
  <2>4. CASE st[n] = "Dead"
    <3>1. count' = Adjust({"inactive", "alive"}, {"unconnected", "dead"})
      BY <2>1, <2>4
    <3>2. \A s : HowMany(Names, s)' = HowMany(Names, s) + (IF s = "Inactive" THEN 1 ELSE 0)
                                       - (IF s = "Dead" THEN 1 ELSE 0)
      BY <2>2, <2>4
    <3>3. leaked' = leaked
      BY <2>1
    <3>4. QED
      BY <1>0, <2>3, <3>1, <3>2, <3>3 DEF Counted, CountersMatch, Adjust, Counter
  <2>5. CASE st[n] = "Disconnect"
    <3>1. count' = Adjust({"inactive", "alive"}, {"unconnected", "disconnected"})
      BY <2>1, <2>5
    <3>2. \A s : HowMany(Names, s)' = HowMany(Names, s) + (IF s = "Inactive" THEN 1 ELSE 0)
                                       - (IF s = "Disconnect" THEN 1 ELSE 0)
      BY <2>2, <2>5
    <3>3. leaked' = leaked
      BY <2>1
    <3>4. QED
      BY <1>0, <2>3, <3>1, <3>2, <3>3 DEF Counted, CountersMatch, Adjust, Counter
  <2>6. QED
    BY <2>1, <2>4, <2>5
<1>11. ASSUME NEW n \in Names, ConnectionLost(n)
       PROVE Counted'
  <2>1. /\ st[n] \in {"Active", "Inactive"}
        /\ st' = [st EXCEPT ![n] = "Disconnect"] /\ UNCHANGED leaked
        /\ vc' = [vc EXCEPT ![n] = IF st[n] = "Active" /\ pvc[n] THEN "none" ELSE @]
        /\ count' = Adjust({"disconnected", "unconnected"},
                           {"alive", IF st[n] = "Active" THEN "active" ELSE "inactive"}
                             \cup (IF vc'[n] = vc[n] THEN {} ELSE {"vc"}))
    BY <1>11 DEF ConnectionLost
  <2>2. \A s : HowMany(Names, s)' = HowMany(Names, s) + (IF s = "Disconnect" THEN 1 ELSE 0)
                                     - (IF s = st[n] THEN 1 ELSE 0)
    BY <2>1, OneMoved
  <2>3. CASE pvc[n]
    <3>1. st[n] = "Active" /\ vc[n] # "none" /\ vc' = [vc EXCEPT ![n] = "none"]
      BY <2>1, <2>3 DEF Structure, VcFollowsPv
    <3>2. Cardinality(Served') = Cardinality(Served) - 1
      BY <3>1, OneDropped
    <3>3. count' = Adjust({"disconnected", "unconnected"}, {"alive", "active", "vc"})
      BY <2>1, <3>1 DEF Typed, Adjust
    <3>4. \A s : HowMany(Names, s)' = HowMany(Names, s) + (IF s = "Disconnect" THEN 1 ELSE 0)
                                       - (IF s = "Active" THEN 1 ELSE 0)
      BY <2>2, <3>1
    <3>5. leaked' = leaked
      BY <2>1
    <3>6. /\ count' \in [Counter -> Int]
          /\ \A c \in Counter :
               count'[c] = count[c] + (IF c \in {"disconnected", "unconnected"} THEN 1 ELSE 0)
                                    - (IF c \in {"alive", "active", "vc"} THEN 1 ELSE 0)
      BY <3>3, Adjusted
    <3>7. (count.disconnected = HowMany(Names, "Disconnect"))'
      <4>1. HowMany(Names, "Disconnect")' = HowMany(Names, "Disconnect") + 1
        BY <1>0, <3>4
      <4>2. count'["disconnected"] = count["disconnected"] + 1
        BY <3>6 DEF Counted, Counter
      <4>3. QED
        BY <4>1, <4>2 DEF Counted, CountersMatch
    <3>8. /\ (count.active = HowMany(Names, "Active"))'
          /\ (count.inactive = HowMany(Names, "Inactive"))'
          /\ (count.connecting = HowMany(Names, "Connect"))'
          /\ (count.dead = HowMany(Names, "Dead") + leaked)'
      <4>1. /\ HowMany(Names, "Active")' = HowMany(Names, "Active") - 1
            /\ HowMany(Names, "Inactive")' = HowMany(Names, "Inactive")
            /\ HowMany(Names, "Connect")' = HowMany(Names, "Connect")
            /\ HowMany(Names, "Dead")' = HowMany(Names, "Dead")
        BY <1>0, <3>4
      <4>2. /\ count'["active"] = count["active"] - 1
            /\ count'["inactive"] = count["inactive"]
            /\ count'["connecting"] = count["connecting"]
            /\ count'["dead"] = count["dead"]
        BY <3>6 DEF Counted, Counter
      <4>3. QED
        BY <3>5, <4>1, <4>2 DEF Counted, CountersMatch
    <3>9. /\ (count.alive = count.active + count.inactive)'
          /\ (count.unconnected = count.connecting + count.dead + count.disconnected)'
          /\ (count.pv = count.alive + count.unconnected)'
      BY <1>0, <3>6 DEF Counted, CountersMatch, Counter
    <3>10. (count.vc = Cardinality(Served))'
      BY <1>0, <3>2, <3>6 DEF Counted, CountersMatch, Counter
    <3>11. QED
      BY <3>6, <3>7, <3>8, <3>9, <3>10 DEF Counted, CountersMatch
  <2>4. CASE ~pvc[n]
    <3>1. vc' = vc
      BY <2>1, <2>4 DEF Typed
    <3>2. Served' = Served
      BY <3>1 DEF Served
    <3>3. count' = Adjust({"disconnected", "unconnected"},
                          {"alive", IF st[n] = "Active" THEN "active" ELSE "inactive"})
      BY <2>1, <3>1 DEF Adjust
    <3>4. CASE st[n] = "Active"
      BY <1>0, <2>1, <2>2, <3>2, <3>3, <3>4 DEF Counted, CountersMatch, Adjust, Counter
    <3>5. CASE st[n] = "Inactive"
      BY <1>0, <2>1, <2>2, <3>2, <3>3, <3>5 DEF Counted, CountersMatch, Adjust, Counter
    <3>6. QED
      BY <2>1, <3>4, <3>5
  <2>5. QED
    BY <2>3, <2>4
<1>12. ASSUME NEW n \in Names, FirstEvent(n)
       PROVE Counted'
  <2>1. Served' = Served /\ UNCHANGED <<st, count, leaked>>
    BY <1>12 DEF FirstEvent, Served, Typed
  <2>2. QED
    BY <2>1, NoneMoved DEF Counted, CountersMatch
<1>13. CASE Tick
  BY <1>13, CountedSame DEF Tick
<1>14. CASE ConnectCleanup
  <2>1. CASE sinceCon < ConnectTimeout
    BY <1>14, <2>1, CountedSame DEF ConnectCleanup, pvVars
  <2>2. CASE ~(sinceCon < ConnectTimeout)
    <3> DEFINE S == InState({n \in conList : da[n] >= ConnectTimeout}, "Connect")
    <3>1. S \in SUBSET Names /\ \A n \in S : st[n] = "Connect"
      BY DEF InState, Typed
    <3>2. DeathFromConnect(S) /\ UNCHANGED leaked
      BY <1>14, <2>2 DEF ConnectCleanup
    <3> HIDE DEF S
    \* None of them has a VC to lose.
    <3>3. vc' = vc /\ {n \in S : vc'[n] # vc[n]} = {}
      BY <3>1, <3>2
         DEF DeathFromConnect, Structure, NoActivationWhileConnecting, Typed
    <3>4. Served' = Served /\ Cardinality({n \in S : vc'[n] # vc[n]}) = 0
      BY <3>3, FS_EmptySet DEF Served
    <3>5. /\ \A s : HowMany(S, s) = IF s = "Connect" THEN Cardinality(S) ELSE 0
          /\ Cardinality(S) \in Nat
      <4>1. \A s : InState(S, s) = IF s = "Connect" THEN S ELSE {}
        BY <3>1 DEF InState
      <4>2. QED
        BY <3>1, <4>1, NamesAssumption, FS_Subset, FS_CardinalityType, FS_EmptySet
           DEF HowMany
    <3>6. \A s : HowMany(Names, s)' = HowMany(Names, s) - HowMany(S, s)
                                       + (IF s = "Dead" THEN Cardinality(S) ELSE 0)
      <4>1. /\ \A n \in S : st'[n] = "Dead"
            /\ \A n \in Names \ S : st'[n] = st[n]
        BY <3>1, <3>2 DEF DeathFromConnect
      <4>2. QED
        BY <3>1, <4>1, HowManyMoved
    <3>7. count' = [count EXCEPT !["connecting"] = @ - Cardinality(S),
                                 !["dead"] = @ + Cardinality(S), !["vc"] = @ - 0]
      BY <3>2, <3>4 DEF DeathFromConnect
    <3>8. QED
      BY <1>0, <3>2, <3>4, <3>5, <3>6, <3>7 DEF Counted, CountersMatch, Counter
  <2>3. QED
    BY <2>1, <2>2
<1>15. CASE InactiveDeadCleanup
  <2>1. CASE sinceIdc < DeadTimeout /\ sinceIdc < InactiveTimeout
    BY <1>15, <2>1, CountedSame DEF InactiveDeadCleanup, pvVars
  <2>2. CASE ~(sinceIdc < DeadTimeout /\ sinceIdc < InactiveTimeout)
    <3> DEFINE old == {n \in pvList : Expired(n)}
    <3>1. old \in SUBSET Names
      BY DEF Typed
    <3>2. Destroy(old) /\ count' = Uncounted(old) /\ UNCHANGED leaked
      BY <1>15, <2>2 DEF InactiveDeadCleanup
    <3> HIDE DEF old
    <3>3. QED
      BY <3>1, <3>2, CountedDestroy
  <2>3. QED
    BY <2>1, <2>2
<1>16. CASE NoCommand
  BY <1>16, CountedSame DEF NoCommand, pvVars
<1>17. CASE NewAs
  <2>1. PICK S \in SUBSET Names : Destroy(S) /\ count' = Uncounted(S)
    BY <1>17 DEF NewAs, KillDenied
  <2>2. UNCHANGED leaked
    BY <1>17 DEF NewAs
  <2>3. QED
    BY <2>1, <2>2, CountedDestroy
<1>18. CASE TouchFreed
  BY <1>18, CountedSame DEF TouchFreed, pvVars
<1>19. CASE NewAsTouchFreed
  BY <1>19, CountedSame DEF NewAsTouchFreed, pvVars
<1>20. CASE Restart
  BY <1>20, FreshCounters DEF Restart
<1>21. CASE UNCHANGED vars
  BY <1>21, CountedSame DEF vars, pvVars
<1>22. QED
  BY <1>1, <1>2, <1>3, <1>4, <1>5, <1>6, <1>7, <1>8, <1>9, <1>10, <1>11, <1>12,
     <1>13, <1>14, <1>15, <1>16, <1>17, <1>18, <1>19, <1>20, <1>21 DEF Next

\* The published counters are the numbers of objects in each state.
THEOREM CountersHold == Spec => []CountersMatch
<1>1. Init => Typed /\ Structure /\ Counted
  BY TypedInit, StructureInit, CountedInit
<1>2. Typed /\ Structure /\ Counted /\ [Next]_vars => Typed' /\ Structure' /\ Counted'
  BY TypedStep, StructureStep, CountedStep
<1>3. Counted => CountersMatch
  BY DEF Counted
<1>4. QED
  BY <1>1, <1>2, <1>3, PTL DEF Spec

\* Type correctness; in particular no counter goes below zero.
THEOREM TypeCorrect == Spec => []TypeOK
<1>1. Init => Typed /\ Structure /\ Counted
  BY TypedInit, StructureInit, CountedInit
<1>2. Typed /\ Structure /\ Counted /\ [Next]_vars => Typed' /\ Structure' /\ Counted'
  BY TypedStep, StructureStep, CountedStep
<1>3. Typed /\ Counted => TypeOK
  <2> SUFFICES ASSUME Typed, Counted PROVE TypeOK
    OBVIOUS
  <2>1. /\ \A s : HowMany(Names, s) \in Nat
        /\ Cardinality(Served) \in Nat
        /\ leaked \in Nat
    BY HowManyNat, ServedNat, TimesAssumption DEF Typed
  <2>2. \A c \in Counter : count[c] \in Nat
    BY <2>1 DEF Counted, CountersMatch, Counter
  <2>3. count \in [Counter -> Nat]
    BY <2>2 DEF Counted
  <2>4. QED
    BY <2>3 DEF Typed, TypeOK
<1>4. QED
  BY <1>1, <1>2, <1>3, PTL DEF Spec
=============================================================================
