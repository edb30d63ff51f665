------------------------------ MODULE GatewayPv ------------------------------
(***************************************************************************)
(* The life cycle of the process variables a Channel Access gateway        *)
(* serves: gateServer (gateServer.cc, the CA server side and the main      *)
(* loop) with the gatePvData objects (gatePv.cc, the CA client side) and   *)
(* the existence of the gateVcData objects (gateVc.cc, the served PV).     *)
(*                                                                         *)
(* A gatePvData is identified by its real PV name: pvExistTest only makes  *)
(* an object for a name that neither list holds.  Handlers are atomic: the *)
(* gateway is one thread, and the checkEvent() calls that would poll CA    *)
(* from inside a handler are compiled out (OMIT_CHECK_EVENT, gatePv.cc:45).*)
(* Times are ages, in ticks, capped at MaxAge, which no timeout exceeds.   *)
(***************************************************************************)
EXTENDS Integers, FiniteSets

CONSTANTS
  Names,              \* real PV names
  Requests,           \* names clients ask for: real names and aliases
  PvLists,            \* the pvlist files; each maps an allowed request to its real name
  Tests,              \* exist tests in flight (clients' UDP searches)
  CacheMode,          \* global_resources->getCacheMode()
  ConnectTimeout,     \* -connect_timeout
  DeadTimeout,        \* -dead_timeout
  InactiveTimeout,    \* -inactive_timeout
  DisconnectTimeout,  \* -disconnect_timeout
  ReconnectInhibit,   \* -reconnect_inhibit
  MaxAge,             \* cap of every age
  MaxLeaked           \* bound on objects lost by a failed ca_create_channel

ASSUME NamesAssumption == /\ Names \subseteq Requests
                          /\ IsFiniteSet(Names)

ASSUME PvListsAssumption ==
  \A f \in PvLists : DOMAIN f \subseteq Requests /\ f \in [DOMAIN f -> Names]

ASSUME ModeAssumption == CacheMode \in BOOLEAN

ASSUME TimesAssumption ==
  /\ MaxAge \in Nat /\ MaxLeaked \in Nat
  /\ ConnectTimeout \in 1..MaxAge
  /\ DeadTimeout \in 1..MaxAge
  /\ InactiveTimeout \in 1..MaxAge
  /\ DisconnectTimeout \in 1..MaxAge
  /\ ReconnectInhibit \in 0..MaxAge

VARIABLES
  st,       \* gatePvData::pv_state by name; "None": no object
  pvc,      \* gatePvData::vc is not NULL
  need,     \* gatePvData::complete_flag (needAddRemove)
  da,       \* age of dead_alive_time
  nc,       \* age of no_connect_time
  up,       \* ca_state() of the channel is cs_conn
  vc,       \* the gateVcData of the name: "none", "Connect" or "Ready"
  eio,      \* gatePvData::eio, the parked exist tests
  answer,   \* what happened to each exist test
  sought,   \* the PV each test asked for last, none if its name is denied (history)
  pvList,   \* names with a node on pv_list
  conList,  \* names with a node on pv_con_list
  rules,    \* the pvlist file in force
  sinceCon, \* age of last_connect_cleanup
  sinceIdc, \* age of last_dead_cleanup, always set with last_inactive_cleanup
  sinceBeacon, \* age of last_beacon_time
  suppressed,  \* suppressed_refresh_flag
  count,    \* the gateStat counters total_*
  leaked,   \* dead gatePvData objects that no list holds
  phase,    \* where the main loop is
  run       \* the process: "up", or "crashed" after touching freed memory

pvVars    == <<st, pvc, need, da, nc, up>>
listVars  == <<pvList, conList>>
clockVars == <<sinceCon, sinceIdc, sinceBeacon, suppressed>>
testVars  == <<eio, answer, sought>>
vars == <<pvVars, vc, testVars, listVars, rules, clockVars, count, leaked,
          phase, run>>

PvState == {"None", "Connect", "Dead", "Inactive", "Active", "Disconnect"}
VcState == {"none", "Connect", "Ready"}
Answer  == {"idle", "parked", "exists", "notHere"}
Phase   == {"callbacks", "idc", "flags"}
Counter == {"active", "inactive", "connecting", "dead", "disconnected",
            "alive", "unconnected", "pv", "vc"}
Age     == 0..MaxAge

Older(a) == IF a < MaxAge THEN a + 1 ELSE a

\* gateAs::findEntry without a host: the entry for a requested name.
Allowed(x)  == x \in DOMAIN rules
RealName(x) == rules[x]

\* Nodes whose gatePvData was deleted.
Freed(list) == {n \in list : st[n] = "None"}

InState(S, s) == {n \in S : st[n] = s}
HowMany(S, s) == Cardinality(InState(S, s))

\* The PVs with a gateVcData.
Served == {n \in Names : vc[n] # "none"}

\* The counters of plus are incremented, those of minus decremented.
Adjust(plus, minus) ==
  [c \in Counter |-> count[c] + (IF c \in plus THEN 1 ELSE 0)
                              - (IF c \in minus THEN 1 ELSE 0)]

\* CAS calls the gateway from fileDescriptorManager.process().
InCallbacks == run = "up" /\ phase = "callbacks"

\* CA delivers its callbacks from ca_poll(), and from ca_pend_event() while newAs
\* waits for the INP channels of the access security file.
InCaPoll == run = "up" /\ phase \in {"callbacks", "flags"}

-----------------------------------------------------------------------------
(* The gateway starts with empty lists.                                    *)

Init ==
  /\ st = [n \in Names |-> "None"]
  /\ pvc = [n \in Names |-> FALSE]
  /\ need = [n \in Names |-> FALSE]
  /\ da = [n \in Names |-> 0]
  /\ nc = [n \in Names |-> 0]
  /\ up = [n \in Names |-> FALSE]
  /\ vc = [n \in Names |-> "none"]
  /\ eio = [n \in Names |-> {}]
  /\ answer = [t \in Tests |-> "idle"]
  /\ sought = [t \in Tests |-> {}]
  /\ pvList = {} /\ conList = {}
  /\ rules \in PvLists
  /\ sinceCon = 0 /\ sinceIdc = 0 /\ sinceBeacon = 0 /\ suppressed = FALSE
  /\ count = [c \in Counter |-> 0]
  /\ leaked = 0
  /\ phase = "callbacks" /\ run = "up"

-----------------------------------------------------------------------------
(* CAS callbacks, from fileDescriptorManager.process().                    *)

\* A test for the PVs N (one, or none) is answered at once.
Reply(t, N, a) == /\ answer' = [answer EXCEPT ![t] = a]
                  /\ sought' = [sought EXCEPT ![t] = N]
                  /\ UNCHANGED eio

Park(t, n) == /\ eio' = [eio EXCEPT ![n] = @ \cup {t}]
              /\ answer' = [answer EXCEPT ![t] = "parked"]
              /\ sought' = [sought EXCEPT ![t] = {n}]

\* Mutant: whatever is on pv_list exists, connected or not.
ExistTestAnyKnown(t, x) ==
  /\ InCallbacks /\ answer[t] # "parked" /\ Allowed(x)
  /\ RealName(x) \in pvList \ Freed(pvList)
  /\ Reply(t, {RealName(x)}, "exists")
  /\ UNCHANGED <<pvVars, vc, listVars, rules, clockVars, count, leaked, phase, run>>

\* The name is denied, or its PV is on pv_list.
ExistTestKnown(t, x) ==
  /\ InCallbacks /\ answer[t] # "parked"
  /\ \/ /\ ~Allowed(x)
        /\ Reply(t, {}, "notHere")
     \/ /\ Allowed(x) /\ RealName(x) \in pvList \ Freed(pvList)
        /\ Reply(t, {RealName(x)}, IF st[RealName(x)] \in {"Inactive", "Active"}
                                     THEN "exists" ELSE "notHere")
  /\ UNCHANGED <<pvVars, vc, listVars, rules, clockVars, count, leaked, phase, run>>

\* Mutant: pv_con_list is searched first.
ExistTestConFirst(t, x) ==
  /\ InCallbacks /\ answer[t] # "parked" /\ Allowed(x)
  /\ RealName(x) \in conList \ Freed(conList)
  /\ Park(t, RealName(x))
  /\ UNCHANGED <<pvVars, vc, listVars, rules, clockVars, count, leaked, phase, run>>

\* The connection is pending: addET postpones the answer.
ExistTestPending(t, x) ==
  /\ InCallbacks /\ answer[t] # "parked" /\ Allowed(x)
  /\ RealName(x) \in conList \ (pvList \cup Freed(conList))
  /\ Park(t, RealName(x))
  /\ UNCHANGED <<pvVars, vc, listVars, rules, clockVars, count, leaked, phase, run>>

\* Mutant: initClear leaves the object marked needAddRemove.
NewPvMarked(n) ==
  /\ st' = [st EXCEPT ![n] = "Connect"]
  /\ pvc' = [pvc EXCEPT ![n] = FALSE]
  /\ need' = [need EXCEPT ![n] = TRUE]
  /\ da' = [da EXCEPT ![n] = 0] /\ nc' = [nc EXCEPT ![n] = 0]
  /\ conList' = conList \cup {n}

\* gatePvData::init with a channel: Connect, on pv_con_list.
NewPv(n) ==
  /\ st' = [st EXCEPT ![n] = "Connect"]
  /\ pvc' = [pvc EXCEPT ![n] = FALSE]
  /\ need' = [need EXCEPT ![n] = FALSE]
  /\ da' = [da EXCEPT ![n] = 0] /\ nc' = [nc EXCEPT ![n] = 0]
  /\ conList' = conList \cup {n}

\* A new gatePvData whose ca_create_channel succeeds; the test waits for it.
ExistTestNew(t, x) ==
  /\ InCallbacks /\ answer[t] # "parked" /\ Allowed(x)
  /\ LET n == RealName(x) IN
     /\ n \notin pvList \cup conList
     /\ NewPv(n)
     /\ Park(t, n)
  /\ count' = Adjust({"connecting", "unconnected", "pv"}, {})
  /\ UNCHANGED <<up, vc, pvList, rules, clockVars, leaked, phase, run>>

\* ca_create_channel fails: the object is Dead, counted, and on no list, and
\* pvExistTest drops its only pointer to it.
ExistTestNewFails(t, x) ==
  /\ InCallbacks /\ answer[t] # "parked" /\ Allowed(x)
  /\ RealName(x) \notin pvList \cup conList
  /\ leaked < MaxLeaked
  /\ leaked' = leaked + 1
  /\ count' = Adjust({"dead", "unconnected", "pv"}, {})
  /\ Reply(t, {RealName(x)}, "notHere")
  /\ UNCHANGED <<pvVars, vc, listVars, rules, clockVars, phase, run>>

\* pvAttach makes a gateVcData and gatePvData::activate succeeds: without the
\* cache the VC is Ready at once, with it eventCB completes it later.
Attach(x) ==
  /\ InCallbacks /\ Allowed(x)
  /\ LET n == RealName(x) IN
     /\ vc[n] = "none" /\ n \in pvList /\ st[n] = "Inactive"
     /\ st' = [st EXCEPT ![n] = "Active"]
     /\ pvc' = [pvc EXCEPT ![n] = TRUE]
     /\ need' = [need EXCEPT ![n] = @ \/ CacheMode]
     /\ nc' = [nc EXCEPT ![n] = 0]
     /\ vc' = [vc EXCEPT ![n] = IF CacheMode THEN "Connect" ELSE "Ready"]
  /\ count' = Adjust({"active", "vc"}, {"inactive"})
  /\ UNCHANGED <<da, up, testVars, listVars, rules, clockVars, leaked, phase, run>>

\* activate's get() fails in cache mode: the VC is deleted, and its destructor
\* clears gatePvData::vc and nothing else.
AttachGetFails(x) ==
  /\ InCallbacks /\ Allowed(x) /\ CacheMode
  /\ LET n == RealName(x) IN
     /\ vc[n] = "none" /\ n \in pvList /\ st[n] = "Inactive"
     /\ st' = [st EXCEPT ![n] = "Active"]
     /\ pvc' = [pvc EXCEPT ![n] = FALSE]
     /\ need' = [need EXCEPT ![n] = TRUE]
     /\ nc' = [nc EXCEPT ![n] = 0]
  /\ count' = Adjust({"active"}, {"inactive"})
  /\ UNCHANGED <<da, up, vc, testVars, listVars, rules, clockVars, leaked, phase, run>>

\* activate refuses: the PV is not Inactive.  The VC made for the attempt is
\* deleted; a PV that is still connecting is left marked needAddRemove.
AttachRefused(x) ==
  /\ InCallbacks /\ Allowed(x)
  /\ LET n == RealName(x) IN
     /\ vc[n] = "none" /\ n \in pvList
     /\ st[n] \in {"Active", "Disconnect", "Dead", "Connect"}
     /\ pvc' = [pvc EXCEPT ![n] = FALSE]
     /\ need' = [need EXCEPT ![n] = @ \/ st[n] = "Connect"]
  /\ UNCHANGED <<st, da, nc, up, vc, testVars, listVars, rules, clockVars, count,
                 leaked, phase, run>>

\* All clients of a VC are gone: CAS calls gateVcData::destroy, which
\* deactivates the PV (vcRemove) and deletes the VC.
VcDestroy(n) ==
  /\ InCallbacks /\ vc[n] # "none"
  /\ vc' = [vc EXCEPT ![n] = "none"]
  /\ pvc' = [pvc EXCEPT ![n] = FALSE]
  /\ need' = [need EXCEPT ![n] = @ /\ st[n] # "Connect"]
  /\ st' = [st EXCEPT ![n] = IF @ = "Active" THEN "Inactive" ELSE @]
  /\ nc' = [nc EXCEPT ![n] = IF st[n] = "Active" THEN 0 ELSE @]
  /\ count' = IF st[n] = "Active" THEN Adjust({"inactive"}, {"active", "vc"})
                                  ELSE Adjust({}, {"vc"})
  /\ UNCHANGED <<da, up, testVars, listVars, rules, clockVars, leaked, phase, run>>

-----------------------------------------------------------------------------
(* CA callbacks, from ca_poll().                                           *)

\* The exist tests of the PVs S leave their queues.
Unpark(S) == eio' = [n \in Names |-> IF n \in S THEN {} ELSE eio[n]]

\* flushAsyncETQueue of the PVs S: every parked test gets the answer a.
PostAll(S, a) ==
  answer' = [t \in Tests |-> IF \E n \in S : t \in eio[n] THEN a ELSE answer[t]]

\* Mutant: the queue is emptied, nobody is answered.
FlushSilent(S, a) == Unpark(S) /\ UNCHANGED <<answer, sought>>

Flush(S, a) == Unpark(S) /\ PostAll(S, a) /\ UNCHANGED sought

\* connectCB with the channel up on a PV that was never connected: life().
\* The node stays on pv_con_list until connectCleanup.
LifeFromConnect(n) ==
  /\ InCaPoll /\ ~up[n] /\ st[n] = "Connect"
  /\ up' = [up EXCEPT ![n] = TRUE]
  /\ da' = [da EXCEPT ![n] = 0]
  /\ nc' = [nc EXCEPT ![n] = 0]
  /\ pvList' = pvList \cup {n}
  /\ st' = [st EXCEPT ![n] = IF ~need[n] THEN "Inactive"
                              ELSE IF pvc[n] THEN "Active" ELSE @]
  /\ count' = IF st'[n] = "Connect" THEN count
               ELSE Adjust({"alive", IF need[n] THEN "active" ELSE "inactive"},
                           {"connecting", "unconnected"})
  /\ Flush({n}, "exists")
  /\ UNCHANGED <<pvc, need, vc, conList, rules, clockVars, leaked, phase, run>>

\* gateServer::generateBeaconAnomaly, rate limited.
BeaconAnomaly ==
  IF sinceBeacon >= ReconnectInhibit
    THEN sinceBeacon' = 0 /\ suppressed' = FALSE
    ELSE suppressed' = TRUE /\ UNCHANGED sinceBeacon

\* life() of a PV that was Dead or Disconnect.  setAliveTime and
\* setReconnectTime set dead_alive_time only.
Revive(n) ==
  /\ InCaPoll /\ ~up[n] /\ st[n] \in {"Disconnect", "Dead"}
  /\ up' = [up EXCEPT ![n] = TRUE]
  /\ da' = [da EXCEPT ![n] = 0]
  /\ st' = [st EXCEPT ![n] = "Inactive"]
  /\ count' = Adjust({"inactive", "alive"},
                      {"unconnected", IF st[n] = "Dead" THEN "dead" ELSE "disconnected"})
  /\ IF st[n] = "Disconnect" THEN BeaconAnomaly
                             ELSE UNCHANGED <<sinceBeacon, suppressed>>
  /\ UNCHANGED <<pvc, need, nc, vc, testVars, listVars, rules, sinceCon, sinceIdc,
                 leaked, phase, run>>

\* Mutant: death() forgets the VC.
ConnectionLostKeepsVc(n) ==
  /\ InCaPoll /\ up[n] /\ st[n] \in {"Active", "Inactive"}
  /\ up' = [up EXCEPT ![n] = FALSE]
  /\ st' = [st EXCEPT ![n] = "Disconnect"]
  /\ pvc' = [pvc EXCEPT ![n] = FALSE]
  /\ need' = [need EXCEPT ![n] = FALSE]
  /\ da' = [da EXCEPT ![n] = 0] /\ nc' = [nc EXCEPT ![n] = 0]
  /\ UNCHANGED <<vc, testVars, listVars, rules, clockVars, count, leaked, phase, run>>

\* Mutant: an Inactive PV ignores connectCB.
ConnectionLostActiveOnly(n) ==
  /\ InCaPoll /\ up[n] /\ st[n] = "Inactive"
  /\ up' = [up EXCEPT ![n] = FALSE]
  /\ UNCHANGED <<st, pvc, need, da, nc, vc, testVars, listVars, rules, clockVars,
                 count, leaked, phase, run>>

\* connectCB with the channel down: death() of a connected PV, which deletes
\* its VC with all the client channels.
ConnectionLost(n) ==
  /\ InCaPoll /\ up[n] /\ st[n] \in {"Active", "Inactive"}
  /\ up' = [up EXCEPT ![n] = FALSE]
  /\ st' = [st EXCEPT ![n] = "Disconnect"]
  /\ vc' = [vc EXCEPT ![n] = IF st[n] = "Active" /\ pvc[n] THEN "none" ELSE @]
  /\ pvc' = [pvc EXCEPT ![n] = FALSE]
  /\ need' = [need EXCEPT ![n] = FALSE]
  /\ da' = [da EXCEPT ![n] = 0]
  /\ nc' = [nc EXCEPT ![n] = 0]
  /\ count' = Adjust({"disconnected", "unconnected"},
                      {"alive", IF st[n] = "Active" THEN "active" ELSE "inactive"}
                        \cup (IF vc'[n] = vc[n] THEN {} ELSE {"vc"}))
  /\ UNCHANGED <<testVars, listVars, rules, clockVars, leaked, phase, run>>

\* Mutant: the PV stays marked needAddRemove.
FirstEventStaysMarked(n) ==
  /\ InCaPoll /\ CacheMode /\ st[n] = "Active" /\ need[n] /\ vc[n] = "Connect"
  /\ vc' = [vc EXCEPT ![n] = "Ready"]
  /\ UNCHANGED <<pvVars, testVars, listVars, rules, clockVars, count, leaked, phase, run>>

\* The first monitor event after activation: eventCB completes the VC.
FirstEvent(n) ==
  /\ InCaPoll /\ CacheMode /\ st[n] = "Active" /\ need[n] /\ vc[n] = "Connect"
  /\ need' = [need EXCEPT ![n] = FALSE]
  /\ vc' = [vc EXCEPT ![n] = "Ready"]
  /\ UNCHANGED <<st, pvc, da, nc, up, testVars, listVars, rules, clockVars, count,
                 leaked, phase, run>>

-----------------------------------------------------------------------------
(* The main loop.                                                          *)

\* process(delay), ca_poll() or ca_pend_event() returns: the clocks have moved on.
Tick ==
  /\ InCaPoll
  /\ da' = [n \in Names |-> Older(da[n])]
  /\ nc' = [n \in Names |-> Older(nc[n])]
  /\ sinceCon' = Older(sinceCon)
  /\ sinceIdc' = Older(sinceIdc)
  /\ sinceBeacon' = Older(sinceBeacon)
  /\ UNCHANGED <<st, pvc, need, up, vc, testVars, listVars, rules, suppressed,
                 count, leaked, phase, run>>

\* Mutant: the nodes leave pv_con_list and nobody calls death().
DeathForgotten(S) == UNCHANGED <<st, pvc, vc, need, da, nc, pvList, count, testVars>>

\* death() of the PVs S that never connected: Dead, and on pv_list.
DeathFromConnect(S) ==
  /\ st' = [n \in Names |-> IF n \in S THEN "Dead" ELSE st[n]]
  /\ pvc' = [n \in Names |-> pvc[n] /\ n \notin S]
  /\ vc' = [n \in Names |-> IF n \in S /\ need[n] /\ pvc[n] THEN "none" ELSE vc[n]]
  /\ need' = [n \in Names |-> need[n] /\ n \notin S]
  /\ da' = [n \in Names |-> IF n \in S THEN 0 ELSE da[n]]
  /\ nc' = [n \in Names |-> IF n \in S THEN 0 ELSE nc[n]]
  /\ pvList' = pvList \cup S
  /\ count' = [count EXCEPT !.connecting = @ - Cardinality(S), !.dead = @ + Cardinality(S),
                 !.vc = @ - Cardinality({n \in S : vc'[n] # vc[n]})]
  /\ Flush(S, "notHere")

\* connectCleanup: nodes older than the timeout leave pv_con_list, and the
\* PVs among them that are still connecting die.
ConnectCleanup ==
  /\ InCallbacks
  /\ phase' = "idc"
  /\ IF sinceCon < ConnectTimeout
       THEN UNCHANGED <<pvVars, vc, testVars, listVars, sinceCon, count>>
       ELSE LET old == {n \in conList : da[n] >= ConnectTimeout} IN
            /\ Freed(conList) = {}
            /\ conList' = conList \ old
            /\ sinceCon' = 0
            /\ DeathFromConnect(InState(old, "Connect"))
            /\ UNCHANGED up
  /\ UNCHANGED <<rules, sinceIdc, sinceBeacon, suppressed, leaked, run>>

\* ~gatePvData of the PVs S: a test still parked is unlinked, not answered.
Destroy(S) ==
  /\ Unpark(S)
  /\ st' = [n \in Names |-> IF n \in S THEN "None" ELSE st[n]]
  /\ pvc' = [n \in Names |-> pvc[n] /\ n \notin S]
  /\ need' = [n \in Names |-> need[n] /\ n \notin S]
  /\ up' = [n \in Names |-> up[n] /\ n \notin S]
  /\ vc' = [n \in Names |-> IF n \in S THEN "none" ELSE vc[n]]
  /\ da' = [n \in Names |-> IF n \in S THEN 0 ELSE da[n]]
  /\ nc' = [n \in Names |-> IF n \in S THEN 0 ELSE nc[n]]

\* Mutant: the objects go, their state counters stay.
UncountedPvOnly(S) == [count EXCEPT !.pv = @ - Cardinality(S)]

\* Mutant: whatever is destroyed was alive.
UncountedAlive(S) == [count EXCEPT !.pv = @ - Cardinality(S), !.alive = @ - Cardinality(S)]

\* The statistics when the PVs S go: death() and the setStat calls of the
\* cleanups and of the destructors.
Uncounted(S) ==
  LET alive == HowMany(S, "Active") + HowMany(S, "Inactive")
      unconnected == HowMany(S, "Connect") + HowMany(S, "Dead") + HowMany(S, "Disconnect")
  IN [count EXCEPT
        !.active = @ - HowMany(S, "Active"),
        !.inactive = @ - HowMany(S, "Inactive"),
        !.connecting = @ - HowMany(S, "Connect"),
        !.dead = @ - HowMany(S, "Dead"),
        !.disconnected = @ - HowMany(S, "Disconnect"),
        !.alive = @ - alive,
        !.unconnected = @ - unconnected,
        !.pv = @ - alive - unconnected,
        !.vc = @ - Cardinality({n \in S : vc[n] # "none"})]

\* Mutant: Disconnected PVs are not looked at.
ExpiredConnectedOnly(n) ==
  \/ st[n] = "Dead" /\ da[n] >= DeadTimeout
  \/ st[n] = "Inactive" /\ nc[n] >= InactiveTimeout

\* Whose time is up.  last_trans_time is never later than dead_alive_time in
\* a Dead PV, so timeDead() is the age of dead_alive_time.
Expired(n) ==
  \/ st[n] = "Dead" /\ da[n] >= DeadTimeout
  \/ st[n] = "Inactive" /\ nc[n] >= InactiveTimeout
  \/ st[n] = "Disconnect" /\ nc[n] >= InactiveTimeout

InactiveDeadCleanup ==
  /\ run = "up" /\ phase = "idc" /\ phase' = "flags"
  /\ IF sinceIdc < DeadTimeout /\ sinceIdc < InactiveTimeout
       THEN UNCHANGED <<pvVars, vc, eio, pvList, sinceIdc, count>>
       ELSE LET old == {n \in pvList : Expired(n)} IN
            /\ Freed(pvList) = {}
            /\ Destroy(old)
            /\ pvList' = pvList \ old
            /\ sinceIdc' = 0
            /\ count' = Uncounted(old)
  /\ UNCHANGED <<answer, sought, conList, rules, sinceCon, sinceBeacon, suppressed,
                 leaked, run>>

\* None of the command flags is set, or a report that changes nothing.
NoCommand ==
  /\ run = "up" /\ phase = "flags" /\ phase' = "callbacks"
  /\ UNCHANGED <<pvVars, vc, testVars, listVars, rules, clockVars, count, leaked, run>>

\* newAs: reread the pvlist file.  Every PV is looked up by its real name; a
\* denied one is killed, unlinked from the list being walked, and deleted.
\* death() in the second walk puts a connecting PV on pv_list, unseen.
KillDenied(f) ==
  LET denied == {n \in Names : n \notin DOMAIN f}
      known  == pvList \cap denied
      fresh  == (conList \ pvList) \cap denied
  IN /\ Freed(pvList \cup conList) = {}
     /\ known \cap conList = {}
     /\ rules' = f
     /\ pvList' = (pvList \ known) \cup fresh
     /\ conList' = conList \ fresh
     /\ Destroy(known \cup fresh)
     /\ PostAll(InState(fresh, "Connect"), "notHere")
     /\ UNCHANGED sought
     /\ count' = Uncounted(known \cup fresh)

NewAs ==
  /\ run = "up" /\ phase = "flags"
  /\ \E f \in PvLists : KillDenied(f)
  /\ BeaconAnomaly
  /\ phase' = "callbacks"
  /\ UNCHANGED <<sinceCon, sinceIdc, leaked, run>>

-----------------------------------------------------------------------------
(* Freed memory.  The outcome of touching a deleted gatePvData is          *)
(* undefined; the model lets the process die.                              *)

\* Walking a list, or finding the name, reaches a node of a deleted PV.
TouchFreed ==
  /\ run = "up"
  /\ Freed(pvList \cup conList) # {}
  /\ run' = "crashed"
  /\ UNCHANGED <<pvVars, vc, testVars, listVars, rules, clockVars, count, leaked, phase>>

\* newAs deletes a PV of pv_list and then meets it again on pv_con_list.
NewAsTouchFreed ==
  /\ run = "up" /\ phase = "flags"
  /\ \E f \in PvLists :
       /\ \E n \in pvList \cap conList : n \notin DOMAIN f
       /\ rules' = f
  /\ run' = "crashed"
  /\ UNCHANGED <<pvVars, vc, testVars, listVars, clockVars, count, leaked, phase>>

\* The server process starts a new gateway (gateway.cc, manage_gateway).
Restart ==
  /\ run = "crashed"
  /\ st' = [n \in Names |-> "None"]
  /\ pvc' = [n \in Names |-> FALSE]
  /\ need' = [n \in Names |-> FALSE]
  /\ da' = [n \in Names |-> 0]
  /\ nc' = [n \in Names |-> 0]
  /\ up' = [n \in Names |-> FALSE]
  /\ vc' = [n \in Names |-> "none"]
  /\ eio' = [n \in Names |-> {}]
  /\ answer' = [t \in Tests |-> "idle"]
  /\ sought' = [t \in Tests |-> {}]
  /\ pvList' = {} /\ conList' = {}
  /\ rules' \in PvLists
  /\ sinceCon' = 0 /\ sinceIdc' = 0 /\ sinceBeacon' = 0 /\ suppressed' = FALSE
  /\ count' = [c \in Counter |-> 0]
  /\ leaked' = 0
  /\ phase' = "callbacks" /\ run' = "up"

-----------------------------------------------------------------------------
Next ==
  \/ \E t \in Tests, x \in Requests :
       \/ ExistTestKnown(t, x) \/ ExistTestPending(t, x)
       \/ ExistTestNew(t, x) \/ ExistTestNewFails(t, x)
  \/ \E x \in Requests : Attach(x) \/ AttachGetFails(x) \/ AttachRefused(x)
  \/ \E n \in Names :
       \/ VcDestroy(n) \/ LifeFromConnect(n) \/ Revive(n)
       \/ ConnectionLost(n) \/ FirstEvent(n)
  \/ Tick \/ ConnectCleanup \/ InactiveDeadCleanup \/ NoCommand \/ NewAs
  \/ TouchFreed \/ NewAsTouchFreed \/ Restart

Spec == Init /\ [][Next]_vars

\* The main loop keeps turning, and time passes however often it turns (strong
\* fairness: a pass leaves and re-enters the callbacks, where the clocks move);
\* clients and IOCs owe nothing.
LoopStep == ConnectCleanup \/ InactiveDeadCleanup \/ NoCommand \/ NewAs
              \/ TouchFreed \/ NewAsTouchFreed \/ Restart
FairSpec == Spec /\ WF_vars(LoopStep) /\ SF_vars(Tick)

-----------------------------------------------------------------------------
(* Properties.                                                             *)

\* Every variable has its type; in particular no unsigned counter of the
\* statistics PVs is ever decremented below zero.
TypeOK ==
  /\ st \in [Names -> PvState] /\ vc \in [Names -> VcState]
  /\ pvc \in [Names -> BOOLEAN] /\ need \in [Names -> BOOLEAN]
  /\ up \in [Names -> BOOLEAN]
  /\ da \in [Names -> Age] /\ nc \in [Names -> Age]
  /\ eio \in [Names -> SUBSET Tests] /\ answer \in [Tests -> Answer]
  /\ sought \in [Tests -> SUBSET Names]
  /\ pvList \subseteq Names /\ conList \subseteq Names
  /\ rules \in PvLists
  /\ sinceCon \in Age /\ sinceIdc \in Age /\ sinceBeacon \in Age
  /\ suppressed \in BOOLEAN
  /\ count \in [Counter -> Nat] /\ leaked \in 0..MaxLeaked
  /\ phase \in Phase /\ run \in {"up", "crashed"}

\* The published counters are the numbers of objects in each state, however
\* the objects got there (docs/Gateway.html, "Gateway Process Variables"):
\* every handler that changes a state adjusts the right pair of counters.
CountersMatch ==
  /\ count.active = HowMany(Names, "Active")
  /\ count.inactive = HowMany(Names, "Inactive")
  /\ count.connecting = HowMany(Names, "Connect")
  /\ count.dead = HowMany(Names, "Dead") + leaked
  /\ count.disconnected = HowMany(Names, "Disconnect")
  /\ count.alive = count.active + count.inactive
  /\ count.unconnected = count.connecting + count.dead + count.disconnected
  /\ count.pv = count.alive + count.unconnected
  /\ count.vc = Cardinality(Served)

\* The lists find every object where its state says it is: a connecting PV
\* only on pv_con_list, any other on pv_list (until connectCleanup perhaps on
\* both).  connectCleanup and pvExistTest rely on it.
ListsFollowState ==
  \A n \in Names :
    /\ st[n] = "Connect" => n \in conList \ pvList
    /\ st[n] \in {"Dead", "Inactive", "Active", "Disconnect"} => n \in pvList

\* A postponed exist test waits on one PV, and that one is still connecting, so
\* that life() or death() will answer it; none is left on a PV whose connection
\* was decided, none is dropped by the deletion of its PV or answered twice.
ParkedTestsAreWaitedFor ==
  /\ \A t \in Tests : answer[t] = "parked" <=> \E n \in Names : t \in eio[n]
  /\ \A n \in Names : eio[n] # {} => st[n] = "Connect"
  /\ \A n, m \in Names : n # m => eio[n] \cap eio[m] = {}

\* A served PV (gateVcData) exists only over an Active gatePvData that points
\* back at it, and the pointer never outlives it.
VcFollowsPv ==
  \A n \in Names :
    /\ (vc[n] # "none") <=> pvc[n]
    /\ pvc[n] => st[n] = "Active"

\* activate never reaches a PV that is still connecting: the branches of life()
\* and death() for a connecting PV with a VC are never taken ("Should never be
\* the case", gatePv.cc:620).
NoActivationWhileConnecting ==
  \A n \in Names : st[n] = "Connect" => ~need[n] /\ ~pvc[n]

\* The gateway believes a PV connected exactly while its CA channel is.
StateFollowsChannel ==
  \A n \in Names : up[n] <=> st[n] \in {"Active", "Inactive"}

\* A postponed exist test is answered, or the process died.
ParkedTestsAnswered == \A t \in Tests : answer[t] = "parked" ~> answer[t] # "parked"

\* A PV that does not connect, and one that lost its connection, is looked for
\* only so long: it connects or is destroyed.
UnconnectedForgotten ==
  \A n \in Names : \A s \in {"Connect", "Dead", "Disconnect"} :
    st[n] = s ~> st[n] # s

\* The gateway implements the directory: a test is answered "exists" if and only
\* if the very PV it asked for is served, clients are attached only to what is
\* served, and a postponed test is answered by what happens to its PV.  A dead
\* process serves nothing.
Directory == INSTANCE PvDirectory WITH
  serving  <- {n \in Names : run = "up" /\ st[n] \in {"Active", "Inactive"}},
  attached <- {n \in Served : run = "up"},
  waiting  <- [n \in Names |-> IF run = "up" THEN eio[n] ELSE {}]

ImplementsDirectory == Directory!DSpec

\* Each PV and its gateVcData have the life of VcLife, which GatewayVc gives them
\* in detail.
Life(n) == INSTANCE VcLife WITH
  pv   <- IF run = "up" /\ st[n] \in {"Active", "Inactive"} THEN st[n] ELSE "away",
  vc   <- IF run = "up" THEN vc[n] ELSE "none",
  need <- run = "up" /\ need[n]

\* \A n \in Names : Life(n)!LSpec, in the form that TLC takes.
VcLives ==
  /\ \A n \in Names : Life(n)!LInit
  /\ [][\A n \in Names : [Life(n)!LNext]_(Life(n)!lvars)]_vars

-----------------------------------------------------------------------------
(* What the documentation says and the code does not do.                   *)

\* gateServer.cc:608, "Denied, kill it (handles statistics) then remove it":
\* a denied PV leaves no node behind on the other list.
NoFreedNode == run = "up" => Freed(pvList \cup conList) = {}

\* docs/Gateway.html:201: of the connected PVs, those with a client attached
\* are Active, "Otherwise they are Inactive".
ActiveHasVc == \A n \in Names : st[n] = "Active" => vc[n] # "none"

\* docs/Gateway.html:369, -inactive_timeout: how long "the Gateway will hold the
\* real connection to an Inactive process variable".  dead_alive_time is set on
\* reconnection and no_connect_time when the last client leaves, so the younger
\* of the two is the time the PV has been Inactive.
InactiveHeldForTimeout ==
  [][\A n \in Names :
       run = "up" /\ phase = "idc" /\ st[n] = "Inactive" /\ st'[n] = "None"
         => da[n] >= InactiveTimeout /\ nc[n] >= InactiveTimeout]_vars

\* docs/Gateway.html:381, -disconnect_timeout: how long "the Gateway will hold
\* Disconnected process variables".
DisconnectedHeldForTimeout ==
  [][\A n \in Names :
       run = "up" /\ phase = "idc" /\ st[n] = "Disconnect" /\ st'[n] = "None"
         => nc[n] >= DisconnectTimeout]_vars

\* docs/Gateway.html:713, an ALIAS rule "defines a process variable alias and
\* allows it": rereading a pvlist file that did not change, and serves the PV,
\* does not take the PV from its clients.
RereadKeepsServedPvs ==
  [][\A n \in Names :
       (/\ run = "up" /\ run' = "up" /\ phase = "flags" /\ phase' = "callbacks"
        /\ st[n] = "Active" /\ rules' = rules
        /\ \E x \in DOMAIN rules : rules[x] = n)
         => st'[n] = "Active"]_vars
=============================================================================
