------------------------- MODULE PvDirectory_proofs -------------------------
(***************************************************************************)
(* GatewayPv implements PvDirectory, for every set of names, tests and     *)
(* pvlist files and every timeout: what pvExistTest, pvAttach, the CA      *)
(* callbacks and the cleanups do together is what clients are promised.    *)
(***************************************************************************)
EXTENDS GatewayPv_proofs

\* The refinement mapping of Directory.
Serving  == {n \in Names : run = "up" /\ st[n] \in {"Active", "Inactive"}}
Attached == {n \in Served : run = "up"}
Waiting  == [n \in Names |-> IF run = "up" THEN eio[n] ELSE {}]

Mapped == <<Serving, Attached, Waiting, sought, answer, run>>

\* The mapping of a process that runs.
LEMMA MappedUp ==
  ASSUME run = "up"
  PROVE  /\ Serving = {n \in Names : st[n] \in {"Active", "Inactive"}}
         /\ Attached = Served
         /\ Waiting = [n \in Names |-> eio[n]]
BY DEF Serving, Attached, Waiting, Served

LEMMA MappedUpNext ==
  ASSUME run' = "up"
  PROVE  /\ Serving' = {n \in Names : st'[n] \in {"Active", "Inactive"}}
         /\ Attached' = {n \in Names : vc'[n] # "none"}
         /\ Waiting' = [n \in Names |-> eio'[n]]
BY DEF Serving, Attached, Waiting, Served

\* A step after which the mapped state is the same.
LEMMA Stutters ==
  ASSUME UNCHANGED Mapped
  PROVE  [Directory!DNext]_(Directory!dvars)
BY DEF Mapped, Serving, Attached, Waiting, Directory!dvars

LEMMA MappedSame ==
  ASSUME UNCHANGED <<st, vc, eio, answer, sought, run>>
  PROVE  UNCHANGED Mapped
<1>1. Serving' = Serving
  BY DEF Serving
<1>2. Attached' = Attached
  BY DEF Attached, Served
<1>3. Waiting' = Waiting
  BY DEF Waiting
<1> QED BY <1>1, <1>2, <1>3 DEF Mapped

\* A PV that is found.
LEMMA ServingMore ==
  ASSUME Typed, run = "up", UNCHANGED <<vc, run>>, NEW n \in Names,
         st[n] \notin {"Active", "Inactive"}, st' = [st EXCEPT ![n] = "Inactive"]
  PROVE  n \notin Serving /\ Serving' = Serving \cup {n} /\ Attached' = Attached
<1>1. /\ \A m : m \in Serving <=> m \in Names /\ st[m] \in {"Active", "Inactive"}
      /\ \A m : m \in Serving' <=> m \in Names /\ st'[m] \in {"Active", "Inactive"}
  BY MappedUp, MappedUpNext
<1>2. Attached' = Attached
  BY DEF Attached, Served
<1>3. \A m \in Names : st'[m] = IF m = n THEN "Inactive" ELSE st[m]
  BY DEF Typed
<1> QED BY <1>1, <1>2, <1>3

\* The lists and tests of the PVs that handlers meet.
LEMMA NotServed ==
  ASSUME Structure, run = "up", NEW n \in Names, n \notin pvList
  PROVE  n \notin Serving
BY DEF Structure, ListsFollowState, Serving

LEMMA NobodyWaits ==
  ASSUME Structure, NEW n \in Names, st[n] # "Connect"
  PROVE  eio[n] = {}
BY DEF Structure, ParkedTestsAreWaitedFor

LEMMA OnlyActiveAttached ==
  ASSUME Structure, NEW n \in Names, st[n] # "Active"
  PROVE  vc[n] = "none"
BY DEF Structure, VcFollowsPv

-----------------------------------------------------------------------------
(* Exist tests *)

\* A test for the PV n that is answered at once.
LEMMA ReplyRefines ==
  ASSUME run = "up", UNCHANGED <<st, vc, run>>, NEW t \in Tests, answer[t] # "parked",
         NEW n \in Names,
         Reply(t, {n}, IF st[n] \in {"Active", "Inactive"} THEN "exists" ELSE "notHere")
  PROVE  Directory!AnswerNow(t, n)
<1>1. UNCHANGED <<Serving, Attached, Waiting>>
  BY MappedUp, MappedUpNext DEF Served, Reply
<1>2. n \in Serving <=> st[n] \in {"Active", "Inactive"}
  BY DEF Serving
<1> QED BY <1>1, <1>2 DEF Reply, Directory!AnswerNow, Serving, Attached, Waiting

\* A test for a name that is denied.
LEMMA DenyRefines ==
  ASSUME run = "up", UNCHANGED <<st, vc, run>>, NEW t \in Tests, answer[t] # "parked",
         Reply(t, {}, "notHere")
  PROVE  Directory!Deny(t)
<1>1. UNCHANGED <<Serving, Attached, Waiting>>
  BY MappedUp, MappedUpNext DEF Served, Reply
<1> QED BY <1>1 DEF Reply, Directory!Deny, Serving, Attached, Waiting

\* A test that is postponed.
LEMMA ParkRefines ==
  ASSUME Typed, run = "up", UNCHANGED <<vc, run>>, NEW t \in Tests, answer[t] # "parked",
         NEW n \in Names, n \notin Serving, Serving' = Serving, Park(t, n)
  PROVE  Directory!Postpone(t, n)
<1>1. UNCHANGED Attached
  BY DEF Attached, Served
<1>2. Waiting' = [Waiting EXCEPT ![n] = @ \cup {t}]
  BY MappedUp, MappedUpNext DEF Park, Typed
<1> QED BY <1>1, <1>2 DEF Park, Directory!Postpone, Serving, Attached, Waiting

\* Each of the outcomes of pvExistTest.
LEMMA ExistTestRefines ==
  ASSUME Typed, Structure, NEW t \in Tests, NEW x \in Requests,
         \/ ExistTestKnown(t, x) \/ ExistTestPending(t, x)
         \/ ExistTestNew(t, x) \/ ExistTestNewFails(t, x)
  PROVE  \/ Directory!Deny(t)
         \/ \E n \in Names : Directory!AnswerNow(t, n) \/ Directory!Postpone(t, n)
<1>1. CASE ExistTestKnown(t, x)
  <2>1. run = "up" /\ answer[t] # "parked" /\ UNCHANGED <<st, vc, run>>
    BY <1>1 DEF ExistTestKnown, InCallbacks, pvVars
  <2>2. CASE Reply(t, {}, "notHere")
    BY <2>1, <2>2, DenyRefines
  <2>3. CASE /\ Allowed(x)
             /\ Reply(t, {RealName(x)}, IF st[RealName(x)] \in {"Inactive", "Active"}
                                          THEN "exists" ELSE "notHere")
    <3> DEFINE n == RealName(x)
    <3>1. n \in Names
      BY <2>3, RealNameType
    <3>2. Reply(t, {n}, IF st[n] \in {"Active", "Inactive"} THEN "exists" ELSE "notHere")
      BY <2>3 DEF Reply
    <3> HIDE DEF n
    <3> QED BY <2>1, <3>1, <3>2, ReplyRefines
  <2> QED BY <1>1, <2>2, <2>3 DEF ExistTestKnown
<1>2. CASE ExistTestPending(t, x)
  <2> DEFINE n == RealName(x)
  <2>1. n \in Names /\ n \notin pvList /\ Park(t, n)
    BY <1>2, RealNameType DEF ExistTestPending
  <2>2. run = "up" /\ answer[t] # "parked" /\ UNCHANGED <<st, vc, run>>
    BY <1>2 DEF ExistTestPending, InCallbacks, pvVars
  <2>3. n \notin Serving /\ Serving' = Serving
    BY <2>1, <2>2, NotServed DEF Serving
  <2> HIDE DEF n
  <2> QED BY <2>1, <2>2, <2>3, ParkRefines
<1>3. CASE ExistTestNew(t, x)
  <2> DEFINE n == RealName(x)
  <2>1. n \in Names /\ n \notin pvList /\ Park(t, n) /\ st' = [st EXCEPT ![n] = "Connect"]
    BY <1>3, RealNameType DEF ExistTestNew, NewPv
  <2>2. run = "up" /\ answer[t] # "parked" /\ UNCHANGED <<vc, run>>
    BY <1>3 DEF ExistTestNew, InCallbacks
  <2>3. n \notin Serving
    BY <2>1, <2>2, NotServed
  <2>4. Serving' = Serving
    BY <2>1, <2>2, <2>3 DEF Serving, Typed
  <2> HIDE DEF n
  <2> QED BY <2>1, <2>2, <2>3, <2>4, ParkRefines
<1>4. CASE ExistTestNewFails(t, x)
  <2> DEFINE n == RealName(x)
  <2>1. /\ run = "up" /\ answer[t] # "parked" /\ UNCHANGED <<st, vc, run>>
        /\ Reply(t, {n}, "notHere") /\ n \in Names /\ n \notin pvList
    BY <1>4, RealNameType DEF ExistTestNewFails, InCallbacks, pvVars
  <2> HIDE DEF n
  <2>2. st[n] \notin {"Active", "Inactive"}
    BY <2>1, NotServed DEF Serving
  <2>3. Directory!AnswerNow(t, n)
    BY <2>1, <2>2, ReplyRefines
  <2> QED BY <2>1, <2>3
<1> QED BY <1>1, <1>2, <1>3, <1>4

-----------------------------------------------------------------------------
(* Clients attach and leave *)

LEMMA AttachRefines ==
  ASSUME Typed, NEW x \in Requests, Attach(x)
  PROVE  \E n \in Names : Directory!Attach(n)
<1> DEFINE n == RealName(x)
<1>1. /\ n \in Names /\ vc[n] = "none" /\ st[n] = "Inactive" /\ run = "up"
      /\ st' = [st EXCEPT ![n] = "Active"]
      /\ vc' = [vc EXCEPT ![n] = IF CacheMode THEN "Connect" ELSE "Ready"]
      /\ UNCHANGED <<eio, answer, sought, run>>
  BY RealNameType DEF Attach, InCallbacks, testVars
<1> HIDE DEF n
<1>2. Serving' = Serving /\ Waiting' = Waiting
  BY <1>1, MappedUp, MappedUpNext DEF Typed
<1>3. n \in Serving \ Attached /\ Attached' = Attached \cup {n}
  BY <1>1, MappedUp, MappedUpNext DEF Typed, Served
<1> QED BY <1>1, <1>2, <1>3 DEF Directory!Attach, Serving, Attached, Waiting

LEMMA VcDestroyRefines ==
  ASSUME Typed, NEW n \in Names, VcDestroy(n)
  PROVE  Directory!Detach(n)
<1>1. /\ run = "up" /\ vc' = [vc EXCEPT ![n] = "none"]
      /\ st' = [st EXCEPT ![n] = IF @ = "Active" THEN "Inactive" ELSE @]
      /\ UNCHANGED <<eio, answer, sought, run>>
  BY DEF VcDestroy, InCallbacks, testVars
<1>2. Serving' = Serving /\ Waiting' = Waiting
  BY <1>1, MappedUp, MappedUpNext DEF Typed
<1>3. Attached' = Attached \ {n}
  BY <1>1, MappedUp, MappedUpNext DEF Typed, Served
<1> QED BY <1>1, <1>2, <1>3 DEF Directory!Detach, Serving, Attached, Waiting

\* A refused or failed attach shows nothing to the directory.
LEMMA AttachFailsRefines ==
  ASSUME Typed, NEW x \in Requests, AttachGetFails(x) \/ AttachRefused(x)
  PROVE  UNCHANGED Mapped
<1> DEFINE n == RealName(x)
<1>1. /\ n \in Names /\ run = "up" /\ UNCHANGED <<vc, eio, answer, sought, run>>
      /\ st' = st \/ (st[n] = "Inactive" /\ st' = [st EXCEPT ![n] = "Active"])
  BY RealNameType DEF AttachGetFails, AttachRefused, InCallbacks, testVars
<1> HIDE DEF n
<1>2. Serving' = Serving
  <2>1. \A m \in Names : st'[m] \in {"Active", "Inactive"} <=> st[m] \in {"Active", "Inactive"}
    BY <1>1 DEF Typed
  <2> QED BY <1>1, <2>1 DEF Serving
<1> QED BY <1>1, <1>2 DEF Mapped, Attached, Waiting, Served

-----------------------------------------------------------------------------
(* Connections *)

LEMMA LifeRefines ==
  ASSUME Typed, Structure, NEW n \in Names, LifeFromConnect(n)
  PROVE  Directory!Found(n)
<1>1. /\ run = "up" /\ st[n] = "Connect" /\ st' = [st EXCEPT ![n] = "Inactive"]
      /\ UNCHANGED <<vc, run>> /\ Flush({n}, "exists")
  BY DEF LifeFromConnect, InCaPoll, Structure, NoActivationWhileConnecting
<1>2. n \notin Serving /\ Serving' = Serving \cup {n} /\ Attached' = Attached
  BY <1>1, ServingMore
<1>3. Waiting' = [Waiting EXCEPT ![n] = {}]
  BY <1>1, MappedUp, MappedUpNext DEF Flush, Unpark
<1>4. answer' = [t \in Tests |-> IF t \in Waiting[n] THEN "exists" ELSE answer[t]]
  BY <1>1, MappedUp DEF Flush, PostAll
<1>5. sought' = sought
  BY <1>1 DEF Flush
<1> QED BY <1>1, <1>2, <1>3, <1>4, <1>5 DEF Directory!Found, Serving, Attached, Waiting

LEMMA ReviveRefines ==
  ASSUME Typed, Structure, NEW n \in Names, Revive(n)
  PROVE  Directory!Found(n)
<1>1. /\ run = "up" /\ st[n] \in {"Disconnect", "Dead"} /\ st' = [st EXCEPT ![n] = "Inactive"]
      /\ UNCHANGED <<vc, eio, answer, sought, run>>
  BY DEF Revive, InCaPoll, testVars
<1>2. n \notin Serving /\ Serving' = Serving \cup {n} /\ Attached' = Attached
  BY <1>1, ServingMore
<1>3. eio[n] = {}
  BY <1>1, NobodyWaits
<1>4. Waiting[n] = {} /\ Waiting' = [Waiting EXCEPT ![n] = {}]
  BY <1>1, <1>3, MappedUp, MappedUpNext
<1>5. answer' = [t \in Tests |-> IF t \in Waiting[n] THEN "exists" ELSE answer[t]]
  BY <1>1, <1>4 DEF Typed
<1> QED BY <1>1, <1>2, <1>4, <1>5 DEF Directory!Found, Serving, Attached, Waiting

\* Some PVs are withdrawn, the search for others is given up.
LEMMA WithdrawRefines ==
  ASSUME run = "up", run' = "up", sought' = sought,
         NEW S \in SUBSET Serving, Serving' = Serving \ S, Attached' = Attached \ S,
         NEW U \in SUBSET (Names \ Serving),
         \A n \in Names : eio'[n] = IF n \in U THEN {} ELSE eio[n],
         answer' = [t \in Tests |-> IF \E n \in U : t \in eio[n] THEN "notHere" ELSE answer[t]]
  PROVE  Directory!Withdraw
<1>1. Waiting' = [n \in Names |-> IF n \in U THEN {} ELSE Waiting[n]]
  BY MappedUp, MappedUpNext
<1>2. answer' = [t \in Tests |->
                   IF \E n \in U : t \in Waiting[n] THEN "notHere" ELSE answer[t]]
  <2>1. \A n \in U : Waiting[n] = eio[n]
    BY MappedUp
  <2> QED BY <2>1
<1> QED BY <1>1, <1>2 DEF Directory!Withdraw, Serving, Attached, Waiting

LEMMA ConnectionLostRefines ==
  ASSUME Typed, Structure, NEW n \in Names, ConnectionLost(n)
  PROVE  Directory!Withdraw
<1>1. /\ run = "up" /\ run' = "up" /\ st[n] \in {"Active", "Inactive"}
      /\ st' = [st EXCEPT ![n] = "Disconnect"]
      /\ vc' = [vc EXCEPT ![n] = IF st[n] = "Active" /\ pvc[n] THEN "none" ELSE @]
      /\ UNCHANGED <<eio, answer, sought>>
  BY DEF ConnectionLost, InCaPoll, testVars
<1>2. vc'[n] = "none"
  BY <1>1 DEF Structure, VcFollowsPv, Typed
<1>3. n \in Serving /\ Serving' = Serving \ {n}
  BY <1>1, MappedUp, MappedUpNext DEF Typed
<1>4. Attached' = Attached \ {n}
  BY <1>1, <1>2, MappedUp, MappedUpNext DEF Typed, Served
<1>5. answer' = [t \in Tests |-> IF \E m \in {} : t \in eio[m] THEN "notHere" ELSE answer[t]]
  BY <1>1 DEF Typed
<1>6. {n} \in SUBSET Serving /\ {} \in SUBSET (Names \ Serving)
  BY <1>3
<1>7. \A m \in Names : eio'[m] = IF m \in {} THEN {} ELSE eio[m]
  BY <1>1
<1> QED BY <1>1, <1>3, <1>4, <1>5, <1>6, <1>7, WithdrawRefines

-----------------------------------------------------------------------------
(* The cleanups *)

LEMMA ConnectCleanupRefines ==
  ASSUME Typed, Structure, ConnectCleanup
  PROVE  Directory!Withdraw \/ UNCHANGED Mapped
<1>1. run = "up" /\ run' = "up"
  BY DEF ConnectCleanup, InCallbacks
<1>2. CASE sinceCon < ConnectTimeout
  BY <1>1, <1>2, MappedSame DEF ConnectCleanup, pvVars, testVars
<1>3. CASE ~(sinceCon < ConnectTimeout)
  <2>1. PICK U \in SUBSET Names : /\ \A n \in U : st[n] = "Connect"
                                  /\ DeathFromConnect(U)
    <3> DEFINE U == InState({n \in conList : da[n] >= ConnectTimeout}, "Connect")
    <3>1. DeathFromConnect(U)
      BY <1>3 DEF ConnectCleanup
    <3>2. U \in SUBSET Names /\ \A n \in U : st[n] = "Connect"
      BY DEF InState, Typed
    <3> QED BY <3>1, <3>2
  <2>2. /\ \A n \in Names : st'[n] = IF n \in U THEN "Dead" ELSE st[n]
        /\ \A n \in Names : eio'[n] = IF n \in U THEN {} ELSE eio[n]
        /\ answer' = [t \in Tests |-> IF \E n \in U : t \in eio[n] THEN "notHere" ELSE answer[t]]
        /\ sought' = sought
    BY <2>1 DEF DeathFromConnect, Flush, Unpark, PostAll
  <2>3. \A n \in Names : vc'[n] = vc[n]
    BY <2>1 DEF DeathFromConnect, Structure, NoActivationWhileConnecting
  <2>4. Serving' = Serving \ {} /\ Attached' = Attached \ {}
    <3>1. \A n \in Names : st'[n] \in {"Active", "Inactive"} <=> st[n] \in {"Active", "Inactive"}
      BY <2>1, <2>2
    <3>2. Serving' = Serving
      BY <1>1, <3>1, MappedUp, MappedUpNext
    <3>3. Attached' = Attached
      BY <1>1, <2>3, MappedUp, MappedUpNext DEF Served
    <3> QED BY <3>2, <3>3
  <2>5. U \in SUBSET (Names \ Serving) /\ {} \in SUBSET Serving
    BY <2>1 DEF Serving
  <2> QED BY ONLY <1>1, <2>2, <2>4, <2>5, WithdrawRefines
<1> QED BY <1>2, <1>3

\* PVs that are destroyed, none of them connecting but those of U.
LEMMA DestroyRefines ==
  ASSUME Typed, Structure, run = "up", run' = "up", sought' = sought, NEW S \in SUBSET Names, Destroy(S),
         NEW U \in SUBSET S, \A n \in S : n \in U <=> st[n] = "Connect",
         answer' = [t \in Tests |-> IF \E n \in U : t \in eio[n] THEN "notHere" ELSE answer[t]]
  PROVE  Directory!Withdraw
<1> DEFINE G == S \cap Serving
<1>1. /\ \A n \in Names : st'[n] = IF n \in S THEN "None" ELSE st[n]
      /\ \A n \in Names : vc'[n] = IF n \in S THEN "none" ELSE vc[n]
      /\ \A n \in Names : eio'[n] = IF n \in S THEN {} ELSE eio[n]
  BY DEF Destroy, Unpark
<1>2. \A n \in Names : eio'[n] = IF n \in U THEN {} ELSE eio[n]
  BY <1>1, NobodyWaits
<1>3. Serving' = Serving \ G
  BY <1>1, MappedUp, MappedUpNext
<1>4. Attached' = Attached \ G
  <2>1. \A n \in Names : n \in Attached <=> vc[n] # "none"
    BY MappedUp DEF Served
  <2>2. \A n \in Attached : n \in Names /\ n \in Serving
    BY MappedUp, OnlyActiveAttached DEF Served
  <2>3. \A n : n \in Attached' <=> n \in Names /\ vc'[n] # "none"
    BY MappedUpNext
  <2> QED BY <1>1, <2>1, <2>2, <2>3
<1>5. U \in SUBSET (Names \ Serving) /\ G \in SUBSET Serving
  BY DEF Serving
<1> HIDE DEF G
<1> QED BY ONLY run = "up", run' = "up", sought' = sought, <1>2, <1>3, <1>4, <1>5, WithdrawRefines,
           answer' = [t \in Tests |-> IF \E n \in U : t \in eio[n] THEN "notHere" ELSE answer[t]]

LEMMA InactiveDeadRefines ==
  ASSUME Typed, Structure, InactiveDeadCleanup
  PROVE  Directory!Withdraw \/ UNCHANGED Mapped
<1>1. run = "up" /\ run' = "up" /\ answer' = answer /\ sought' = sought
  BY DEF InactiveDeadCleanup
<1>2. CASE sinceIdc < DeadTimeout /\ sinceIdc < InactiveTimeout
  BY <1>1, <1>2, MappedSame DEF InactiveDeadCleanup, pvVars
<1>3. CASE ~(sinceIdc < DeadTimeout /\ sinceIdc < InactiveTimeout)
  <2> DEFINE S == {n \in pvList : Expired(n)}
  <2>1. Destroy(S) /\ S \in SUBSET Names
    BY <1>3 DEF InactiveDeadCleanup, Typed
  <2>2. \A n \in S : n \in {} <=> st[n] = "Connect"
    BY DEF Expired
  <2>3. answer' = [t \in Tests |-> IF \E n \in {} : t \in eio[n] THEN "notHere" ELSE answer[t]]
    BY <1>1 DEF Typed
  <2> HIDE DEF S
  <2>4. {} \in SUBSET S
    OBVIOUS
  <2> QED BY ONLY Typed, Structure, <1>1, <2>1, <2>2, <2>3, <2>4, DestroyRefines
<1> QED BY <1>2, <1>3

LEMMA NewAsRefines ==
  ASSUME Typed, Structure, NewAs
  PROVE  Directory!Withdraw
<1>1. run = "up" /\ run' = "up" /\ sought' = sought
  BY DEF NewAs, KillDenied
<1>2. PICK f \in PvLists : KillDenied(f)
  BY DEF NewAs
<1> DEFINE denied == {n \in Names : n \notin DOMAIN f}
           known  == pvList \cap denied
           fresh  == (conList \ pvList) \cap denied
           U      == InState(fresh, "Connect")
<1>3. Destroy(known \cup fresh) /\ PostAll(U, "notHere")
  BY <1>2 DEF KillDenied
<1>4. answer' = [t \in Tests |-> IF \E n \in U : t \in eio[n] THEN "notHere" ELSE answer[t]]
  BY <1>3 DEF PostAll
<1>5. U \in SUBSET (known \cup fresh) /\ known \cup fresh \in SUBSET Names
  BY DEF InState
\* A connecting PV is on no list but pv_con_list.
<1>6. \A n \in known \cup fresh : n \in U <=> st[n] = "Connect"
  BY DEF InState, Structure, ListsFollowState
<1> HIDE DEF known, fresh, U
<1> QED BY ONLY Typed, Structure, <1>1, <1>3, <1>4, <1>5, <1>6, DestroyRefines

-----------------------------------------------------------------------------
(* The process *)

LEMMA CrashRefines ==
  ASSUME TouchFreed \/ NewAsTouchFreed
  PROVE  Directory!Crash
<1>1. run = "up" /\ run' = "crashed" /\ answer' = answer /\ sought' = sought
  BY DEF TouchFreed, NewAsTouchFreed, testVars
<1>2. Serving' = {} /\ Attached' = {} /\ Waiting' = [n \in Names |-> {}]
  BY <1>1 DEF Serving, Attached, Waiting, Served
<1> QED BY <1>1, <1>2 DEF Directory!Crash, Serving, Attached, Waiting

LEMMA RestartRefines ==
  ASSUME Restart
  PROVE  Directory!Recover
<1>1. /\ run = "crashed" /\ run' = "up" /\ answer' = [t \in Tests |-> "idle"]
      /\ sought' = [t \in Tests |-> {}] /\ st' = [n \in Names |-> "None"] /\ vc' = [n \in Names |-> "none"]
      /\ eio' = [n \in Names |-> {}]
  BY DEF Restart
<1>2. Serving = {} /\ Attached = {} /\ Waiting = [n \in Names |-> {}]
  BY <1>1 DEF Serving, Attached, Waiting, Served
<1>3. Serving' = {} /\ Attached' = {} /\ Waiting' = [n \in Names |-> {}]
  BY <1>1, MappedUpNext
<1> QED BY <1>1, <1>2, <1>3 DEF Directory!Recover, Serving, Attached, Waiting

-----------------------------------------------------------------------------
(* Every step *)

LEMMA InitRefines == Init => Directory!DInit
<1> SUFFICES ASSUME Init PROVE Directory!DInit
  OBVIOUS
<1>1. /\ run = "up" /\ answer = [t \in Tests |-> "idle"]
      /\ sought = [t \in Tests |-> {}]
      /\ st = [n \in Names |-> "None"] /\ vc = [n \in Names |-> "none"]
      /\ eio = [n \in Names |-> {}]
  BY DEF Init
<1>2. Serving = {} /\ Attached = {} /\ Waiting = [n \in Names |-> {}]
  BY <1>1, MappedUp DEF Served
<1> QED BY <1>1, <1>2 DEF Directory!DInit, Serving, Attached, Waiting

LEMMA StepRefines ==
  Typed /\ Structure /\ [Next]_vars => [Directory!DNext]_(Directory!dvars)
<1> SUFFICES ASSUME Typed, Structure, [Next]_vars
             PROVE  [Directory!DNext]_(Directory!dvars)
  OBVIOUS
<1>1. ASSUME NEW t \in Tests, NEW x \in Requests,
             \/ ExistTestKnown(t, x) \/ ExistTestPending(t, x)
             \/ ExistTestNew(t, x) \/ ExistTestNewFails(t, x)
      PROVE  Directory!DNext
  BY <1>1, ExistTestRefines DEF Directory!DNext
<1>2. ASSUME NEW x \in Requests, Attach(x)
      PROVE  Directory!DNext
  BY <1>2, AttachRefines DEF Directory!DNext
<1>3. ASSUME NEW x \in Requests, AttachGetFails(x) \/ AttachRefused(x)
      PROVE  UNCHANGED Mapped
  BY <1>3, AttachFailsRefines
<1>4. ASSUME NEW n \in Names, VcDestroy(n) \/ LifeFromConnect(n) \/ Revive(n)
      PROVE  Directory!DNext
  BY <1>4, VcDestroyRefines, LifeRefines, ReviveRefines DEF Directory!DNext
<1>5. ASSUME NEW n \in Names, ConnectionLost(n)
      PROVE  Directory!DNext
  BY <1>5, ConnectionLostRefines DEF Directory!DNext
<1>6. ASSUME NEW n \in Names, FirstEvent(n)
      PROVE  UNCHANGED Mapped
  <2>1. /\ UNCHANGED <<st, eio, answer, sought, run>> /\ vc[n] # "none"
        /\ vc' = [vc EXCEPT ![n] = "Ready"]
    BY <1>6 DEF FirstEvent, testVars
  <2>2. Served' = Served
    BY <2>1 DEF Served, Typed
  <2> QED BY <2>1, <2>2 DEF Mapped, Serving, Attached, Waiting
<1>7. CASE Tick \/ NoCommand
  BY <1>7, MappedSame, Stutters DEF Tick, NoCommand, testVars, pvVars
<1>8. CASE ConnectCleanup \/ InactiveDeadCleanup \/ NewAs
  BY <1>8, ConnectCleanupRefines, InactiveDeadRefines, NewAsRefines, Stutters
     DEF Directory!DNext
<1>9. CASE TouchFreed \/ NewAsTouchFreed \/ Restart
  BY <1>9, CrashRefines, RestartRefines DEF Directory!DNext
<1>10. CASE UNCHANGED vars
  BY <1>10, MappedSame, Stutters DEF vars, testVars, pvVars
<1> QED
  BY <1>1, <1>2, <1>3, <1>4, <1>5, <1>6, <1>7, <1>8, <1>9, <1>10, Stutters DEF Next

\* Every behaviour of the gateway is one of the directory: a test learns "exists"
\* exactly when the PV it asked for is served, clients are attached only to what is
\* served, and a postponed test is answered by what becomes of its PV.
THEOREM GatewayIsDirectory == Spec => ImplementsDirectory
BY InitRefines, StepRefines, AlwaysTyped, StructureHolds, PTL
   DEF Spec, ImplementsDirectory, Directory!DSpec

-----------------------------------------------------------------------------
(* What the directory promises, and so the gateway *)

LEMMA AskedInit == Directory!DInit => Directory!WaitingAsked
BY DEF Directory!DInit, Directory!WaitingAsked

\* The same in terms of the gateway that runs.
LEMMA AskedUp ==
  ASSUME run = "up"
  PROVE  Directory!WaitingAsked <=>
           \A n \in Names : \A t \in eio[n] : answer[t] = "parked" /\ sought[t] = {n}
BY DEF Directory!WaitingAsked

LEMMA AskedUpNext ==
  ASSUME run' = "up"
  PROVE  Directory!WaitingAsked' <=>
           \A n \in Names : \A t \in eio'[n] : answer'[t] = "parked" /\ sought'[t] = {n}
BY DEF Directory!WaitingAsked

\* A test that does not wait is answered, or begins to wait for the PV it asks for.
LEMMA AskedReply ==
  ASSUME Typed, Directory!WaitingAsked, NEW t \in Tests, NEW n \in Names,
         Directory!Deny(t) \/ Directory!AnswerNow(t, n) \/ Directory!Postpone(t, n)
  PROVE  Directory!WaitingAsked'
<1>1. run = "up" /\ run' = "up" /\ answer[t] # "parked"
  BY DEF Directory!Deny, Directory!AnswerNow, Directory!Postpone
<1>2. /\ \A u \in Tests \ {t} : answer'[u] = answer[u] /\ sought'[u] = sought[u]
      /\ \A m \in Names : m # n => Waiting'[m] = Waiting[m]
      /\ \A u \in Waiting'[n] : u \in Waiting[n] \/ (u = t /\ Directory!Postpone(t, n))
  <2>1. \A u \in Tests \ {t} : answer'[u] = answer[u] /\ sought'[u] = sought[u]
    BY DEF Directory!Deny, Directory!AnswerNow, Directory!Postpone, Typed
  <2>2. CASE Directory!Postpone(t, n)
    <3>1. Waiting' = [Waiting EXCEPT ![n] = @ \cup {t}]
      BY <2>2 DEF Directory!Postpone, Waiting
    <3>2. \A m \in Names : Waiting'[m] = IF m = n THEN Waiting[n] \cup {t} ELSE Waiting[m]
      BY <3>1 DEF Waiting
    <3> QED BY <2>1, <2>2, <3>2
  <2>3. CASE Directory!Deny(t) \/ Directory!AnswerNow(t, n)
    <3>1. Waiting' = Waiting
      BY <2>3 DEF Directory!Deny, Directory!AnswerNow, Waiting
    <3> QED BY <2>1, <3>1
  <2> QED BY <2>2, <2>3
<1>3. Directory!Postpone(t, n) => answer'[t] = "parked" /\ sought'[t] = {n}
  BY DEF Directory!Postpone, Typed
<1>4. \A m \in Names : eio[m] \subseteq Tests /\ Waiting[m] = eio[m] /\ Waiting'[m] = eio'[m]
  BY <1>1, MappedUp, MappedUpNext DEF Typed
<1>5. \A m \in Names : \A u \in eio[m] : u # t /\ answer[u] = "parked" /\ sought[u] = {m}
  BY <1>1, AskedUp
<1> HIDE DEF Waiting
<1> QED BY <1>1, <1>2, <1>3, <1>4, <1>5, AskedUpNext

\* The tests that wait for some PVs are answered, and no one else's wait changes.
LEMMA AskedFlush ==
  ASSUME Typed, Directory!WaitingAsked,
         (\E n \in Names : Directory!Found(n)) \/ Directory!Withdraw
  PROVE  Directory!WaitingAsked'
<1>1. run = "up" /\ run' = "up" /\ sought' = sought
  BY DEF Directory!Found, Directory!Withdraw
<1>2. PICK S \in SUBSET Names :
        /\ \A m \in Names : Waiting'[m] = IF m \in S THEN {} ELSE Waiting[m]
        /\ \A t \in Tests : (\A n \in S : t \notin Waiting[n]) => answer'[t] = answer[t]
  <2>1. CASE \E n \in Names : Directory!Found(n)
    <3>1. PICK n \in Names : Directory!Found(n)
      BY <2>1
    <3>2. /\ \A m \in Names : Waiting'[m] = IF m \in {n} THEN {} ELSE Waiting[m]
          /\ \A t \in Tests : (\A m \in {n} : t \notin Waiting[m]) => answer'[t] = answer[t]
      BY <3>1 DEF Directory!Found, Waiting
    <3> QED BY <3>2
  <2>2. CASE Directory!Withdraw
    <3>1. PICK S \in SUBSET Names :
            /\ Waiting' = [n \in Names |-> IF n \in S THEN {} ELSE Waiting[n]]
            /\ answer' = [t \in Tests |-> IF \E n \in S : t \in Waiting[n]
                                             THEN "notHere" ELSE answer[t]]
      BY <2>2 DEF Directory!Withdraw, Waiting
    <3>2. /\ \A m \in Names : Waiting'[m] = IF m \in S THEN {} ELSE Waiting[m]
          /\ \A t \in Tests : (\A n \in S : t \notin Waiting[n]) => answer'[t] = answer[t]
      BY <3>1
    <3> QED BY <3>2
  <2> QED BY <2>1, <2>2
<1>3. \A m \in Names : eio[m] \subseteq Tests /\ Waiting[m] = eio[m] /\ Waiting'[m] = eio'[m]
  BY <1>1, MappedUp, MappedUpNext DEF Typed
<1>4. \A m \in Names : \A u \in eio[m] : answer[u] = "parked" /\ sought[u] = {m}
  BY <1>1, AskedUp
<1>5. ASSUME NEW m \in Names, NEW u \in eio'[m]
      PROVE  answer'[u] = "parked" /\ sought'[u] = {m}
  <2>1. m \notin S /\ u \in eio[m] /\ u \in Tests /\ sought[u] = {m} /\ answer[u] = "parked"
    BY <1>2, <1>3, <1>4, <1>5
  <2>2. \A n \in S : u \notin Waiting[n]
    BY <1>3, <1>4, <2>1
  <2> QED BY <1>1, <1>2, <2>1, <2>2
<1> QED BY <1>1, <1>5, AskedUpNext

LEMMA AskedStep ==
  Typed /\ Directory!WaitingAsked /\ [Directory!DNext]_(Directory!dvars)
    => Directory!WaitingAsked'
<1> SUFFICES ASSUME Typed, Directory!WaitingAsked, [Directory!DNext]_(Directory!dvars)
             PROVE  Directory!WaitingAsked'
  OBVIOUS
<1>1. ASSUME NEW t \in Tests, Directory!Deny(t)
      PROVE  Directory!WaitingAsked'
  BY <1>1 DEF Directory!Deny, Directory!WaitingAsked, Typed
<1>2. ASSUME NEW t \in Tests, NEW n \in Names,
             Directory!AnswerNow(t, n) \/ Directory!Postpone(t, n)
      PROVE  Directory!WaitingAsked'
  BY <1>2, AskedReply
<1>3. CASE (\E n \in Names : Directory!Found(n)) \/ Directory!Withdraw
  BY <1>3, AskedFlush
<1>4. CASE \E n \in Names : Directory!Attach(n) \/ Directory!Detach(n)
  BY <1>4 DEF Directory!Attach, Directory!Detach, Directory!WaitingAsked
<1>5. CASE Directory!Crash \/ Directory!Recover
  BY <1>5 DEF Directory!Crash, Directory!Recover, Directory!WaitingAsked
<1>6. CASE UNCHANGED Directory!dvars
  BY <1>6 DEF Directory!dvars, Directory!WaitingAsked
<1> QED BY <1>1, <1>2, <1>3, <1>4, <1>5, <1>6 DEF Directory!DNext

\* A step after which one more test knows that its PV exists.
LEMMA ExistsStep ==
  ASSUME Typed, Directory!WaitingAsked, [Directory!DNext]_(Directory!dvars),
         NEW t \in Tests, answer[t] # "exists", answer'[t] = "exists"
  PROVE  \E n \in Names : sought'[t] = {n} /\ n \in Serving'
<1>1. CASE \E n \in Names, u \in Tests : Directory!AnswerNow(u, n)
  <2>1. PICK n \in Names, u \in Tests : Directory!AnswerNow(u, n)
    BY <1>1
  <2>2. t = u /\ sought'[t] = {n} /\ n \in Serving /\ Serving' = Serving
    BY <2>1 DEF Directory!AnswerNow, Typed, Serving
  <2> QED BY <2>2
<1>2. CASE \E n \in Names : Directory!Found(n)
  <2>1. PICK n \in Names : Directory!Found(n)
    BY <1>2
  <2>2. run = "up" /\ t \in Waiting[n] /\ n \in Serving' /\ sought' = sought
    BY <2>1 DEF Directory!Found, Serving, Waiting
  <2>3. sought[t] = {n}
    BY <2>2, MappedUp, AskedUp
  <2> QED BY <2>2, <2>3
<1>3. CASE \E u \in Tests, n \in Names : Directory!Deny(u) \/ Directory!Postpone(u, n)
  BY <1>3 DEF Directory!Deny, Directory!Postpone, Typed
<1>4. CASE \E n \in Names : Directory!Attach(n) \/ Directory!Detach(n)
  BY <1>4 DEF Directory!Attach, Directory!Detach
<1>5. CASE Directory!Withdraw
  BY <1>5 DEF Directory!Withdraw
<1>6. CASE Directory!Crash \/ Directory!Recover \/ UNCHANGED Directory!dvars
  BY <1>6 DEF Directory!Crash, Directory!Recover, Directory!dvars
<1>7. CASE \E u \in Tests : Directory!Deny(u)
  BY <1>7 DEF Directory!Deny, Typed
<1> QED BY <1>1, <1>2, <1>3, <1>4, <1>5, <1>6, <1>7 DEF Directory!DNext

\* A test learns that a PV exists only while the very PV it asked for is served:
\* what the refinement implies for the answers of pvExistTest, life() and newAs.
THEOREM ExistsOnlyServed == Spec => Directory!ExistsIsServed
<1>1. Typed /\ Directory!WaitingAsked /\ [Directory!DNext]_(Directory!dvars)
        => [\A t \in Tests : answer[t] # "exists" /\ answer'[t] = "exists"
                => sought'[t] # {} /\ sought'[t] \subseteq Serving']_(Directory!dvars)
  BY ExistsStep
<1> QED
  BY <1>1, AskedInit, AskedStep, AlwaysTyped, GatewayIsDirectory, PTL
     DEF ImplementsDirectory, Directory!DSpec, Directory!ExistsIsServed, Serving
=============================================================================
