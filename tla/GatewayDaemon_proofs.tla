------------------------ MODULE GatewayDaemon_proofs ------------------------
(***************************************************************************)
(* Proofs about GatewayDaemon, for any number of restarts, any interval    *)
(* and any delay shorter than it.                                          *)
(*                                                                         *)
(* Watched counts the strays, with the gateway that is soon to be one, and *)
(* Told says what a gateway knows of a stop; OneGateway and                *)
(* ServerTakesGateway follow.  Paced relates the ages of the forks to the  *)
(* start times that manage_gateway compares; RestartsLimited and           *)
(* RestartsPaced follow.  TypedControl, TypedCounts, TypedTimes and        *)
(* TypedLoop are TypeOK in parts.                                          *)
(***************************************************************************)
EXTENDS GatewayDaemon, TLAPS

ServerState == {"check", "delay", "fork", "forked", "paused", "test", "exited",
                "gateway"}

GateState == {"none", "child", "starting", "running", "quitting"}

\* The gateway runs and the server has been told, or is being told, that a
\* gateway ended: the present one is a stray soon.
Superseded ==
  /\ gate # "none"
  /\ \/ server \in {"check", "delay", "fork"}
     \/ server = "test" /\ ~death
     \/ Alive /\ "CHLD" \in sig

\* Every stray, and the one that is soon to be one, comes of a SIGCHLD that no
\* death raised.  Without such a SIGCHLD no other one interrupts the sleep.
Watched ==
  /\ strays + (IF Superseded THEN 1 ELSE 0) <= fakes
  /\ fakes = 0 /\ server \in {"check", "delay", "fork"} => "CHLD" \notin sig
  /\ fakes = 0 /\ server = "gateway" => gate = "none"

\* A gateway knows of a stop of its server.
Told ==
  /\ Alive /\ gate # "none" => gatePid
  /\ death /\ gate \in {"child", "starting", "running"} =>
       term \/ gateDeath \/ "quit" \in flags
  /\ server = "exited" /\ gate # "none" => death \/ fakes > 0

TypedControl ==
  /\ server \in ServerState /\ gate \in GateState
  /\ gatePid \in BOOLEAN /\ death \in BOOLEAN
  /\ gateDeath \in BOOLEAN /\ term \in BOOLEAN
  /\ sig \subseteq {"CHLD", "TERM"}

TypedCounts == strays \in Nat /\ fakes \in 0..MaxFakes

-----------------------------------------------------------------------------
(* The two processes *)

LEMMA ControlInit == Init => TypedControl /\ TypedCounts /\ Watched /\ Told
<1> SUFFICES ASSUME Init PROVE TypedControl /\ TypedCounts /\ Watched /\ Told
  OBVIOUS
<1>1. TypedControl
  BY DEF Init, TypedControl, ServerState, GateState
<1>2. TypedCounts
  BY FakesAssumption DEF Init, TypedCounts
<1>3. ~Superseded
  BY DEF Init, Superseded
<1>4. Watched
  BY <1>3 DEF Init, Watched
<1>5. Told
  BY DEF Init, Told
<1> QED BY <1>1, <1>2, <1>4, <1>5

LEMMA TypedControlStep == TypedControl /\ [Next]_vars => TypedControl'
<1> SUFFICES ASSUME TypedControl, [Next]_vars PROVE TypedControl'
  OBVIOUS
<1> USE DEF TypedControl, ServerState, GateState, serverVars, gateVars, loopVars, forkVars
<1>1. CASE ServerStep \/ ForkFails
  BY <1>1 DEF ServerStep, CheckRestarts, EndDelay, Fork, Pause, TestDeath, ForkFails, Runs
<1>2. CASE HandleChild \/ HandleStop \/ HandleStopAlone
  BY <1>2 DEF HandleChild, HandleStop, HandleStopAlone, Interrupted
<1>3. CASE GateStep
  BY <1>3 DEF GateStep, ChildLeavesLoop, StartUp, InheritedStop, GateStop, LoopStep,
              FlagDone, GateQuits, GateEnds
<1>4. CASE GateCrashes \/ StrayEnds
  BY <1>4 DEF GateCrashes, StrayEnds, GateEnds
<1>5. CASE \E f \in Signalled : GateSignal(f)
  BY <1>5 DEF GateSignal
<1>6. CASE \E f \in Puttable : PutFlag(f)
  BY <1>6 DEF PutFlag
<1>7. CASE KillServer \/ KillGateway \/ FakeChild \/ Tick
  BY <1>7 DEF KillServer, KillGateway, FakeChild, Tick
<1>8. CASE UNCHANGED vars
  BY <1>8 DEF vars
<1> QED BY <1>1, <1>2, <1>3, <1>4, <1>5, <1>6, <1>7, <1>8 DEF Next

\* Only a fork makes a stray.
LEMMA TypedCountsStep ==
  TypedCounts /\ [Next]_vars => TypedCounts' /\ (fakes' = 0 => fakes = 0)
<1> SUFFICES ASSUME TypedCounts, [Next]_vars
             PROVE  TypedCounts' /\ (fakes' = 0 => fakes = 0)
  OBVIOUS
<1> USE DEF TypedCounts, serverVars, gateVars, loopVars, forkVars
<1>1. CASE Fork
  BY <1>1 DEF Fork
<1>2. CASE StrayEnds
  BY <1>2 DEF StrayEnds
<1>3. CASE FakeChild
  BY <1>3, FakesAssumption DEF FakeChild
<1>4. CASE ~Fork /\ ~StrayEnds /\ ~FakeChild
  <2>1. strays' = strays /\ fakes' = fakes
    BY <1>4 DEF Next, ServerStep, CheckRestarts, EndDelay, Pause, TestDeath, ForkFails,
                HandleChild, HandleStop, HandleStopAlone, GateStep, ChildLeavesLoop,
                StartUp, InheritedStop, GateStop, LoopStep, FlagDone, GateQuits,
                GateCrashes, GateEnds, GateSignal, PutFlag, KillServer, KillGateway,
                Tick, vars
  <2> QED BY <2>1
<1> QED BY <1>1, <1>2, <1>3, <1>4

LEMMA WatchedStep == TypedControl /\ TypedCounts /\ Watched /\ [Next]_vars => Watched'
<1> SUFFICES ASSUME TypedControl, TypedCounts, Watched, [Next]_vars PROVE Watched'
  OBVIOUS
<1> USE FakesAssumption
<1> USE DEF TypedControl, TypedCounts, Watched, Superseded, Alive, serverVars, gateVars, loopVars, forkVars
<1>1. CASE CheckRestarts
  BY <1>1 DEF CheckRestarts, Runs
<1>2. CASE EndDelay
  BY <1>2 DEF EndDelay, Runs
<1>3. CASE Fork
  BY <1>3 DEF Fork, Runs
<1>4. CASE ForkFails
  BY <1>4 DEF ForkFails, Runs
<1>5. CASE Pause
  BY <1>5 DEF Pause, Runs
<1>6. CASE TestDeath
  BY <1>6 DEF TestDeath, Runs
<1>7. CASE HandleChild
  BY <1>7 DEF HandleChild, Interrupted
<1>8. CASE HandleStop
  BY <1>8 DEF HandleStop, Interrupted
<1>9. CASE HandleStopAlone
  BY <1>9 DEF HandleStopAlone
<1>10. CASE ChildLeavesLoop
  BY <1>10 DEF ChildLeavesLoop, GateEnds
<1>11. CASE StartUp \/ InheritedStop \/ GateStop \/ LoopStep
  BY <1>11 DEF StartUp, InheritedStop, GateStop, LoopStep
<1>12. CASE FlagDone
  BY <1>12 DEF FlagDone
<1>13. CASE GateQuits \/ GateCrashes
  BY <1>13 DEF GateQuits, GateCrashes, GateEnds
<1>18. CASE StrayEnds
  BY <1>18 DEF StrayEnds
<1>14. CASE \E f \in Signalled : GateSignal(f)
  BY <1>14 DEF GateSignal
<1>15. CASE \E f \in Puttable : PutFlag(f)
  BY <1>15 DEF PutFlag
<1>16. CASE KillServer \/ KillGateway \/ Tick
  BY <1>16 DEF KillServer, KillGateway, Tick
<1>19. CASE FakeChild
  BY <1>19 DEF FakeChild
<1>17. CASE UNCHANGED vars
  BY <1>17 DEF vars
<1> QED
  BY <1>1, <1>2, <1>3, <1>4, <1>5, <1>6, <1>7, <1>8, <1>9, <1>10, <1>11, <1>12,
     <1>13, <1>14, <1>15, <1>16, <1>17, <1>18, <1>19 DEF Next, ServerStep, GateStep

LEMMA ToldStep ==
  TypedControl /\ TypedCounts /\ Watched /\ Told /\ [Next]_vars => Told'
<1> SUFFICES ASSUME TypedControl, TypedCounts, Watched, Told, [Next]_vars PROVE Told'
  OBVIOUS
<1> USE FakesAssumption
<1> USE DEF TypedControl, TypedCounts, Watched, Superseded, Told, Alive, serverVars, gateVars, loopVars, forkVars
<1>1. CASE CheckRestarts
  BY <1>1 DEF CheckRestarts, Runs
<1>2. CASE EndDelay
  BY <1>2 DEF EndDelay, Runs
<1>3. CASE Fork
  BY <1>3 DEF Fork, Runs
<1>4. CASE ForkFails
  BY <1>4 DEF ForkFails, Runs
<1>5. CASE Pause
  BY <1>5 DEF Pause, Runs
<1>6. CASE TestDeath
  BY <1>6 DEF TestDeath, Runs
<1>7. CASE HandleChild
  BY <1>7 DEF HandleChild, Interrupted
<1>8. CASE HandleStop
  BY <1>8 DEF HandleStop, Interrupted
<1>9. CASE HandleStopAlone
  BY <1>9 DEF HandleStopAlone
<1>10. CASE ChildLeavesLoop
  BY <1>10 DEF ChildLeavesLoop, GateEnds
<1>11. CASE StartUp \/ InheritedStop \/ GateStop \/ LoopStep
  BY <1>11 DEF StartUp, InheritedStop, GateStop, LoopStep
<1>12. CASE FlagDone
  BY <1>12 DEF FlagDone
<1>13. CASE GateQuits \/ GateCrashes
  BY <1>13 DEF GateQuits, GateCrashes, GateEnds
<1>18. CASE StrayEnds
  BY <1>18 DEF StrayEnds
<1>14. CASE \E f \in Signalled : GateSignal(f)
  BY <1>14 DEF GateSignal
<1>15. CASE \E f \in Puttable : PutFlag(f)
  BY <1>15 DEF PutFlag
<1>16. CASE KillServer \/ KillGateway \/ Tick
  BY <1>16 DEF KillServer, KillGateway, Tick
<1>19. CASE FakeChild
  BY <1>19 DEF FakeChild
<1>17. CASE UNCHANGED vars
  BY <1>17 DEF vars
<1> QED
  BY <1>1, <1>2, <1>3, <1>4, <1>5, <1>6, <1>7, <1>8, <1>9, <1>10, <1>11, <1>12,
     <1>13, <1>14, <1>15, <1>16, <1>17, <1>18, <1>19 DEF Next, ServerStep, GateStep

\* Whatever signals come when, the server and its gateway keep to Watched and Told.
THEOREM ControlHolds == Spec => [](TypedControl /\ TypedCounts /\ Watched /\ Told)
<1>1. TypedControl /\ TypedCounts /\ Watched /\ Told /\ [Next]_vars
      => (TypedControl /\ TypedCounts /\ Watched /\ Told)'
  BY TypedControlStep, TypedCountsStep, WatchedStep, ToldStep
<1> QED BY ControlInit, <1>1, PTL DEF Spec

\* The gateways that manage_gateway loses sight of, while they run, are no more
\* than the SIGCHLDs that no death raised; without such a SIGCHLD there never
\* are two gateways.
THEOREM ExtraGatewaysCounted ==
  Spec => []OneGateway /\ [](fakes = 0 => RestartedOnlyIfDead)
<1>1. TypedCounts /\ Watched => OneGateway /\ (fakes = 0 => RestartedOnlyIfDead)
  BY DEF TypedCounts, Watched, OneGateway, RestartedOnlyIfDead
<1> QED BY ControlHolds, <1>1, PTL

\* When the server was stopped, the gateway that it named has got the stop too.
THEOREM StopIsPassedOn == Spec => []ServerTakesGateway
<1>1. Told => ServerTakesGateway
  BY DEF Told, ServerTakesGateway
<1> QED BY ControlHolds, <1>1, PTL

-----------------------------------------------------------------------------
(* The rate of restarts *)

\* Between a fork and the next check: start k of the window belongs to the fork
\* as far from the end, and is at most the delay older.
AfterFork ==
  /\ Len(forks) >= Len(starts)
  /\ Len(starts) < NRestarts => Len(forks) = Len(starts)
  /\ \A k \in 1..Len(starts) :
       starts[k] <= forks[Len(forks) - Len(starts) + k] + RestartDelay
  /\ Len(forks) >= 2 => forks[Len(forks) - 1] >= prev

\* Between a check and its fork: the last start has no fork yet, and it is at
\* most as old as what has passed of the delay.
BeforeFork ==
  /\ Len(starts) >= 1 /\ Len(forks) >= Len(starts) - 1
  /\ Len(starts) < NRestarts => Len(forks) = Len(starts) - 1
  /\ \A k \in 1..(Len(starts) - 1) :
       starts[k] <= forks[Len(forks) - Len(starts) + 1 + k] + RestartDelay
  /\ starts[Len(starts)] + left <= RestartDelay
  /\ Len(forks) >= NRestarts =>
       forks[Len(forks) - NRestarts + 1] >= RestartInterval - RestartDelay
  /\ Len(forks) >= 1 => forks[Len(forks)] >= prev
  /\ Len(forks) >= 2 /\ ~death /\ fakes = 0 =>
       forks[Len(forks) - 1] + left >= RestartDelay
  /\ server = "fork" => left = 0

Paced ==
  /\ server \in {"check", "forked", "paused", "test"} => AfterFork
  /\ server \in {"delay", "fork"} => BeforeFork

\* Types of what has to do with time.
TypedTimes ==
  /\ starts \in Seq(0..RestartInterval) /\ Len(starts) <= NRestarts
  /\ forks \in Seq(0..RestartInterval) /\ Len(forks) <= NRestarts + 1
  /\ prev \in 0..RestartDelay /\ left \in 0..RestartDelay

\* The window of m ages: a new one comes in at the end and the first goes out.
Push(s, m) == IF Len(s) < m THEN Append(s, 0) ELSE Append(Tail(s), 0)

LEMMA WindowStep ==
  ASSUME NEW m \in Nat \ {0}, NEW s \in Seq(0..RestartInterval), Len(s) <= m
  PROVE  /\ Push(s, m) \in Seq(0..RestartInterval)
         /\ Len(Push(s, m)) = IF Len(s) < m THEN Len(s) + 1 ELSE m
         /\ Push(s, m)[Len(Push(s, m))] = 0
         /\ \A k \in 1..(Len(Push(s, m)) - 1) :
              Push(s, m)[k] = IF Len(s) < m THEN s[k] ELSE s[k + 1]
<1> USE DEF Push
<1> 0 \in 0..RestartInterval
  BY RestartAssumption
<1>1. CASE Len(s) < m
  BY <1>1
<1>2. CASE ~(Len(s) < m)
  <2>1. Len(s) = m /\ s # <<>>
    BY <1>2
  <2>2. /\ Tail(s) \in Seq(0..RestartInterval) /\ Len(Tail(s)) = m - 1
        /\ \A k \in 1..(m - 1) : Tail(s)[k] = s[k + 1]
    BY <2>1
  <2> QED BY <1>2, <2>2
<1> QED BY <1>1, <1>2

\* A tick: everything is one older, up to the cap.
LEMMA TickAges ==
  ASSUME NEW s \in Seq(0..RestartInterval),
         NEW t, t = [k \in DOMAIN s |-> Older(s[k], RestartInterval)]
  PROVE  /\ t \in Seq(0..RestartInterval) /\ Len(t) = Len(s)
         /\ \A k \in 1..Len(s) : t[k] = Older(s[k], RestartInterval)
         /\ \A k \in 1..Len(s) : s[k] \in 0..RestartInterval /\ t[k] > 0
<1>1. \A k \in 1..Len(s) : /\ s[k] \in 0..RestartInterval
                           /\ Older(s[k], RestartInterval) \in 1..RestartInterval
  BY RestartAssumption DEF Older
<1>2. Len(s) \in Nat /\ DOMAIN s = 1..Len(s)
  OBVIOUS
<1>3. t \in [1..Len(s) -> 0..RestartInterval]
  BY <1>1, <1>2
<1>4. t \in Seq(0..RestartInterval) /\ Len(t) = Len(s)
  BY <1>2, <1>3
<1>5. \A k \in 1..Len(s) : t[k] = Older(s[k], RestartInterval)
  BY <1>2
<1> QED BY <1>1, <1>4, <1>5

LEMMA TypedTimesStep == TypedTimes /\ [Next]_vars => TypedTimes'
<1> SUFFICES ASSUME TypedTimes, [Next]_vars PROVE TypedTimes'
  OBVIOUS
<1> USE RestartAssumption DEF TypedTimes, serverVars, gateVars, loopVars, forkVars
<1>1. CASE CheckRestarts
  <2>1. CASE TooMany
    BY <1>1, <2>1 DEF CheckRestarts
  <2>2. CASE ~TooMany
    <3>1. starts' = Push(starts, NRestarts)
      BY <1>1, <2>2 DEF CheckRestarts, Window, Push
    <3> QED BY <1>1, <2>2, <3>1, WindowStep DEF CheckRestarts
  <2> QED BY <2>1, <2>2
<1>2. CASE Fork
  <2>1. forks' = Push(forks, NRestarts + 1) /\ NRestarts + 1 \in Nat \ {0}
    BY <1>2 DEF Fork, Push
  <2>2. forks' \in Seq(0..RestartInterval) /\ Len(forks') <= NRestarts + 1
    BY <2>1, WindowStep
  <2> QED BY <1>2, <2>2 DEF Fork
<1>3. CASE EndDelay \/ Pause \/ TestDeath \/ ForkFails
  BY <1>3 DEF EndDelay, Pause, TestDeath, ForkFails
<1>4. CASE HandleChild \/ HandleStop \/ HandleStopAlone
  BY <1>4 DEF HandleChild, HandleStop, HandleStopAlone, Interrupted
<1>5. CASE GateStep \/ GateCrashes \/ StrayEnds
  BY <1>5 DEF GateStep, ChildLeavesLoop, StartUp, InheritedStop, GateStop, LoopStep,
              FlagDone, GateQuits, GateEnds, GateCrashes, StrayEnds
<1>6. CASE \E f \in Signalled : GateSignal(f)
  BY <1>6 DEF GateSignal
<1>7. CASE \E f \in Puttable : PutFlag(f)
  BY <1>7 DEF PutFlag
<1>8. CASE KillServer \/ KillGateway \/ FakeChild
  BY <1>8 DEF KillServer, KillGateway, FakeChild
<1>9. CASE Tick
  <2>1. /\ starts' \in Seq(0..RestartInterval) /\ Len(starts') = Len(starts)
        /\ forks' \in Seq(0..RestartInterval) /\ Len(forks') = Len(forks)
    BY <1>9, TickAges DEF Tick
  <2> QED BY <1>9, <2>1 DEF Tick, Older
<1>10. CASE UNCHANGED vars
  BY <1>10 DEF vars
<1> QED BY <1>1, <1>2, <1>3, <1>4, <1>5, <1>6, <1>7, <1>8, <1>9, <1>10
        DEF Next, ServerStep

\* The check of manage_gateway passed: RESTART_INTERVAL lies between the present
\* and the start that leaves the window.
LEMMA CheckStep ==
  ASSUME TypedTimes, AfterFork, CheckRestarts, ~TooMany
  PROVE  BeforeFork'
<1> USE RestartAssumption DEF TypedTimes
<1>1. /\ starts' = Push(starts, NRestarts) /\ forks' = forks /\ death' = death
      /\ fakes' = fakes
      /\ prev' = 0 /\ left' = IF prev < RestartDelay THEN RestartDelay ELSE 0
      /\ server' = "delay"
  BY DEF CheckRestarts, Window, Push, forkVars
<1>2. /\ Len(starts') = IF Len(starts) < NRestarts THEN Len(starts) + 1 ELSE NRestarts
      /\ starts'[Len(starts')] = 0
      /\ \A k \in 1..(Len(starts') - 1) :
           starts'[k] = IF Len(starts) < NRestarts THEN starts[k] ELSE starts[k + 1]
  BY <1>1, WindowStep
<1>3. /\ \A k \in 1..Len(forks) : forks[k] \in 0..RestartInterval
      /\ \A k \in 1..Len(starts) : starts[k] \in 0..RestartInterval
      /\ Len(forks) \in Nat /\ Len(starts) \in Nat
  OBVIOUS
<1>4. /\ Len(starts') >= 1 /\ Len(forks') >= Len(starts') - 1
      /\ Len(starts') < NRestarts => Len(forks') = Len(starts') - 1
  BY <1>1, <1>2, <1>3 DEF AfterFork
<1>5. \A k \in 1..(Len(starts') - 1) :
        starts'[k] <= forks'[Len(forks') - Len(starts') + 1 + k] + RestartDelay
  <2> SUFFICES ASSUME NEW k \in 1..(Len(starts') - 1)
               PROVE  starts'[k] <= forks[Len(forks) - Len(starts') + 1 + k] + RestartDelay
    BY <1>1
  <2>1. CASE Len(starts) < NRestarts
    BY <2>1, <1>2, <1>3 DEF AfterFork
  <2>2. CASE ~(Len(starts) < NRestarts)
    <3>1. k + 1 \in 1..Len(starts) /\ Len(starts') = Len(starts)
      BY <2>2, <1>2, <1>3
    <3>2. starts[k + 1] <= forks[Len(forks) - Len(starts) + (k + 1)] + RestartDelay
      BY <3>1 DEF AfterFork
    <3>3. Len(forks) - Len(starts) + (k + 1) = Len(forks) - Len(starts') + 1 + k
      BY <3>1, <1>3
    <3> QED BY <2>2, <3>2, <3>3, <1>2
  <2> QED BY <2>1, <2>2
<1>6. starts'[Len(starts')] + left' <= RestartDelay
  BY <1>1, <1>2
<1>7. ASSUME Len(forks) >= NRestarts
      PROVE  forks[Len(forks) - NRestarts + 1] >= RestartInterval - RestartDelay
  <2>1. Len(starts) = NRestarts
    BY <1>3, <1>7 DEF AfterFork
  <2>2. starts[1] >= RestartInterval
    BY <2>1, <1>3 DEF TooMany
  <2>3. starts[1] <= forks[Len(forks) - NRestarts + 1] + RestartDelay
    BY <2>1, <1>3 DEF AfterFork
  <2>4. Len(forks) - NRestarts + 1 \in 1..Len(forks)
    BY <1>3, <1>7
  <2>5. starts[1] \in Int /\ forks[Len(forks) - NRestarts + 1] \in Int
    BY <2>1, <2>4, <1>3
  <2> QED BY <2>2, <2>3, <2>5
<1>8. Len(forks) >= 1 => forks[Len(forks)] >= 0
  BY <1>3
<1>9. Len(forks) >= 2 => forks[Len(forks) - 1] + left' >= RestartDelay
  <2> SUFFICES ASSUME Len(forks) >= 2
               PROVE  forks[Len(forks) - 1] + left' >= RestartDelay
    OBVIOUS
  <2>1. forks[Len(forks) - 1] >= prev /\ forks[Len(forks) - 1] \in 0..RestartInterval
    BY <1>3 DEF AfterFork
  <2> QED BY <2>1, <1>1
<1> QED BY <1>1, <1>4, <1>5, <1>6, <1>7, <1>8, <1>9 DEF BeforeFork

LEMMA ForkStep ==
  ASSUME TypedTimes, BeforeFork, Fork
  PROVE  AfterFork' /\ RestartsLimited' /\ RestartsPaced'
<1> USE RestartAssumption DEF TypedTimes
<1>1. /\ forks' = Push(forks, NRestarts + 1) /\ starts' = starts /\ prev' = prev
      /\ left = 0 /\ death' = death /\ fakes' = fakes
  BY DEF Fork, Push, Runs, BeforeFork
<1>2. /\ Len(forks') = IF Len(forks) < NRestarts + 1 THEN Len(forks) + 1 ELSE NRestarts + 1
      /\ forks'[Len(forks')] = 0
      /\ \A k \in 1..(Len(forks') - 1) :
           forks'[k] = IF Len(forks) < NRestarts + 1 THEN forks[k] ELSE forks[k + 1]
  <2>1. NRestarts + 1 \in Nat \ {0}
    OBVIOUS
  <2> QED BY <1>1, <2>1, WindowStep
<1>3. /\ \A k \in 1..Len(forks) : forks[k] \in 0..RestartInterval
      /\ \A k \in 1..Len(starts) : starts[k] \in 0..RestartInterval
      /\ Len(forks) \in Nat /\ Len(starts) \in Nat
  OBVIOUS
\* Counted from the end, a fork is one further away.
<1>4. \A j \in 1..NRestarts : Len(forks') - j \in 1..Len(forks') =>
        forks'[Len(forks') - j] = forks[Len(forks) + 1 - j]
  <2> SUFFICES ASSUME NEW j \in 1..NRestarts, Len(forks') - j \in 1..Len(forks')
               PROVE  forks'[Len(forks') - j] = forks[Len(forks) + 1 - j]
    OBVIOUS
  <2>1. CASE Len(forks) < NRestarts + 1
    <3>1. Len(forks') = Len(forks) + 1
      BY <2>1, <1>2
    <3>2. Len(forks) + 1 - j \in 1..(Len(forks') - 1)
      BY <3>1, <1>3
    <3>3. forks'[Len(forks) + 1 - j] = forks[Len(forks) + 1 - j]
      BY <2>1, <3>2, <1>2
    <3> QED BY <3>1, <3>3
  <2>2. CASE ~(Len(forks) < NRestarts + 1)
    <3>1. Len(forks') = NRestarts + 1 /\ Len(forks) = NRestarts + 1
      BY <2>2, <1>2, <1>3
    <3>2. NRestarts + 1 - j \in 1..(Len(forks') - 1)
      BY <3>1
    <3>3. forks'[NRestarts + 1 - j] = forks[NRestarts + 1 - j + 1]
      BY <2>2, <3>2, <1>2
    <3>4. NRestarts + 1 - j + 1 = Len(forks) + 1 - j
      BY <3>1
    <3> QED BY <3>1, <3>3, <3>4
  <2> QED BY <2>1, <2>2
<1>5. AfterFork'
  <2>1. /\ Len(forks') >= Len(starts)
        /\ Len(starts) < NRestarts => Len(forks') = Len(starts)
    BY <1>2, <1>3 DEF BeforeFork
  <2>2. ASSUME NEW k \in 1..Len(starts)
        PROVE  starts[k] <= forks'[Len(forks') - Len(starts) + k] + RestartDelay
    <3>1. CASE k = Len(starts)
      <4>1. Len(forks') - Len(starts) + k = Len(forks')
        BY <3>1, <1>2, <1>3
      <4> QED BY <3>1, <4>1, <1>1, <1>2, <1>3 DEF BeforeFork
    <3>2. CASE k # Len(starts)
      <4> DEFINE j == Len(starts) - k
      <4>1. j \in 1..NRestarts /\ Len(forks') - j \in 1..Len(forks')
        <5>1. Len(forks') \in Nat
          BY <1>2, <1>3
        <5>2. j \in 1..(Len(starts) - 1)
          BY <3>2, <1>3
        <5> QED BY <5>1, <5>2, <2>1, <1>3
      <4>2. forks'[Len(forks') - j] = forks[Len(forks) + 1 - j]
        BY <4>1, <1>4
      <4>3. /\ Len(forks') - Len(starts) + k = Len(forks') - j
            /\ Len(forks) - Len(starts) + 1 + k = Len(forks) + 1 - j
        BY <1>2, <1>3
      <4>4. starts[k] <= forks[Len(forks) - Len(starts) + 1 + k] + RestartDelay
        BY <3>2, <1>3 DEF BeforeFork
      <4> QED BY <4>2, <4>3, <4>4
    <3> QED BY <3>1, <3>2
  <2>3. Len(forks') >= 2 => forks'[Len(forks') - 1] >= prev
    <3> SUFFICES ASSUME Len(forks') >= 2 PROVE forks'[Len(forks') - 1] >= prev
      OBVIOUS
    <3>1. 1 \in 1..NRestarts /\ Len(forks') - 1 \in 1..Len(forks') /\ Len(forks) >= 1
      BY <1>2, <1>3
    <3>2. forks'[Len(forks') - 1] = forks[Len(forks)]
      <4>1. forks'[Len(forks') - 1] = forks[Len(forks) + 1 - 1]
        BY <3>1, <1>4
      <4> QED BY <4>1, <1>3
    <3> QED BY <3>1, <3>2 DEF BeforeFork
  <2> QED BY <1>1, <2>1, <2>2, <2>3 DEF AfterFork
<1>6. RestartsLimited'
  <2> SUFFICES ASSUME Len(forks') = NRestarts + 1
               PROVE  forks'[1] >= RestartInterval - RestartDelay
    BY DEF RestartsLimited
  <2>1. forks'[1] = forks[Len(forks) + 1 - NRestarts]
    BY <1>2, <1>3, <1>4
  <2>2. Len(forks) >= NRestarts /\ Len(forks) + 1 - NRestarts = Len(forks) - NRestarts + 1
    BY <1>2, <1>3
  <2> QED BY <2>1, <2>2 DEF BeforeFork
<1>7. RestartsPaced'
  <2> SUFFICES ASSUME Len(forks') >= 3, ~death, fakes = 0
               PROVE  forks'[Len(forks') - 2] >= RestartDelay
    BY <1>1 DEF RestartsPaced
  <2>1. forks'[Len(forks') - 2] = forks[Len(forks) - 1]
    <3>1. 2 \in 1..NRestarts /\ Len(forks') - 2 \in 1..Len(forks')
      BY <1>2, <1>3
    <3>2. forks'[Len(forks') - 2] = forks[Len(forks) + 1 - 2]
      BY <3>1, <1>4
    <3>3. Len(forks) + 1 - 2 = Len(forks) - 1
      BY <1>3
    <3> QED BY <3>2, <3>3
  <2>2. Len(forks) >= 2
    BY <1>2, <1>3
  <2> QED BY <2>1, <2>2, <1>1, <1>3 DEF BeforeFork
<1> QED BY <1>5, <1>6, <1>7

\* Time passes in pause() and in sleep().
LEMMA TickStep ==
  ASSUME TypedTimes, Tick
  PROVE  /\ AfterFork => AfterFork'
         /\ BeforeFork /\ server = "delay" /\ left > 0 => BeforeFork'
         /\ RestartsLimited' /\ RestartsPaced'
<1> USE RestartAssumption DEF TypedTimes
<1>1. /\ starts' = [k \in DOMAIN starts |-> Older(starts[k], RestartInterval)]
      /\ forks' = [k \in DOMAIN forks |-> Older(forks[k], RestartInterval)]
      /\ prev' = Older(prev, RestartDelay) /\ death' = death /\ server' = server
      /\ fakes' = fakes
      /\ left' = IF left > 0 THEN left - 1 ELSE 0
  BY DEF Tick
<1>2. /\ Len(starts') = Len(starts) /\ Len(forks') = Len(forks)
      /\ Len(forks) \in Nat /\ Len(starts) \in Nat
      /\ \A k \in 1..Len(forks) : /\ forks[k] \in 0..RestartInterval
                                  /\ forks'[k] = Older(forks[k], RestartInterval)
      /\ \A k \in 1..Len(starts) : /\ starts[k] \in 0..RestartInterval
                                   /\ starts'[k] = Older(starts[k], RestartInterval)
  BY <1>1, TickAges
<1>3. \A x, y \in 0..RestartInterval : x <= y + RestartDelay =>
        Older(x, RestartInterval) <= Older(y, RestartInterval) + RestartDelay
  BY DEF Older
<1>4. \A y \in 0..RestartInterval : y >= prev => Older(y, RestartInterval) >= prev'
  BY <1>1 DEF Older
<1>5. AfterFork => AfterFork'
  <2> SUFFICES ASSUME AfterFork PROVE AfterFork'
    OBVIOUS
  <2>1. ASSUME NEW k \in 1..Len(starts)
        PROVE  starts'[k] <= forks'[Len(forks) - Len(starts) + k] + RestartDelay
    <3> DEFINE f == Len(forks) - Len(starts) + k
    <3>1. starts[k] <= forks[f] + RestartDelay /\ Len(forks) >= Len(starts)
      BY DEF AfterFork
    <3>2. f \in 1..Len(forks)
      BY <3>1, <1>2
    <3> HIDE DEF f
    <3>3. starts'[k] <= forks'[f] + RestartDelay
      BY <3>1, <3>2, <1>2, <1>3
    <3> QED BY <3>3 DEF f
  <2>2. ASSUME Len(forks) >= 2 PROVE forks'[Len(forks) - 1] >= prev'
    <3>1. Len(forks) - 1 \in 1..Len(forks) /\ forks[Len(forks) - 1] >= prev
      BY <2>2, <1>2 DEF AfterFork
    <3> QED BY <3>1, <1>2, <1>4
  <2> QED BY <2>1, <2>2, <1>2 DEF AfterFork
<1>6. BeforeFork /\ server = "delay" /\ left > 0 => BeforeFork'
  <2> SUFFICES ASSUME BeforeFork, server = "delay", left > 0 PROVE BeforeFork'
    OBVIOUS
  <2>1. ASSUME NEW k \in 1..(Len(starts) - 1)
        PROVE  starts'[k] <= forks'[Len(forks) - Len(starts) + 1 + k] + RestartDelay
    <3> DEFINE f == Len(forks) - Len(starts) + 1 + k
    <3>1. starts[k] <= forks[f] + RestartDelay
      BY DEF BeforeFork
    <3>2. f \in 1..Len(forks) /\ k \in 1..Len(starts)
      <4>1. Len(forks) >= Len(starts) - 1
        BY DEF BeforeFork
      <4> QED BY ONLY <4>1, <1>2, k \in 1..(Len(starts) - 1)
    <3> HIDE DEF f
    <3>3. starts'[k] <= forks'[f] + RestartDelay
      BY <3>1, <3>2, <1>2, <1>3
    <3> QED BY <3>3 DEF f
  <2>2. starts'[Len(starts)] + left' <= RestartDelay
    <3>1. /\ Len(starts) \in 1..Len(starts)
          /\ starts[Len(starts)] + left <= RestartDelay
      BY <1>2 DEF BeforeFork
    <3> QED BY <3>1, <1>1, <1>2 DEF Older
  <2>3. ASSUME Len(forks) >= NRestarts
        PROVE  forks'[Len(forks) - NRestarts + 1] >= RestartInterval - RestartDelay
    <3> DEFINE f == Len(forks) - NRestarts + 1
    <3>1. f \in 1..Len(forks)
      BY <2>3, <1>2
    <3>2. forks[f] >= RestartInterval - RestartDelay
      BY <2>3 DEF BeforeFork
    <3> HIDE DEF f
    <3>3. forks'[f] >= RestartInterval - RestartDelay
      BY <3>1, <3>2, <1>2 DEF Older
    <3> QED BY <3>3 DEF f
  <2>4. ASSUME Len(forks) >= 1 PROVE forks'[Len(forks)] >= prev'
    <3>1. Len(forks) \in 1..Len(forks) /\ forks[Len(forks)] >= prev
      BY <2>4, <1>2 DEF BeforeFork
    <3> QED BY <3>1, <1>2, <1>4
  <2>5. ASSUME Len(forks) >= 2, ~death, fakes = 0
        PROVE  forks'[Len(forks) - 1] + left' >= RestartDelay
    <3>1. /\ Len(forks) - 1 \in 1..Len(forks)
          /\ forks[Len(forks) - 1] + left >= RestartDelay
      BY <2>5, <1>2 DEF BeforeFork
    <3> QED BY <3>1, <1>1, <1>2 DEF Older
  <2>6. /\ Len(starts) >= 1 /\ Len(forks) >= Len(starts) - 1
        /\ Len(starts) < NRestarts => Len(forks) = Len(starts) - 1
    BY DEF BeforeFork
  <2> QED BY <1>1, <1>2, <2>1, <2>2, <2>3, <2>4, <2>5, <2>6 DEF BeforeFork
<1>7. Len(forks) >= 1 => Last(forks)' # 0
  <2>1. ASSUME Len(forks) >= 1 PROVE forks'[Len(forks)] # 0
    BY <2>1, <1>2 DEF Older
  <2> QED BY <2>1, <1>2 DEF Last
<1> QED BY <1>2, <1>5, <1>6, <1>7 DEF RestartsLimited, RestartsPaced

LEMMA PacedStep ==
  TypedCounts /\ Watched /\ TypedTimes /\ Paced /\ [Next]_vars => Paced'
<1> SUFFICES ASSUME TypedCounts, Watched, TypedTimes, Paced, [Next]_vars PROVE Paced'
  OBVIOUS
<1> USE DEF Paced, serverVars, gateVars, loopVars, forkVars
<1>1. CASE CheckRestarts
  <2>1. CASE TooMany
    BY <1>1, <2>1 DEF CheckRestarts
  <2>2. CASE ~TooMany
    BY <1>1, <2>2, CheckStep DEF CheckRestarts, Runs
  <2> QED BY <2>1, <2>2
<1>2. CASE EndDelay
  BY <1>2 DEF EndDelay, Runs, BeforeFork
<1>3. CASE Fork
  BY <1>3, ForkStep DEF Fork, Runs
<1>4. CASE Pause \/ TestDeath \/ ForkFails
  BY <1>4 DEF Pause, TestDeath, ForkFails, Runs, AfterFork
\* The death of the gateway does not end sleep(): it is not told of there.  Only
\* another SIGCHLD does.
<1>5. CASE HandleChild
  <2>1. /\ forks' = forks /\ starts' = starts /\ prev' = prev /\ left' = 0
        /\ fakes' = fakes /\ server' = IF server = "paused" THEN "test" ELSE server
        /\ server \in {"delay", "fork"} => fakes # 0
    BY <1>5 DEF HandleChild, Interrupted, Watched
  <2>2. AfterFork => AfterFork'
    BY <2>1 DEF AfterFork
  <2>3. BeforeFork /\ fakes # 0 => BeforeFork'
    <3>1. BeforeFork => starts[Len(starts)] \in Int /\ left \in Nat /\ RestartDelay \in Nat
      BY RestartAssumption DEF BeforeFork, TypedTimes
    <3> QED BY <2>1, <3>1 DEF BeforeFork
  <2> QED BY <2>1, <2>2, <2>3
<1>6. CASE HandleStop
  <2>1. /\ forks' = forks /\ starts' = starts /\ prev' = prev /\ left' = 0
        /\ death' = TRUE /\ server' = IF server = "paused" THEN "test" ELSE server
    BY <1>6 DEF HandleStop, Interrupted
  <2>2. AfterFork => AfterFork'
    BY <2>1 DEF AfterFork
  <2>3. BeforeFork => BeforeFork'
    <3>1. BeforeFork => starts[Len(starts)] \in Int /\ left \in Nat /\ RestartDelay \in Nat
      BY RestartAssumption DEF BeforeFork, TypedTimes
    <3> QED BY <2>1, <3>1 DEF BeforeFork
  <2> QED BY <2>1, <2>2, <2>3
<1>7. CASE HandleStopAlone
  BY <1>7 DEF HandleStopAlone
<1>8. CASE GateStep \/ GateCrashes \/ StrayEnds
  BY <1>8 DEF GateStep, ChildLeavesLoop, StartUp, InheritedStop, GateStop, LoopStep,
              FlagDone, GateQuits, GateEnds, GateCrashes, StrayEnds, AfterFork,
              BeforeFork
<1>9. CASE \E f \in Signalled : GateSignal(f)
  BY <1>9 DEF GateSignal, AfterFork, BeforeFork
<1>10. CASE \E f \in Puttable : PutFlag(f)
  BY <1>10 DEF PutFlag, AfterFork, BeforeFork
<1>11. CASE KillServer \/ KillGateway
  BY <1>11 DEF KillServer, KillGateway, AfterFork, BeforeFork
<1>14. CASE FakeChild
  <2>1. /\ forks' = forks /\ starts' = starts /\ prev' = prev /\ left' = left
        /\ server' = server
    BY <1>14 DEF FakeChild
  <2>2. fakes' # 0
    BY <1>14 DEF FakeChild, TypedCounts
  <2> QED BY <2>1, <2>2 DEF AfterFork, BeforeFork
<1>12. CASE Tick
  BY <1>12, TickStep DEF Tick
<1>13. CASE UNCHANGED vars
  BY <1>13 DEF vars, AfterFork, BeforeFork
<1> QED
  BY <1>1, <1>2, <1>3, <1>4, <1>5, <1>6, <1>7, <1>8, <1>9, <1>10, <1>11, <1>12,
     <1>13, <1>14 DEF Next, ServerStep

\* Only a fork makes the last of forks zero.
LEMMA RatesStep ==
  /\ TypedCounts /\ TypedTimes /\ Paced /\ RestartsLimited /\ RestartsPaced
  /\ [Next]_vars
  => RestartsLimited' /\ RestartsPaced'
<1> SUFFICES ASSUME TypedCounts, TypedTimes, Paced, RestartsLimited, RestartsPaced, [Next]_vars
             PROVE  RestartsLimited' /\ RestartsPaced'
  OBVIOUS
<1>1. CASE Fork
  BY <1>1, ForkStep DEF Paced, Fork, Runs
<1>2. CASE Tick
  BY <1>2, TickStep
<1>3. CASE ~Fork /\ ~Tick
  <2>1. forks' = forks /\ (death => death')
    <3> USE DEF serverVars, gateVars, loopVars, forkVars
    <3>1. CASE CheckRestarts \/ EndDelay \/ Pause \/ TestDeath \/ ForkFails
      BY <3>1 DEF CheckRestarts, EndDelay, Pause, TestDeath, ForkFails
    <3>2. CASE HandleChild \/ HandleStop \/ HandleStopAlone
      BY <3>2 DEF HandleChild, HandleStop, HandleStopAlone
    <3>3. CASE GateStep \/ GateCrashes \/ StrayEnds
      BY <3>3 DEF GateStep, ChildLeavesLoop, StartUp, InheritedStop, GateStop,
                  LoopStep, FlagDone, GateQuits, GateEnds, GateCrashes, StrayEnds
    <3>4. CASE \E f \in Signalled : GateSignal(f)
      BY <3>4 DEF GateSignal
    <3>5. CASE \E f \in Puttable : PutFlag(f)
      BY <3>5 DEF PutFlag
    <3>6. CASE KillServer \/ KillGateway \/ FakeChild \/ UNCHANGED vars
      BY <3>6 DEF KillServer, KillGateway, FakeChild, vars
    <3> QED BY <1>3, <3>1, <3>2, <3>3, <3>4, <3>5, <3>6 DEF Next, ServerStep
  <2> QED BY <2>1, TypedCountsStep DEF RestartsLimited, RestartsPaced
<1> QED BY <1>1, <1>2, <1>3

LEMMA RatesInit == Init => TypedTimes /\ Paced /\ RestartsLimited /\ RestartsPaced
<1> SUFFICES ASSUME Init PROVE TypedTimes /\ Paced /\ RestartsLimited /\ RestartsPaced
  OBVIOUS
<1> USE RestartAssumption DEF Init
<1>1. TypedTimes
  BY DEF TypedTimes
<1>2. Paced
  BY DEF Paced, AfterFork
<1> QED BY <1>1, <1>2 DEF RestartsLimited, RestartsPaced

\* The window of start times of manage_gateway follows the forks.
THEOREM RatesHold == Spec => [](TypedTimes /\ Paced /\ RestartsLimited /\ RestartsPaced)
<1>1. /\ TypedCounts /\ Watched
      /\ TypedTimes /\ Paced /\ RestartsLimited /\ RestartsPaced /\ [Next]_vars
      => (TypedTimes /\ Paced /\ RestartsLimited /\ RestartsPaced)'
  BY TypedTimesStep, PacedStep, RatesStep
<1> QED BY RatesInit, <1>1, ControlHolds, PTL DEF Spec

\* NRESTARTS + 1 gateways are never started within RESTART_INTERVAL, less the
\* delay, however they die and whatever signals the server gets.
THEOREM StartsAreLimited == Spec => []RestartsLimited
BY RatesHold, PTL

\* No three gateways are started within RESTART_DELAY, unless the server is told
\* to stop or gets a SIGCHLD that no death raised.
THEOREM StartsArePaced == Spec => []RestartsPaced
BY RatesHold, PTL

-----------------------------------------------------------------------------
(* Types *)

TypedLoop == flags \subseteq Flags /\ pos \in 0..Len(FlagOrder)

\* The main loop goes on at a flag of FlagOrder, or back to process().
LEMMA NextSetInOrder ==
  ASSUME NEW k, NEW set
  PROVE  NextSet(k, set) \in 0..Len(FlagOrder)
<1> DEFINE later == {j \in DOMAIN FlagOrder : j > k /\ FlagOrder[j] \in set}
<1>1. DOMAIN FlagOrder = 1..7 /\ Len(FlagOrder) = 7
  BY DEF FlagOrder
<1>2. CASE later = {}
  BY <1>1, <1>2 DEF NextSet
<1>3. CASE later # {}
  <2>1. \E x \in later : \A y \in later : x <= y
    <3>1. later \subseteq 1..7
      BY <1>1
    <3> HIDE DEF later
    <3>2. CASE 1 \in later
      BY <3>1, <3>2
    <3>3. CASE 1 \notin later /\ 2 \in later
      BY <3>1, <3>3
    <3>4. CASE {1, 2} \cap later = {} /\ 3 \in later
      BY <3>1, <3>4
    <3>5. CASE {1, 2, 3} \cap later = {} /\ 4 \in later
      BY <3>1, <3>5
    <3>6. CASE {1, 2, 3, 4} \cap later = {}
      <4>1. later \subseteq {5, 6, 7}
        BY <3>1, <3>6
      <4>2. CASE 5 \in later
        BY <4>1, <4>2
      <4>3. CASE 5 \notin later /\ 6 \in later
        BY <4>1, <4>3
      <4>4. CASE {5, 6} \cap later = {}
        <5>1. later = {7}
          BY <4>1, <4>4, <1>3
        <5> QED BY <5>1
      <4> QED BY <4>2, <4>3, <4>4
    <3> QED BY <3>2, <3>3, <3>4, <3>5, <3>6
  <2>2. Min(later) \in later
    BY <2>1 DEF Min
  <2> QED BY <1>1, <1>3, <2>2 DEF NextSet
<1> QED BY <1>2, <1>3

LEMMA TypedLoopStep == TypedLoop /\ [Next]_vars => TypedLoop'
<1> SUFFICES ASSUME TypedLoop, [Next]_vars PROVE TypedLoop'
  OBVIOUS
<1> USE DEF TypedLoop, gateVars, loopVars
<1>0. 0 \in 0..Len(FlagOrder) /\ {"command", "report2", "quit"} \subseteq Flags
  BY DEF FlagOrder, Flags, ToSet
<1>1. CASE ServerStep \/ ForkFails
  BY <1>0, <1>1 DEF ServerStep, CheckRestarts, EndDelay, Fork, Pause, TestDeath, ForkFails
<1>2. CASE HandleChild \/ HandleStop \/ HandleStopAlone
  BY <1>2 DEF HandleChild, HandleStop, HandleStopAlone
<1>3. CASE ChildLeavesLoop \/ GateQuits \/ GateCrashes \/ StrayEnds
  BY <1>0, <1>3 DEF ChildLeavesLoop, GateQuits, GateCrashes, GateEnds, StrayEnds
<1>4. CASE StartUp \/ InheritedStop \/ GateStop
  BY <1>0, <1>4 DEF StartUp, InheritedStop, GateStop
<1>5. CASE LoopStep
  BY <1>5, NextSetInOrder DEF LoopStep
<1>6. CASE FlagDone
  BY <1>6, NextSetInOrder DEF FlagDone
<1>7. CASE \E f \in Signalled : GateSignal(f)
  BY <1>0, <1>7, SignalledAssumption DEF GateSignal
<1>8. CASE \E f \in Puttable : PutFlag(f)
  BY <1>8, PuttableAssumption DEF PutFlag
<1>9. CASE KillServer \/ KillGateway \/ FakeChild \/ Tick
  BY <1>9 DEF KillServer, KillGateway, FakeChild, Tick
<1>10. CASE UNCHANGED vars
  BY <1>10 DEF vars
<1> QED BY <1>1, <1>2, <1>3, <1>4, <1>5, <1>6, <1>7, <1>8, <1>9, <1>10
        DEF Next, GateStep

\* Types; the window never holds more than NRESTARTS start times.
THEOREM DaemonTypeCorrect == Spec => []TypeOK
<1>1. Init => TypedLoop
  BY DEF Init, TypedLoop, FlagOrder
<1>2. TypedControl /\ TypedCounts /\ TypedTimes /\ TypedLoop => TypeOK
  BY DEF TypedControl, TypedCounts, TypedTimes, TypedLoop, TypeOK, ServerState, GateState
<1> QED BY <1>1, <1>2, TypedLoopStep, ControlHolds, RatesHold, PTL DEF Spec

=============================================================================
