---------------------------- MODULE GatewayDaemon ----------------------------
(***************************************************************************)
(* The gateway in server mode: the server process (manage_gateway,         *)
(* gateway.cc:1471) forks the gateway process, pauses, and forks another   *)
(* when that one dies, at a limited rate; a signal to the server stops     *)
(* both.  Of the gateway process its startup, its signal handlers and the  *)
(* flags its main loop looks at (gateServer::mainLoop) are modelled; what  *)
(* it serves is in GatewayPv.                                              *)
(*                                                                         *)
(* A signal can come between any two steps of the server, and the signals  *)
(* that are pending are handled, in either order, before its next step.    *)
(* SIGCHLD comes of a gateway that ends, but also of one that is stopped   *)
(* or continued (signal() at line 1482 asks for no SA_NOCLDSTOP) and of a  *)
(* kill: it ends pause() all the same, and the server forks beside the     *)
(* living gateway.  The one that gate_pid named is then a stray.           *)
(* Times are ages in ticks, capped where no comparison tells them apart.   *)
(* The server's own steps take no time; it waits in sleep() and pause().   *)
(***************************************************************************)
EXTENDS Integers, Sequences, SequencesExt, FiniteSetsExt

CONSTANTS
  NRestarts,        \* NRESTARTS
  RestartInterval,  \* RESTART_INTERVAL
  RestartDelay,     \* RESTART_DELAY
  MaxFakes,         \* bound: SIGCHLDs that no death raises
  Signalled,        \* bound: flags of those that SIGUSR1 and SIGUSR2 set
  Puttable          \* flags that clients set by a put to a gateStat PV

FlagOrder == <<"command", "report1", "report2", "report3", "newAs", "quit",
               "quitServer">>
Flags == ToSet(FlagOrder)

ASSUME RestartAssumption ==
  /\ NRestarts \in Nat \ {0}
  /\ RestartDelay \in Nat \ {0}
  /\ RestartInterval \in Nat /\ RestartInterval > RestartDelay

ASSUME FakesAssumption == MaxFakes \in Nat

ASSUME SignalledAssumption == Signalled \subseteq {"command", "report2"}

ASSUME PuttableAssumption == Puttable \subseteq Flags

VARIABLES
  \* The server process
  server,   \* "check", "delay", "fork", "forked", "paused", "test", "exited",
            \* or "gateway": it goes on as the gateway itself
  starts,   \* startTime[0..nStart-1], as ages
  prev,     \* age of prevt
  left,     \* what is left of sleep(RESTART_DELAY)
  gatePid,  \* gate_pid is not 0
  death,    \* death_flag
  sig,      \* signals not yet delivered to the server
  \* The gateway process
  gate,     \* "none", "child" (after fork), "starting", "running", "quitting"
  gateDeath,\* its copy of death_flag
  term,     \* a SIGTERM is on its way to it
  flags,    \* the flags of gateServer that are set
  pos,      \* the flag of FlagOrder the main loop is at; 0: in process()
  \* The gateways there have been
  forks,    \* history: ages of the last NRestarts + 1 gateways forked
  strays,   \* gateways that run and that gate_pid does not name any more
  fakes     \* history: number of SIGCHLDs that no death raised

serverVars == <<server, starts, prev, left, gatePid, death>>
loopVars   == <<flags, pos>>
gateVars   == <<gate, gateDeath, term, loopVars>>
forkVars   == <<forks, strays, fakes>>
vars       == <<serverVars, sig, gateVars, forkVars>>

Older(a, cap) == IF a < cap THEN a + 1 ELSE a

Alive == server \notin {"exited", "gateway"}

Runs(at) == server = at /\ sig = {}

Init ==
  /\ server = "check" /\ starts = <<>> /\ prev = RestartDelay /\ left = 0
  /\ gatePid = FALSE /\ death = FALSE
  /\ sig = {}
  /\ gate = "none" /\ gateDeath = FALSE /\ term = FALSE
  /\ flags = {} /\ pos = 0
  /\ forks = <<>> /\ strays = 0 /\ fakes = 0

-----------------------------------------------------------------------------
(* The server process *)

TooMany == Len(starts) = NRestarts /\ starts[1] < RestartInterval

\* Mutant: the window grows.
WindowGrowing == Append(starts, 0)

\* Mutant: the last start time is overwritten, nothing is shifted.
WindowUnshifted == IF Len(starts) < NRestarts THEN Append(starts, 0)
                   ELSE [starts EXCEPT ![NRestarts] = 0]

\* The start times of the window, with the present one.
Window == IF Len(starts) < NRestarts THEN Append(starts, 0)
                                     ELSE Append(Tail(starts), 0)

\* Mutant: prevt is not assigned.
CheckRestartsPrevKept ==
  /\ Runs("check")
  /\ IF TooMany
     THEN server' = "exited" /\ UNCHANGED <<starts, left>>
     ELSE /\ server' = "delay"
          /\ starts' = Window
          /\ left' = IF prev < RestartDelay THEN RestartDelay ELSE 0
  /\ UNCHANGED <<prev, gatePid, death, sig, gateVars, forkVars>>

\* Too many recent starts end the server.  prevt is the time before the sleep.
CheckRestarts ==
  /\ Runs("check")
  /\ IF TooMany
     THEN server' = "exited" /\ UNCHANGED <<starts, prev, left>>
     ELSE /\ server' = "delay"
          /\ starts' = Window
          /\ left' = IF prev < RestartDelay THEN RestartDelay ELSE 0
          /\ prev' = 0
  /\ UNCHANGED <<gatePid, death, sig, gateVars, forkVars>>

EndDelay ==
  /\ Runs("delay") /\ left = 0
  /\ server' = "fork"
  /\ UNCHANGED <<starts, prev, left, gatePid, death, sig, gateVars, forkVars>>

\* gate_pid=fork(): the child has gate_pid 0 and a copy of death_flag.  A
\* gateway that is still there is forgotten.
Fork ==
  /\ Runs("fork")
  /\ server' = "forked" /\ gatePid' = TRUE
  /\ gate' = "child" /\ gateDeath' = death /\ term' = FALSE
  /\ flags' = {} /\ pos' = 0
  /\ forks' = Append(IF Len(forks) > NRestarts THEN Tail(forks) ELSE forks, 0)
  /\ strays' = IF gate = "none" THEN strays ELSE strays + 1
  /\ UNCHANGED <<starts, prev, left, death, sig, fakes>>

\* gate_pid is 0 and the loop ends: the server goes on as the gateway.
ForkFails ==
  /\ Runs("fork")
  /\ gatePid' = FALSE
  /\ server' = IF death THEN "exited" ELSE "gateway"
  /\ UNCHANGED <<starts, prev, left, death, sig, gateVars, forkVars>>

Pause ==
  /\ Runs("forked")
  /\ server' = "paused"
  /\ UNCHANGED <<starts, prev, left, gatePid, death, sig, gateVars, forkVars>>

\* Mutant: while(gate_pid)
TestDeathUnread ==
  /\ Runs("test")
  /\ server' = "check"
  /\ UNCHANGED <<starts, prev, left, gatePid, death, sig, gateVars, forkVars>>

\* while(gate_pid && death_flag==0)
TestDeath ==
  /\ Runs("test")
  /\ server' = IF death THEN "exited" ELSE "check"
  /\ UNCHANGED <<starts, prev, left, gatePid, death, sig, gateVars, forkVars>>

\* A handled signal ends pause() and sleep().
Interrupted ==
  /\ server' = IF server = "paused" THEN "test" ELSE server
  /\ left' = 0

\* Mutant: SIGCHLD is ignored, as it is by default.
HandleChildIgnored ==
  /\ Alive /\ "CHLD" \in sig
  /\ sig' = sig \ {"CHLD"}
  /\ UNCHANGED <<serverVars, gateVars, forkVars>>

\* sig_chld
HandleChild ==
  /\ Alive /\ "CHLD" \in sig
  /\ sig' = sig \ {"CHLD"}
  /\ Interrupted
  /\ UNCHANGED <<starts, prev, gatePid, death, gateVars, forkVars>>

\* Mutant: the gateway is not sent SIGTERM.
HandleStopServerOnly ==
  /\ Alive /\ "TERM" \in sig
  /\ sig' = sig \ {"TERM"}
  /\ Interrupted
  /\ death' = TRUE
  /\ UNCHANGED <<starts, prev, gatePid, gateVars, forkVars>>

\* sig_stop, for HUP, TERM and INT: the gateway that gate_pid names is told.
HandleStop ==
  /\ Alive /\ "TERM" \in sig
  /\ sig' = sig \ {"TERM"}
  /\ Interrupted
  /\ death' = TRUE
  /\ term' = (term \/ (gatePid /\ gate # "none"))
  /\ UNCHANGED <<starts, prev, gatePid, gate, gateDeath, loopVars, forkVars>>

\* As a gateway it stops on the signal, unless its own handlers are not yet
\* installed and sig_stop only sets death_flag.
HandleStopAlone ==
  /\ server = "gateway" /\ "TERM" \in sig
  /\ sig' = sig \ {"TERM"}
  /\ server' \in {"gateway", "exited"}
  /\ UNCHANGED <<starts, prev, left, gatePid, death, gateVars, forkVars>>

-----------------------------------------------------------------------------
(* The gateway process *)

\* The process is gone; its server, if there is one, is told.
GateEnds ==
  /\ gate' = "none" /\ gateDeath' = FALSE /\ term' = FALSE
  /\ flags' = {} /\ pos' = 0
  /\ sig' = IF Alive THEN sig \cup {"CHLD"} ELSE sig
  /\ UNCHANGED <<serverVars, forkVars>>

\* The child leaves the loop of manage_gateway: main() returns if the copied
\* death_flag is set.
ChildLeavesLoop ==
  /\ gate = "child"
  /\ IF gateDeath
     THEN GateEnds
     ELSE /\ gate' = "starting"
          /\ UNCHANGED <<serverVars, sig, gateDeath, term, loopVars, forkVars>>

\* startEverything installs sig_end and enters mainLoop.  (A stop that comes in
\* between makes the process exit, as GateStop does in the end.)
StartUp ==
  /\ gate = "starting"
  /\ gate' = "running"
  /\ UNCHANGED <<serverVars, sig, gateDeath, term, loopVars, forkVars>>

\* sig_stop, inherited from the server: here gate_pid is 0.
InheritedStop ==
  /\ gate \in {"child", "starting"} /\ term
  /\ gateDeath' = TRUE /\ term' = FALSE
  /\ UNCHANGED <<serverVars, sig, gate, loopVars, forkVars>>

\* sig_end and stopEverything; quit_flag is 2.
GateStop ==
  /\ gate = "running" /\ term
  /\ flags' = flags \cup {"quit"}
  /\ gateDeath' = TRUE /\ term' = FALSE
  /\ UNCHANGED <<serverVars, sig, gate, pos, forkVars>>

\* sig_usr1 and sig_usr2
GateSignal(f) ==
  /\ gate = "running"
  /\ flags' = flags \cup {f}
  /\ UNCHANGED <<serverVars, sig, gate, gateDeath, term, pos, forkVars>>

\* processStat, called by CAS from process().
PutFlag(f) ==
  /\ gate = "running" /\ pos = 0
  /\ flags' = flags \cup {f}
  /\ UNCHANGED <<serverVars, sig, gate, gateDeath, term, pos, forkVars>>

\* The next flag of the main loop's order that is set; 0: back to process().
NextSet(k, set) ==
  LET later == {j \in DOMAIN FlagOrder : j > k /\ FlagOrder[j] \in set}
  IN IF later = {} THEN 0 ELSE Min(later)

\* process() returns.
LoopStep ==
  /\ gate = "running" /\ pos = 0 /\ flags # {}
  /\ pos' = NextSet(0, flags)
  /\ UNCHANGED <<serverVars, sig, gate, gateDeath, term, flags, forkVars>>

\* Mutant: quit_flag is reset and the loop goes on.
FlagDoneNoReturn ==
  /\ gate = "running" /\ pos # 0
  /\ flags' = flags \ {FlagOrder[pos]}
  /\ pos' = NextSet(pos, flags')
  /\ sig' = IF FlagOrder[pos] = "quitServer" /\ server # "exited"
            THEN sig \cup {"TERM"} ELSE sig
  /\ UNCHANGED <<serverVars, gate, gateDeath, term, forkVars>>

\* What the flag asks for has been done; only now is the flag reset.
FlagDone ==
  /\ gate = "running" /\ pos # 0
  /\ flags' = flags \ {FlagOrder[pos]}
  /\ pos' = NextSet(pos, flags')
  /\ gate' = IF FlagOrder[pos] = "quit" THEN "quitting" ELSE gate
  /\ sig' = IF FlagOrder[pos] = "quitServer" /\ server # "exited"
            THEN sig \cup {"TERM"} ELSE sig
  /\ UNCHANGED <<serverVars, gateDeath, term, forkVars>>

\* mainLoop has returned: the gateServer is deleted and main() returns.
GateQuits == gate = "quitting" /\ GateEnds

GateCrashes == gate \notin {"none", "quitting"} /\ GateEnds

\* A gateway that gate_pid does not name is a child of the server like any.
StrayEnds ==
  /\ strays > 0
  /\ strays' = strays - 1
  /\ sig' = IF Alive THEN sig \cup {"CHLD"} ELSE sig
  /\ UNCHANGED <<serverVars, gateVars, forks, fakes>>

-----------------------------------------------------------------------------
(* Users and time *)

\* gateway.killer, and whoever else signals the server.
KillServer ==
  /\ server # "exited" /\ "TERM" \notin sig
  /\ sig' = sig \cup {"TERM"}
  /\ UNCHANGED <<serverVars, gateVars, forkVars>>

\* A gateway is stopped or continued, or somebody sends the server SIGCHLD.
FakeChild ==
  /\ Alive /\ "CHLD" \notin sig /\ fakes < MaxFakes
  /\ sig' = sig \cup {"CHLD"}
  /\ fakes' = fakes + 1
  /\ UNCHANGED <<serverVars, gateVars, forks, strays>>

\* gateway.restart
KillGateway ==
  /\ gate # "none" /\ ~term
  /\ term' = TRUE
  /\ UNCHANGED <<serverVars, sig, gate, gateDeath, loopVars, forkVars>>

Tick ==
  /\ server \in {"paused", "exited", "gateway"} \/ (server = "delay" /\ left > 0)
  /\ starts' = [k \in DOMAIN starts |-> Older(starts[k], RestartInterval)]
  /\ forks' = [k \in DOMAIN forks |-> Older(forks[k], RestartInterval)]
  /\ prev' = Older(prev, RestartDelay)
  /\ left' = IF left > 0 THEN left - 1 ELSE 0
  /\ UNCHANGED <<server, gatePid, death, sig, gateVars, strays, fakes>>

-----------------------------------------------------------------------------

ServerStep == CheckRestarts \/ EndDelay \/ Fork \/ Pause \/ TestDeath

GateStep == \/ ChildLeavesLoop \/ StartUp \/ InheritedStop \/ GateStop
            \/ LoopStep \/ FlagDone \/ GateQuits

Next ==
  \/ ServerStep \/ ForkFails \/ HandleChild \/ HandleStop \/ HandleStopAlone
  \/ GateStep \/ GateCrashes \/ StrayEnds
  \/ \E f \in Signalled : GateSignal(f)
  \/ \E f \in Puttable : PutFlag(f)
  \/ KillServer \/ KillGateway \/ FakeChild \/ Tick

\* The processes are scheduled, signals are delivered, time passes.  The server
\* runs again and again however many signals it is sent.
Fairness ==
  /\ SF_vars(ServerStep) /\ WF_vars(Tick)
  /\ WF_vars(HandleChild) /\ WF_vars(HandleStop)
  /\ WF_vars(LoopStep) /\ WF_vars(FlagDone) /\ WF_vars(GateStop)
  /\ WF_vars(ChildLeavesLoop) /\ WF_vars(StartUp) /\ WF_vars(GateQuits)

Spec == Init /\ [][Next]_vars
FairSpec == Spec /\ Fairness

-----------------------------------------------------------------------------
(* Properties *)

TypeOK ==
  /\ server \in {"check", "delay", "fork", "forked", "paused", "test", "exited",
                 "gateway"}
  /\ starts \in Seq(0..RestartInterval) /\ Len(starts) <= NRestarts
  /\ forks \in Seq(0..RestartInterval) /\ Len(forks) <= NRestarts + 1
  /\ prev \in 0..RestartDelay /\ left \in 0..RestartDelay
  /\ gate \in {"none", "child", "starting", "running", "quitting"}
  /\ {gatePid, death, gateDeath, term} \subseteq BOOLEAN
  /\ sig \subseteq {"CHLD", "TERM"} /\ flags \subseteq Flags
  /\ pos \in 0..Len(FlagOrder)
  /\ strays \in Nat /\ fakes \in 0..MaxFakes

\* The gateways that run beside the one that gate_pid names are no more than
\* the SIGCHLDs that no death raised: the stops, the deaths and the forks
\* themselves, in whatever order they come, never make two gateways of one, and
\* a SIGCHLD of the other kind never makes more than one too many.
OneGateway == strays <= fakes

\* What the manual says of the server, "watches it and automatically restarts it
\* if it dies" (Gateway.html:851): it is restarted only if it dies.
RestartedOnlyIfDead == strays = 0

\* "there can only be ten restarts in any ten-minute interval" (Gateway.html:862)
\* holds of the starts themselves up to the delay: the times that are compared
\* are taken before the sleep.
RestartsLimited ==
  Len(forks) = NRestarts + 1 /\ Last(forks) = 0 =>
    forks[1] >= RestartInterval - RestartDelay

\* Of any three starts in a row the last is RESTART_DELAY after the first, so
\* a gateway that dies at once is not started in a tight loop.  (A stop ends the
\* sleep early; the gateway then forked exits at once.  So does a SIGCHLD that
\* no death raised.)
RestartsPaced ==
  Len(forks) >= 3 /\ Last(forks) = 0 /\ ~death /\ fakes = 0 =>
    forks[Len(forks) - 2] >= RestartDelay

\* gateway.cc:1537: "Don't respawn faster than every RESTART_DELAY seconds".
RespawnDelayed ==
  Len(forks) >= 2 /\ Last(forks) = 0 /\ ~death /\ fakes = 0 =>
    forks[Len(forks) - 1] >= RestartDelay

\* The gateway that outlives its server has been told to stop, or stops: "to kill
\* everything" (gateway.cc:478) a signal to the server is enough, as far as
\* gate_pid goes (a stray is not told).  gateDeath excepts the gateway that the
\* stop reached before its own handlers were installed.  A server that gave up
\* leaves no gateway, unless a SIGCHLD that no death raised had it start others.
ServerTakesGateway ==
  server = "exited" /\ gate = "running" =>
    IF death THEN term \/ "quit" \in flags \/ gateDeath ELSE fakes > 0

\* A paused server whose gateway has died is about to be told, or it has been
\* told too early: then only a signal helps.  "watches it and automatically
\* restarts it if it dies" (Gateway.html:851).
PausedServerHasGateway ==
  server = "paused" /\ gate = "none" => sig # {}

\* A stop that finds the server paused (gateway.cc:1555) ends it, in whatever
\* order it and the death of the gateway are handled.  It also ends the gateway,
\* if that one's own handlers are installed: no report, no other flag and no
\* signal keeps its main loop from quit_flag (gateServer.cc:331).
StopEndsBoth ==
  /\ (server = "paused" /\ "TERM" \in sig) ~> ~Alive
  /\ (server = "paused" /\ "TERM" \in sig /\ gate \notin {"child", "starting"})
       ~> gate = "none"

\* The death of the gateway, while the server is paused, leads to a new gateway
\* (or to too many starts; when fork() fails the server becomes the gateway).
DeathIsAnswered ==
  (server = "paused" /\ gate = "none" /\ "CHLD" \in sig) ~>
    (gate # "none" \/ server \in {"exited", "gateway"})

==============================================================================
