# TLA+ models of the EPICS extensions: the CA gateway and the CA directory server

The repository is a collection of programs around EPICS Channel Access (CA).
Two of them are servers with protocol state of their own: the CA **gateway**
(`src/src/gateway2_0_5_1`, the current release) and the CA **directory server**
(`src/src/nameserver`). The others are filters, viewers, editors and vendored
libraries. This project models the two servers. Line numbers below are of files
under `src/src/gateway2_0_5_1` unless another directory is named.

Contents: 1 inventory; 2 plan; 3 `GatewayPv`; 4 the abstract specifications
`PvDirectory` and `VcLife`; 5 `GatewayVc`; 6 `GatewayDaemon`; 7 `GatewayAs`;
8 `NameServer`; 9 runs; 10 proofs; 11 what the code does differently from what is
said of it; 12 what is not modelled.

## 1. Inventory

### Gateway: the life cycle of process variables

| part | state it keeps | operations | modelled in |
|---|---|---|---|
| `gateServer` (gateServer.cc) | `pv_list`, `pv_con_list`, `vc_list`, the clocks of the cleanups, `last_beacon_time`, `suppressed_refresh_flag`, the statistics counters | `pvExistTest`, `pvAttach` (from the CA server library, CAS); `mainLoop` with `connectCleanup`, `inactiveDeadCleanup`, `newAs`; `generateBeaconAnomaly` | GatewayPv |
| `gatePvData` (gatePv.cc) | `pv_state` (Connect, Dead, Inactive, Active, Disconnect), `vc`, `complete_flag`, three time stamps, `eio` (parked exist tests), the CA channel | `init`, `activate`, `deactivate`, `life`, `death`, the destructor; `connectCB`, `eventCB`, `getCB`, `getTimeCB`, `alhCB`, `putCB`, `accessCB` (from CA) | GatewayPv (life cycle), GatewayVc (data) |
| `gateVcData` (gateVc.cc) | `state` (Connect, Ready), `pv`, `rio` and `ctrl_rio`/`time_rio`/`alhRio` read queues, `nrWio` and `pendWio` write queues, `event_data`, `vcID` | constructor, `destroy`, `read`, `write`, `writeNotify`, `interestRegister`, `vcNew`, `vcData`, `vcPostEvent`, `flushAsync...Queue` | GatewayVc |
| `gateAsyncR`, `gateAsyncW`, `gateAsyncE` (gateAsyncIO.cc) | membership of one of the queues above | their destructors unlink them; CAS may destroy them at any time | the queues of both modules |
| `tsHash`, `tsDLList` | the lists | add, find, remove | sets of names |

The gateway is one thread. `mainLoop` (gateServer.cc:229-380) runs
`fileDescriptorManager.process()` (CAS calls the gateway), `ca_poll()` (CA
delivers its callbacks), the two cleanups, and then the command flags. What is
hard is the *order* of callbacks: a connection comes up before or after the
cleanup that gives up on it; a client leaves before or after the answer it
waits for; a pvlist is reread while a PV is still on two lists; each of
`gateServer`, `gatePvData`, `gateVcData`, CAS and CA can start tearing the
chain of objects down. Correct means: the lists find every object where its
state says; pointers between the PV and its VC never dangle; no exist test,
read or write is forgotten or answered twice; the counters count.

### The other parts of the gateway

* **Server process** (gateway.cc:1471-1577, `manage_gateway`; modelled in
  `GatewayDaemon`): forks the gateway and restarts it; `NRESTARTS` start times in
  a window limit crash loops, `RESTART_DELAY` between starts; the process sleeps
  in `pause()` and is woken by `SIGCHLD` (`sig_chld`), `SIGTERM` and others
  (`sig_stop`). State: `gate_pid`, the start times, `death_flag`. Hard: a signal
  between any two statements; a SIGCHLD of a gateway that only stopped; a failing
  `fork`; a stop that reaches the child before it has its own handlers. Correct: no
  gateway is lost sight of but by such a SIGCHLD; a death is answered by a new one; starts are limited and paced; a stop ends both.
* **Command flags** (gateServer.cc:306-372; the flags in `GatewayDaemon`):
  `command_flag`, `report1..3_flag`, `newAs_flag`, `quit_flag`,
  `quitserver_flag`, set by puts to the gateway's own PVs and by
  `SIGUSR1`/`SIGUSR2`, served and reset by the main loop. Hard: a flag set again
  while it is served. The reports themselves only print.
* **Access rules** (gateAs.cc; modelled in `GatewayAs`): the pvlist file is parsed
  into an allow list, a deny list and per-host deny lists with an evaluation
  order; `findEntry` decides and rewrites names; PVs hold pointers to entries,
  which `newAs` deletes under them. Correct: the entry found is the one that the
  documented meaning of the file implies, and nobody keeps a deleted entry.
* **Statistics PVs** (gateStat.cc; not modelled): publish the counters, which are
  in `GatewayPv`; puts to some set the flags, which are in `GatewayDaemon`.
* **Resources and access security** (gateResources.cc, gateAsCa.cc; not
  modelled): tables of settings; the access security library is external.

### Directory server (nameserver; modelled in `NameServer`)

State: `stringResTbl` of `pvE` (a name and its IOC), `iocResTbl` of `pIoc`
(status 0, 1 or 2, a `pvEList`, a heartbeat channel), `nameList` of names
searched for and not yet found, the *never* table. Operations: startup reads the
directory file and the `signal.list` of each IOC; `pvExistTest` answers from the
tables or starts a CA search and adds to `nameList`;
`processChangeConnectionEvent` learns a name that was found;
`WDprocessChangeConnectionEvent` follows each IOC's heartbeat;
`remove_all_pvs` / `add_all_pvs` reread an IOC's list when it comes back;
`processPendingList` gives up on names and searches again for heartbeats. Hard:
the CA callbacks run in a thread of their own, with no lock anywhere; entries are
reachable through several containers. Correct: the class comment
(directoryServer.h) says which entries exist in which containers; the status of
an IOC follows its heartbeat, and every heartbeat stays watched; no name bars
itself from being searched for.

### Not protocol state

`caSnooper` counts search requests; `msi` is a text filter;
`gateway2_0_4_0` and `gateway2_0_5_0` are earlier releases of the same program;
VisualDCT, medm, edm and php_epics are user interfaces; gnuregex is a vendored
library, dbVerbose a debugging aid, vdctdbds a build file.

`PROJECT.json` lists all components with their status, and 40 hazards, each at
its line with the properties that would catch it going wrong, or the reason why
none does.

## 2. Plan

Done, in this order:

1. `GatewayPv`: gateServer, gatePvData and the existence of gateVcData.
2. `PvDirectory`: what clients that look for PVs are promised;
   `GatewayPv` implements it.
3. `GatewayPv_proofs`: the inductive invariant, for all constants.
4. `GatewayVc`: reads, writes, gets, puts and monitors of one PV.
5. `GatewayDaemon`: `manage_gateway`, its signal handlers, and of the gateway
   process its startup, its handlers and the command flags of its main loop.
6. `GatewayAs`: the rule lists and `findEntry` against the documented meaning of
   all small pvlist files, and rereads with PVs in existence.
7. `NameServer`: name table, IOC table, heartbeats, pending names and learned
   names, with two threads and crashes on both sides.
8. Proofs of the invariants of `GatewayVc`, `GatewayDaemon` and `NameServer`, and
   that `GatewayPv` implements `PvDirectory`, all for every value of the
   constants.
9. `VcLife`: what a PV and its VC promise each other, and the proofs that both
   `GatewayPv` and `GatewayVc` implement it.
10. The proofs of `GatewayAs`: what the lists decide, for every file.
11. Three promises of the documentation that the code does not keep (section 11),
    proved for the configurations in which they hold.

Left:

12. The ages of pending names in `NameServer`, for the loop of
   `processPendingList` that does not advance its iterator
   (nameserver/main.cc:437), and the never table.
13. The events posted to clients (`vcPostEvent`) and the event masks in
    `GatewayVc`.

The modules are not composed into one state space. `GatewayPv` (many PVs and no
data) and `GatewayVc` (one PV and its requests) both have the activation, the end
of a VC, the connection lost and regained and the first event; they meet in
`VcLife`, which both implement. Elsewhere they meet in actions that two of them
have: the reread of the pvlist (GatewayPv, where a file maps names to names;
GatewayAs, where it is read line by line; GatewayDaemon, where a flag asks for
it); the restart (`Restart` of GatewayPv and GatewayVc, which `DeathIsAnswered` of
GatewayDaemon justifies).

## 3. GatewayPv

**State.** A `gatePvData` is identified by its real name, as `pvExistTest` makes
one only for a name that neither list holds. `st`, `pvc`, `need`, `eio` are
`pv_state`, `vc != NULL`, `complete_flag` and the parked tests of the object;
`st[n] = "None"` says that there is none. `vc` is the `gateVcData` of the name.
`pvList` and `conList` are the names with a node on `pv_list` and `pv_con_list`;
a node whose object is gone (`Freed`) can be expressed. `up` is `ca_state()`.
`count` has the gateStat counters as integers: the code's are unsigned, so a
decrement below zero would wrap, and `TypeOK` forbids it. `leaked` counts objects
dropped after a failed `ca_create_channel`.

**Time.** Time stamps are *ages* in ticks: `da` of `dead_alive_time`, `nc` of
`no_connect_time`, `sinceCon`, `sinceIdc`, `sinceBeacon` of the times of
`gateServer`. An age stops at `MaxAge`, which no timeout exceeds, so no comparison
in the code can tell. `Tick` may happen any number of times between callbacks.

**The main loop** is `phase`: *callbacks* (`process()` and `ca_poll()`, in any
interleaving) → `ConnectCleanup` → *idc* → `InactiveDeadCleanup` → *flags* →
`NoCommand` or `NewAs` → *callbacks*. CA callbacks are also delivered in *flags*,
because rereading the access security file waits in `ca_pend_event()`.

| action | code |
|---|---|
| `ExistTestKnown`, `ExistTestPending`, `ExistTestNew`, `ExistTestNewFails` | `gateServer::pvExistTest`, with `gatePvData::init` and `addET` |
| `Attach`, `AttachGetFails`, `AttachRefused` | `gateServer::pvAttach`, `gateVcData::gateVcData`, `gatePvData::activate` |
| `VcDestroy` | `gateVcData::destroy`, `~gateVcData`, `vcRemove`, `gatePvData::deactivate` |
| `LifeFromConnect`, `Revive` | `connectCB` with the channel up, `gatePvData::life`, `generateBeaconAnomaly` |
| `ConnectionLost` | `connectCB` with the channel down, `gatePvData::death`, `vcDelete` |
| `FirstEvent` | `eventCB` while `needAddRemove`, `vcAdd`/`vcNew` |
| `ConnectCleanup`, `InactiveDeadCleanup`, `NewAs` | the functions of those names, with `death` and the destructors |
| `TouchFreed`, `NewAsTouchFreed`, `Restart` | use of a deleted object; undefined, modelled as the death of the process, after which `manage_gateway` starts a new one |

**Properties.** `ListsFollowState`, `ParkedTestsAreWaitedFor`, `VcFollowsPv`,
`NoActivationWhileConnecting`, `StateFollowsChannel`, `CountersMatch` are
invariants; `ParkedTestsAnswered` and `UnconnectedForgotten` are liveness;
`ImplementsDirectory` and `VcLives` are refinement. `NoFreedNode`, `ActiveHasVc`,
`InactiveHeldForTimeout`, `DisconnectedHeldForTimeout` and
`RereadKeepsServedPvs` state what the documentation or a comment says and the
code does not do (section 11).

**Timeouts.** The inactive timeout is at least one tick (`TimesAssumption`);
nothing is assumed of how the timeouts compare, as gateResources.cc enforces
nothing. In one case it matters. A PV has a node on `pv_con_list` until
`connectCleanup` takes it off, and with a short `-inactive_timeout` the next
function of the same pass can delete the PV first; so can a long pass, or a
connection that is lost and regained in time, which resets `dead_alive_time` only.
The node then points to a deleted object, as after a denial
(`NoFreedNode`, section 11), and what uses it is `TouchFreed`.

**Fairness** (`FairSpec`): weak fairness of the loop's steps, because `mainLoop`
is a `while` without a blocking call other than `process(delay)`, which returns
after `delay`; strong fairness of `Tick`, because every pass spends time in
`process()` but the ages can only move while the loop is there, so `Tick` is
enabled again and again and not continuously. Nothing is assumed of clients or
IOCs: a connection need never come up.

## 4. The abstract specifications

**`PvDirectory`.** The promise to clients, without PV states, lists or timeouts: a test
is answered at once with *exists* if the PV it asks for is served and with *not
here* if that PV is not, or its name is denied, whatever else is served; a test may
be postponed only for a PV that is not served; when that PV is found, all who waited learn that it
exists; when the search is given up they learn that it does not; a client is
attached only to a served PV, and loses its channel in the step in which the PV
is withdrawn; a crash serves nothing, and the next process has forgotten
everything. `Directory` in GatewayPv maps *serving* to the Active and Inactive
PVs, *attached* to those with a `gateVcData`, *waiting* to `eio`. `sought`, the PV each
test asked for, is a history variable of both: it ties an answer to the name it is
about, and `ExistsIsServed` says so of every answer.

**`VcLife`.** The promise between one PV and its VC, without lists, clients, data or timeouts.
Three variables: the PV (*Inactive*, *Active*, or *away* when it cannot serve), the
VC (*none*, *Connect*, *Ready*), and the mark `need`, which is `complete_flag`
(`needAddRemove()`): set by `activate` when the VC waits for the first event, and
the only thing `eventCB` looks at when it decides whether an event completes the
VC. The mark belongs to the PV and the wait to the VC, and they are set and reset
in different functions; a VC left waiting with its mark gone would wait for ever,
and one completed twice would be added to the CAS twice. `VcLifeOK` excludes both.

| action | code |
|---|---|
| `Found` | `life()` |
| `Activate`, `ActivationFails` | `activate()`; on a get that fails the VC is deleted and the PV stays Active and marked |
| `Complete` | the first event, `vcAdd`/`vcNew` |
| `Release` | `deactivate()`; the mark of a VC that was not ready stays set |
| `Lose` | `death()`, a cleanup, a denial by `newAs`, the end of the process |

`Life(n)` in GatewayPv maps the PV of each name, `Life` in GatewayVc its one PV, to
this specification.

## 5. GatewayVc

One PV that has been connected at least once, and the `gateVcData` objects made
for it one after the other, told apart by `vcId` as in the code.

**State.** `rd` and `wr` say on which queue each request is; `cb[w]` is the `vcID`
in the `gatePvCallbackId` that CA holds for a put callback, which outlives the
VC. `pending` are the kinds of get marked pending (`ctrl_get_state`,
`time_get_state`), `sent` those CA really owes an answer; they differ when the
call to CA failed after the mark was set. `mon` and `alhMon` are the value and
the alarm handler subscriptions, `ev` is what `event_data` holds, as far as
properties can tell: nothing, a value, an alarm handler container.
`rd[r] = "empty"` records a read completed with success and nothing in it.

| action | code |
|---|---|
| `ActivateCache`, `ActivateNoCache`, `ActivateFails` | constructor of gateVcData, `gatePvData::activate`, with and without the cache |
| `VcDestroy` | `gateVcData::destroy`, `deactivate` (`unmonitor`, `alhUnmonitor`), the destructor |
| `ReadCached`, `ReadForwarded`, `ReadAlh` | `gateVcData::read` with `gatePvData::get` and `alhMonitor` |
| `WriteEarly`, `WriteNotify` | `gateVcData::write`, `writeNotify`, `gatePvData::put` |
| `ReadAbandoned`, `WriteAbandoned` | CAS destroys the gateAsyncR/W of a client that left while others stay |
| `Interest` | `interestRegister`, `interestDelete` |
| `CtrlReply`, `TimeReply`, `EventCB`, `AlhCB`, `PutCB`, `AccessCB` | the CA callbacks, with `vcData`, `vcNew`, `setEventData`, `copyState`, `flushAsyncReadQueue`, `flushAsyncWriteQueue` |
| `ConnectionLost`, `Reconnect` | `connectCB`, `death`, `life` |

**Faults.** What may go wrong outside the gateway is the constant `Faults`: CA
refuses a get (`issue`) or a subscription (`monitor`), an array is too long
(`size`), a get is answered with an error (`reply`), a put fails (`put`), access
rights change (`access`), one client of several leaves (`leave`). A run names the
faults under which its properties hold; that is part of what it shows.

**Properties.** Every queued read waits for an answer CA was really asked for
(`QueuedReadsAreAwaited`); no read is completed without data (`ReadsHaveData`);
a write on a queue belongs to the present VC and its callback is to come
(`WritesFollowVc`); the writes are limited (`WritesLimited`); the callbacks that
use `gatePvData::vc` without a test never meet a NULL (`NoVcNothingOwed`); the
alarm handler's data is kept by whatever comes after it (`AlhDataKept`); a put is
completed only through a request object that exists (`WriterIsThere`); the PV and
its VC keep the promises of `VcLife` (`ImplementsLife`); reads and writes are answered (`ReadsAnswered`, `WritesAnswered`).

**Fairness** (`FairSpec`): CA answers every get and every put callback of a
channel that stays up, and sends the first event of every subscription: this is
what the CA library does, and what its callbacks with an error status are for.
Nothing is assumed of further events, of clients or of the IOC's connection.

## 6. GatewayDaemon

**State.** `server` is where the server process stands in `manage_gateway`
(*check* the restart window → *delay* → *fork* → *forked* → *paused* → *test* →
...). It may also be *exited*, or *gateway*: when `fork()` fails, `gate_pid` is 0,
the loop ends, and the process goes on as the gateway. `starts` is
`startTime[]`, `prev` is `prevt`, `gatePid` and `death` are `gate_pid` and
`death_flag`. `sig` holds the signals that are pending for the server, `term` says
that one is for the gateway. `gate` is the life of the gateway process, which has
a copy of `death_flag` (`gateDeath`) from the fork on. `flags` and `pos` are the
flags of `gateServer` and the place of the main loop among them. `forks` is a
history variable: the ages of the last starts. `strays` counts the gateways that
run and that `gate_pid` no longer names, `fakes` the SIGCHLDs that no death raised
(history; `MaxFakes` bounds them).

**Signals.** A signal can come between any two steps of the server, and those that
are pending are handled, in either order, before its next step (`Runs`). A signal
that comes before `pause()` is lost on `pause()`, as in the code. SIGCHLD is
raised by the end of any gateway (`GateEnds`, `StrayEnds`) and also, because the
handler is installed without `SA_NOCLDSTOP`, by one that is stopped or continued,
or by a `kill` (`FakeChild`): it ends `pause()` all the same, and `Fork` makes a
stray of the gateway that still runs. A stray only runs and ends; what it does as a
gateway is not followed.

| action | code |
|---|---|
| `CheckRestarts`, `EndDelay`, `Fork`, `ForkFails`, `Pause`, `TestDeath` | the loop of `manage_gateway` |
| `HandleChild`, `HandleStop`, `HandleStopAlone` | `sig_chld`, `sig_stop` |
| `ChildLeavesLoop`, `StartUp`, `InheritedStop` | the child after `fork()`, until `startEverything` has installed `sig_end` |
| `GateStop`, `GateSignal`, `PutFlag` | `sig_end` and `stopEverything`, `sig_usr1`/`sig_usr2`, puts to gateStat PVs |
| `LoopStep`, `FlagDone`, `GateQuits`, `GateCrashes` | `gateServer::mainLoop` |
| `FakeChild`, `StrayEnds` | a SIGCHLD with no death; the death of a gateway that `gate_pid` does not name |
| `KillServer`, `KillGateway` | the scripts `gateway.killer`, `gateway.restart` |

**Properties.** `OneGateway`: there are no more strays than SIGCHLDs that no death
raised, so stops, deaths and failing forks alone never make two gateways, and one
SIGCHLD of the other kind makes one too many and not more, though every death of a
stray raises SIGCHLD again. `RestartsLimited` and `RestartsPaced` (about the
forks, not about the variables that the code compares; a SIGCHLD with no death ends
the sleep, so `RestartsPaced` asks for none); `ServerTakesGateway`;
`StopEndsBoth` and `DeathIsAnswered` (liveness). `PausedServerHasGateway`,
`RestartedOnlyIfDead` and `RespawnDelayed` say what the documentation and a comment
say and the code does not do.

**Fairness.** Signals are delivered, time passes, both processes are scheduled.
`ServerStep` is strongly fair: a server that is sent signals again and again is
not enabled continuously, but it does run.

## 7. GatewayAs

A pattern is the set of names it matches, a line of the file a record, a list a
sequence with the latest line first, as the code's lists are. `ListsOf` is the
function that gives the lists after each line of a file, by `ReadLine`, and `Read`,
one call of `readPvList`, is its last element; `ReadDeny` has the two
passes over a `DENY` line (the first resolves host names, the second parses a
copy), and `ReadAllow` the local variable `lev`, which is uninitialized at first
(any value) and else left over from an earlier line (`LevelAfter`). The copy that
the second pass parses is taken before the comment is cut off, so a comment is a
sequence of words of the line: behind a `DENY` without hosts they are hosts, behind
`ALLOW` or `ALIAS` they are what `Behind` finds, and the first two of the words
there are the group and the level. `Decide` is `findEntry`.

The state machine makes PVs (`pvExistTest`), ends them (`PvEnds`), and rereads the
file, which may have been edited (`newAs`): the lists are replaced and every PV is
looked up by its real name.

`Meaning` is the reference definition: what docs/Gateway.html, section *Access
Security*, says a file means, without lists or an order of reading.
`DecisionsFollowFile` says that for every name and host the lists decide
accordingly, whatever was read before. `PvEntriesAreCurrent` and `RereadKeepsPvs`
are about the PVs over rereads.

Lines whose meaning the code and the documentation agree on are `GoodLines`; the
others are in section 11.

## 8. NameServer

**State.** `alive`, `circuit` and `file` are the IOCs: which run, which have an
unbroken TCP connection to the name server, what their `signal.list` holds.
`chan` is what CA knows of each channel of the name server. `status`, `list` and
`table` are `pIoc::status`, `pIoc::pvEList` and `stringResTbl`. `pending` is
`nameList`, a sequence with the head first, since the sweep unlinks by position. A
node is *good*, *stale* (the channel it names was cleared) or *freed* (it was deleted
and is still linked).

**Threads.** The main thread starts up, answers searches and purges the pending
list. CA's thread delivers callbacks at any time, since the context is made with
`ca_enable_preemptive_callback` (nameserver/main.cc:744). Nothing is locked. So a
handler of the main thread that looks something up and then uses it is split in
two or more, with `hand` in between: where it stands, with which name and which node
of the list, and whether what it points to has been deleted meanwhile. `reading` says
that CA's thread is in the long part of a callback, between `remove_all_pvs` and the
end of `add_all_pvs`. The other callbacks are one step.

**The sweep.** For an overdue name `processPendingList` makes an entry of the never
table, clears the channel, flushes CA's requests, and only then unlinks the node:
behind `pprevNN` if there is a node in front, else at the head (nameserver/main.cc:
440-461). It has read `tmp`, the node to go on at, before all that. A callback may
run between any two of these steps. If it adds a heartbeat's node at the head, the
nodes the sweep points to move back by one (`HeartbeatDown`), and a sweep that had
found its node at the head takes off the heartbeat's node instead and deletes its own,
which stays linked (`GiveUpHead`). If it deletes a node, `HandAfter` says whether
that was one of those the sweep will still use (`Held`): `pNN`, `tmp`, and `pprevNN`
when a name behind the head is given up. `UsesFreed` collects the ways in which the
next step is then a use of freed memory, or of a cleared channel. The walk of
`pvExistTest` holds one node (`look`), the sweep two (`walk`).

| action | code (nameserver/) |
|---|---|
| `LoadList`, `SearchHeartbeat`, `SetPuser`, `AddNN` | `parseDirectoryFile`, `connectAllIOCs`, `connectIocHeartbeat`, `addNN` |
| `FindEntry`, `Answer`, `SearchName` | `directoryServer::pvExistTest` |
| `AskHeartbeat` | a search for the heartbeat of a `pIoc` that `cleanup` deleted |
| `LookAtNode`, `GoOn`, `WalkFreed` | the walks of `pvExistTest` and `processPendingList` over `nameList` |
| `FindOverdue`, `Rebroadcast`, `ClearOverdue`, `GiveUp`, `GiveUpHead`, `UseFreed` | `processPendingList` |
| `HeartbeatUp`, `Reread`, `HeartbeatDown` | `WDprocessChangeConnectionEvent`, `remove_all_pvs`, `add_all_pvs` |
| `NameUp`, `NameDown` | `processChangeConnectionEvent`, `get_pvE`, `installPVName` |
| `Restart` | `start_daemon` |
| `Die`, `Boot` | an IOC goes; it comes back with another file |

**Abstractions.** A process that touches freed memory has died, and the daemon
starts a new one. Ages of pending names are left out: any node may be found
overdue. One add, get or remove of the list is one step, and so is a callback's walk
of it: two threads inside the three assignments of an unlinking are not modelled.
Nor is the walk of a thread up to the node it stops at; what it would trip over there
is (`Reaches`, `MeetsFreed`). `ca_create_channel` succeeds. The
model follows one channel of each name. All learned names share one `pIoc`,
`Gateway`, as its list is emptied at once by `get_pvE` (nameserver/main.cc:952).
The build without `PIOC` and `JS_FILEWAIT` is modelled.

**Properties.** `ListsMatchTable`: the containers agree on every entry, also for a
name that moved, where the second note of the class comment allows less.
`HeartbeatWatched`: no heartbeat is left without a connection or a node that brings
a new search, as long as no deleted node is on the list. Without that condition it is
`HeartbeatPending`, which the code does not keep (section 11).
`StatusFollowsHeartbeat`: no IOC is believed up that nobody watches or searches for,
or down that is connected and read; the addresses themselves are not in the model.
`MonitoredNamesKnown`, `SearchesArePending`. Liveness: `PendingEnds`,
`RunningIocServed`.

**Fairness.** The main thread finishes its handlers and sweeps every 30 s; CA
repeats its searches and reports what it finds, in spite of channels that come and
go meanwhile (strong fairness); a deleted node on the list is met, since every search
and every sweep walks over it; the daemon waits for its child.

## 9. Runs

| run | shows | bounds |
|---|---|---|
| `pv_lifecycle` | all invariants of GatewayPv and the refinements of PvDirectory and, for each name, of VcLife | 2 PVs, an alias, 2 pvlist files, 1 test, ages 0..2, 1 leaked object; 794 188 states |
| `pv_liveness` | every postponed test is answered; no unconnected PV is kept for ever | 1 PV, 2 tests, 3 pvlist files; 66 178 states |
| `vc_cache` | all properties of GatewayVc but one with the cache, with refused gets, error answers and failed puts; the refinement of VcLife | 2 reads, 3 put callbacks, 3 VCs; 8 077 states |
| `vc_nocache` | without the cache, under all faults: no read is completed without data | 2 reads, 3 put callbacks, 2 VCs; 197 652 states |
| `daemon` | strays are counted, restarts limited and paced, stops reach both processes, deaths are answered | window of 3 starts in 3 ticks, delay 1, one SIGCHLD with no death, a flag before `quit` and one after it; 209 088 states |
| `access` | the lists decide what the documentation says, over rereads, and PVs hold present entries | files of up to 4 of 9 lines, 2 names, 2 hosts; 16 738 states |
| `ns_directory` | the tables agree and the status follows the heartbeat | 2 IOCs, a name that moves between them, files with it, without it and without a heartbeat; 780 834 states |
| `ns_pending` | heartbeats, searches and learned names keep their nodes and entries; pending names end; an IOC that keeps running is believed up | 1 IOC, 1 searched name, files with a heartbeat and without; 16 610 states |
| `pv_freed_node`, `daemon_lost_child`, `access_comment`, `ns_listed_search` | one counterexample each, see section 11 | the smallest instance that has it |

Why the bounds suffice. *GatewayPv:* handlers touch one PV, except the cleanups
and `newAs`, which treat a set of them alike; two PVs, one on each side of every
such set, and one that is served under an alias, give every combination of a PV
that a loop acts on and one it passes over. One test parks, is answered and tests
again on any name; the queues of tests matter only for two tests on one PV, which
`pv_liveness` has. Timeouts of 1, 1 and 2 ticks let each be reached, just missed,
and exceeded, and let the inactive timeout come while the node of a new PV is still
on `pv_con_list`. *GatewayVc:* `maxSimlWriteIO` is 100 in
the code and 1 here, so that three writes reach the limit and the one more that
the code allows before the VC is ready. The vcID matters as "this VC or an
earlier one"; two VCs have both, three have an earlier one that is not the first.
Two reads can wait on different queues. *GatewayDaemon:* `NRESTARTS` is 10 and the
interval 600 s in the code; a window of 3 is filled, shifted and found too young,
and an interval of 3 ticks with a delay of 1 separates the three outcomes: too
many, delayed, at once. *GatewayAs:* four lines hold an order, a denial, a rule
that overrides another, and one line left over from an earlier reading; two names
separate a pattern that matches both from one that does not. `Edited` bounds an
edit to one line added behind or taken from the front; every file can still be
reached, and each is also an initial state. *NameServer:* an entry is on the list
of one IOC and taken by another, so two IOCs have every case. In `ns_pending` the
list has a heartbeat's node, a name's node, and a second one of either when a callback
overtakes `addNN` or comes while the sweep is at its node, so every node the sweep
points to can be deleted, pushed back, or lost. Nothing bounds the length of the list
but the code's own tests.

Deadlock is checked in all runs but the two of GatewayDaemon, where a server that
has exited really stops. `vc_nocache` and `ns_directory` use symmetry; they check
only invariants.

## 10. Proofs

Every safety property that a passing run checks is proved for all values of the
constants, and so are the two refinements of abstract specifications. Some
theorems have a hypothesis; the tables below say what happens without it.

**`GatewayPv_proofs`.** Inductive: `Typed /\ Structure /\ Counted`.

* `Typed` is `TypeOK` without the sign of the counters. That a counter stays
  non-negative cannot be shown from its type; it follows from what it counts.
* `Structure` is the conjunction of the five structural invariants. None is
  inductive by itself: that `death()` answers every parked test needs that tests
  are parked on connecting PVs only; that `activate` meets only Inactive PVs needs
  that a connecting PV is not on `pv_list`; that deleting the PVs `newAs` denies
  leaves no parked test needs both.
* `Counted` is `CountersMatch` over integers. Its step needs `Structure` (what a
  handler may find in a PV of a given state) and lemmas about how a cardinality
  changes when one element, or a set of them, moves (`OneMoved`, `HowManyMoved`,
  `OneServed`, `SetDropped`).

Assumptions used: `Names` is finite and contained in `Requests`; a pvlist file
maps requests to names; the mode is a boolean; the times are natural numbers up to
`MaxAge`, the inactive timeout at least 1.

**`PvDirectory_proofs`.** `GatewayIsDirectory`: the initial states map to initial
states, and under `Typed /\ Structure` every action maps to a step of the
directory or leaves the mapped state
`<<Serving, Attached, Waiting, sought, answer, run>>` alone (one lemma per action).
`ExistsOnlyServed` carries a consequence over to the gateway: a test waits for the PV
it asked for and for no other (`WaitingAsked`), so it learns *exists* only while that
PV is served.

**`GatewayLife_proofs`.** Inductive, on top of `Typed /\ Structure`: `Marked`, which
ties the mark of every PV to the wait of its VC. The steps are first reduced to what
each does to one PV (`StepEffect`: it is kept, comes, is activated, completed,
released, or gone, whatever else the handler does to others), and the invariant,
the refinement (`PvHasItsLife` for each name, `AllPvsLive` for all of them, the form
TLC checks) and `ActiveHasVcUncached` are proved of these effects. Three theorems
say when a promise of the documentation holds that the code does not keep:

| theorem | hypothesis | without it |
|---|---|---|
| `ActiveHasVcUncached` | no cache | section 11, `ActiveHasVc` |
| `DisconnectedHeld` | `DisconnectTimeout <= InactiveTimeout` | section 11, `DisconnectedHeldForTimeout` |
| `RereadKeepsUnaliased` | no pvlist file has an alias | section 11, `RereadKeepsServedPvs` |

**`GatewayVc_proofs`.** Every property strengthened by what it needs of the
handlers: `Writers` (no callback is of a VC still to be made), `Monitors` (only an
Active PV with its VC has subscriptions), `Alarms`, `Data`, `Limited`. These hold
under all faults. Three theorems have a hypothesis, and each hypothesis is needed:

| theorem | hypothesis | why |
|---|---|---|
| `ReadsGetData` | the cache, or not a string PV | section 11, `ReadsHaveData` |
| `ReadsAreAwaited` | the cache, and only gets and puts fail (`Promised`) | section 11, `QueuedReadsAreAwaited` |
| `WritersStay` | no client leaves while others stay | section 11, `WriterIsThere` |

`VcHasItsLife` is the refinement of `VcLife`; it needs `Settled`: a PV that is
disconnected, or whose VC is ready, is not marked. `VcCompletedOnce` carries the
theorem of **`VcLife_proofs`** (`LifeKept`: the promises of `VcLife` hold) over through the
refinement mapping, to the requests and callbacks of `GatewayVc`.

**`GatewayDaemon_proofs`.** Control: `TypedControl /\ TypedCounts /\ Watched /\
Told`. `OneGateway` alone is not inductive: `Watched` also counts the gateway that
runs while a SIGCHLD is on its way to the next fork (`Superseded`), since it is a
stray soon. `Told` says that a gateway knows of a stop of its server. From these
follow `ExtraGatewaysCounted` and `StopIsPassedOn`. Rates: `TypedTimes /\ Paced` relates
entry *k* of the hand-shifted window to the fork as far from the end, before the
fork (`BeforeFork`) and after it (`AfterFork`); `StartsAreLimited` and
`StartsArePaced` follow for every `NRESTARTS`, interval and delay (the interval
longer than the delay).

**`NameServer_proofs`.** `Typed /\ HandHeld /\ Started`, for pending lists of any
length. `HandHeld` says that the node the main thread points to is on the list at the
place it has in hand, or is known to be deleted; that a node about to be unlinked is
not deleted yet; and that in front of a node that was found at the head there are
only heartbeats and deleted nodes, so that the node lost in its place is a
heartbeat's. `Started` orders startup, searches and rereads of an IOC. The steps are
first reduced to what each does to the list (`AddNNDone`, `HeartbeatDownDone`,
`RebroadcastDone`, `TakenDone`, `GiveUpDone`, `GiveUpHeadDone`: which names still have
a node, a good node, and whether a deleted one is there), and the invariants are
proved of these effects.

* `HeartbeatsStayWatched` has its condition in the property: as long as no deleted
  node is on the list. `GiveUpHead` is the step that needs it, and it leaves one.
* `StatusHolds` and `SearchesStayPending` hold in every state.
* `TablesHold` and `MonitoredNamesStay` have the hypothesis `Disjoint`: nothing is
  searched for that a file lists. `ns_listed_search` shows that it is needed.

**`GatewayAs_proofs`.** For files of any length over any set of lines. What the
lists hold after a file is a statement about every prefix of it, which an induction
over the length would give; the induction theorems of the library take an operator
as a parameter, which the installed provers cannot instantiate. `NumbersUpTo` is
induction for a *set* of numbers, proved from the well-foundedness of the naturals, and
each use names the set of prefixes for which its statement holds. On it rest
`DenyRead`, `FromRead`, `UsedRead`, `OrderRead` and `AllowRead`: which names the deny list
and the list of a host hold, which evaluation order is in force, and that
the first entry of the allow list that matches a name is that of the last line that
allows it. `IInv` (inductive): the lists are those of a reading of the present file,
and each PV has the entry that `findEntry` gives its real name, or one of its alias
out of the present allow list.

| theorem | hypothesis | without it |
|---|---|---|
| `PvEntriesCurrent` | none | |
| `DecisionsFollow` | no comment behind a `DENY` without hosts | run `access_comment` |
| | no comment behind an `ALLOW` or `ALIAS` without a group | section 11, `CommentedAllowLines` |
| | hosts of `DENY FROM` are known | section 11, `UnknownHostLines` |
| | a group has a level | section 11, `BareGroupLines` |
| `RereadKeeps` | not one word alone behind `ALLOW` or the real name | the level left over from the earlier reading may differ |

Only model-checked: liveness under fairness, which is out of the prover's reach
(`ParkedTestsAnswered`, `UnconnectedForgotten`, `ReadsAnswered`, `WritesAnswered`,
`StopEndsBoth`, `DeathIsAnswered`, `PendingEnds`, `RunningIocServed`).

## 11. Divergences

Each is a finding in `PROJECT.json`, with the quotation. Four have a run:

* `pv_freed_node`: `newAs` denies a PV that is still connecting. It is met in the
  second walk, over `pv_con_list`; `death()` adds it to `pv_list`, its node on
  `pv_con_list` is removed, the object is deleted, and the node on `pv_list` points
  to it. A denied PV that *connected* since the last `connectCleanup` is on both
  lists: it is deleted in the first walk and read in the second walk of the same
  `newAs`, which is the action `NewAsTouchFreed` and the end of the process. With
  `AByBoth` as the only pvlist nothing is denied, and TLC finds that
  `inactiveDeadCleanup` leaves the node on `pv_con_list` of a PV that expires before
  `connectCleanup` has looked at it.
* `daemon_lost_child`: a gateway that dies before the server has reached
  `pause()`; the server waits for a signal that has already come.
* `access_comment`: the words of a comment behind `DENY` are taken for hosts, and
  the rule denies the name to nobody.
* `ns_listed_search`: a name that was searched for before an IOC listed it; when
  its channel drops, its entry is deleted and the IOC's list keeps a pointer.

The others are shown by adding the property to a configuration, or by changing a
constant in one:

| property | where | what TLC finds |
|---|---|---|
| `ActiveHasVc` (invariant) | `pv_freed_node.cfg`, instead of `NoFreedNode` | a get that fails during activation leaves the PV Active with no VC; further clients are refused until the channel disconnects |
| `InactiveHeldForTimeout` (property) | likewise | `life()` does not set `no_connect_time`, so a PV that has just reconnected can be expired as if it had been Inactive all along |
| `DisconnectedHeldForTimeout` (property) | likewise, with `DisconnectTimeout = 4` and `MaxAge = 4` | `-disconnect_timeout` is not consulted |
| `RereadKeepsServedPvs` (property) | likewise | `newAs` looks PVs up by their real name; one that is allowed only under an alias is killed by every reread |
| `QueuedReadsAreAwaited` | `vc_nocache.cfg` | without the cache, a read whose get is answered with an error stays queued |
| `ReadsHaveData` | `vc_nocache.cfg` with `StringPv = TRUE` | a read of a string PV's attributes is completed with success and no value |
| `WriterIsThere` | `vc_nocache.cfg` | `putCB` uses the gateAsyncW of a client that left |
| `HeartbeatPending` (invariant) | `ns_pending.cfg` | the sweep gives up the name at the head of the list while a heartbeat's node comes in front: that node is unlinked instead, and nothing searches for the heartbeat again |
| `LearnedAreMonitored` (invariant) | `ns_pending.cfg` | CA reports a connection between the search and `addNN`; the node added behind it is given up and takes the channel of the installed name with it |
| `AskHeartbeat` (an action) | `ns_directory.cfg`, `ns_pending.cfg` | the heartbeat name of a `pIoc` that was deleted stays in the table |
| `RestartedOnlyIfDead` (invariant) | `daemon.cfg` | SIGCHLD of a gateway that was only stopped or continued: the server forks a second one beside it |
| `RespawnDelayed` (invariant) | `daemon_lost_child.cfg` | after a delayed start the next one may follow at once: `prevt` is taken before the sleep |
| `ServerTakesGateway` without `gateDeath` | `daemon.cfg` | a stop that reaches the child before it has installed `sig_end` is forgotten |
| `DecisionsFollowFile` | `access_comment.cfg` with `Lines <- CommentedAllowLines` | the words of a comment behind `ALLOW` are taken for the group and the level |
| `DecisionsFollowFile` | `access_comment.cfg` with `Lines <- BareGroupLines` | a rule with a group and no level has the level of the rule before, or none in particular |
| `DecisionsFollowFile` | `access_comment.cfg` with `Lines <- UnknownHostLines`, `Resolvable = {h1}` | a `DENY FROM` whose hosts cannot be resolved denies the pattern to everybody |

Seen while modelling, in the models as the code has them:

* `nrWio` is full at one more than `maxSimlWriteIO` (gateVc.cc:1320), `pendWio` at
  `maxSimlWriteIO` (1336), and `vcNew` moves all of one to the other (863).
  `WritesLimited` states the bound that results.
* gateVc.cc:1384 says that the write stays on the pendWIO list; it was removed two
  lines above.
* gateway.cc:1459 says that without the cache every get is forwarded; only one get
  of a kind is under way at a time, and later reads share its answer
  (gatePv.cc:941).
* With the cache, a VC that is activated without read access gets no get, and
  `accessCB` issues none later, so it never becomes ready (gatePv.cc:399).
* The pending mark of a get stays set when the call to CA fails; no get of that
  kind is issued again until the channel disconnects.
* A failed subscription leaves the VC waiting (a comment in `getCB` says so).
* A command flag that is set again while its report runs is reset with it
  (gateServer.cc:332).
* directoryServer.h:125-126 allows an entry of a moved name to be on the list of the
  IOC it left and not in the table, and `remove_all_pvs` tests for it
  (nameserver/main.cc:1065). `installPVName` takes the entry off that list and deletes
  it (directoryServer.cc:366-382), so `ListsMatchTable` holds without the exception.
* A stop in the middle of `RESTART_DELAY` ends the sleep, and one more gateway is
  forked before the server tests `death_flag`; the child returns at once.

## 12. Not modelled, and abstractions

* *The gateway's handlers are atomic.* The `checkEvent()` calls that would poll CA
  inside a handler are compiled out (`OMIT_CHECK_EVENT`, gatePv.cc:45), and the
  gateway is one thread. The directory server has two, and its handlers are split.
* *CA and CAS are external*, known by how this code uses them: CA answers or calls
  back with an error; CAS postpones and repeats a request that returned
  `postponeAsyncIO`, and destroys asynchronous IO whose client left.
* *Data*: values, attributes, events posted to clients and the archive (log)
  monitor are left out. So is the limit of 5000 entries of the put callback list,
  whose test is in the hazards.
* *Freed memory*: touching it is undefined; the models let the process die, one of
  the outcomes the build can produce, and the one after which a state is known.
* The registration of the access rights event is taken to succeed.
* *Access rules*: regular expressions are sets of names; lines that `readPvList`
  reports as errors change nothing and are left out; so are lines that only their
  comment completes (`ALIAS # x`), the access security file and `gateAsClient`. A
  last line without a newline, which loses its last character (gateAs.cc:463), is
  not in the model.
* *Directory server*: the never table, the server's own PVs (`pvServer`), its
  statistics, the addresses themselves, and the ages of pending names; two threads
  inside one operation of the list or of the hash table.
* *Statistics PVs, resources, gateAsCa*: they publish or hold what other modules
  have, or wrap an external library.
* *Everything else in the repository* is most of its lines: user interfaces (edm,
  medm, VisualDCT, php_epics), earlier releases of the gateway, text filters,
  vendored code. Their state is that of widgets and drawings, or there is none;
  they have no protocol whose steps could be put in a wrong order, and the share
  of the repository's lines that the models stand for is small for that reason.
