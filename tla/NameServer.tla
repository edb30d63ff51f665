------------------------------ MODULE NameServer ------------------------------
(***************************************************************************)
(* The CA directory server (src/src/nameserver): it answers clients'       *)
(* searches with the address of the IOC that serves a name.  It knows a    *)
(* name from the signal.list file of an IOC, whose heartbeat it watches,   *)
(* or learns it by a search of its own (directoryServer.cc, main.cc).      *)
(*                                                                         *)
(* There are two threads.  The main thread starts up, answers searches and *)
(* purges the pending list; hand is where it stands inside such a handler, *)
(* with the entry or the nodes it points to.                               *)
(* CA's thread delivers the connection callbacks at any time (the context  *)
(* is made with ca_enable_preemptive_callback, main.cc:744), one after the *)
(* other, and nothing is locked.  Reading a signal.list is the one part of *)
(* a callback that takes long: the main thread runs beside it.  The rest   *)
(* of a callback, its walk of the list included, is one step, and so is    *)
(* one add, get or remove of the list.                                     *)
(*                                                                         *)
(* A process that touches freed memory has died; the daemon starts a new   *)
(* one.  ca_create_channel succeeds: names are valid and memory suffices.  *)
(***************************************************************************)
EXTENDS Integers, FiniteSets, Sequences, SequencesExt

CONSTANTS
  Iocs,        \* IOCs of the directory file, and their heartbeat names
  Names,       \* record names that clients ask for
  Lists,       \* what a signal.list file may hold: names, and Heartbeat
  Heartbeat,   \* the line "<ioc>:heartbeat" of a signal.list
  Gateway,     \* the server of the names that no signal.list holds
  Searchable,  \* names the pvlist of the name server allows searches for
  NoIoc        \* no value

ASSUME ListsAssumption == Lists \subseteq SUBSET (Names \cup {Heartbeat})

ASSUME NamesAssumption ==
  /\ Searchable \subseteq Names
  /\ Iocs \cap Names = {}
  /\ Heartbeat \notin Names
  /\ Gateway \notin Iocs /\ NoIoc \notin Iocs \cup Names \cup {Gateway}
  /\ {"none", "search"} \cap (Iocs \cup {Gateway}) = {}

VARIABLES
  \* The IOCs and the network
  alive,    \* servers that run
  circuit,  \* servers with an unbroken TCP connection to the name server
  file,     \* the signal.list of an IOC
  \* CA channels of the name server
  chan,     \* "none", "search", or the server the channel is connected to
  \* The name server
  unread,   \* IOCs whose file startup has not read yet
  unwatched,\* IOCs whose heartbeat startup has not searched for yet
  status,   \* pIoc::status: "new" (0), "up" (1), "down" (2); "gone": deleted
  list,     \* names on pIoc::pvEList, the heartbeat left out
  table,    \* stringResTbl: name to pIoc; Gateway: the pIoc of a learned name
  pending,  \* nameList, head first: the name of a node, and whether it is
            \* "good", "stale" (its channel is cleared) or "freed" (deleted,
            \* and still linked)
  reading,  \* the IOC whose file CA's thread is reading
  hand,     \* where the main thread stands in a handler
  run       \* "up", or "crashed"

envVars    == <<alive, circuit, file>>
startVars  == <<unread, unwatched>>
tableVars  == <<list, table>>
serverVars == <<startVars, status, tableVars, pending, reading, hand>>
vars       == <<envVars, chan, serverVars, run>>

Servers  == Iocs \cup {Gateway}
Channels == Iocs \cup Names

\* The main thread is at a step with a name and a node, the k-th of the list;
\* first: pprevNN was 0 when it came to the node; freed: a callback deleted what
\* it points to.
At(step, x, k) ==
  [at |-> step, x |-> x, k |-> k,
   first |-> step = "purge" /\ k = 1, freed |-> FALSE]

Idle == At("idle", NoIoc, 0)

\* The servers that answer a search for x.
Serving(x) ==
  IF x \in Iocs THEN {x}
  ELSE IF x \in UNION Lists THEN {i \in Iocs : x \in file[i]}
  ELSE {Gateway}

Connected(x) == chan[x] \in Servers

\* The channels that share the TCP connection to server s.
Over(s) == {x \in Channels : chan[x] = s}

Listed(i) == file[i] \cap Names

\* pvE's of a list that were deleted: the table does not lead back here.
FreedEntries(i) == {n \in list[i] : table[n] # i}

Ready == run = "up"

\* The main thread is in its loop.
Looping == Ready /\ unread = {} /\ unwatched = {} /\ hand = Idle

CaIdle == Ready /\ reading = NoIoc

Node(x) == [x |-> x, is |-> "good"]

NodesOf(x) == {k \in DOMAIN pending : pending[k].x = x /\ pending[k].is # "freed"}

FreedNodes == {k \in DOMAIN pending : pending[k].is = "freed"}

\* A walk from the head to the first node of x, or to the end, meets a freed one.
MeetsFreed(x) == \E k \in FreedNodes : \A j \in NodesOf(x) : k < j

FirstOf(x) == CHOOSE k \in NodesOf(x) : \A j \in NodesOf(x) : k <= j

\* The steps at which the main thread points to a node.
Holding == {"look", "walk", "purge", "unlink", "repuser"}

\* It gives up the name of its node.
GivingUp == hand.at \in {"purge", "unlink"} /\ hand.x \in Names

\* The nodes that it points to and will use: pNN, tmp in a sweep (a heartbeat is
\* looked at again first), and pprevNN to give up a name behind the head.
Held == {hand.k} \cup (IF hand.at = "walk" \/ GivingUp THEN {hand.k + 1} ELSE {})
                \cup (IF GivingUp /\ ~hand.first THEN {hand.k - 1} ELSE {})

\* A callback deletes entries and takes the first node of x off the list.
HandAfter(entries, x) ==
  IF hand.at = "entry"
  THEN [hand EXCEPT !.freed = @ \/ hand.x \in entries]
  ELSE IF hand.k = 0 \/ NodesOf(x) = {} THEN hand
  ELSE IF FirstOf(x) \in Held THEN [hand EXCEPT !.k = 0, !.freed = TRUE]
  ELSE IF FirstOf(x) < hand.k THEN [hand EXCEPT !.k = @ - 1]
  ELSE hand

PendingWithout(x) ==
  IF NodesOf(x) = {} THEN pending ELSE RemoveAt(pending, FirstOf(x))

\* The channel that the nodes M name is cleared.
Cleared(M) ==
  [j \in DOMAIN pending |->
     IF j \in M THEN [pending[j] EXCEPT !.is = "stale"] ELSE pending[j]]

\* A new process: nothing is kept.
Fresh ==
  /\ unread' = Iocs
  /\ unwatched' = Iocs
  /\ status' = [i \in Iocs |-> "new"]
  /\ list' = [i \in Iocs |-> {}]
  /\ table' = [n \in Names |-> NoIoc]
  /\ pending' = <<>>
  /\ chan' = [x \in Channels |-> "none"]
  /\ reading' = NoIoc
  /\ hand' = Idle

\* A touch of freed memory (sig_dont_dump exits on SIGSEGV and SIGBUS).
Crash == Fresh /\ run' = "crashed" /\ UNCHANGED envVars

Init ==
  /\ alive \in SUBSET Servers
  /\ circuit = {}
  /\ file \in [Iocs -> Lists]
  /\ unread = Iocs
  /\ unwatched = Iocs
  /\ status = [i \in Iocs |-> "new"]
  /\ list = [i \in Iocs |-> {}]
  /\ table = [n \in Names |-> NoIoc]
  /\ pending = <<>>
  /\ chan = [x \in Channels |-> "none"]
  /\ reading = NoIoc
  /\ hand = Idle
  /\ run = "up"

-----------------------------------------------------------------------------
(* The tables *)

\* installPVName of every name of S for pIoc i.  A name that is in the table
\* stays with its pIoc, unless that one is down: then the entry moves.
Taken(S) == {n \in S : table[n] \in Iocs /\ status[table[n]] = "down"}

Installed(S, i) ==
  [n \in Names |-> IF n \in S /\ (table[n] = NoIoc \/ n \in Taken(S))
                   THEN i ELSE table[n]]

\* Mutant: a name that moves stays on the list of the IOC it leaves.
ListsAfterMove(S, i) ==
  [j \in Iocs |-> IF j = i
                  THEN list[j] \cup {n \in S : Installed(S, i)[n] = i}
                  ELSE list[j]]

ListsAfter(S, i) ==
  [j \in Iocs |-> IF j = i
                  THEN list[j] \cup {n \in S : Installed(S, i)[n] = i}
                  ELSE list[j] \ Taken(S)]

InstallPVNames(S, i) ==
  /\ table' = Installed(S, i)
  /\ list' = ListsAfter(S, i)

-----------------------------------------------------------------------------
(* Startup, in the main thread *)

\* parseDirectoryFile for one line: the names of a file without a heartbeat
\* are taken out again and the pIoc is deleted, its heartbeat entry is not.
LoadList(i) ==
  /\ Ready /\ i \in unread
  /\ unread' = unread \ {i}
  /\ IF Heartbeat \in file[i]
     THEN /\ InstallPVNames(Listed(i), i)
          /\ UNCHANGED <<status, unwatched>>
     ELSE /\ status' = [status EXCEPT ![i] = "gone"]
          /\ unwatched' = unwatched \ {i}
          /\ UNCHANGED tableVars
  /\ UNCHANGED <<envVars, chan, pending, reading, hand, run>>

\* connectIocHeartbeat, up to the search.
SearchHeartbeat(i) ==
  /\ Ready /\ unread = {} /\ hand = Idle
  /\ i \in unwatched
  /\ chan' = [chan EXCEPT ![i] = "search"]
  /\ hand' = At("puser", i, 0)
  /\ UNCHANGED <<envVars, startVars, status, tableVars, pending, reading, run>>

\* ca_set_puser of a new heartbeat channel, after its search.
SetPuser ==
  /\ Ready
  /\ \/ hand.at = "puser" /\ hand' = At("addNN", hand.x, 0)
     \/ hand.at = "repuser" /\ ~hand.freed /\ hand' = At("walk", NoIoc, hand.k)
  /\ UNCHANGED <<envVars, chan, startVars, status, tableVars, pending, reading, run>>

\* addNN, at the head, with the channel of the search that went before.
AddNN ==
  /\ Ready /\ hand.at = "addNN"
  /\ pending' = <<[x |-> hand.x, is |-> IF chan[hand.x] = "none"
                                       THEN "stale" ELSE "good"]>> \o pending
  /\ unwatched' = unwatched \ {hand.x}
  /\ hand' = Idle
  /\ UNCHANGED <<envVars, chan, unread, status, tableVars, reading, run>>

-----------------------------------------------------------------------------
(* pvExistTest, in the main thread *)

\* The name is in the table.
FindEntry(n) ==
  /\ Looping
  /\ table[n] # NoIoc
  /\ hand' = At("entry", n, 0)
  /\ UNCHANGED <<envVars, chan, startVars, status, tableVars, pending, reading, run>>

\* It is not, no search is pending, and the pvlist allows one.  Bound: the
\* model follows one channel of a name.
SearchName(n) ==
  /\ Looping
  /\ table[n] = NoIoc /\ NodesOf(n) = {} /\ FreedNodes = {} /\ n \in Searchable
  /\ chan[n] = "none"
  /\ chan' = [chan EXCEPT ![n] = "search"]
  /\ hand' = At("addNN", n, 0)
  /\ UNCHANGED <<envVars, startVars, status, tableVars, pending, reading, run>>

\* The address of the entry's pIoc is handed out if its status is up.
Answer ==
  /\ Ready /\ hand.at = "entry"
  /\ IF hand.freed
     THEN Crash
     ELSE /\ hand' = Idle
          /\ UNCHANGED <<envVars, chan, startVars, status, tableVars, pending,
                         reading, run>>

\* A client asks for the heartbeat of an IOC whose file had none: its entry
\* leads to the deleted pIoc.
AskHeartbeat(i) ==
  /\ Looping
  /\ status[i] = "gone"
  /\ Crash

-----------------------------------------------------------------------------
(* The pending list, in the main thread: pvExistTest and processPendingList *)

\* The main thread comes to the k-th node.
Reaches(k) ==
  /\ Looping
  /\ k \in DOMAIN pending /\ \A j \in FreedNodes : k < j

\* It looks at the node, for its name ("look", a test) or its age ("walk", the
\* sweep), and goes on.
LookAtNode == \E k \in DOMAIN pending, step \in {"look", "walk"} :
  /\ Reaches(k)
  /\ hand' = At(step, NoIoc, k)
  /\ UNCHANGED <<envVars, chan, startVars, status, tableVars, pending, reading, run>>

GoOn ==
  /\ Ready /\ hand.at \in {"look", "walk"} /\ ~hand.freed
  /\ pending[hand.k].is # "freed"
  /\ hand' = Idle
  /\ UNCHANGED <<envVars, chan, startVars, status, tableVars, pending, reading, run>>

\* It comes to a node that was deleted and is still linked.
WalkFreed == Looping /\ FreedNodes # {} /\ Crash

\* Mutant: only heartbeats are looked at.
FindOverdueHeartbeat(x) == \E k \in DOMAIN pending :
  /\ x \in Iocs /\ pending[k].x = x /\ Reaches(k)
  /\ hand' = At("purge", x, k)
  /\ UNCHANGED <<envVars, chan, startVars, status, tableVars, pending, reading, run>>

\* A node older than tooLong is found; ages are left out, any node may be.
FindOverdue(x) == \E k \in DOMAIN pending :
  /\ pending[k].x = x /\ Reaches(k)
  /\ hand' = At("purge", x, k)
  /\ UNCHANGED <<envVars, chan, startVars, status, tableVars, pending, reading, run>>

\* A callback deleted what the main thread points to; or the node, or the head
\* that it takes off, was deleted before it came there.
UsesFreed == ~hand.freed =>
  \/ hand.at \in {"look", "walk", "purge"} /\ pending[hand.k].is = "freed"
  \/ hand.at = "purge" /\ pending[hand.k].is = "stale"
  \/ hand.at = "unlink" /\ hand.first /\ pending[1].is = "freed"

\* Freed memory is used; ca_state() of a cleared channel is as bad.
UseFreed ==
  /\ Ready /\ hand.at \in Holding
  /\ UsesFreed
  /\ Crash

Purging == Ready /\ hand.at = "purge" /\ ~hand.freed /\ pending[hand.k].is = "good"

\* A heartbeat is searched for again on a new channel; the sweep stays at its
\* node.
Rebroadcast ==
  /\ Purging /\ hand.x \in Iocs
  /\ chan' = [chan EXCEPT ![hand.x] = "search"]
  /\ pending' = Cleared(NodesOf(hand.x) \ {hand.k})
  /\ hand' = At("repuser", hand.x, hand.k)
  /\ UNCHANGED <<envVars, startVars, status, tableVars, reading, run>>

\* Mutant: the test of the channel state before the clear is the wrong way.
ClearNothing ==
  /\ Purging /\ hand.x \in Names
  /\ hand' = [hand EXCEPT !.at = "unlink"]
  /\ UNCHANGED <<envVars, chan, startVars, status, tableVars, pending, reading, run>>

\* A name that nobody answered for is given up: first its channel is cleared.
ClearOverdue ==
  /\ Purging /\ hand.x \in Names
  /\ chan' = [chan EXCEPT ![hand.x] = "none"]
  /\ hand' = [hand EXCEPT !.at = "unlink"]
  /\ UNCHANGED <<envVars, startVars, status, tableVars, pending, reading, run>>

Unlinking == Ready /\ hand.at = "unlink" /\ ~hand.freed

\* The sweep goes on at tmp, with the pprevNN it has; that node may be overdue too.
AtNext ==
  IF hand.k < Len(pending)
  THEN {At("walk", NoIoc, hand.k),
        [hand EXCEPT !.at = "purge", !.x = pending[hand.k + 1].x]}
  ELSE {Idle}

\* Mutant: the sweep goes on at the node it deleted.
GiveUpAndStay ==
  /\ Unlinking /\ (hand.first => hand.k = 1)
  /\ pending' = RemoveAt(pending, hand.k)
  /\ UNCHANGED <<envVars, chan, startVars, status, tableVars, reading, hand, run>>

\* Then its node is unlinked, behind pprevNN or at the head, and deleted.
GiveUp ==
  /\ Unlinking /\ (hand.first => hand.k = 1)
  /\ pending' = RemoveAt(pending, hand.k)
  /\ hand' \in AtNext
  /\ UNCHANGED <<envVars, chan, startVars, status, tableVars, reading, run>>

\* The node was the head, but is no longer: a heartbeat's node came in front.
\* nameList.get() unlinks that one, and the deleted node stays on the list.
GiveUpHead ==
  /\ Unlinking /\ hand.first /\ hand.k # 1 /\ pending[1].is # "freed"
  /\ pending' = Tail([pending EXCEPT ![hand.k].is = "freed"])
  /\ hand' \in AtNext
  /\ UNCHANGED <<envVars, chan, startVars, status, tableVars, reading, run>>

-----------------------------------------------------------------------------
(* WDprocessChangeConnectionEvent, in CA's thread *)

\* A server that answers a search: CA connects over the circuit it has, or
\* over a new one when the channels of a broken one have been told.
Answers(s, x) == /\ s \in alive /\ s \in Serving(x)
                 /\ s \in circuit \/ Over(s) = {}

\* remove_all_pvs keeps the heartbeat and leaves a name that moved.
TableWithout(i) ==
  [n \in Names |-> IF n \in list[i] /\ table[n] = i THEN NoIoc ELSE table[n]]

HeartbeatUp(i) ==
  /\ CaIdle /\ chan[i] = "search" /\ Answers(i, i)
  /\ IF hand.at \in {"puser", "repuser"} /\ hand.x = i
     THEN Crash       \* ca_puser() is not set yet
     ELSE IF MeetsFreed(i) \/ (status[i] = "down" /\ FreedEntries(i) # {})
     THEN Crash       \* it walks over a deleted node or entry
     ELSE
       /\ chan' = [chan EXCEPT ![i] = i]
       /\ circuit' = circuit \cup {i}
       /\ pending' = PendingWithout(i)
       /\ IF status[i] = "down"
          THEN /\ table' = TableWithout(i)
               /\ list' = [list EXCEPT ![i] = {}]
               /\ reading' = i
               /\ hand' = HandAfter(list[i], i)
               /\ UNCHANGED status
          ELSE /\ status' = [status EXCEPT ![i] = "up"]
               /\ hand' = HandAfter({}, i)
               /\ UNCHANGED <<tableVars, reading>>
       /\ UNCHANGED <<alive, file, startVars, run>>

\* Mutant: only a first connection sets the status.
RereadStillDown(i) ==
  /\ Ready /\ reading = i
  /\ InstallPVNames(Listed(i), i)
  /\ reading' = NoIoc
  /\ hand' = HandAfter(Taken(Listed(i)), NoIoc)
  /\ UNCHANGED <<envVars, chan, startVars, status, pending, run>>

\* add_all_pvs, the end of the same callback.
Reread(i) ==
  /\ Ready /\ reading = i
  /\ InstallPVNames(Listed(i), i)
  /\ status' = [status EXCEPT ![i] = "up"]
  /\ reading' = NoIoc
  /\ hand' = HandAfter(Taken(Listed(i)), NoIoc)
  /\ UNCHANGED <<envVars, chan, startVars, pending, run>>

\* Mutant: the heartbeat is not put back on the pending list.
HeartbeatDownUnwatched(i) ==
  /\ CaIdle /\ Connected(i) /\ i \notin circuit
  /\ chan' = [chan EXCEPT ![i] = "search"]
  /\ status' = [status EXCEPT ![i] = "down"]
  /\ UNCHANGED <<envVars, startVars, tableVars, pending, reading, hand, run>>

\* The heartbeat's node goes to the head of the list, in front of any node that
\* the main thread points to.
HeartbeatDown(i) ==
  /\ CaIdle /\ Connected(i) /\ i \notin circuit
  /\ chan' = [chan EXCEPT ![i] = "search"]
  /\ status' = [status EXCEPT ![i] = "down"]
  /\ pending' = <<Node(i)>> \o pending
  /\ hand' = [hand EXCEPT !.k = IF @ = 0 THEN 0 ELSE @ + 1]
  /\ UNCHANGED <<envVars, startVars, tableVars, reading, run>>

-----------------------------------------------------------------------------
(* processChangeConnectionEvent, in CA's thread *)

\* Mutant: a name that is not pending is not installed.
NameUpIfPending(n) ==
  /\ CaIdle /\ chan[n] = "search"
  /\ \E s \in Servers :
       /\ Answers(s, n)
       /\ IF MeetsFreed(n) THEN Crash ELSE
            /\ chan' = [chan EXCEPT ![n] = s]
            /\ circuit' = circuit \cup {s}
            /\ IF NodesOf(n) = {} THEN UNCHANGED tableVars
                                  ELSE InstallPVNames({n}, Gateway)
            /\ pending' = PendingWithout(n)
            /\ hand' = HandAfter(Taken({n}), n)
            /\ UNCHANGED <<alive, file, startVars, status, reading, run>>

NameUp(n) ==
  /\ CaIdle /\ chan[n] = "search"
  /\ \E s \in Servers :
       /\ Answers(s, n)
       /\ IF MeetsFreed(n) THEN Crash ELSE
            /\ chan' = [chan EXCEPT ![n] = s]
            /\ circuit' = circuit \cup {s}
            \* The pIoc of a learned name, "host:port", is none of Iocs;
            \* get_pvE() takes the name off its pvEList at once.
            /\ InstallPVNames({n}, Gateway)
            /\ pending' = PendingWithout(n)
            /\ hand' = HandAfter(Taken({n}), n)
            /\ UNCHANGED <<alive, file, startVars, status, reading, run>>

\* Whatever entry the name has is deleted, no list is looked at.
NameDown(n) ==
  /\ CaIdle /\ Connected(n) /\ chan[n] \notin circuit
  /\ chan' = [chan EXCEPT ![n] = "none"]
  /\ table' = [table EXCEPT ![n] = NoIoc]
  /\ pending' = Cleared(NodesOf(n))
  /\ hand' = HandAfter({n}, NoIoc)
  /\ UNCHANGED <<envVars, startVars, status, list, reading, run>>

-----------------------------------------------------------------------------
(* The daemon and the IOCs *)

\* start_daemon forks a new child.
Restart ==
  /\ run = "crashed"
  /\ run' = "up"
  /\ UNCHANGED <<envVars, chan, serverVars>>

Die(s) ==
  /\ s \in alive
  /\ alive' = alive \ {s}
  /\ circuit' = circuit \ {s}
  /\ UNCHANGED <<file, chan, serverVars, run>>

\* An IOC writes its signal.list when it boots.
Boot(s) ==
  /\ s \notin alive
  /\ alive' = alive \cup {s}
  /\ IF s \in Iocs THEN \E f \in Lists : file' = [file EXCEPT ![s] = f]
                   ELSE UNCHANGED file
  /\ UNCHANGED <<circuit, chan, serverVars, run>>

-----------------------------------------------------------------------------

\* The main thread is in a handler and takes its next step.
Handling ==
  \/ SetPuser \/ AddNN \/ Answer \/ GoOn \/ UseFreed \/ Rebroadcast
  \/ ClearOverdue \/ GiveUp \/ GiveUpHead

MainThread ==
  \/ \E i \in Iocs : LoadList(i) \/ SearchHeartbeat(i) \/ AskHeartbeat(i)
  \/ \E n \in Names : FindEntry(n) \/ SearchName(n)
  \/ \E x \in Channels : FindOverdue(x)
  \/ LookAtNode \/ WalkFreed \/ Handling

CaThread ==
  \/ \E i \in Iocs : HeartbeatUp(i) \/ Reread(i) \/ HeartbeatDown(i)
  \/ \E n \in Names : NameUp(n) \/ NameDown(n)

Environment ==
  \/ Restart
  \/ \E s \in Servers : Die(s) \/ Boot(s)

Next == MainThread \/ CaThread \/ Environment

\* The main thread finishes its handlers and sweeps the pending list every
\* 30 s; CA retries its searches and reports what it finds; the daemon waits
\* for the child.
Fairness ==
  /\ WF_vars(Handling) /\ WF_vars(Restart) /\ SF_vars(WalkFreed)
  /\ \A i \in Iocs :
       /\ WF_vars(LoadList(i)) /\ SF_vars(SearchHeartbeat(i))
       /\ SF_vars(HeartbeatUp(i)) /\ SF_vars(HeartbeatDown(i)) /\ WF_vars(Reread(i))
  /\ \A x \in Channels : SF_vars(FindOverdue(x))
  /\ \A n \in Names : SF_vars(NameUp(n)) /\ SF_vars(NameDown(n))

Spec == Init /\ [][Next]_vars
FairSpec == Spec /\ Fairness

-----------------------------------------------------------------------------
(* Properties *)

TypeOK ==
  /\ alive \subseteq Servers /\ circuit \subseteq alive
  /\ file \in [Iocs -> Lists]
  /\ chan \in [Channels -> Servers \cup {"none", "search"}]
  /\ unread \subseteq Iocs /\ unwatched \subseteq Iocs
  /\ status \in [Iocs -> {"new", "up", "down", "gone"}]
  /\ list \in [Iocs -> SUBSET Names]
  /\ table \in [Names -> Servers \cup {NoIoc}]
  /\ pending \in Seq([x : Channels, is : {"good", "stale", "freed"}])
  /\ reading \in Iocs \cup {NoIoc}
  /\ hand.at \in {"idle", "entry", "puser", "addNN"} \cup Holding
  /\ hand.at \in Holding /\ ~hand.freed => hand.k \in DOMAIN pending
  /\ run \in {"up", "crashed"}

\* The pvEList of an IOC and the hash table agree: an entry on a list is in the
\* table, not deleted, and a table entry of a listed IOC is on its list.  Three
\* places delete entries: installPVName, remove_all_pvs and the learned names'
\* callback.  It is the first note at directoryServer.h:124-126, "Every pvE exists
\* in some pvEIoc in some ioc's pvElist", and more than the second, that a name
\* moved from a down IOC may be on a list and not in the table: installPVName
\* takes it off the list it leaves and deletes the old entry
\* (directoryServer.cc:366-385).  Of a pIoc that cleanup() deleted there are none.
ListsMatchTable ==
  /\ \A i \in Iocs, n \in Names : n \in list[i] <=> table[n] = i
  /\ \A i \in Iocs : status[i] = "gone" => list[i] = {}

\* After startup an IOC's heartbeat channel exists, and while it is not connected
\* a node that the sweep will rebroadcast is pending, main.cc:773: "Add this
\* heartbeat pv back to the list of pending pv connections".  Not so after
\* GiveUpHead.
HeartbeatPending ==
  \A i \in Iocs \ unwatched : status[i] # "gone" =>
    \/ Connected(i)
    \/ chan[i] = "search" /\ \E k \in NodesOf(i) : pending[k].is = "good"

\* Every heartbeat is watched as long as no deleted node is on the list: one is
\* lost only with a node that the next sweep trips over.
HeartbeatWatched == FreedNodes = {} => HeartbeatPending

\* The status follows the heartbeat: an IOC that was never connected is not
\* believed up or down, one believed down is not connected unless its file is
\* being read again, and one believed up is connected or being searched for
\* again, with a node on the list unless a deleted node is there.  Only then is
\* an address handed out blindly.
StatusFollowsHeartbeat ==
  \A i \in Iocs :
    /\ status[i] = "new" => ~Connected(i)
    /\ status[i] = "down" => (~Connected(i) \/ reading = i)
    /\ status[i] = "up" => \/ Connected(i)
                           \/ chan[i] = "search" /\ NodesOf(i) \cup FreedNodes # {}

\* A channel of a learned name that CA reports on belongs to an entry: the name
\* is in the table until its channel goes down.
MonitoredNamesKnown == \A n \in Names : Connected(n) => table[n] # NoIoc

\* A search for a name is on the pending list until it is answered: it will be
\* given up, and does not bar the name for ever.
SearchesArePending ==
  \A n \in Names : chan[n] = "search" =>
    NodesOf(n) # {} \/ (hand.at = "addNN" /\ hand.x = n)

\* A learned name is watched, main.cc:891: "We want to monitor all learned pvs
\* because they may be from gateways".
LearnedAreMonitored == \A n \in Names : table[n] = Gateway => Connected(n)

\* A pending name is not pending for ever: pvExistTest answers nothing else for
\* it meanwhile.
PendingEnds == \A n \in Names : NodesOf(n) # {} ~> NodesOf(n) = {}

\* An IOC that stays up while the name server stays up is believed up again and
\* again: the heartbeat comes back, its file is read and its names are served.
RunningIocServed ==
  \A i \in Iocs : []<>(i \notin alive \/ run # "up" \/ status[i] \in {"up", "gone"})

==============================================================================
