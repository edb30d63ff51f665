------------------------------ MODULE GatewayVc ------------------------------
(***************************************************************************)
(* The data path of one process variable: the gateVcData objects (gateVc.cc)*)
(* that clients read and write, one after the other, over one gatePvData    *)
(* (gatePv.cc) that has been connected.  GatewayPv says when a gateVcData   *)
(* exists; this module says what happens to the requests it is given.       *)
(*                                                                          *)
(* Of the data only this is kept: whether event_data holds a value, and     *)
(* whether that is an alarm handler container.  A request that the server   *)
(* library is told to postpone changes nothing: it is asked again later.    *)
(***************************************************************************)
EXTENDS Integers, FiniteSets

CONSTANTS
  Reads,           \* gateAsyncR objects
  Writes,          \* gateAsyncW objects
  NotifyWrites,    \* those of put callbacks (casChannel::writeNotify)
  CacheMode,       \* global_resources->getCacheMode()
  StringPv,        \* the native type is DBF_STRING
  MaxSimlWriteIO,  \* gateVcData::maxSimlWriteIO
  MaxVcs,          \* bound on the number of gateVcData objects made
  Faults           \* what goes wrong outside the gateway

\* "issue": CA refuses a get; "size": an array longer than EPICS_CA_MAX_ARRAY_BYTES;
\* "reply": a get is answered with an error; "monitor": CA refuses a subscription;
\* "put": a put fails; "access": the IOC changes the gateway's read access;
\* "leave": one of several clients leaves.
AllFaults == {"issue", "size", "reply", "monitor", "put", "access", "leave"}

ASSUME ModesAssumption == CacheMode \in BOOLEAN /\ StringPv \in BOOLEAN
ASSUME WritesAssumption == NotifyWrites \subseteq Writes /\ IsFiniteSet(Writes)
ASSUME BoundsAssumption == MaxSimlWriteIO \in Nat \ {0} /\ MaxVcs \in Nat
ASSUME FaultsAssumption == Faults \subseteq AllFaults

VARIABLES
  pv,       \* gatePvData::pv_state
  access,   \* ca_read_access() of the channel
  vc,       \* the state of the gateVcData, "none" when there is none
  vcId,     \* vcID of the latest gateVcData
  need,     \* gatePvData::complete_flag (needAddRemove)
  pending,  \* the kinds of get marked pending (ctrl_get_state, time_get_state)
  sent,     \* the gets that CA has yet to answer
  mon,      \* the monitor: "off", "due" (no event yet) or "on"
  alhMon,   \* the alarm handler monitor, likewise
  alhGet,   \* gatePvData::alh_get_state
  interest, \* gateVcData::post_value_changes (needPosting)
  ev,       \* event_data: "none", a "value", or an "alh" container
  rd,       \* where each read is: "idle", queued on ctrl_rio, time_rio or
            \* alhRio, or "empty": completed with success and no data
  wr,       \* where each write is: "idle", on nrWio or on pendWio
  cb,       \* the vcID in the gatePvCallbackId of each write, 0 when none
  run       \* "up", or "departed": a put was completed for a client that left

pvVars  == <<pv, access, need>>
vcVars  == <<vc, vcId, interest, ev>>
getVars == <<pending, sent>>
monVars == <<mon, alhMon, alhGet>>
vars    == <<pvVars, vcVars, getVars, monVars, rd, wr, cb, run>>

\* The rights a channel may come up with.
Access == {TRUE, "access" \notin Faults}

Queue   == {"ctrl", "time", "alh"}
Monitor == {"off", "due", "on"}

QueuedOn(q) == {r \in Reads : rd[r] = q}
WritesOn(l) == {w \in Writes : wr[w] = l}

Init ==
  /\ pv = "Inactive" /\ access \in Access /\ need = FALSE
  /\ vc = "none" /\ vcId = 0 /\ interest = FALSE /\ ev = "none"
  /\ pending = {} /\ sent = {}
  /\ mon = "off" /\ alhMon = "off" /\ alhGet = FALSE
  /\ rd = [r \in Reads |-> "idle"]
  /\ wr = [w \in Writes |-> "idle"] /\ cb = [w \in Writes |-> 0]
  /\ run = "up"

-----------------------------------------------------------------------------
(* Calls to CA.                                                            *)

\* Mutant: the mark is set by nobody.
GetUnmarked(k) ==
  \/ k \in pending /\ UNCHANGED getVars
  \/ k \notin pending /\ sent' = sent \cup {k} /\ UNCHANGED pending
  \/ k \notin pending /\ "issue" \in Faults /\ UNCHANGED getVars

\* gatePvData::get: only one get of a kind at once.  The mark is set before the
\* call to CA and stays when that fails.
Get(k) ==
  \/ k \in pending /\ UNCHANGED getVars
  \/ k \notin pending /\ pending' = pending \cup {k} /\ sent' = sent \cup {k}
  \/ k \notin pending /\ "issue" \in Faults /\ pending' = pending \cup {k} /\ UNCHANGED sent
  \/ k \notin pending /\ "size" \in Faults /\ UNCHANGED getVars

\* gatePvData::monitor and alhMonitor: the state m of the subscription becomes n.
Subscribe(m, n) ==
  IF m # "off" THEN n = m
  ELSE \/ access /\ n = "due"
       \/ ~access /\ n = "off"
       \/ "monitor" \in Faults /\ n = "off"

-----------------------------------------------------------------------------
(* What happens to queued requests.                                        *)

\* copyState answers the reads on the queues Q with what event_data holds.
AnswerReads(Q) ==
  rd' = [r \in Reads |-> IF rd[r] \notin Q THEN rd[r]
                          ELSE IF ev' = "none" THEN "empty" ELSE "idle"]

\* Mutant: a write whose put fails stays on pendWio.
FlushWritesKeepsFailed ==
  \E failed \in SUBSET (WritesOn("nr") \cap NotifyWrites) :
    /\ failed = {} \/ "put" \in Faults
    /\ LET put == (WritesOn("nr") \cap NotifyWrites) IN
       /\ wr' = [w \in Writes |-> IF w \in put THEN "pend"
                                   ELSE IF wr[w] = "nr" THEN "idle" ELSE wr[w]]
       /\ cb' = [w \in Writes |-> IF w \in put \ failed THEN vcId ELSE cb[w]]

\* flushAsyncWriteQueue: every write of nrWio is put.  Those of put callbacks
\* wait on pendWio for putCB, unless the put fails; the others are answered.
FlushWrites ==
  \E failed \in SUBSET (WritesOn("nr") \cap NotifyWrites) :
    /\ failed = {} \/ "put" \in Faults
    /\ LET put == (WritesOn("nr") \cap NotifyWrites) \ failed IN
       /\ wr' = [w \in Writes |-> IF w \in put THEN "pend"
                                   ELSE IF wr[w] = "nr" THEN "idle" ELSE wr[w]]
       /\ cb' = [w \in Writes |-> IF w \in put THEN vcId ELSE cb[w]]

\* ~gateVcData: the writes are cancelled, and the reads leave their queues.
DropVc ==
  /\ vc' = "none" /\ interest' = FALSE /\ ev' = "none"
  /\ rd' = [r \in Reads |-> IF rd[r] \in Queue THEN "idle" ELSE rd[r]]
  /\ wr' = [w \in Writes |-> "idle"]

-----------------------------------------------------------------------------
(* Requests of the clients, through CAS.                                   *)

\* The first client: gateVcData::gateVcData activates the PV.  Without the cache
\* it is Ready at once.
ActivateNoCache ==
  /\ run = "up" /\ pv = "Inactive" /\ vcId < MaxVcs /\ ~CacheMode
  /\ pv' = "Active" /\ vc' = "Ready" /\ vcId' = vcId + 1
  /\ UNCHANGED <<access, need, interest, ev, getVars, monVars, rd, wr, cb, run>>

\* Mutant: the VC is Ready at once with the cache too.
ActivateCacheReady ==
  /\ run = "up" /\ pv = "Inactive" /\ vcId < MaxVcs /\ CacheMode
  /\ pv' = "Active" /\ vc' = "Ready" /\ vcId' = vcId + 1 /\ need' = TRUE
  /\ IF access THEN pending' = pending \cup {"ctrl"} /\ sent' = sent \cup ({"ctrl"} \ pending)
                ELSE UNCHANGED getVars
  /\ UNCHANGED <<access, interest, ev, monVars, rd, wr, cb, run>>

\* With the cache it waits for the attributes and then for the first event.
ActivateCache ==
  /\ run = "up" /\ pv = "Inactive" /\ vcId < MaxVcs /\ CacheMode
  /\ pv' = "Active" /\ vc' = "Connect" /\ vcId' = vcId + 1 /\ need' = TRUE
  /\ IF access THEN pending' = pending \cup {"ctrl"} /\ sent' = sent \cup ({"ctrl"} \ pending)
                ELSE UNCHANGED getVars
  /\ UNCHANGED <<access, interest, ev, monVars, rd, wr, cb, run>>

\* The get of the activation fails: the new gateVcData is deleted.
ActivateFails ==
  /\ run = "up" /\ pv = "Inactive" /\ vcId < MaxVcs /\ CacheMode
  /\ access /\ "ctrl" \notin pending /\ "issue" \in Faults
  /\ pv' = "Active" /\ vcId' = vcId + 1 /\ need' = TRUE
  /\ pending' = pending \cup {"ctrl"}
  /\ UNCHANGED <<access, vc, interest, ev, sent, monVars, rd, wr, cb, run>>

\* Mutant: the monitors are kept for the next client.
VcDestroyKeepsMonitors ==
  /\ run = "up" /\ vc # "none"
  /\ pv' = "Inactive"
  /\ DropVc
  /\ UNCHANGED <<access, need, vcId, getVars, monVars, cb, run>>

\* The last client leaves: gateVcData::destroy.
VcDestroy ==
  /\ run = "up" /\ vc # "none"
  /\ pv' = "Inactive" /\ mon' = "off" /\ alhMon' = "off"
  /\ DropVc
  /\ UNCHANGED <<access, need, vcId, getVars, alhGet, cb, run>>

\* The server checks the access of the channel before it calls read().
CanRead(r) == run = "up" /\ vc # "none" /\ access /\ rd[r] = "idle"

\* A read is queued until its data comes, or answered from event_data; while a
\* write is under way it is postponed instead of answered.
ReadQueued(r, q) == rd' = [rd EXCEPT ![r] = q]
ReadNow(r) ==
  /\ wr = [w \in Writes |-> "idle"]
  /\ rd' = [rd EXCEPT ![r] = IF ev = "none" THEN "empty" ELSE "idle"]

\* A read with the cache.
ReadCached(r) ==
  /\ CanRead(r) /\ CacheMode
  /\ IF vc = "Ready" THEN ReadNow(r) ELSE ReadQueued(r, "ctrl")
  /\ UNCHANGED <<pvVars, vcVars, getVars, monVars, wr, cb, run>>

\* A read without the cache is forwarded, unless a get of its kind is pending.
ReadForwarded(r, k) ==
  /\ CanRead(r) /\ ~CacheMode
  /\ wr = [w \in Writes |-> "idle"]
  /\ ReadQueued(r, k)
  /\ Get(k)
  /\ UNCHANGED <<pvVars, vcVars, monVars, wr, cb, run>>

\* A read of DBR_STSACK_STRING starts the alarm handler monitor.
ReadAlh(r) ==
  /\ CanRead(r)
  /\ IF ev = "value" \/ alhMon = "off"
       THEN alhGet' = TRUE /\ Subscribe(alhMon, alhMon')
       ELSE UNCHANGED <<alhGet, alhMon>>
  /\ IF vc # "Ready" \/ alhGet'
       THEN /\ ReadQueued(r, "alh")
            /\ IF CacheMode THEN UNCHANGED getVars ELSE Get("time")
       ELSE ReadNow(r) /\ UNCHANGED getVars
  /\ UNCHANGED <<pvVars, vcVars, mon, wr, cb, run>>

CanWrite(w) == run = "up" /\ vc # "none" /\ wr[w] = "idle" /\ cb[w] = 0

\* A write before the VC is ready waits on nrWio.
WriteEarly(w) ==
  /\ CanWrite(w) /\ vc = "Connect" /\ Cardinality(WritesOn("nr")) <= MaxSimlWriteIO
  /\ wr' = [wr EXCEPT ![w] = "nr"]
  /\ UNCHANGED <<pvVars, vcVars, getVars, monVars, rd, cb, run>>

\* Mutant: the number of writes under way is not looked at.
WriteNotifyUnlimited(w) ==
  /\ CanWrite(w) /\ vc = "Ready" /\ w \in NotifyWrites
  /\ wr' = [wr EXCEPT ![w] = "pend"]
  /\ cb' = [cb EXCEPT ![w] = vcId]
  /\ UNCHANGED <<pvVars, vcVars, getVars, monVars, rd, run>>

\* A put callback.  (A plain put, and one that fails, is answered at once.)
WriteNotify(w) ==
  /\ CanWrite(w) /\ vc = "Ready" /\ w \in NotifyWrites
  /\ Cardinality(WritesOn("pend")) < MaxSimlWriteIO
  /\ wr' = [wr EXCEPT ![w] = "pend"]
  /\ cb' = [cb EXCEPT ![w] = vcId]
  /\ UNCHANGED <<pvVars, vcVars, getVars, monVars, rd, run>>

\* A client leaves and others stay: the server destroys its asynchronous IO.
ReadAbandoned(r) ==
  /\ run = "up" /\ "leave" \in Faults /\ rd[r] \in Queue
  /\ rd' = [rd EXCEPT ![r] = "idle"]
  /\ UNCHANGED <<pvVars, vcVars, getVars, monVars, wr, cb, run>>

WriteAbandoned(w) ==
  /\ run = "up" /\ "leave" \in Faults /\ wr[w] # "idle"
  /\ wr' = [wr EXCEPT ![w] = "idle"]
  /\ UNCHANGED <<pvVars, vcVars, getVars, monVars, rd, cb, run>>

\* interestRegister and interestDelete.
Interest ==
  /\ run = "up" /\ vc # "none"
  /\ interest' = ~interest
  /\ UNCHANGED <<pvVars, vc, vcId, ev, getVars, monVars, rd, wr, cb, run>>

-----------------------------------------------------------------------------
(* Callbacks from CA.                                                      *)

\* The callbacks use gatePvData::vc when the PV is Active.  NoVcNothingOwed says
\* that none comes while the PV is Active and vc is NULL.

\* Mutant: the value replaces the container.
WithValueOnly == "value"

\* setEventData keeps an alarm handler container and fills in the value.
WithValue == IF ev = "alh" THEN "alh" ELSE "value"

\* Mutant: an error answer does not start the monitor.
CtrlReplyGivesUp(ok) ==
  /\ run = "up" /\ "ctrl" \in sent /\ (ok \/ "reply" \in Faults)
  /\ pending' = pending \ {"ctrl"} /\ sent' = sent \ {"ctrl"}
  /\ IF ok /\ vc # "none" THEN Subscribe(mon, mon') ELSE UNCHANGED mon
  /\ UNCHANGED <<pvVars, vc, vcId, interest, ev, rd, alhMon, alhGet, wr, cb, run>>

\* getCB: with the cache the attributes are there (or not), and the monitor
\* starts.  Without it the reads are answered; dataStringCB has no value to give.
CtrlReply(ok) ==
  /\ run = "up" /\ "ctrl" \in sent /\ (ok \/ "reply" \in Faults)
  /\ pending' = pending \ {"ctrl"} /\ sent' = sent \ {"ctrl"}
  /\ \/ pv # "Active" /\ UNCHANGED <<ev, rd, mon>>
     \/ /\ vc # "none" /\ CacheMode
        /\ Subscribe(mon, mon')
        /\ UNCHANGED <<ev, rd>>
     \/ /\ vc # "none" /\ ~CacheMode
        /\ ev' = IF ok /\ ~StringPv THEN WithValue ELSE ev
        /\ IF ok THEN AnswerReads({"ctrl"}) ELSE UNCHANGED rd
        /\ IF interest THEN Subscribe(mon, mon') ELSE UNCHANGED mon
  /\ UNCHANGED <<pvVars, vc, vcId, interest, alhMon, alhGet, wr, cb, run>>

\* Mutant: the reads are answered before the value is set.
TimeReplyFirst(ok) ==
  /\ run = "up" /\ "time" \in sent /\ (ok \/ "reply" \in Faults)
  /\ pending' = pending \ {"time"} /\ sent' = sent \ {"time"}
  /\ ok /\ vc # "none" /\ ev' = ev /\ AnswerReads({"time"})
  /\ UNCHANGED <<pvVars, vc, vcId, interest, monVars, wr, cb, run>>

\* getTimeCB, without the cache.
TimeReply(ok) ==
  /\ run = "up" /\ "time" \in sent /\ (ok \/ "reply" \in Faults)
  /\ pending' = pending \ {"time"} /\ sent' = sent \ {"time"}
  /\ \/ (pv # "Active" \/ ~ok) /\ UNCHANGED <<ev, rd, mon>>
     \/ /\ vc # "none" /\ ok
        /\ ev' = WithValue
        /\ AnswerReads({"time"})
        /\ IF interest THEN Subscribe(mon, mon') ELSE UNCHANGED mon
  /\ UNCHANGED <<pvVars, vc, vcId, interest, alhMon, alhGet, wr, cb, run>>

\* Mutant: vcAdd is given the read type of the event.
EventCBTimeType ==
  /\ run = "up" /\ mon # "off" /\ vc # "none"
  /\ mon' = "on"
  /\ ev' = WithValue
  /\ need' = FALSE
  /\ IF need /\ vc = "Connect"
       THEN /\ vc' = "Ready"
            /\ FlushWrites
            /\ AnswerReads({"time"} \cup (IF alhGet THEN {} ELSE {"alh"}))
       ELSE UNCHANGED <<vc, rd, wr, cb>>
  /\ UNCHANGED <<pv, access, vcId, interest, getVars, alhMon, alhGet, run>>

\* eventCB: the first event completes a VC that was waiting for it, and all that
\* waited for the VC; only the reads of the alarm handler may have to wait on.
EventCB ==
  /\ run = "up" /\ mon # "off" /\ vc # "none"
  /\ mon' = "on"
  /\ ev' = WithValue
  /\ need' = FALSE
  /\ IF need /\ vc = "Connect"
       THEN /\ vc' = "Ready"
            /\ FlushWrites
            /\ AnswerReads({"ctrl"} \cup (IF alhGet THEN {} ELSE {"alh"}))
       ELSE UNCHANGED <<vc, rd, wr, cb>>
  /\ UNCHANGED <<pv, access, vcId, interest, getVars, alhMon, alhGet, run>>

\* alhCB: event_data becomes a container, with ackt and acks.
AlhCB ==
  /\ run = "up" /\ alhMon # "off" /\ vc # "none"
  /\ alhMon' = "on"
  /\ ev' = "alh"
  /\ alhGet' = FALSE
  /\ IF alhGet /\ vc = "Ready" THEN AnswerReads({"alh"}) ELSE UNCHANGED rd
  /\ UNCHANGED <<pvVars, vc, vcId, interest, getVars, mon, wr, cb, run>>

\* Mutant: the vcID is not compared.
PutCBAnyVc(w) ==
  /\ run = "up" /\ cb[w] # 0
  /\ cb' = [cb EXCEPT ![w] = 0]
  /\ IF vc = "none" THEN UNCHANGED <<wr, run>>
     ELSE IF wr[w] = "pend" THEN wr' = [wr EXCEPT ![w] = "idle"] /\ UNCHANGED run
     ELSE run' = "departed" /\ UNCHANGED wr
  /\ UNCHANGED <<pvVars, vcVars, getVars, monVars, rd>>

\* Mutant: a put that did not succeed is not reported.
PutCBSilent(w) ==
  /\ run = "up" /\ cb[w] # 0
  /\ cb' = [cb EXCEPT ![w] = 0]
  /\ UNCHANGED <<pvVars, vcVars, getVars, monVars, rd, wr, run>>

\* putCB: the write is completed if the VC that asked is still there.  The
\* gateAsyncW of a client that left is not: the outcome of using it is undefined,
\* and the model lets the process die.
PutCB(w) ==
  /\ run = "up" /\ cb[w] # 0
  /\ cb' = [cb EXCEPT ![w] = 0]
  /\ IF vc = "none" \/ cb[w] # vcId THEN UNCHANGED <<wr, run>>
     ELSE IF wr[w] = "pend" THEN wr' = [wr EXCEPT ![w] = "idle"] /\ UNCHANGED run
     ELSE run' = "departed" /\ UNCHANGED wr
  /\ UNCHANGED <<pvVars, vcVars, getVars, monVars, rd>>

\* accessCB.
AccessCB ==
  /\ run = "up" /\ "access" \in Faults /\ pv # "Disconnect"
  /\ access' = ~access
  /\ UNCHANGED <<pv, need, vcVars, getVars, monVars, rd, wr, cb, run>>

\* Mutant: the VC is not deleted.
ConnectionLostKeepsVc ==
  /\ run = "up" /\ pv # "Disconnect"
  /\ pv' = "Disconnect" /\ need' = FALSE
  /\ pending' = {} /\ sent' = {} /\ mon' = "off" /\ alhMon' = "off"
  /\ cb' = [w \in Writes |-> 0]
  /\ UNCHANGED <<access, vcVars, rd, wr, alhGet, run>>

\* connectCB with the channel down: death().  CA forgets what it had to answer
\* (the error callbacks it makes first are CtrlReply, TimeReply and PutCB).
ConnectionLost ==
  /\ run = "up" /\ pv # "Disconnect"
  /\ pv' = "Disconnect" /\ need' = FALSE
  /\ pending' = {} /\ sent' = {} /\ mon' = "off" /\ alhMon' = "off"
  /\ DropVc
  /\ cb' = [w \in Writes |-> 0]
  /\ UNCHANGED <<access, vcId, alhGet, run>>

\* connectCB with the channel up again: life().
Reconnect ==
  /\ run = "up" /\ pv = "Disconnect"
  /\ pv' = "Inactive" /\ access' \in Access
  /\ UNCHANGED <<need, vcVars, getVars, monVars, rd, wr, cb, run>>

\* The server process starts a new gateway.
Restart ==
  /\ run # "up"
  /\ pv' = "Inactive" /\ access' \in Access /\ need' = FALSE
  /\ vc' = "none" /\ vcId' = 0 /\ interest' = FALSE /\ ev' = "none"
  /\ pending' = {} /\ sent' = {}
  /\ mon' = "off" /\ alhMon' = "off" /\ alhGet' = FALSE
  /\ rd' = [r \in Reads |-> "idle"]
  /\ wr' = [w \in Writes |-> "idle"] /\ cb' = [w \in Writes |-> 0]
  /\ run' = "up"

-----------------------------------------------------------------------------
Next ==
  \/ ActivateNoCache \/ ActivateCache \/ ActivateFails \/ VcDestroy \/ Interest
  \/ \E r \in Reads :
       \/ ReadCached(r) \/ ReadAlh(r) \/ ReadAbandoned(r)
       \/ \E k \in {"ctrl", "time"} : ReadForwarded(r, k)
  \/ \E w \in Writes :
       WriteEarly(w) \/ WriteNotify(w) \/ WriteAbandoned(w) \/ PutCB(w)
  \/ \E ok \in BOOLEAN : CtrlReply(ok) \/ TimeReply(ok)
  \/ EventCB \/ AlhCB
  \/ AccessCB \/ ConnectionLost \/ Reconnect \/ Restart

Spec == Init /\ [][Next]_vars

\* CA answers every get and every put callback of a channel that stays up, and
\* sends the first event of every subscription; a dead gateway is restarted.
FairSpec ==
  /\ Spec
  /\ WF_vars(\E ok \in BOOLEAN : CtrlReply(ok)) /\ WF_vars(\E ok \in BOOLEAN : TimeReply(ok))
  /\ WF_vars(mon = "due" /\ EventCB) /\ WF_vars(alhMon = "due" /\ AlhCB)
  /\ \A w \in Writes : WF_vars(PutCB(w))
  /\ WF_vars(Restart)

-----------------------------------------------------------------------------
(* Properties.                                                             *)

\* Types, and: only the cache waits for an add, every get under way is marked,
\* and there is a VC only over an Active PV.
TypeOK ==
  /\ pv \in {"Inactive", "Active", "Disconnect"} /\ access \in BOOLEAN
  /\ need \in BOOLEAN /\ (need => CacheMode)
  /\ vc \in {"none", "Connect", "Ready"} /\ (vc # "none" => pv = "Active")
  /\ vcId \in 0..MaxVcs /\ interest \in BOOLEAN /\ ev \in {"none", "value", "alh"}
  /\ pending \subseteq {"ctrl", "time"} /\ sent \subseteq pending
  /\ mon \in Monitor /\ alhMon \in Monitor /\ alhGet \in BOOLEAN
  /\ rd \in [Reads -> Queue \cup {"idle", "empty"}]
  /\ wr \in [Writes -> {"idle", "nr", "pend"}]
  /\ cb \in [Writes -> 0..MaxVcs]
  /\ run \in {"up", "departed"}

\* With the cache, the event that makes the VC ready is on its way.
EventAwaited == need /\ ("ctrl" \in sent \/ mon = "due")

\* Each queued read waits for something that CA has been asked for and will make
\* the gateway answer it: read() in gateVc.cc says that it "will complete when
\* the data is available", or "when the connection is complete".
QueuedReadsAreAwaited ==
  \A r \in Reads :
    /\ rd[r] = "time" => "time" \in sent
    /\ rd[r] = "ctrl" => (IF CacheMode THEN vc = "Connect" /\ EventAwaited ELSE "ctrl" \in sent)
    /\ rd[r] = "alh" => (IF alhGet THEN alhMon = "due" ELSE vc = "Connect")
    /\ rd[r] = "alh" /\ vc = "Connect" => EventAwaited

\* No read is completed with success and no data: a VC becomes Ready, and its
\* queues are flushed, only after event_data was set (flushAsyncReadQueue does
\* not look at it).
ReadsHaveData == \A r \in Reads : rd[r] # "empty"

\* A write on pendWio has its callback to come, for this VC; a write on nrWio is
\* of a VC that is not ready, and so will be put.
WritesFollowVc ==
  \A w \in Writes :
    /\ wr[w] = "pend" => vc = "Ready" /\ cb[w] = vcId
    /\ wr[w] = "nr" => vc = "Connect"

\* The writes under way are limited.  nrWio takes one more than maxSimlWriteIO,
\* and vcNew moves them all to pendWio.
WritesLimited ==
  Cardinality(WritesOn("pend")) + Cardinality(WritesOn("nr")) <= MaxSimlWriteIO + 1

\* An Active PV whose gateVcData was deleted during activation has no monitor and
\* nothing to hear from CA: the callbacks that use gatePvData::vc without a test
\* (eventCB, alhCB, getCB, getTimeCB) cannot come.
NoVcNothingOwed ==
  pv = "Active" /\ vc = "none" => mon = "off" /\ alhMon = "off" /\ sent = {}

\* event_data is a container once the alarm handler monitor has brought ackt and
\* acks, and reads of the alarm handler are not released without it.
AlhDataKept ==
  /\ alhMon = "on" => ev = "alh"
  /\ (\E r \in Reads : rd[r] = "alh") /\ ~alhGet => ev = "alh"

\* A put is completed only for a write that the server library still has: the
\* comment of gatePvData::putCB wants the requester to be checked for being there.
WriterIsThere == run = "up"

\* Every queued read is answered, or dropped with its VC.
ReadsAnswered == \A r \in Reads : rd[r] \in Queue ~> rd[r] \notin Queue

\* Every queued write is put, and every put callback is answered.
WritesAnswered == \A w \in Writes : wr[w] # "idle" ~> wr[w] = "idle"

\* The VC has the life that VcLife gives it, and that GatewayPv relies on.  A
\* process that died has neither PV nor VC.
Life == INSTANCE VcLife WITH
  pv   <- IF run = "up" /\ pv # "Disconnect" THEN pv ELSE "away",
  vc   <- IF run = "up" THEN vc ELSE "none",
  need <- run = "up" /\ need

ImplementsLife == Life!LSpec
=============================================================================
