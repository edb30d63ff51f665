--------------------------- MODULE GatewayVc_proofs ---------------------------
(***************************************************************************)
(* Proofs about GatewayVc, for any number of requests, either cache mode,  *)
(* any type of the PV and any limit on the writes.  What goes wrong outside *)
(* the gateway is a hypothesis of a theorem only where it matters.         *)
(***************************************************************************)
EXTENDS GatewayVc, FiniteSetTheorems, TLAPS

\* WritesFollowVc, and: no callback is of a gateVcData still to be made.
Writers == WritesFollowVc /\ \A w \in Writes : cb[w] <= vcId

\* Only an Active PV has monitors, and only with its gateVcData; with the cache
\* no get of the time is made.
Monitors ==
  /\ pv # "Active" => mon = "off" /\ alhMon = "off"
  /\ NoVcNothingOwed
  /\ CacheMode => "time" \notin pending

\* The alarm handler reads are held while the first alarm event is due.
Alarms ==
  /\ alhMon = "on" => ev = "alh" /\ ~alhGet
  /\ alhMon = "due" => alhGet
  /\ (\E r \in Reads : rd[r] = "alh") /\ ~alhGet => ev = "alh"

\* With the cache a VC is Ready only after an event, without it reads are
\* answered when there is a value.
Data == (CacheMode /\ vc = "Ready" => ev # "none") /\ ReadsHaveData

\* With the cache, and a CA that keeps to its promises: a gateVcData that waits
\* has its event to come; so have the reads.
Promised == CacheMode /\ Faults \subseteq {"issue", "reply", "put"}

Waiting ==
  /\ access = TRUE
  /\ pv # "Active" \/ vc # "none" => pending \subseteq sent
  /\ vc = "Connect" => EventAwaited /\ mon # "on"
  /\ QueuedReadsAreAwaited

\* No client leaves while others stay: a callback of this gateVcData finds its
\* write on pendWio.
Present ==
  /\ WriterIsThere
  /\ \A w \in Writes : vc # "none" /\ cb[w] # 0 /\ cb[w] = vcId => wr[w] = "pend"

LEMMA TypeOKStep == TypeOK /\ [Next]_vars => TypeOK'
<1> SUFFICES ASSUME TypeOK, [Next]_vars PROVE TypeOK'
  OBVIOUS
<1> USE BoundsAssumption DEF TypeOK, Monitor, Queue, Access, pvVars, vcVars,
            getVars, monVars
<1>1. CASE ActivateNoCache
  BY <1>1 DEF ActivateNoCache
<1>2. CASE ActivateCache
  <2>1. pending' \subseteq {"ctrl", "time"} /\ sent' \subseteq pending'
    BY <1>2 DEF ActivateCache
  <2>2. vcId' \in 0..MaxVcs
    BY <1>2 DEF ActivateCache
  <2> QED BY <1>2, <2>1, <2>2 DEF ActivateCache
<1>3. CASE ActivateFails
  BY <1>3 DEF ActivateFails
<1>4. CASE VcDestroy
  BY <1>4 DEF VcDestroy, DropVc
<1>5. CASE Interest
  BY <1>5 DEF Interest
<1>6. ASSUME NEW r \in Reads, ReadCached(r) PROVE TypeOK'
  BY <1>6 DEF ReadCached, CanRead, ReadNow, ReadQueued
<1>7. ASSUME NEW r \in Reads, ReadAlh(r) PROVE TypeOK'
  BY <1>7 DEF ReadAlh, CanRead, ReadNow, ReadQueued, Subscribe, Get
<1>8. ASSUME NEW r \in Reads, ReadAbandoned(r) PROVE TypeOK'
  BY <1>8 DEF ReadAbandoned
<1>9. ASSUME NEW r \in Reads, NEW k \in {"ctrl", "time"}, ReadForwarded(r, k)
      PROVE  TypeOK'
  BY <1>9 DEF ReadForwarded, CanRead, ReadQueued, Get
<1>10. ASSUME NEW w \in Writes, WriteEarly(w) PROVE TypeOK'
  BY <1>10 DEF WriteEarly, CanWrite
<1>11. ASSUME NEW w \in Writes, WriteNotify(w) PROVE TypeOK'
  BY <1>11 DEF WriteNotify, CanWrite
<1>12. ASSUME NEW w \in Writes, WriteAbandoned(w) PROVE TypeOK'
  BY <1>12 DEF WriteAbandoned
<1>13. ASSUME NEW w \in Writes, PutCB(w) PROVE TypeOK'
  BY <1>13 DEF PutCB
<1>14. ASSUME NEW ok \in BOOLEAN, CtrlReply(ok) PROVE TypeOK'
  BY <1>14 DEF CtrlReply, AnswerReads, Subscribe, WithValue
<1>15. ASSUME NEW ok \in BOOLEAN, TimeReply(ok) PROVE TypeOK'
  BY <1>15 DEF TimeReply, AnswerReads, Subscribe, WithValue
<1>16. CASE EventCB
  BY <1>16 DEF EventCB, FlushWrites, AnswerReads, WithValue
<1>17. CASE AlhCB
  BY <1>17 DEF AlhCB, AnswerReads
<1>18. CASE AccessCB
  BY <1>18 DEF AccessCB
<1>19. CASE ConnectionLost
  <2>1. cb' \in [Writes -> 0..MaxVcs]
    BY <1>19 DEF ConnectionLost
  <2>2. rd' \in [Reads -> Queue \cup {"idle", "empty"}]
    BY <1>19 DEF ConnectionLost, DropVc
  <2>3. wr' \in [Writes -> {"idle", "nr", "pend"}]
    BY <1>19 DEF ConnectionLost, DropVc
  <2> QED BY <1>19, <2>1, <2>2, <2>3 DEF ConnectionLost, DropVc
<1>20. CASE Reconnect
  BY <1>20 DEF Reconnect
<1>21. CASE Restart
  <2>1. cb' \in [Writes -> 0..MaxVcs]
    BY <1>21 DEF Restart
  <2>2. rd' \in [Reads -> Queue \cup {"idle", "empty"}]
    BY <1>21 DEF Restart
  <2>3. wr' \in [Writes -> {"idle", "nr", "pend"}]
    BY <1>21 DEF Restart
  <2>4. access' \in BOOLEAN
    BY <1>21 DEF Restart
  <2>5. vcId' \in 0..MaxVcs
    BY <1>21 DEF Restart
  <2>6. /\ mon' \in Monitor /\ alhMon' \in Monitor
        /\ sent' \subseteq pending' /\ pending' \subseteq {"ctrl", "time"}
    BY <1>21 DEF Restart
  <2> QED BY <1>21, <2>1, <2>2, <2>3, <2>4, <2>5, <2>6 DEF Restart
<1>22. CASE UNCHANGED vars
  BY <1>22 DEF vars
<1> QED
  BY <1>1, <1>2, <1>3, <1>4, <1>5, <1>6, <1>7, <1>8, <1>9, <1>10, <1>11,
     <1>12, <1>13, <1>14, <1>15, <1>16, <1>17, <1>18, <1>19, <1>20, <1>21, <1>22
     DEF Next

LEMMA WritersStep == TypeOK /\ Writers /\ [Next]_vars => Writers'
<1> SUFFICES ASSUME TypeOK, Writers, [Next]_vars PROVE Writers'
  OBVIOUS
<1> USE DEF TypeOK, Writers, WritesFollowVc, WritesOn, pvVars, vcVars, getVars,
            monVars
<1>1. CASE ActivateNoCache
  BY <1>1 DEF ActivateNoCache
<1>2. CASE ActivateCache
  BY <1>2 DEF ActivateCache
<1>3. CASE ActivateFails
  BY <1>3 DEF ActivateFails
<1>4. CASE VcDestroy
  BY <1>4 DEF VcDestroy, DropVc
<1>5. CASE Interest
  BY <1>5 DEF Interest
<1>6. ASSUME NEW r \in Reads, ReadCached(r) PROVE Writers'
  BY <1>6 DEF ReadCached, CanRead, ReadNow, ReadQueued
<1>7. ASSUME NEW r \in Reads, ReadAlh(r) PROVE Writers'
  BY <1>7 DEF ReadAlh, CanRead, ReadNow, ReadQueued, Subscribe, Get
<1>8. ASSUME NEW r \in Reads, ReadAbandoned(r) PROVE Writers'
  BY <1>8 DEF ReadAbandoned
<1>9. ASSUME NEW r \in Reads, NEW k \in {"ctrl", "time"}, ReadForwarded(r, k)
      PROVE  Writers'
  BY <1>9 DEF ReadForwarded, CanRead, ReadQueued, Get
<1>10. ASSUME NEW w \in Writes, WriteEarly(w) PROVE Writers'
  BY <1>10 DEF WriteEarly, CanWrite
<1>11. ASSUME NEW w \in Writes, WriteNotify(w) PROVE Writers'
  BY <1>11 DEF WriteNotify, CanWrite
<1>12. ASSUME NEW w \in Writes, WriteAbandoned(w) PROVE Writers'
  BY <1>12 DEF WriteAbandoned
<1>13. ASSUME NEW w \in Writes, PutCB(w) PROVE Writers'
  BY <1>13 DEF PutCB
<1>14. ASSUME NEW ok \in BOOLEAN, CtrlReply(ok) PROVE Writers'
  BY <1>14 DEF CtrlReply, AnswerReads, Subscribe, WithValue
<1>15. ASSUME NEW ok \in BOOLEAN, TimeReply(ok) PROVE Writers'
  BY <1>15 DEF TimeReply, AnswerReads, Subscribe, WithValue
<1>16. CASE EventCB
  BY <1>16 DEF EventCB, FlushWrites, AnswerReads, WithValue
<1>17. CASE AlhCB
  BY <1>17 DEF AlhCB, AnswerReads
<1>18. CASE AccessCB
  BY <1>18 DEF AccessCB
<1>19. CASE ConnectionLost
  BY <1>19 DEF ConnectionLost, DropVc
<1>20. CASE Reconnect
  BY <1>20 DEF Reconnect
<1>21. CASE Restart
  BY <1>21 DEF Restart
<1>22. CASE UNCHANGED vars
  BY <1>22 DEF vars
<1> QED
  BY <1>1, <1>2, <1>3, <1>4, <1>5, <1>6, <1>7, <1>8, <1>9, <1>10, <1>11,
     <1>12, <1>13, <1>14, <1>15, <1>16, <1>17, <1>18, <1>19, <1>20, <1>21, <1>22
     DEF Next

LEMMA MonitorsStep == TypeOK /\ Monitors /\ [Next]_vars => Monitors'
<1> SUFFICES ASSUME TypeOK, Monitors, [Next]_vars PROVE Monitors'
  OBVIOUS
<1> USE DEF TypeOK, Monitors, NoVcNothingOwed, Monitor, pvVars, vcVars, getVars,
            monVars
<1>1. CASE ActivateNoCache
  BY <1>1 DEF ActivateNoCache
<1>2. CASE ActivateCache
  BY <1>2 DEF ActivateCache
<1>3. CASE ActivateFails
  BY <1>3 DEF ActivateFails
<1>4. CASE VcDestroy
  BY <1>4 DEF VcDestroy, DropVc
<1>5. CASE Interest
  BY <1>5 DEF Interest
<1>6. ASSUME NEW r \in Reads, ReadCached(r) PROVE Monitors'
  BY <1>6 DEF ReadCached, CanRead, ReadNow, ReadQueued
<1>7. ASSUME NEW r \in Reads, ReadAlh(r) PROVE Monitors'
  BY <1>7 DEF ReadAlh, CanRead, ReadNow, ReadQueued, Subscribe, Get
<1>8. ASSUME NEW r \in Reads, ReadAbandoned(r) PROVE Monitors'
  BY <1>8 DEF ReadAbandoned
<1>9. ASSUME NEW r \in Reads, NEW k \in {"ctrl", "time"}, ReadForwarded(r, k)
      PROVE  Monitors'
  BY <1>9 DEF ReadForwarded, CanRead, ReadQueued, Get
<1>10. ASSUME NEW w \in Writes, WriteEarly(w) PROVE Monitors'
  BY <1>10 DEF WriteEarly, CanWrite
<1>11. ASSUME NEW w \in Writes, WriteNotify(w) PROVE Monitors'
  BY <1>11 DEF WriteNotify, CanWrite
<1>12. ASSUME NEW w \in Writes, WriteAbandoned(w) PROVE Monitors'
  BY <1>12 DEF WriteAbandoned
<1>13. ASSUME NEW w \in Writes, PutCB(w) PROVE Monitors'
  BY <1>13 DEF PutCB
<1>14. ASSUME NEW ok \in BOOLEAN, CtrlReply(ok) PROVE Monitors'
  BY <1>14 DEF CtrlReply, AnswerReads, Subscribe, WithValue
<1>15. ASSUME NEW ok \in BOOLEAN, TimeReply(ok) PROVE Monitors'
  BY <1>15 DEF TimeReply, AnswerReads, Subscribe, WithValue
<1>16. CASE EventCB
  BY <1>16 DEF EventCB, FlushWrites, AnswerReads, WithValue
<1>17. CASE AlhCB
  BY <1>17 DEF AlhCB, AnswerReads
<1>18. CASE AccessCB
  BY <1>18 DEF AccessCB
<1>19. CASE ConnectionLost
  BY <1>19 DEF ConnectionLost, DropVc
<1>20. CASE Reconnect
  BY <1>20 DEF Reconnect
<1>21. CASE Restart
  BY <1>21 DEF Restart
<1>22. CASE UNCHANGED vars
  BY <1>22 DEF vars
<1> QED
  BY <1>1, <1>2, <1>3, <1>4, <1>5, <1>6, <1>7, <1>8, <1>9, <1>10, <1>11,
     <1>12, <1>13, <1>14, <1>15, <1>16, <1>17, <1>18, <1>19, <1>20, <1>21, <1>22
     DEF Next

LEMMA AlarmsStep == TypeOK /\ Monitors /\ Alarms /\ [Next]_vars => Alarms'
<1> SUFFICES ASSUME TypeOK, Monitors, Alarms, [Next]_vars PROVE Alarms'
  OBVIOUS
<1> USE DEF TypeOK, Monitors, NoVcNothingOwed, Alarms, Monitor, Queue, pvVars,
            vcVars, getVars, monVars
<1>1. CASE ActivateNoCache
  BY <1>1 DEF ActivateNoCache
<1>2. CASE ActivateCache
  BY <1>2 DEF ActivateCache
<1>3. CASE ActivateFails
  BY <1>3 DEF ActivateFails
<1>4. CASE VcDestroy
  BY <1>4 DEF VcDestroy, DropVc
<1>5. CASE Interest
  BY <1>5 DEF Interest
<1>6. ASSUME NEW r \in Reads, ReadCached(r) PROVE Alarms'
  BY <1>6 DEF ReadCached, CanRead, ReadNow, ReadQueued
<1>7. ASSUME NEW r \in Reads, ReadAlh(r) PROVE Alarms'
  BY <1>7 DEF ReadAlh, CanRead, ReadNow, ReadQueued, Subscribe, Get
<1>8. ASSUME NEW r \in Reads, ReadAbandoned(r) PROVE Alarms'
  BY <1>8 DEF ReadAbandoned
<1>9. ASSUME NEW r \in Reads, NEW k \in {"ctrl", "time"}, ReadForwarded(r, k)
      PROVE  Alarms'
  BY <1>9 DEF ReadForwarded, CanRead, ReadQueued, Get
<1>10. ASSUME NEW w \in Writes, WriteEarly(w) PROVE Alarms'
  BY <1>10 DEF WriteEarly, CanWrite
<1>11. ASSUME NEW w \in Writes, WriteNotify(w) PROVE Alarms'
  BY <1>11 DEF WriteNotify, CanWrite
<1>12. ASSUME NEW w \in Writes, WriteAbandoned(w) PROVE Alarms'
  BY <1>12 DEF WriteAbandoned
<1>13. ASSUME NEW w \in Writes, PutCB(w) PROVE Alarms'
  BY <1>13 DEF PutCB
<1>14. ASSUME NEW ok \in BOOLEAN, CtrlReply(ok) PROVE Alarms'
  BY <1>14 DEF CtrlReply, AnswerReads, Subscribe, WithValue
<1>15. ASSUME NEW ok \in BOOLEAN, TimeReply(ok) PROVE Alarms'
  BY <1>15 DEF TimeReply, AnswerReads, Subscribe, WithValue
<1>16. CASE EventCB
  BY <1>16 DEF EventCB, FlushWrites, AnswerReads, WithValue
<1>17. CASE AlhCB
  BY <1>17 DEF AlhCB, AnswerReads
<1>18. CASE AccessCB
  BY <1>18 DEF AccessCB
<1>19. CASE ConnectionLost
  BY <1>19 DEF ConnectionLost, DropVc
<1>20. CASE Reconnect
  BY <1>20 DEF Reconnect
<1>21. CASE Restart
  BY <1>21 DEF Restart
<1>22. CASE UNCHANGED vars
  BY <1>22 DEF vars
<1> QED
  BY <1>1, <1>2, <1>3, <1>4, <1>5, <1>6, <1>7, <1>8, <1>9, <1>10, <1>11,
     <1>12, <1>13, <1>14, <1>15, <1>16, <1>17, <1>18, <1>19, <1>20, <1>21, <1>22
     DEF Next

LEMMA DataStep ==
  (CacheMode \/ ~StringPv) /\ TypeOK /\ Alarms /\ Data /\ [Next]_vars => Data'
<1> SUFFICES ASSUME (CacheMode \/ ~StringPv), TypeOK, Alarms, Data, [Next]_vars
             PROVE  Data'
  OBVIOUS
<1> USE DEF TypeOK, Alarms, Data, ReadsHaveData, Monitor, Queue, pvVars, vcVars,
            getVars, monVars
<1>1. CASE ActivateNoCache
  BY <1>1 DEF ActivateNoCache
<1>2. CASE ActivateCache
  BY <1>2 DEF ActivateCache
<1>3. CASE ActivateFails
  BY <1>3 DEF ActivateFails
<1>4. CASE VcDestroy
  BY <1>4 DEF VcDestroy, DropVc
<1>5. CASE Interest
  BY <1>5 DEF Interest
<1>6. ASSUME NEW r \in Reads, ReadCached(r) PROVE Data'
  BY <1>6 DEF ReadCached, CanRead, ReadNow, ReadQueued
<1>7. ASSUME NEW r \in Reads, ReadAlh(r) PROVE Data'
  BY <1>7 DEF ReadAlh, CanRead, ReadNow, ReadQueued, Subscribe, Get
<1>8. ASSUME NEW r \in Reads, ReadAbandoned(r) PROVE Data'
  BY <1>8 DEF ReadAbandoned
<1>9. ASSUME NEW r \in Reads, NEW k \in {"ctrl", "time"}, ReadForwarded(r, k)
      PROVE  Data'
  BY <1>9 DEF ReadForwarded, CanRead, ReadQueued, Get
<1>10. ASSUME NEW w \in Writes, WriteEarly(w) PROVE Data'
  BY <1>10 DEF WriteEarly, CanWrite
<1>11. ASSUME NEW w \in Writes, WriteNotify(w) PROVE Data'
  BY <1>11 DEF WriteNotify, CanWrite
<1>12. ASSUME NEW w \in Writes, WriteAbandoned(w) PROVE Data'
  BY <1>12 DEF WriteAbandoned
<1>13. ASSUME NEW w \in Writes, PutCB(w) PROVE Data'
  BY <1>13 DEF PutCB
<1>14. ASSUME NEW ok \in BOOLEAN, CtrlReply(ok) PROVE Data'
  BY <1>14 DEF CtrlReply, AnswerReads, Subscribe, WithValue
<1>15. ASSUME NEW ok \in BOOLEAN, TimeReply(ok) PROVE Data'
  BY <1>15 DEF TimeReply, AnswerReads, Subscribe, WithValue
<1>16. CASE EventCB
  BY <1>16 DEF EventCB, FlushWrites, AnswerReads, WithValue
<1>17. CASE AlhCB
  BY <1>17 DEF AlhCB, AnswerReads
<1>18. CASE AccessCB
  BY <1>18 DEF AccessCB
<1>19. CASE ConnectionLost
  BY <1>19 DEF ConnectionLost, DropVc
<1>20. CASE Reconnect
  BY <1>20 DEF Reconnect
<1>21. CASE Restart
  BY <1>21 DEF Restart
<1>22. CASE UNCHANGED vars
  BY <1>22 DEF vars
<1> QED
  BY <1>1, <1>2, <1>3, <1>4, <1>5, <1>6, <1>7, <1>8, <1>9, <1>10, <1>11,
     <1>12, <1>13, <1>14, <1>15, <1>16, <1>17, <1>18, <1>19, <1>20, <1>21, <1>22
     DEF Next

LEMMA WaitingStep ==
  Promised /\ TypeOK /\ Monitors /\ Alarms /\ Waiting /\ [Next]_vars => Waiting'
<1> SUFFICES ASSUME Promised, TypeOK, Monitors, Alarms, Waiting, [Next]_vars
             PROVE  Waiting'
  OBVIOUS
<1> USE DEF Promised, TypeOK, Monitors, NoVcNothingOwed, Alarms, Waiting,
            QueuedReadsAreAwaited, EventAwaited, Monitor, Queue, Access, pvVars,
            vcVars, getVars, monVars
<1>1. CASE ActivateNoCache
  BY <1>1 DEF ActivateNoCache
<1>2. CASE ActivateCache
  BY <1>2 DEF ActivateCache
<1>3. CASE ActivateFails
  BY <1>3 DEF ActivateFails
<1>4. CASE VcDestroy
  BY <1>4 DEF VcDestroy, DropVc
<1>5. CASE Interest
  BY <1>5 DEF Interest
<1>6. ASSUME NEW r \in Reads, ReadCached(r) PROVE Waiting'
  BY <1>6 DEF ReadCached, CanRead, ReadNow, ReadQueued
<1>7. ASSUME NEW r \in Reads, ReadAlh(r) PROVE Waiting'
  BY <1>7 DEF ReadAlh, CanRead, ReadNow, ReadQueued, Subscribe, Get
<1>8. ASSUME NEW r \in Reads, ReadAbandoned(r) PROVE Waiting'
  BY <1>8 DEF ReadAbandoned
<1>9. ASSUME NEW r \in Reads, NEW k \in {"ctrl", "time"}, ReadForwarded(r, k)
      PROVE  Waiting'
  BY <1>9 DEF ReadForwarded, CanRead, ReadQueued, Get
<1>10. ASSUME NEW w \in Writes, WriteEarly(w) PROVE Waiting'
  BY <1>10 DEF WriteEarly, CanWrite
<1>11. ASSUME NEW w \in Writes, WriteNotify(w) PROVE Waiting'
  BY <1>11 DEF WriteNotify, CanWrite
<1>12. ASSUME NEW w \in Writes, WriteAbandoned(w) PROVE Waiting'
  BY <1>12 DEF WriteAbandoned
<1>13. ASSUME NEW w \in Writes, PutCB(w) PROVE Waiting'
  BY <1>13 DEF PutCB
<1>14. ASSUME NEW ok \in BOOLEAN, CtrlReply(ok) PROVE Waiting'
  BY <1>14 DEF CtrlReply, AnswerReads, Subscribe, WithValue
<1>15. ASSUME NEW ok \in BOOLEAN, TimeReply(ok) PROVE Waiting'
  BY <1>15 DEF TimeReply, AnswerReads, Subscribe, WithValue
<1>16. CASE EventCB
  BY <1>16 DEF EventCB, FlushWrites, AnswerReads, WithValue
<1>17. CASE AlhCB
  BY <1>17 DEF AlhCB, AnswerReads
<1>18. CASE AccessCB
  BY <1>18 DEF AccessCB
<1>19. CASE ConnectionLost
  BY <1>19 DEF ConnectionLost, DropVc
<1>20. CASE Reconnect
  BY <1>20 DEF Reconnect
<1>21. CASE Restart
  BY <1>21 DEF Restart
<1>22. CASE UNCHANGED vars
  BY <1>22 DEF vars
<1> QED
  BY <1>1, <1>2, <1>3, <1>4, <1>5, <1>6, <1>7, <1>8, <1>9, <1>10, <1>11,
     <1>12, <1>13, <1>14, <1>15, <1>16, <1>17, <1>18, <1>19, <1>20, <1>21, <1>22
     DEF Next

LEMMA PresentStep ==
  "leave" \notin Faults /\ TypeOK /\ Writers /\ Present /\ [Next]_vars => Present'
<1> SUFFICES ASSUME "leave" \notin Faults, TypeOK, Writers, Present, [Next]_vars
             PROVE  Present'
  OBVIOUS
<1> USE DEF TypeOK, Writers, WritesFollowVc, Present, WriterIsThere, WritesOn,
            pvVars, vcVars, getVars, monVars
<1>1. CASE ActivateNoCache
  BY <1>1 DEF ActivateNoCache
<1>2. CASE ActivateCache
  BY <1>2 DEF ActivateCache
<1>3. CASE ActivateFails
  BY <1>3 DEF ActivateFails
<1>4. CASE VcDestroy
  BY <1>4 DEF VcDestroy, DropVc
<1>5. CASE Interest
  BY <1>5 DEF Interest
<1>6. ASSUME NEW r \in Reads, ReadCached(r) PROVE Present'
  BY <1>6 DEF ReadCached, CanRead, ReadNow, ReadQueued
<1>7. ASSUME NEW r \in Reads, ReadAlh(r) PROVE Present'
  BY <1>7 DEF ReadAlh, CanRead, ReadNow, ReadQueued, Subscribe, Get
<1>8. ASSUME NEW r \in Reads, ReadAbandoned(r) PROVE Present'
  BY <1>8 DEF ReadAbandoned
<1>9. ASSUME NEW r \in Reads, NEW k \in {"ctrl", "time"}, ReadForwarded(r, k)
      PROVE  Present'
  BY <1>9 DEF ReadForwarded, CanRead, ReadQueued, Get
<1>10. ASSUME NEW w \in Writes, WriteEarly(w) PROVE Present'
  BY <1>10 DEF WriteEarly, CanWrite
<1>11. ASSUME NEW w \in Writes, WriteNotify(w) PROVE Present'
  BY <1>11 DEF WriteNotify, CanWrite
<1>12. ASSUME NEW w \in Writes, WriteAbandoned(w) PROVE Present'
  BY <1>12 DEF WriteAbandoned
<1>13. ASSUME NEW w \in Writes, PutCB(w) PROVE Present'
  BY <1>13 DEF PutCB
<1>14. ASSUME NEW ok \in BOOLEAN, CtrlReply(ok) PROVE Present'
  BY <1>14 DEF CtrlReply, AnswerReads, Subscribe, WithValue
<1>15. ASSUME NEW ok \in BOOLEAN, TimeReply(ok) PROVE Present'
  BY <1>15 DEF TimeReply, AnswerReads, Subscribe, WithValue
<1>16. CASE EventCB
  BY <1>16 DEF EventCB, FlushWrites, AnswerReads, WithValue
<1>17. CASE AlhCB
  BY <1>17 DEF AlhCB, AnswerReads
<1>18. CASE AccessCB
  BY <1>18 DEF AccessCB
<1>19. CASE ConnectionLost
  BY <1>19 DEF ConnectionLost, DropVc
<1>20. CASE Reconnect
  BY <1>20 DEF Reconnect
<1>21. CASE Restart
  BY <1>21 DEF Restart
<1>22. CASE UNCHANGED vars
  BY <1>22 DEF vars
<1> QED
  BY <1>1, <1>2, <1>3, <1>4, <1>5, <1>6, <1>7, <1>8, <1>9, <1>10, <1>11,
     <1>12, <1>13, <1>14, <1>15, <1>16, <1>17, <1>18, <1>19, <1>20, <1>21, <1>22
     DEF Next

-----------------------------------------------------------------------------
(* The number of writes *)

\* Either queue holds at most one more than the limit.
Limited ==
  \A l \in {"nr", "pend"} : Cardinality(WritesOn(l)) <= MaxSimlWriteIO + 1

\* A step that does not add a write leaves each queue as it is or shorter.
LEMMA QueuesShrink ==
  ASSUME TypeOK, [Next]_vars,
         ~ \E w \in Writes : WriteEarly(w) \/ WriteNotify(w), ~EventCB,
         NEW l \in {"nr", "pend"}
  PROVE  WritesOn(l)' \subseteq WritesOn(l)
<1> USE DEF TypeOK, WritesOn, pvVars, vcVars, getVars, monVars
<1>1. CASE ActivateNoCache \/ ActivateCache \/ ActivateFails \/ VcDestroy \/ Interest
  BY <1>1
     DEF ActivateNoCache, ActivateCache, ActivateFails, VcDestroy, DropVc, Interest
<1>2. ASSUME NEW r \in Reads, ReadCached(r) \/ ReadAlh(r) \/ ReadAbandoned(r)
      PROVE  WritesOn(l)' \subseteq WritesOn(l)
  BY <1>2 DEF ReadCached, ReadAlh, ReadAbandoned
<1>3. ASSUME NEW r \in Reads, NEW k \in {"ctrl", "time"}, ReadForwarded(r, k)
      PROVE  WritesOn(l)' \subseteq WritesOn(l)
  BY <1>3 DEF ReadForwarded
<1>4. ASSUME NEW w \in Writes, WriteAbandoned(w) \/ PutCB(w)
      PROVE  WritesOn(l)' \subseteq WritesOn(l)
  BY <1>4 DEF WriteAbandoned, PutCB
<1>5. ASSUME NEW ok \in BOOLEAN, CtrlReply(ok) \/ TimeReply(ok)
      PROVE  WritesOn(l)' \subseteq WritesOn(l)
  BY <1>5 DEF CtrlReply, TimeReply
<1>6. CASE AlhCB \/ AccessCB \/ ConnectionLost \/ Reconnect \/ Restart
  BY <1>6 DEF AlhCB, AccessCB, ConnectionLost, DropVc, Reconnect, Restart
<1>7. CASE UNCHANGED vars
  BY <1>7 DEF vars
<1> QED BY <1>1, <1>2, <1>3, <1>4, <1>5, <1>6, <1>7 DEF Next

LEMMA LimitedStep == TypeOK /\ Writers /\ Limited /\ [Next]_vars => Limited'
<1> SUFFICES ASSUME TypeOK, Writers, Limited, [Next]_vars,
                    NEW l \in {"nr", "pend"}
             PROVE  Cardinality(WritesOn(l)') <= MaxSimlWriteIO + 1
  BY DEF Limited
<1>1. \A q \in {"nr", "pend"} : /\ IsFiniteSet(WritesOn(q))
                                /\ Cardinality(WritesOn(q)) \in Nat
  BY WritesAssumption, FS_Subset, FS_CardinalityType DEF WritesOn
<1>2. ASSUME NEW q \in {"nr", "pend"}, WritesOn(l)' \subseteq WritesOn(q)
      PROVE  Cardinality(WritesOn(l)') <= MaxSimlWriteIO + 1
  <2>1. /\ IsFiniteSet(WritesOn(l)')
        /\ Cardinality(WritesOn(l)') <= Cardinality(WritesOn(q))
    BY <1>1, <1>2, FS_Subset
  <2>2. Cardinality(WritesOn(l)') \in Nat
    BY <2>1, FS_CardinalityType
  <2> QED BY <1>1, <2>1, <2>2, BoundsAssumption DEF Limited
<1>3. ASSUME NEW q \in {"nr", "pend"}, NEW w \in Writes,
             WritesOn(q)' = WritesOn(q) \cup {w},
             Cardinality(WritesOn(q)) <= MaxSimlWriteIO
      PROVE  Cardinality(WritesOn(q)') <= MaxSimlWriteIO + 1
  <2>1. Cardinality(WritesOn(q) \cup {w}) \in {Cardinality(WritesOn(q)),
                                              Cardinality(WritesOn(q)) + 1}
    BY <1>1, FS_AddElement
  <2> QED BY <1>1, <1>3, <2>1, BoundsAssumption
<1>4. CASE \E w \in Writes : WriteEarly(w)
  <2> PICK w \in Writes : WriteEarly(w)
    BY <1>4
  <2>1. WritesOn("nr")' = WritesOn("nr") \cup {w}
    BY DEF WriteEarly, CanWrite, WritesOn, TypeOK
  <2>2. WritesOn("pend")' \subseteq WritesOn("pend")
    BY DEF WriteEarly, CanWrite, WritesOn, TypeOK
  <2>3. Cardinality(WritesOn("nr")) <= MaxSimlWriteIO
    BY DEF WriteEarly
  <2> QED BY <1>2, <1>3, <2>1, <2>2, <2>3
<1>5. CASE \E w \in Writes : WriteNotify(w)
  <2> PICK w \in Writes : WriteNotify(w)
    BY <1>5
  <2>1. WritesOn("pend")' = WritesOn("pend") \cup {w}
    BY DEF WriteNotify, CanWrite, WritesOn, TypeOK
  <2>2. WritesOn("nr")' \subseteq WritesOn("nr")
    BY DEF WriteNotify, CanWrite, WritesOn, TypeOK
  <2>3. Cardinality(WritesOn("pend")) <= MaxSimlWriteIO
    BY <1>1, BoundsAssumption DEF WriteNotify
  <2> QED BY <1>2, <1>3, <2>1, <2>2, <2>3
\* The flush moves writes from nrWio to pendWio, which is empty.
<1>6. CASE EventCB
  <2>1. CASE need /\ vc = "Connect"
    <3>1. WritesOn("nr")' = {} /\ WritesOn("pend")' \subseteq WritesOn("nr")
      BY <1>6, <2>1
     DEF EventCB, FlushWrites, Writers, WritesFollowVc, WritesOn, TypeOK
    <3> QED BY <3>1, <1>2
  <2>2. CASE ~(need /\ vc = "Connect")
    BY <1>6, <2>2, <1>2 DEF EventCB, WritesOn
  <2> QED BY <2>1, <2>2
<1>7. CASE ~EventCB /\ ~ \E w \in Writes : WriteEarly(w) \/ WriteNotify(w)
  BY <1>7, <1>2, QueuesShrink
<1> QED BY <1>4, <1>5, <1>6, <1>7

-----------------------------------------------------------------------------
(* The theorems *)

LEMMA InitHolds ==
  Init => /\ TypeOK /\ Writers /\ Monitors /\ Alarms /\ Data /\ Present /\ Limited
          /\ (Promised => Waiting)
<1> SUFFICES ASSUME Init
             PROVE  /\ TypeOK /\ Writers /\ Monitors /\ Alarms /\ Data /\ Present
                    /\ Limited /\ (Promised => Waiting)
  OBVIOUS
<1> USE DEF Init
<1>1. TypeOK
  <2>1. vcId \in 0..MaxVcs /\ cb \in [Writes -> 0..MaxVcs]
    BY BoundsAssumption
  <2>2. access \in BOOLEAN
    BY DEF Access
  <2>3. /\ rd \in [Reads -> Queue \cup {"idle", "empty"}]
        /\ wr \in [Writes -> {"idle", "nr", "pend"}]
    OBVIOUS
  <2> QED BY <2>1, <2>2, <2>3 DEF TypeOK, Monitor
<1>2. Writers /\ Data /\ Present
  BY DEF Writers, WritesFollowVc, Data, ReadsHaveData, Present, WriterIsThere
<1>3. Monitors /\ Alarms
  BY DEF Monitors, NoVcNothingOwed, Alarms
<1>4. Limited
  <2>1. \A l \in {"nr", "pend"} : WritesOn(l) = {}
    BY DEF WritesOn
  <2> QED BY <2>1, FS_EmptySet, BoundsAssumption DEF Limited
<1>5. Promised => Waiting
  BY DEF Promised, Waiting, QueuedReadsAreAwaited, Access
<1> QED BY <1>1, <1>2, <1>3, <1>4, <1>5

\* Types; a get that is under way is marked, a gateVcData is over an Active PV.
THEOREM VcTypeCorrect == Spec => []TypeOK
<1>1. Init => TypeOK
  BY InitHolds
<1> QED BY <1>1, TypeOKStep, PTL DEF Spec

\* pendWio and nrWio hold what belongs to the state of the gateVcData.
THEOREM WritersHold == Spec => []Writers
<1>1. Init => Writers
  BY InitHolds
<1> QED BY <1>1, VcTypeCorrect, WritersStep, PTL DEF Spec

\* A put callback that is waited for has been made by this gateVcData, and a write
\* that waits to be put is of one that is not ready yet.
THEOREM WritesHold == Spec => []WritesFollowVc
<1>1. Writers => WritesFollowVc
  BY DEF Writers
<1> QED BY <1>1, WritersHold, PTL

\* gateVcData::write and vcNew keep to maxSimlWriteIO, but for one write.
THEOREM WritesStayLimited == Spec => []WritesLimited
<1>1. TypeOK /\ Writers /\ Limited => WritesLimited
  <2> SUFFICES ASSUME TypeOK, Writers, Limited PROVE WritesLimited
    OBVIOUS
  <2>1. WritesOn("nr") = {} \/ WritesOn("pend") = {}
    BY DEF WritesOn, Writers, WritesFollowVc
  <2>2. \A l \in {"nr", "pend"} : Cardinality(WritesOn(l)) \in Nat
    BY WritesAssumption, FS_Subset, FS_CardinalityType DEF WritesOn
  <2> QED BY <2>1, <2>2, FS_EmptySet, BoundsAssumption DEF Limited, WritesLimited
<1>2. Init => Limited
  BY InitHolds
<1> QED BY <1>1, <1>2, VcTypeCorrect, WritersHold, LimitedStep, PTL DEF Spec

\* A PV that lost its gateVcData during activation hears nothing from CA.
THEOREM MonitorsHold == Spec => []Monitors
<1>1. Init => Monitors
  BY InitHolds
<1> QED BY <1>1, VcTypeCorrect, MonitorsStep, PTL DEF Spec

\* So the callbacks that use gatePvData::vc untested (eventCB, alhCB, getCB,
\* getTimeCB) find it.
THEOREM NothingOwed == Spec => []NoVcNothingOwed
<1>1. Monitors => NoVcNothingOwed
  BY DEF Monitors
<1> QED BY <1>1, MonitorsHold, PTL

\* Once the alarm handler has its data, event_data stays its container.
THEOREM AlarmsHold == Spec => []Alarms
<1>1. Init => Alarms
  BY InitHolds
<1> QED BY <1>1, VcTypeCorrect, MonitorsHold, AlarmsStep, PTL DEF Spec

\* No read of the alarm handler is released before alhCB has brought ackt and acks.
THEOREM AlarmDataStays == Spec => []AlhDataKept
<1>1. Alarms => AlhDataKept
  BY DEF Alarms, AlhDataKept
<1> QED BY <1>1, AlarmsHold, PTL

\* With the cache, or a PV that is not a string, no read is completed empty:
\* whatever goes wrong in CA and in whatever order clients come and go.
THEOREM ReadsGetData == (CacheMode \/ ~StringPv) => (Spec => []ReadsHaveData)
<1> SUFFICES ASSUME CacheMode \/ ~StringPv PROVE Spec => []ReadsHaveData
  OBVIOUS
<1>1. TypeOK /\ Alarms /\ Data /\ [Next]_vars => Data'
  BY DataStep
<1>2. Init => Data
  BY InitHolds
<1>3. Data => ReadsHaveData
  BY DEF Data
<1> QED BY <1>1, <1>2, <1>3, VcTypeCorrect, AlarmsHold, PTL DEF Spec

\* With the cache, gets that are answered (or refused, or fail) and monitors
\* that are granted, each queued read waits for something that will come.
THEOREM ReadsAreAwaited == Promised => (Spec => []QueuedReadsAreAwaited)
<1> SUFFICES ASSUME Promised PROVE Spec => []QueuedReadsAreAwaited
  OBVIOUS
<1>1. TypeOK /\ Monitors /\ Alarms /\ Waiting /\ [Next]_vars => Waiting'
  BY WaitingStep
<1>2. Init => Waiting
  BY InitHolds
<1>3. Waiting => QueuedReadsAreAwaited
  BY DEF Waiting
<1> QED BY <1>1, <1>2, <1>3, VcTypeCorrect, MonitorsHold, AlarmsHold, PTL DEF Spec

\* As long as clients leave only together, putCB completes no write that is gone:
\* the vcID it compares tells a gateVcData from the one before.
THEOREM WritersStay == "leave" \notin Faults => (Spec => []WriterIsThere)
<1> SUFFICES ASSUME "leave" \notin Faults PROVE Spec => []WriterIsThere
  OBVIOUS
<1>1. TypeOK /\ Writers /\ Present /\ [Next]_vars => Present'
  BY PresentStep
<1>2. Init => Present
  BY InitHolds
<1>3. Present => WriterIsThere
  BY DEF Present
<1> QED BY <1>1, <1>2, <1>3, VcTypeCorrect, WritersHold, PTL DEF Spec

-----------------------------------------------------------------------------
(* The life of the VC                                                      *)

\* The theorem about VcLife, under the refinement mapping of Life.
LifeProofs == INSTANCE VcLife_proofs WITH
  pv   <- IF run = "up" /\ pv # "Disconnect" THEN pv ELSE "away",
  vc   <- IF run = "up" THEN vc ELSE "none",
  need <- run = "up" /\ need

\* Between two gateVcData, and after the first event, no VC is waited for.
Settled == (pv = "Disconnect" \/ vc = "Ready") => ~need

\* The handlers of requests, gets and puts leave the life of the VC alone, but
\* for the putCB that meets a write that is gone.
LEMMA KeepsLife ==
  ASSUME Interest \/ AlhCB \/ AccessCB \/ UNCHANGED vars
         \/ (\E r \in Reads :
               \/ ReadCached(r) \/ ReadAlh(r) \/ ReadAbandoned(r)
               \/ \E k \in {"ctrl", "time"} : ReadForwarded(r, k))
         \/ (\E w \in Writes : WriteEarly(w) \/ WriteNotify(w) \/ WriteAbandoned(w))
         \/ (\E ok \in BOOLEAN : CtrlReply(ok) \/ TimeReply(ok))
  PROVE  UNCHANGED <<pv, vc, need, run>>
<1> USE DEF pvVars, vcVars
<1>1. CASE Interest \/ AlhCB \/ AccessCB \/ UNCHANGED vars
  BY <1>1 DEF Interest, AlhCB, AccessCB, vars
<1>2. ASSUME NEW r \in Reads,
             \/ ReadCached(r) \/ ReadAlh(r) \/ ReadAbandoned(r)
             \/ \E k \in {"ctrl", "time"} : ReadForwarded(r, k)
      PROVE  UNCHANGED <<pv, vc, need, run>>
  BY <1>2 DEF ReadCached, ReadAlh, ReadAbandoned, ReadForwarded
<1>3. ASSUME NEW w \in Writes, WriteEarly(w) \/ WriteNotify(w) \/ WriteAbandoned(w)
      PROVE  UNCHANGED <<pv, vc, need, run>>
  BY <1>3 DEF WriteEarly, WriteNotify, WriteAbandoned
<1>4. ASSUME NEW ok \in BOOLEAN, CtrlReply(ok) \/ TimeReply(ok)
      PROVE  UNCHANGED <<pv, vc, need, run>>
  BY <1>4 DEF CtrlReply, TimeReply
<1> QED BY <1>1, <1>2, <1>3, <1>4

\* putCB leaves it alone too, unless the process dies.
LEMMA PutKeepsLife ==
  ASSUME NEW w \in Writes, PutCB(w)
  PROVE  UNCHANGED <<pv, vc, need>> /\ run = "up" /\ (run' = "up" \/ vc # "none")
BY DEF PutCB, pvVars, vcVars

LEMMA SettledStep == TypeOK /\ Settled /\ [Next]_vars => Settled'
<1> SUFFICES ASSUME TypeOK, Settled, [Next]_vars PROVE Settled'
  OBVIOUS
<1> USE DEF TypeOK, Settled, pvVars, vcVars
<1>1. CASE ActivateNoCache \/ ActivateCache \/ ActivateFails
  BY <1>1 DEF ActivateNoCache, ActivateCache, ActivateFails
<1>2. CASE VcDestroy \/ ConnectionLost
  BY <1>2 DEF VcDestroy, ConnectionLost, DropVc
<1>3. CASE EventCB
  BY <1>3 DEF EventCB
<1>4. CASE Reconnect \/ Restart
  BY <1>4 DEF Reconnect, Restart
<1>5. ASSUME UNCHANGED <<pv, vc, need>> PROVE Settled'
  BY <1>5
<1> QED BY <1>1, <1>2, <1>3, <1>4, <1>5, KeepsLife, PutKeepsLife DEF Next

\* Every step is one of the life of the VC, or leaves it alone.
LEMMA LifeStep ==
  TypeOK /\ Settled /\ [Next]_vars => [Life!LNext]_(Life!lvars)
<1> SUFFICES ASSUME TypeOK, Settled, [Next]_vars PROVE [Life!LNext]_(Life!lvars)
  OBVIOUS
<1> USE DEF TypeOK, Settled, pvVars, vcVars
<1>1. CASE ActivateNoCache \/ ActivateCache
  <2>1. Life!Activate
    BY <1>1 DEF ActivateNoCache, ActivateCache, Life!Activate
  <2> QED BY <2>1 DEF Life!LNext
<1>2. CASE ActivateFails
  <2>1. Life!ActivationFails
    BY <1>2 DEF ActivateFails, Life!ActivationFails
  <2> QED BY <2>1 DEF Life!LNext
<1>3. CASE VcDestroy
  <2>1. Life!Release
    BY <1>3 DEF VcDestroy, DropVc, Life!Release
  <2> QED BY <2>1 DEF Life!LNext
<1>4. CASE ConnectionLost
  <2>1. Life!Lose
    BY <1>4 DEF ConnectionLost, DropVc, Life!Lose
  <2> QED BY <2>1 DEF Life!LNext
<1>5. CASE EventCB
  <2>1. CASE need
    <3>1. Life!Complete
      BY <1>5, <2>1 DEF EventCB, Life!Complete
    <3> QED BY <3>1 DEF Life!LNext
  <2>2. CASE ~need
    BY <1>5, <2>2 DEF EventCB, Life!lvars
  <2> QED BY <2>1, <2>2
<1>6. CASE Reconnect \/ Restart
  <2>1. Life!Found
    BY <1>6 DEF Reconnect, Restart, Life!Found
  <2> QED BY <2>1 DEF Life!LNext
<1>7. ASSUME NEW w \in Writes, PutCB(w) PROVE [Life!LNext]_(Life!lvars)
  <2>1. CASE run' = "up"
    BY <1>7, <2>1, PutKeepsLife DEF Life!lvars
  <2>2. CASE run' # "up"
    <3>1. Life!Lose
      BY <1>7, <2>2, PutKeepsLife DEF Life!Lose
    <3> QED BY <3>1 DEF Life!LNext
  <2> QED BY <2>1, <2>2
<1>8. ASSUME UNCHANGED <<pv, vc, need, run>> PROVE [Life!LNext]_(Life!lvars)
  BY <1>8 DEF Life!lvars
<1> QED BY <1>1, <1>2, <1>3, <1>4, <1>5, <1>6, <1>7, <1>8, KeepsLife DEF Next

\* The requests, gets and callbacks of one PV never leave the life that GatewayPv
\* takes its VC to have: whatever CA answers, and in whatever order.
THEOREM VcHasItsLife == Spec => ImplementsLife
<1>1. Init => Life!LInit /\ Settled
  BY DEF Init, Life!LInit, Settled
<1> QED BY <1>1, VcTypeCorrect, SettledStep, LifeStep, PTL
          DEF Spec, ImplementsLife, Life!LSpec

\* A VC that is not ready has its PV marked, so the first event completes it; one
\* that is ready has not, so no later event completes it again (eventCB).
THEOREM VcCompletedOnce == Spec => []Life!VcLifeOK
<1>1. Life!LInit => LifeProofs!LInit
  BY DEF Life!LInit, LifeProofs!LInit
<1>2. [Life!LNext]_(Life!lvars) => [LifeProofs!LNext]_(LifeProofs!lvars)
  BY DEF Life!LNext, LifeProofs!LNext, Life!lvars, LifeProofs!lvars,
         Life!Found, Life!Activate, Life!ActivationFails, Life!Complete, Life!Release, Life!Lose,
         LifeProofs!Found, LifeProofs!Activate, LifeProofs!ActivationFails,
         LifeProofs!Complete, LifeProofs!Release, LifeProofs!Lose
<1>3. LifeProofs!VcLifeOK => Life!VcLifeOK
  BY DEF Life!VcLifeOK, LifeProofs!VcLifeOK
<1> QED BY <1>1, <1>2, <1>3, VcHasItsLife, LifeProofs!LifeKept, PTL
          DEF ImplementsLife, Life!LSpec, LifeProofs!LSpec

===============================================================================
