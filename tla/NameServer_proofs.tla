-------------------------- MODULE NameServer_proofs --------------------------
(***************************************************************************)
(* Proofs about NameServer, for any IOCs, any names and any files, and     *)
(* every interleaving of the two threads.                                  *)
(***************************************************************************)
EXTENDS NameServer, SequenceTheorems, WellFoundedInduction, TLAPS

-----------------------------------------------------------------------------
(* The pending list *)

Nodes == [x : Channels, is : {"good", "stale", "freed"}]

Good(x) == \E k \in NodesOf(x) : pending[k].is = "good"

LEMMA PrependAt ==
  ASSUME NEW S, NEW s \in Seq(S), NEW e \in S
  PROVE  /\ <<e>> \o s \in Seq(S) /\ Len(<<e>> \o s) = Len(s) + 1
         /\ (<<e>> \o s)[1] = e
         /\ \A j \in DOMAIN s : (<<e>> \o s)[j + 1] = s[j]
OBVIOUS

LEMMA RemoveAtAt ==
  ASSUME NEW S, NEW s \in Seq(S), NEW k \in DOMAIN s
  PROVE  /\ RemoveAt(s, k) \in Seq(S) /\ Len(RemoveAt(s, k)) = Len(s) - 1
         /\ \A j \in 1 .. Len(s) - 1 :
              RemoveAt(s, k)[j] = s[IF j < k THEN j ELSE j + 1]
<1>1. k \in 1 .. Len(s) /\ Len(s) \in Nat /\ k \in Nat
  OBVIOUS
<1>2. /\ SubSeq(s, 1, k - 1) \in Seq(S) /\ Len(SubSeq(s, 1, k - 1)) = k - 1
      /\ SubSeq(s, k + 1, Len(s)) \in Seq(S)
      /\ Len(SubSeq(s, k + 1, Len(s))) = Len(s) - k
  BY <1>1
<1>3. /\ \A j \in 1 .. k - 1 : SubSeq(s, 1, k - 1)[j] = s[j]
      /\ \A j \in 1 .. Len(s) - k : SubSeq(s, k + 1, Len(s))[j] = s[j + k]
  BY <1>1
<1> DEFINE a == SubSeq(s, 1, k - 1)
           b == SubSeq(s, k + 1, Len(s))
<1>4. /\ a \o b \in Seq(S) /\ Len(a \o b) = Len(s) - 1
      /\ \A j \in 1 .. Len(s) - 1 :
           (a \o b)[j] = IF j <= k - 1 THEN a[j] ELSE b[j - (k - 1)]
  <2>1. a \in Seq(S) /\ b \in Seq(S) /\ Len(a) = k - 1 /\ Len(b) = Len(s) - k
    BY <1>2
  <2> HIDE DEF a, b
  <2>2. Len(a) + Len(b) = Len(s) - 1
    BY ONLY <1>1, <2>1
  <2>3. /\ a \o b \in Seq(S) /\ Len(a \o b) = Len(a) + Len(b)
        /\ \A j \in 1 .. Len(a) + Len(b) :
             (a \o b)[j] = IF j <= Len(a) THEN a[j] ELSE b[j - Len(a)]
    BY ONLY <2>1, ConcatProperties
  <2>4. \A j \in 1 .. Len(s) - 1 :
          (a \o b)[j] = IF j <= k - 1 THEN a[j] ELSE b[j - (k - 1)]
    BY ONLY <2>1, <2>2, <2>3
  <2> QED BY ONLY <2>2, <2>3, <2>4
<1>5. \A j \in 1 .. Len(s) - 1 : (a \o b)[j] = s[IF j < k THEN j ELSE j + 1]
  <2> SUFFICES ASSUME NEW j \in 1 .. Len(s) - 1
               PROVE  (a \o b)[j] = s[IF j < k THEN j ELSE j + 1]
    OBVIOUS
  <2>1. CASE j < k
    <3>1. j \in 1 .. k - 1 /\ j <= k - 1
      BY <1>1, <2>1
    <3>2. (a \o b)[j] = a[j] /\ a[j] = s[j]
      BY <1>3, <1>4, <3>1
    <3> QED BY <2>1, <3>2
  <2>2. CASE ~(j < k)
    <3>1. j - (k - 1) \in 1 .. Len(s) - k /\ ~(j <= k - 1) /\ j - (k - 1) + k = j + 1
      BY <1>1, <2>2
    <3>2. (a \o b)[j] = b[j - (k - 1)] /\ b[j - (k - 1)] = s[j + 1]
      BY <1>3, <1>4, <3>1
    <3> QED BY <2>2, <3>2
  <2> QED BY <2>1, <2>2
<1> QED BY ONLY <1>4, <1>5 DEF RemoveAt

LEMMA TailAt ==
  ASSUME NEW S, NEW s \in Seq(S), s # <<>>
  PROVE  /\ Tail(s) \in Seq(S) /\ Len(Tail(s)) = Len(s) - 1
         /\ \A j \in 1 .. Len(s) - 1 : Tail(s)[j] = s[j + 1]
OBVIOUS

\* The walk from the head finds a first node.
LEMMA FirstIs ==
  ASSUME NEW x, NodesOf(x) # {}, pending \in Seq(Nodes)
  PROVE  FirstOf(x) \in NodesOf(x)
<1>1. NodesOf(x) \subseteq Nat
  BY DEF NodesOf
<1>2. PICK k \in NodesOf(x) : \A j \in NodesOf(x) : ~(<<j, k>> \in OpToRel(<, Nat))
  BY <1>1, NatLessThanWellFounded, WFMin
<1>3. \A j \in NodesOf(x) : k <= j
  <2> SUFFICES ASSUME NEW j \in NodesOf(x) PROVE k <= j
    OBVIOUS
  <2>1. j \in Nat /\ k \in Nat
    BY <1>1
  <2>2. j < k => <<j, k>> \in OpToRel(<, Nat)
    BY <2>1 DEF OpToRel
  <2>3. ~(j < k)
    BY <1>2, <2>2
  <2> QED BY <2>1, <2>3
<1> QED BY <1>2, <1>3 DEF FirstOf

\* What a step does to the nodes of x: they may come, go or lose their channel.
None(x) == NodesOf(x) = {}

LEMMA Unmoved ==
  ASSUME UNCHANGED pending
  PROVE  /\ FreedNodes' = FreedNodes
         /\ \A x : (None(x)' <=> None(x)) /\ (Good(x)' <=> Good(x))
BY DEF FreedNodes, None, Good, NodesOf

\* addNN.
LEMMA Prepended ==
  ASSUME pending \in Seq(Nodes), NEW e \in Nodes, pending' = <<e>> \o pending,
         e.is # "freed"
  PROVE  /\ pending' \in Seq(Nodes)
         /\ FreedNodes' = {} <=> FreedNodes = {}
         /\ \A x : /\ None(x)' <=> None(x) /\ e.x # x
                   /\ Good(x)' <=> Good(x) \/ (e.x = x /\ e.is = "good")
<1>1. /\ pending' \in Seq(Nodes) /\ Len(pending') = Len(pending) + 1 /\ pending'[1] = e
      /\ \A j \in DOMAIN pending : pending'[j + 1] = pending[j]
  BY PrependAt
<1>2. /\ Len(pending) \in Nat /\ DOMAIN pending = 1 .. Len(pending)
      /\ DOMAIN pending' = 1 .. Len(pending) + 1
  BY <1>1
<1>3. \A k \in DOMAIN pending' : k = 1 \/ (k - 1 \in DOMAIN pending /\ pending'[k] = pending[k - 1])
  <2> SUFFICES ASSUME NEW k \in DOMAIN pending', k # 1
               PROVE  k - 1 \in DOMAIN pending /\ pending'[k] = pending[k - 1]
    OBVIOUS
  <2>1. k - 1 \in DOMAIN pending /\ (k - 1) + 1 = k
    BY <1>2
  <2> QED BY <1>1, <2>1
<1>4. \A j \in DOMAIN pending : j + 1 \in DOMAIN pending' /\ pending'[j + 1] = pending[j]
  BY <1>1, <1>2
<1>5. 1 \in DOMAIN pending'
  BY <1>2
<1>6. FreedNodes' = {} <=> FreedNodes = {}
  <2>1. e.is # "freed" /\ pending'[1] = e
    BY <1>1
  <2> QED BY ONLY <1>3, <1>4, <2>1 DEF FreedNodes
<1> SUFFICES ASSUME NEW x
             PROVE  /\ None(x)' <=> None(x) /\ e.x # x
                    /\ Good(x)' <=> Good(x) \/ (e.x = x /\ e.is = "good")
  BY <1>1, <1>6
<1>7. e.is # "freed" /\ pending'[1] = e
  BY <1>1
<1>8. None(x)' <=> None(x) /\ e.x # x
  BY ONLY <1>3, <1>4, <1>5, <1>7 DEF None, NodesOf
<1>9. Good(x)' <=> Good(x) \/ (e.x = x /\ e.is = "good")
  BY ONLY <1>3, <1>4, <1>5, <1>7 DEF Good, NodesOf
<1> QED BY <1>8, <1>9

\* get, remove.
LEMMA Removed ==
  ASSUME pending \in Seq(Nodes), NEW k \in DOMAIN pending, pending[k].is # "freed",
         pending' = RemoveAt(pending, k)
  PROVE  /\ pending' \in Seq(Nodes)
         /\ FreedNodes' = {} <=> FreedNodes = {}
         /\ \A x : /\ None(x) => None(x)'
                   /\ x # pending[k].x => (None(x)' <=> None(x)) /\ (Good(x)' <=> Good(x))
<1>1. /\ pending' \in Seq(Nodes) /\ Len(pending') = Len(pending) - 1
      /\ \A j \in 1 .. Len(pending) - 1 :
           pending'[j] = pending[IF j < k THEN j ELSE j + 1]
  BY RemoveAtAt
<1>2. /\ Len(pending) \in Nat /\ DOMAIN pending = 1 .. Len(pending)
      /\ DOMAIN pending' = 1 .. Len(pending) - 1
  BY <1>1
<1>3. \A j \in DOMAIN pending' :
        \E i \in DOMAIN pending : i # k /\ pending'[j] = pending[i]
  <2> SUFFICES ASSUME NEW j \in DOMAIN pending'
               PROVE  \E i \in DOMAIN pending : i # k /\ pending'[j] = pending[i]
    OBVIOUS
  <2> DEFINE i == IF j < k THEN j ELSE j + 1
  <2>1. i \in DOMAIN pending /\ i # k
    BY <1>2
  <2> QED BY <1>1, <1>2, <2>1
<1>4. \A i \in DOMAIN pending \ {k} :
        \E j \in DOMAIN pending' : pending'[j] = pending[i]
  <2> SUFFICES ASSUME NEW i \in DOMAIN pending \ {k}
               PROVE  \E j \in DOMAIN pending' : pending'[j] = pending[i]
    OBVIOUS
  <2> DEFINE j == IF i < k THEN i ELSE i - 1
  <2>1. j \in 1 .. Len(pending) - 1 /\ (IF j < k THEN j ELSE j + 1) = i
    BY <1>2
  <2> QED BY <1>1, <1>2, <2>1
<1>5. FreedNodes' = {} <=> FreedNodes = {}
  BY <1>3, <1>4 DEF FreedNodes
<1>6. ASSUME NEW x
      PROVE  /\ None(x) => None(x)'
             /\ x # pending[k].x => (None(x)' <=> None(x)) /\ (Good(x)' <=> Good(x))
  <2>1. None(x) => None(x)'
    BY <1>3 DEF None, NodesOf
  <2>2. x # pending[k].x => (None(x)' <=> None(x))
    BY <1>3, <1>4 DEF None, NodesOf
  <2>3. x # pending[k].x => (Good(x)' <=> Good(x))
    BY <1>3, <1>4 DEF Good, NodesOf
  <2> QED BY <2>1, <2>2, <2>3
<1> QED BY <1>1, <1>5, <1>6

\* The channel that nodes of y name, M of them, is cleared.
LEMMA ClearedAt ==
  ASSUME pending \in Seq(Nodes), NEW y, NEW M \in SUBSET NodesOf(y),
         pending' = Cleared(M)
  PROVE  /\ pending' \in Seq(Nodes)
         /\ DOMAIN pending' = DOMAIN pending
         /\ \A j \in DOMAIN pending :
              /\ pending'[j].x = pending[j].x
              /\ pending'[j].is = "freed" <=> pending[j].is = "freed"
              /\ j \notin M => pending'[j] = pending[j]
         /\ FreedNodes' = FreedNodes
         /\ \A x : NodesOf(x)' = NodesOf(x)
         /\ \A x : None(x)' <=> None(x)
         /\ \A x : x # y => (Good(x)' <=> Good(x))
<1>1. Len(pending) \in Nat /\ DOMAIN pending = 1 .. Len(pending)
  OBVIOUS
<1>2. DOMAIN pending' = DOMAIN pending
  BY DEF Cleared
<1>3. \A j \in DOMAIN pending :
        /\ pending'[j] = IF j \in M THEN [pending[j] EXCEPT !.is = "stale"] ELSE pending[j]
        /\ pending[j] \in Nodes
  BY DEF Cleared
<1>4. \A j \in DOMAIN pending :
        /\ pending'[j] \in Nodes
        /\ pending'[j].x = pending[j].x
        /\ j \in M => pending'[j].is = "stale" /\ pending[j].is # "freed"
        /\ j \notin M => pending'[j] = pending[j]
  BY <1>3 DEF Nodes, NodesOf
<1>5. pending' \in [1 .. Len(pending) -> Nodes]
  <2>1. pending' = [j \in 1 .. Len(pending) |-> pending'[j]]
    BY <1>1 DEF Cleared
  <2> QED BY <1>1, <1>4, <2>1
<1>6. pending' \in Seq(Nodes)
  BY <1>1, <1>5, SeqDef
<1>7. \A j \in DOMAIN pending : pending'[j].is = "freed" <=> pending[j].is = "freed"
  BY <1>4
<1>8. FreedNodes' = FreedNodes /\ \A x : NodesOf(x)' = NodesOf(x)
  BY <1>2, <1>4, <1>7 DEF FreedNodes, NodesOf
<1>9. \A x : x # y => (Good(x)' <=> Good(x))
  <2> SUFFICES ASSUME NEW x, x # y PROVE Good(x)' <=> Good(x)
    OBVIOUS
  <2>1. \A j \in NodesOf(x) : j \in DOMAIN pending /\ j \notin M
    BY DEF NodesOf
  <2> QED BY <1>4, <1>8, <2>1 DEF Good
<1>10. \A x : None(x)' <=> None(x)
  BY <1>8 DEF None
<1> QED BY <1>2, <1>4, <1>6, <1>7, <1>8, <1>9, <1>10

\* nameList.get() takes the head off instead of the deleted node k.
LEMMA HeadGone ==
  ASSUME pending \in Seq(Nodes), NEW k \in DOMAIN pending, k # 1,
         pending' = Tail([pending EXCEPT ![k].is = "freed"])
  PROVE  /\ pending' \in Seq(Nodes) /\ Len(pending') = Len(pending) - 1
         /\ \A j \in 1 .. Len(pending) - 1 :
              IF j + 1 = k THEN pending'[j].is = "freed" ELSE pending'[j] = pending[j + 1]
         /\ FreedNodes' # {}
         /\ \A x : /\ None(x) => None(x)'
                   /\ x \notin {pending[1].x, pending[k].x} => (None(x)' <=> None(x))
<1> DEFINE p == [pending EXCEPT ![k].is = "freed"]
<1>1. /\ Len(pending) \in Nat /\ DOMAIN pending = 1 .. Len(pending)
      /\ k \in Nat /\ k > 1 /\ k <= Len(pending)
  OBVIOUS
<1>2. [pending[k] EXCEPT !.is = "freed"] \in Nodes
  <2>1. pending[k] \in Nodes
    OBVIOUS
  <2> QED BY <2>1 DEF Nodes
<1>3. p \in Seq(Nodes) /\ Len(p) = Len(pending)
      /\ \A j \in 1 .. Len(pending) :
           p[j] = IF j = k THEN [pending[k] EXCEPT !.is = "freed"] ELSE pending[j]
  <2>1. p = [pending EXCEPT ![k] = [pending[k] EXCEPT !.is = "freed"]]
    OBVIOUS
  <2> QED BY <1>1, <1>2, <2>1, ExceptSeq
<1> HIDE DEF p
<1>4. p # <<>>
  BY <1>1, <1>3
<1>5. /\ pending' \in Seq(Nodes) /\ Len(pending') = Len(pending) - 1
      /\ \A j \in 1 .. Len(pending) - 1 : pending'[j] = p[j + 1]
  BY <1>3, <1>4, TailAt DEF p
<1>6. DOMAIN pending' = 1 .. Len(pending) - 1
  BY <1>5
<1>7. k - 1 \in DOMAIN pending' /\ pending'[k - 1].is = "freed"
  <2>1. k - 1 \in 1 .. Len(pending) - 1 /\ (k - 1) + 1 = k /\ k \in 1 .. Len(pending)
    BY <1>1
  <2>2. pending'[k - 1] = [pending[k] EXCEPT !.is = "freed"]
    BY <1>3, <1>5, <2>1
  <2>3. pending[k] \in Nodes
    OBVIOUS
  <2> QED BY <1>6, <2>1, <2>2, <2>3 DEF Nodes
<1>8. \A j \in DOMAIN pending' : j # k - 1 =>
        j + 1 \in DOMAIN pending /\ pending'[j] = pending[j + 1]
  BY <1>1, <1>3, <1>5, <1>6
<1>9. \A i \in DOMAIN pending \ {1, k} :
        i - 1 \in DOMAIN pending' /\ pending'[i - 1] = pending[i]
  <2> SUFFICES ASSUME NEW i \in DOMAIN pending \ {1, k}
               PROVE  i - 1 \in DOMAIN pending' /\ pending'[i - 1] = pending[i]
    OBVIOUS
  <2>1. i - 1 \in 1 .. Len(pending) - 1 /\ (i - 1) + 1 = i /\ i \in 1 .. Len(pending)
    BY <1>1
  <2> QED BY <1>3, <1>5, <1>6, <2>1
<1>10. \A x : None(x) => None(x)'
  BY <1>7, <1>8 DEF None, NodesOf
<1>11. \A x : x \notin {pending[1].x, pending[k].x} => (None(x)' <=> None(x))
  <2> SUFFICES ASSUME NEW x, x # pending[1].x, x # pending[k].x
               PROVE  None(x)' <=> None(x)
    OBVIOUS
  <2>1. \A i \in NodesOf(x) : i \in DOMAIN pending \ {1, k}
    BY DEF NodesOf
  <2> QED BY ONLY <1>7, <1>8, <1>9, <2>1 DEF None, NodesOf
<1>12. FreedNodes' # {}
  BY <1>7 DEF FreedNodes
<1>13. \A j \in 1 .. Len(pending) - 1 :
         IF j + 1 = k THEN pending'[j].is = "freed" ELSE pending'[j] = pending[j + 1]
  BY <1>1, <1>6, <1>7, <1>8
<1> QED BY <1>5, <1>10, <1>11, <1>12, <1>13

-----------------------------------------------------------------------------
(* The invariant *)

Typed ==
  /\ alive \subseteq Servers /\ circuit \subseteq alive
  /\ file \in [Iocs -> Lists]
  /\ chan \in [Channels -> Servers \cup {"none", "search"}]
  /\ unread \subseteq Iocs /\ unwatched \subseteq Iocs
  /\ status \in [Iocs -> {"new", "up", "down", "gone"}]
  /\ list \in [Iocs -> SUBSET Names]
  /\ table \in [Names -> Servers \cup {NoIoc}]
  /\ pending \in Seq(Nodes)
  /\ reading \in Iocs \cup {NoIoc}
  /\ run \in {"up", "crashed"}

Steps == {"idle", "entry", "look", "walk", "purge", "unlink", "puser", "repuser",
          "addNN"}

Hands == [at : Steps, x : Channels \cup {NoIoc}, k : Nat, first : BOOLEAN,
          freed : BOOLEAN]

HandTyped ==
  /\ hand \in Hands
  /\ hand.at \in {"puser", "addNN"} => hand.x \in Channels
  /\ hand.at = "unlink" => hand.x \in Names

\* The node that the main thread points to, unless a callback deleted it: it has
\* the name in hand; a name that is given up has no channel, its node is not
\* deleted yet, and only heartbeats came in front of it if it was the head.
NodeHeld ==
  /\ hand.at = "unlink" => chan[hand.x] = "none"
  /\ hand.at \in Holding /\ ~hand.freed =>
       /\ hand.k \in DOMAIN pending
       /\ hand.at \in {"purge", "unlink"} => pending[hand.k].x = hand.x
       /\ hand.at = "unlink" => pending[hand.k].is # "freed"
       /\ hand.at \in {"purge", "unlink"} /\ hand.first =>
            \A j \in DOMAIN pending : j < hand.k =>
              pending[j].x \in Iocs \/ pending[j].is = "freed"

HandHeld == HandTyped /\ NodeHeld

\* An IOC is searched for after startup has read every file, and only if its own
\* had a heartbeat.
Startup(i) ==
  /\ i \in unread => status[i] = "new" /\ list[i] = {}
  /\ status[i] = "gone" => i \notin unwatched /\ list[i] = {}
  /\ chan[i] # "none" \/ ~None(i) => unread = {} /\ status[i] # "gone"
  /\ reading = i => status[i] = "down" /\ chan[i] # "none"

\* Startup searches for the heartbeat of the IOC in hand.
Starting == hand.at \in {"puser", "addNN"}

\* A node is on the list for it, or one that was lost with a deleted node.
Waiting(i) == chan[i] = "search" /\ (~None(i) \/ FreedNodes # {})

\* It is believed up or down only after a search; while its file is reread it is
\* connected, or searched for again.
Searched(i) ==
  /\ chan[i] = "none" => status[i] \in {"new", "gone"} /\ None(i)
  /\ i \in unwatched => (chan[i] = "none" /\ None(i)) \/ (Starting /\ hand.x = i)
  /\ reading = i => Connected(i) \/ Waiting(i)

HandStarted ==
  Starting /\ hand.x \in Iocs =>
    unread = {} /\ status[hand.x] # "gone" /\ chan[hand.x] # "none"

Started == (\A i \in Iocs : Startup(i) /\ Searched(i)) /\ HandStarted

\* What is searched for is in no file.
Disjoint == Searchable \cap UNION Lists = {}

Sources ==
  /\ \A i \in Iocs : list[i] \subseteq UNION Lists
  /\ \A n \in Names : chan[n] # "none" => n \in Searchable

-----------------------------------------------------------------------------
(* The tables *)

LEMMA InstalledTyped ==
  ASSUME Typed, NEW S \in SUBSET Names, NEW i \in Servers
  PROVE  /\ Installed(S, i) \in [Names -> Servers \cup {NoIoc}]
         /\ ListsAfter(S, i) \in [Iocs -> SUBSET Names]
         /\ \A j \in Iocs : ListsAfter(S, i)[j] \subseteq list[j] \cup S
         /\ \A j \in Iocs : j # i => ListsAfter(S, i)[j] \subseteq list[j]
BY DEF Typed, Installed, ListsAfter, Taken

\* installPVName keeps the lists and the table together, whether a name is new,
\* stays or moves.
LEMMA InstalledMatches ==
  ASSUME Typed, NEW S \in SUBSET Names, NEW i \in Servers,
         \A j \in Iocs, n \in Names : n \in list[j] <=> table[n] = j
  PROVE  \A j \in Iocs, n \in Names :
           n \in ListsAfter(S, i)[j] <=> Installed(S, i)[n] = j
<1> SUFFICES ASSUME NEW j \in Iocs, NEW n \in Names
             PROVE  n \in ListsAfter(S, i)[j] <=> Installed(S, i)[n] = j
  OBVIOUS
<1> USE NamesAssumption DEF Typed, Installed, ListsAfter, Taken, Servers
<1>1. CASE j = i
  BY <1>1
<1>2. CASE j # i
  BY <1>2
<1> QED BY <1>1, <1>2


-----------------------------------------------------------------------------
(* What the steps do to the list *)

\* The nodes of x are as they were.
Keeps(x) == (None(x)' <=> None(x)) /\ (Good(x)' <=> Good(x))

FreedSame == FreedNodes' = {} <=> FreedNodes = {}

LEMMA HandTypes ==
  ASSUME HandTyped
  PROVE  /\ hand.at \in Steps
         /\ hand.x \in Channels \cup {NoIoc} /\ hand.k \in Nat
         /\ hand.first \in BOOLEAN /\ hand.freed \in BOOLEAN
BY DEF HandTyped, Hands

LEMMA AddNNDone ==
  ASSUME Typed, HandTyped, AddNN, NEW x, x = hand.x
  PROVE  /\ pending' \in Seq(Nodes) /\ FreedSame
         /\ \A y : y # x => Keeps(y)
         /\ ~None(x)' /\ (chan[x] # "none" => Good(x)')
<1> DEFINE e == [x |-> x, is |-> IF chan[x] = "none" THEN "stale" ELSE "good"]
<1>1. e \in Nodes /\ e.is # "freed" /\ e.x = x /\ pending' = <<e>> \o pending
      /\ (chan[x] # "none" => e.is = "good")
  BY DEF AddNN, HandTyped, Nodes
<1>2. pending \in Seq(Nodes)
  BY DEF Typed
<1> HIDE DEF e
<1> QED BY ONLY <1>1, <1>2, Prepended DEF FreedSame, Keeps

LEMMA HeartbeatDownDone ==
  ASSUME Typed, NEW i \in Iocs, HeartbeatDown(i)
  PROVE  /\ pending' \in Seq(Nodes) /\ FreedSame
         /\ \A y : y # i => Keeps(y)
         /\ ~None(i)' /\ Good(i)'
<1> DEFINE e == Node(i)
<1>1. e \in Nodes /\ e.is # "freed" /\ e.x = i /\ e.is = "good" /\ pending' = <<e>> \o pending
  BY DEF HeartbeatDown, Nodes, Node, Channels
<1>2. pending \in Seq(Nodes)
  BY DEF Typed
<1> HIDE DEF e
<1> QED BY ONLY <1>1, <1>2, Prepended DEF FreedSame, Keeps

LEMMA RebroadcastDone ==
  ASSUME Typed, HandHeld, Rebroadcast, NEW x, x = hand.x
  PROVE  /\ pending' \in Seq(Nodes) /\ FreedSame
         /\ \A y : y # x => Keeps(y)
         /\ ~None(x) /\ ~None(x)' /\ Good(x)'
<1> DEFINE M == NodesOf(x) \ {hand.k}
<1>1. pending \in Seq(Nodes) /\ M \in SUBSET NodesOf(x) /\ pending' = Cleared(M)
  BY DEF Typed, Rebroadcast
<1> HIDE DEF M
<1>2. hand.k \in DOMAIN pending /\ pending[hand.k].x = x /\ pending[hand.k].is = "good"
  BY DEF Rebroadcast, Purging, HandHeld, NodeHeld, Holding
<1>3. hand.k \in NodesOf(x) /\ hand.k \notin M
  BY <1>2 DEF NodesOf, M
<1>4. /\ pending' \in Seq(Nodes) /\ FreedNodes' = FreedNodes
      /\ \A y : NodesOf(y)' = NodesOf(y)
      /\ \A y : None(y)' <=> None(y)
      /\ \A y : y # x => (Good(y)' <=> Good(y))
      /\ pending'[hand.k] = pending[hand.k]
  BY ONLY <1>1, <1>2, <1>3, ClearedAt
<1>5. ~None(x) /\ ~None(x)'
  BY <1>3, <1>4 DEF None
<1>6. Good(x)'
  <2>1. hand.k \in NodesOf(x)' /\ pending'[hand.k].is = "good"
    BY <1>2, <1>3, <1>4
  <2> QED BY <2>1 DEF Good, NodesOf
<1> QED BY <1>4, <1>5, <1>6 DEF FreedSame, Keeps

LEMMA NameDownDone ==
  ASSUME Typed, NEW n \in Names, NameDown(n)
  PROVE  /\ pending' \in Seq(Nodes) /\ FreedSame
         /\ \A y : y # n => Keeps(y)
         /\ \A y : None(y)' <=> None(y)
<1>1. pending \in Seq(Nodes) /\ NodesOf(n) \in SUBSET NodesOf(n) /\ pending' = Cleared(NodesOf(n))
  BY DEF Typed, NameDown
<1> QED BY <1>1, ClearedAt DEF FreedSame, Keeps

LEMMA TakenDone ==
  ASSUME Typed, NEW x, pending' = PendingWithout(x)
  PROVE  /\ pending' \in Seq(Nodes) /\ FreedSame
         /\ \A y : y # x => Keeps(y)
         /\ \A y : None(y) => None(y)'
<1>1. pending \in Seq(Nodes)
  BY DEF Typed
<1>2. CASE None(x)
  <2>1. pending' = pending
    BY <1>2 DEF None, PendingWithout
  <2> QED BY <1>1, <2>1, Unmoved DEF FreedSame, Keeps
<1>3. CASE ~None(x)
  <2>1. pending' = RemoveAt(pending, FirstOf(x)) /\ NodesOf(x) # {}
    BY <1>3 DEF None, PendingWithout
  <2>2. FirstOf(x) \in NodesOf(x)
    BY <1>1, <2>1, FirstIs
  <2>3. FirstOf(x) \in DOMAIN pending /\ pending[FirstOf(x)].x = x /\ pending[FirstOf(x)].is # "freed"
    BY <2>2 DEF NodesOf
  <2> HIDE DEF FirstOf
  <2> QED BY ONLY <1>1, <2>1, <2>3, Removed DEF FreedSame, Keeps
<1> QED BY <1>2, <1>3

LEMMA GiveUpDone ==
  ASSUME Typed, HandHeld, GiveUp, NEW x, x = hand.x
  PROVE  /\ pending' \in Seq(Nodes) /\ FreedSame
         /\ \A y : y # x => Keeps(y)
         /\ \A y : None(y) => None(y)'
         /\ x \in Names /\ chan[x] = "none"
<1>1. hand.at = "unlink" /\ ~hand.freed /\ pending' = RemoveAt(pending, hand.k)
  BY DEF GiveUp, Unlinking
<1>2. hand.k \in DOMAIN pending /\ pending[hand.k].x = x /\ pending[hand.k].is # "freed"
  BY <1>1 DEF HandHeld, NodeHeld, Holding
<1>3. pending \in Seq(Nodes) /\ x \in Names /\ chan[x] = "none"
  BY <1>1 DEF Typed, HandHeld, HandTyped, NodeHeld
<1> QED BY ONLY <1>1, <1>2, <1>3, Removed DEF FreedSame, Keeps

LEMMA GiveUpHeadDone ==
  ASSUME Typed, HandHeld, GiveUpHead, NEW x, x = hand.x
  PROVE  /\ pending' \in Seq(Nodes) /\ FreedNodes' # {}
         /\ \A y : None(y) => None(y)'
         /\ \A n \in Names \ {x} : None(n)' <=> None(n)
         /\ x \in Names /\ chan[x] = "none"
<1>1. /\ hand.at = "unlink" /\ ~hand.freed /\ hand.first /\ hand.k # 1
      /\ pending[1].is # "freed"
      /\ pending' = Tail([pending EXCEPT ![hand.k].is = "freed"])
  BY DEF GiveUpHead, Unlinking
<1>2. /\ hand.k \in DOMAIN pending /\ pending[hand.k].x = x
      /\ \A j \in DOMAIN pending : j < hand.k =>
           pending[j].x \in Iocs \/ pending[j].is = "freed"
  BY <1>1 DEF HandHeld, NodeHeld, Holding
<1>3. pending \in Seq(Nodes) /\ x \in Names /\ chan[x] = "none"
  BY <1>1 DEF Typed, HandHeld, HandTyped, NodeHeld
<1>4. /\ pending' \in Seq(Nodes) /\ FreedNodes' # {}
      /\ \A y : /\ None(y) => None(y)'
                /\ y \notin {pending[1].x, pending[hand.k].x} => (None(y)' <=> None(y))
  BY ONLY <1>1, <1>2, <1>3, HeadGone
<1>5. pending[1].x \in Iocs
  <2>1. 1 \in DOMAIN pending /\ 1 < hand.k
    BY <1>1, <1>2, <1>3
  <2> QED BY <1>1, <1>2, <2>1
<1>6. \A n \in Names \ {x} : n \notin {pending[1].x, pending[hand.k].x}
  BY <1>2, <1>5, NamesAssumption
<1> QED BY <1>3, <1>4, <1>6


-----------------------------------------------------------------------------
(* Callbacks that end without a crash, and the cases of a step *)

LEMMA AnswerDone ==
  ASSUME Answer, ~Crash
  PROVE  hand.at = "entry" /\ hand' = Idle
         /\ UNCHANGED <<envVars, chan, startVars, status, tableVars, pending, reading, run>>
BY DEF Answer

LEMMA HeartbeatUpDone ==
  ASSUME NEW i \in Iocs, HeartbeatUp(i), ~Crash
  PROVE  /\ reading = NoIoc /\ i \in alive /\ chan[i] = "search"
         /\ chan' = [chan EXCEPT ![i] = i] /\ circuit' = circuit \cup {i}
         /\ pending' = PendingWithout(i) /\ hand' \in {HandAfter(list[i], i), HandAfter({}, i)}
         /\ \/ /\ status[i] = "down" /\ table' = TableWithout(i)
               /\ list' = [list EXCEPT ![i] = {}] /\ reading' = i /\ status' = status
            \/ /\ status[i] # "down" /\ status' = [status EXCEPT ![i] = "up"]
               /\ table' = table /\ list' = list /\ reading' = reading
         /\ UNCHANGED <<alive, file, unread, unwatched, run>>
BY DEF HeartbeatUp, CaIdle, Answers, tableVars, startVars

LEMMA NameUpDone ==
  ASSUME NEW n \in Names, NameUp(n), ~Crash
  PROVE  /\ reading = NoIoc /\ chan[n] = "search"
         /\ \E s \in Servers : /\ s \in alive /\ chan' = [chan EXCEPT ![n] = s]
                               /\ circuit' = circuit \cup {s}
         /\ table' = Installed({n}, Gateway) /\ list' = ListsAfter({n}, Gateway)
         /\ pending' = PendingWithout(n) /\ hand' = HandAfter(Taken({n}), n)
         /\ UNCHANGED <<alive, file, unread, unwatched, status, reading, run>>
BY DEF NameUp, CaIdle, Answers, InstallPVNames, startVars

\* HandAfter keeps the step and the name.
LEMMA HandAfterOf ==
  ASSUME Typed, HandTyped, NEW E, NEW y
  PROVE  /\ HandAfter(E, y) \in Hands
         /\ HandAfter(E, y).at = hand.at /\ HandAfter(E, y).x = hand.x
         /\ HandAfter(E, y).first = hand.first
<1>1. hand.at \in Steps /\ hand \in Hands
  BY DEF HandTyped, Hands
<1>2. CASE hand.at = "entry"
  BY <1>1, <1>2 DEF HandAfter, Hands
<1>3. CASE hand.at # "entry" /\ (hand.k = 0 \/ NodesOf(y) = {})
  BY <1>1, <1>3 DEF HandAfter
<1>4. CASE hand.at # "entry" /\ hand.k # 0 /\ NodesOf(y) # {}
  <2>1. FirstOf(y) \in NodesOf(y) /\ NodesOf(y) \subseteq Nat \ {0}
    BY <1>4, FirstIs DEF Typed, NodesOf
  <2> DEFINE h == HandAfter(E, y)
  <2>2. \/ h \in {hand, [hand EXCEPT !.k = 0, !.freed = TRUE]}
        \/ h = [hand EXCEPT !.k = hand.k - 1] /\ FirstOf(y) < hand.k
    BY <1>4 DEF HandAfter
  <2>3. FirstOf(y) < hand.k => hand.k - 1 \in Nat
    BY <1>1, <2>1 DEF Hands
  <2> HIDE DEF h, FirstOf
  <2>4. h \in Hands /\ h.at = hand.at /\ h.x = hand.x /\ h.first = hand.first
    <3>1. CASE h \in {hand, [hand EXCEPT !.k = 0, !.freed = TRUE]}
      <4>1. CASE h = hand
        BY ONLY <1>1, <4>1
      <4>2. CASE h = [hand EXCEPT !.k = 0, !.freed = TRUE]
        <5>1. /\ hand \in Hands /\ h.at = hand.at /\ h.x = hand.x
              /\ h.first = hand.first /\ h.k = 0 /\ h.freed = TRUE
          BY ONLY <1>1, <4>2 DEF Hands
        <5>2. h = [at |-> h.at, x |-> h.x, k |-> h.k, first |-> h.first, freed |-> h.freed]
          BY ONLY <1>1, <4>2 DEF Hands
        <5>3. TRUE \in BOOLEAN /\ 0 \in Nat
          OBVIOUS
        <5> QED BY ONLY <5>1, <5>2, <5>3 DEF Hands
      <4> QED BY ONLY <3>1, <4>1, <4>2
    <3>2. CASE h = [hand EXCEPT !.k = hand.k - 1] /\ FirstOf(y) < hand.k
      <4>1. h = [hand EXCEPT !.k = hand.k - 1] /\ hand.k - 1 \in Nat /\ hand \in Hands
        BY ONLY <1>1, <2>3, <3>2
      <4> DEFINE m == hand.k - 1
      <4> HIDE DEF m
      <4>2. h = [hand EXCEPT !.k = m] /\ m \in Nat
        BY ONLY <4>1 DEF m
      <4> QED BY ONLY <4>1, <4>2 DEF Hands
    <3> QED BY ONLY <2>2, <3>1, <3>2
  <2> QED BY <2>4 DEF h
<1> QED BY <1>2, <1>3, <1>4

\* Steps that change the hand or the environment only.
Quiet ==
  /\ UNCHANGED <<chan, unread, unwatched, status, list, table, pending, reading>>
  /\ (Starting' <=> Starting) /\ (Starting => hand'.x = hand.x)
  /\ hand.at = "addNN" => hand'.at = "addNN"

LEMMA StepCases ==
  ASSUME HandTyped, [Next]_vars
  PROVE  \/ Crash
         \/ Quiet
         \/ \E i \in Iocs : LoadList(i) \/ SearchHeartbeat(i)
         \/ \E n \in Names : SearchName(n)
         \/ AddNN \/ Rebroadcast \/ ClearOverdue \/ GiveUp \/ GiveUpHead
         \/ \E i \in Iocs : HeartbeatUp(i) \/ Reread(i) \/ HeartbeatDown(i)
         \/ \E n \in Names : NameUp(n) \/ NameDown(n)
<1> USE DEF Quiet, Starting, Holding, Idle, At, envVars, startVars, tableVars, serverVars, vars
<1>1. ASSUME NEW i \in Iocs, AskHeartbeat(i) PROVE Crash
  BY <1>1 DEF AskHeartbeat
<1>2. CASE UseFreed \/ WalkFreed
  BY <1>2 DEF UseFreed, WalkFreed
<1>3. ASSUME NEW n \in Names, FindEntry(n) PROVE Quiet
  BY <1>3 DEF FindEntry, Looping
<1>4. ASSUME NEW x \in Channels, FindOverdue(x) PROVE Quiet
  BY <1>4 DEF FindOverdue, Reaches, Looping
<1>5. CASE LookAtNode
  BY <1>5 DEF LookAtNode, Reaches, Looping
<1>6. CASE GoOn \/ SetPuser
  BY <1>6 DEF GoOn, SetPuser
<1>7. CASE Answer
  BY <1>7, AnswerDone
<1>8. CASE Restart \/ \E s \in Servers : Die(s) \/ Boot(s)
  BY <1>8 DEF Restart, Die, Boot
<1>9. CASE UNCHANGED vars
  BY <1>9
<1> QED
  BY <1>1, <1>2, <1>3, <1>4, <1>5, <1>6, <1>7, <1>8, <1>9
     DEF Next, MainThread, CaThread, Environment, Handling


-----------------------------------------------------------------------------
(* Types *)

\* A new process knows nothing.
LEMMA FreshHolds ==
  ASSUME alive' \subseteq Servers, circuit' \subseteq alive', file' \in [Iocs -> Lists],
         unread' = Iocs, unwatched' = Iocs, status' = [i \in Iocs |-> "new"],
         list' = [i \in Iocs |-> {}], table' = [n \in Names |-> NoIoc], pending' = <<>>,
         chan' = [x \in Channels |-> "none"], reading' = NoIoc, hand' = Idle,
         run' \in {"up", "crashed"}
  PROVE  /\ Typed' /\ HandHeld' /\ Started' /\ Sources' /\ ListsMatchTable'
         /\ HeartbeatWatched' /\ StatusFollowsHeartbeat' /\ SearchesArePending'
<1> USE NamesAssumption DEF Channels, Servers, Idle, At, Connected
<1>1. <<>> \in Seq(Nodes) /\ DOMAIN <<>> = {}
  OBVIOUS
<1>2. Typed'
  BY <1>1 DEF Typed
<1>3. HandHeld'
  BY DEF HandHeld, HandTyped, NodeHeld, Hands, Steps, Holding
<1>4. \A x : None(x)'
  BY <1>1 DEF None, NodesOf
<1>5. Started'
  BY <1>4 DEF Started, Startup, Searched, HandStarted, Starting
<1>6. Sources' /\ ListsMatchTable'
  BY DEF Sources, ListsMatchTable
<1>7. HeartbeatWatched' /\ StatusFollowsHeartbeat' /\ SearchesArePending'
  BY DEF HeartbeatWatched, HeartbeatPending, StatusFollowsHeartbeat, SearchesArePending
<1> QED BY <1>2, <1>3, <1>5, <1>6, <1>7

LEMMA CrashHolds ==
  ASSUME Typed, Crash
  PROVE  /\ Typed' /\ HandHeld' /\ Started' /\ Sources' /\ ListsMatchTable'
         /\ HeartbeatWatched' /\ StatusFollowsHeartbeat' /\ SearchesArePending'
BY FreshHolds DEF Typed, Crash, Fresh, envVars

LEMMA TypedStep == Typed /\ HandHeld /\ [Next]_vars => Typed'
<1> SUFFICES ASSUME Typed, HandHeld, [Next]_vars PROVE Typed'
  OBVIOUS
<1> USE NamesAssumption DEF Typed, Channels, Servers
<1>0. HandTyped
  BY DEF HandHeld
<1>1. CASE Crash
  BY <1>1, CrashHolds
<1>2. CASE UNCHANGED <<chan, unread, unwatched, status, list, table, pending, reading>>
           /\ ~Crash
  <2>1. CASE UNCHANGED <<envVars, run>>
    BY <1>2, <2>1 DEF envVars
  <2>2. CASE Restart
    BY <1>2, <2>2 DEF Restart, envVars
  <2>3. ASSUME NEW s \in Servers, Die(s) PROVE Typed'
    BY <1>2, <2>3 DEF Die
  <2>4. ASSUME NEW s \in Servers, Boot(s) PROVE Typed'
    <3>1. CASE s \in Iocs
      <4>1. PICK f \in Lists : file' = [file EXCEPT ![s] = f]
        BY <2>4, <3>1 DEF Boot
      <4> QED BY <1>2, <2>4, <3>1, <4>1 DEF Boot
    <3>2. CASE s \notin Iocs
      BY <1>2, <2>4, <3>2 DEF Boot
    <3> QED BY <3>1, <3>2
  <2>5. CASE ~UNCHANGED <<envVars, run>> /\ ~Restart /\ ~\E s \in Servers : Die(s) \/ Boot(s)
    <3>1. \/ \E i \in Iocs : HeartbeatUp(i)
          \/ \E n \in Names : NameUp(n)
      BY <1>2, <2>5
         DEF Next, MainThread, CaThread, Environment, Handling, vars, LoadList, SearchHeartbeat,
             AskHeartbeat, FindEntry, SearchName, FindOverdue, Reaches, LookAtNode, WalkFreed,
             SetPuser, AddNN, Answer, GoOn, UseFreed, Rebroadcast, ClearOverdue, GiveUp,
             GiveUpHead, Reread, HeartbeatDown, NameDown
    <3>2. ASSUME NEW i \in Iocs, HeartbeatUp(i) PROVE FALSE
      <4>1. chan[i] = "search" /\ chan' = [chan EXCEPT ![i] = i]
        BY <1>2, <3>2, HeartbeatUpDone
      <4> QED BY <1>2, <4>1
    <3>3. ASSUME NEW n \in Names, NameUp(n) PROVE FALSE
      <4>1. chan[n] = "search" /\ \E s \in Servers : chan' = [chan EXCEPT ![n] = s]
        BY <1>2, <3>3, NameUpDone
      <4> QED BY <1>2, <4>1
    <3> QED BY <3>1, <3>2, <3>3
  <2> QED BY <2>1, <2>2, <2>3, <2>4, <2>5
<1>3. ASSUME NEW i \in Iocs, LoadList(i) PROVE Typed'
  <2>1. CASE Heartbeat \in file[i]
    <3>1. Listed(i) \in SUBSET Names /\ i \in Servers
      BY DEF Listed
    <3>2. /\ Installed(Listed(i), i) \in [Names -> Servers \cup {NoIoc}]
          /\ ListsAfter(Listed(i), i) \in [Iocs -> SUBSET Names]
      BY <3>1, InstalledTyped
    <3> QED BY <1>3, <2>1, <3>2 DEF LoadList, InstallPVNames, envVars
  <2>2. CASE Heartbeat \notin file[i]
    BY <1>3, <2>2 DEF LoadList, tableVars, envVars
  <2> QED BY <2>1, <2>2
<1>4. ASSUME NEW i \in Iocs, SearchHeartbeat(i) PROVE Typed'
  BY <1>4 DEF SearchHeartbeat, envVars, startVars, tableVars
<1>5. ASSUME NEW n \in Names, SearchName(n) PROVE Typed'
  BY <1>5 DEF SearchName, envVars, startVars, tableVars
<1>6. CASE AddNN
  BY <1>0, <1>6, AddNNDone DEF AddNN, envVars, tableVars
<1>7. CASE Rebroadcast
  BY <1>7, RebroadcastDone DEF Rebroadcast, envVars, startVars, tableVars
<1>8. CASE ClearOverdue
  BY <1>8 DEF ClearOverdue, envVars, startVars, tableVars
<1>9. CASE GiveUp
  BY <1>9, GiveUpDone DEF GiveUp, envVars, startVars, tableVars
<1>10. CASE GiveUpHead
  BY <1>10, GiveUpHeadDone DEF GiveUpHead, envVars, startVars, tableVars
<1>11. ASSUME NEW i \in Iocs, HeartbeatUp(i), ~Crash PROVE Typed'
  <2>1. chan' = [chan EXCEPT ![i] = i] /\ circuit' = circuit \cup {i} /\ i \in alive
    BY <1>11, HeartbeatUpDone
  <2>2. pending' \in Seq(Nodes)
    BY <1>11, HeartbeatUpDone, TakenDone
  <2>3. /\ list' \in {list, [list EXCEPT ![i] = {}]}
        /\ status' \in {status, [status EXCEPT ![i] = "up"]}
        /\ table' \in {table, TableWithout(i)} /\ reading' \in {i, reading}
    BY <1>11, HeartbeatUpDone
  <2>4. TableWithout(i) \in [Names -> Servers \cup {NoIoc}]
    BY DEF TableWithout
  <2>5. UNCHANGED <<alive, file, unread, unwatched, run>>
    BY <1>11, HeartbeatUpDone
  <2>6. chan' \in [Channels -> Servers \cup {"none", "search"}] /\ circuit' \subseteq alive
    BY <2>1
  <2>7. list' \in [Iocs -> SUBSET Names]
    BY <2>3
  <2>8. status' \in [Iocs -> {"new", "up", "down", "gone"}]
    BY <2>3
  <2>9. table' \in [Names -> Servers \cup {NoIoc}] /\ reading' \in Iocs \cup {NoIoc}
    BY <2>3, <2>4
  <2> QED BY <2>2, <2>5, <2>6, <2>7, <2>8, <2>9
<1>12. ASSUME NEW i \in Iocs, Reread(i) PROVE Typed'
  <2>1. Listed(i) \in SUBSET Names /\ i \in Servers
    BY DEF Listed
  <2> QED BY <1>12, <2>1, InstalledTyped DEF Reread, InstallPVNames, envVars, startVars
<1>13. ASSUME NEW i \in Iocs, HeartbeatDown(i) PROVE Typed'
  BY <1>13, HeartbeatDownDone DEF HeartbeatDown, envVars, startVars, tableVars
<1>14. ASSUME NEW n \in Names, NameUp(n), ~Crash PROVE Typed'
  <2>1. PICK s \in Servers : /\ s \in alive /\ chan' = [chan EXCEPT ![n] = s]
                             /\ circuit' = circuit \cup {s}
    BY <1>14, NameUpDone
  <2>2. pending' \in Seq(Nodes)
    BY <1>14, NameUpDone, TakenDone
  <2>3. table' \in [Names -> Servers \cup {NoIoc}] /\ list' \in [Iocs -> SUBSET Names]
    <3>1. {n} \in SUBSET Names /\ Gateway \in Servers
      OBVIOUS
    <3>2. table' = Installed({n}, Gateway) /\ list' = ListsAfter({n}, Gateway)
      BY <1>14, NameUpDone
    <3> QED BY ONLY <3>1, <3>2, Typed, InstalledTyped
  <2>4. UNCHANGED <<alive, file, unread, unwatched, status, reading, run>>
    BY <1>14, NameUpDone
  <2> QED BY <2>1, <2>2, <2>3, <2>4
<1>15. ASSUME NEW n \in Names, NameDown(n) PROVE Typed'
  BY <1>15, NameDownDone DEF NameDown, envVars, startVars
<1> QED
  BY <1>0, <1>1, <1>2, <1>3, <1>4, <1>5, <1>6, <1>7, <1>8, <1>9, <1>10, <1>11, <1>12,
     <1>13, <1>14, <1>15, StepCases DEF Quiet


-----------------------------------------------------------------------------
(* The hand *)

LEMMA HandAway ==
  ASSUME hand' \in Hands, hand'.at \in {"idle", "entry", "puser", "addNN"},
         hand'.at \in {"puser", "addNN"} => hand'.x \in Channels
  PROVE  HandHeld'
BY DEF HandHeld, HandTyped, NodeHeld, Holding

LEMMA HandSame ==
  ASSUME HandHeld, hand' = hand, pending' = pending,
         hand.at = "unlink" => chan'[hand.x] = chan[hand.x]
  PROVE  HandHeld'
BY DEF HandHeld, HandTyped, NodeHeld

LEMMA AtTyped ==
  ASSUME NEW step \in Steps, NEW x \in Channels \cup {NoIoc}, NEW k \in Nat,
         hand' = At(step, x, k)
  PROVE  /\ hand' \in Hands /\ hand'.at = step /\ hand'.x = x /\ hand'.k = k
         /\ hand'.first => step = "purge" /\ k = 1
<1>1. (step = "purge" /\ k = 1) \in BOOLEAN /\ FALSE \in BOOLEAN
  OBVIOUS
<1>2. hand' = [at |-> step, x |-> x, k |-> k, first |-> (step = "purge" /\ k = 1),
               freed |-> FALSE]
  BY DEF At
<1>3. hand' \in Hands
  BY ONLY <1>1, <1>2, step \in Steps, x \in Channels \cup {NoIoc}, k \in Nat DEF Hands
<1>4. hand'.at = step /\ hand'.x = x /\ hand'.k = k
  BY ONLY <1>2
<1> DEFINE b == (step = "purge" /\ k = 1)
<1>5. hand'.first = b
  BY ONLY <1>2, Zenon DEF b
<1>6. hand'.first => step = "purge" /\ k = 1
  BY ONLY <1>5, Zenon DEF b
<1> QED BY <1>3, <1>4, <1>6

LEMMA AtHeld ==
  ASSUME NEW step \in {"idle", "entry", "puser", "addNN"}, NEW x \in Channels \cup {NoIoc},
         hand' = At(step, x, 0), step \in {"puser", "addNN"} => x \in Channels
  PROVE  HandHeld'
<1>1. step \in Steps /\ 0 \in Nat
  BY DEF Steps
<1> QED BY <1>1, AtTyped, HandAway

\* A callback that takes no node off.
LEMMA HandEntry ==
  ASSUME Typed, HandHeld, NEW E, hand' = HandAfter(E, NoIoc),
         DOMAIN pending' = DOMAIN pending,
         \A j \in DOMAIN pending :
           /\ pending'[j].x = pending[j].x
           /\ pending'[j].is = "freed" <=> pending[j].is = "freed",
         hand.at = "unlink" => chan'[hand.x] = "none"
  PROVE  HandHeld'
<1>1. \A k \in DOMAIN pending : pending[k].x \in Channels
  <2>1. pending \in Seq(Nodes)
    BY DEF Typed
  <2>2. \A k \in DOMAIN pending : pending[k] \in Nodes
    BY ONLY <2>1
  <2> QED BY <2>2 DEF Nodes
<1>2. NodesOf(NoIoc) = {}
  BY <1>1, NamesAssumption DEF NodesOf, Channels
<1>3. hand' \in Hands /\ hand'.at = hand.at /\ hand'.x = hand.x /\ hand'.first = hand.first
  BY HandAfterOf DEF HandHeld
<1>4. hand.at # "entry" => hand' = hand
  BY <1>2 DEF HandAfter
<1>5. HandTyped'
  BY <1>3 DEF HandHeld, HandTyped
<1>6. NodeHeld'
  BY <1>3, <1>4 DEF HandHeld, NodeHeld, Holding
<1> QED BY <1>5, <1>6 DEF HandHeld

\* A callback that takes a node off in front of the one in hand, or behind it.
LEMMA HandTaken ==
  ASSUME Typed, HandHeld, NEW E, NEW x, hand' = HandAfter(E, x),
         pending' = PendingWithout(x),
         hand.at = "unlink" => chan'[hand.x] = chan[hand.x]
  PROVE  HandHeld'
<1>1. hand' \in Hands /\ hand'.at = hand.at /\ hand'.x = hand.x /\ hand'.first = hand.first
  BY HandAfterOf DEF HandHeld
<1>2. HandTyped'
  BY <1>1 DEF HandHeld, HandTyped
<1>3. hand'.at = "unlink" => chan'[hand'.x] = "none"
  BY <1>1 DEF HandHeld, NodeHeld
<1>4. SUFFICES ASSUME hand.at \in Holding, ~hand'.freed
               PROVE  /\ hand'.k \in DOMAIN pending'
                      /\ hand.at \in {"purge", "unlink"} => pending'[hand'.k].x = hand.x
                      /\ hand.at = "unlink" => pending'[hand'.k].is # "freed"
                      /\ hand.at \in {"purge", "unlink"} /\ hand.first =>
                           \A j \in DOMAIN pending' : j < hand'.k =>
                             pending'[j].x \in Iocs \/ pending'[j].is = "freed"
  BY <1>1, <1>2, <1>3, <1>4 DEF HandHeld, NodeHeld
<1>5. CASE None(x) \/ hand.k = 0
  <2>1. hand' = hand
    BY <1>4, <1>5 DEF HandAfter, None, Holding
  <2>2. hand.k \in DOMAIN pending
    BY <1>4, <2>1 DEF HandHeld, NodeHeld
  <2>3. None(x)
    BY <1>5, <2>2 DEF Typed
  <2>4. pending' = pending
    BY <2>3 DEF PendingWithout, None
  <2> QED BY <1>4, <2>1, <2>4 DEF HandHeld, NodeHeld
<1>6. CASE ~None(x) /\ hand.k # 0
  <2> DEFINE f == FirstOf(x)
  <2>1. f \in DOMAIN pending
    BY <1>6, FirstIs DEF Typed, None, NodesOf
  <2>2. /\ ~hand.freed /\ f \notin Held
        /\ hand' = IF f < hand.k THEN [hand EXCEPT !.k = @ - 1] ELSE hand
    BY <1>4, <1>6 DEF HandAfter, None, Holding, HandHeld, HandTyped, Hands
  <2>3. pending' = RemoveAt(pending, f)
    BY <1>6 DEF PendingWithout, None
  <2>4. f # hand.k
    BY <2>2 DEF Held
  <2> DEFINE k == hand.k
             m == IF f < k THEN k - 1 ELSE k
  <2>5. hand'.k = m
    BY <2>2 DEF HandHeld, HandTyped, Hands
  <2>6. /\ k \in DOMAIN pending
        /\ hand.at \in {"purge", "unlink"} => pending[k].x = hand.x
        /\ hand.at = "unlink" => pending[k].is # "freed"
        /\ hand.at \in {"purge", "unlink"} /\ hand.first =>
             \A j \in DOMAIN pending : j < k =>
               pending[j].x \in Iocs \/ pending[j].is = "freed"
    BY <1>4, <2>2 DEF HandHeld, NodeHeld
  <2> HIDE DEF f
  <2>7. /\ Len(pending') = Len(pending) - 1 /\ pending' \in Seq(Nodes)
        /\ \A j \in 1 .. Len(pending) - 1 :
             pending'[j] = pending[IF j < f THEN j ELSE j + 1]
    BY <2>1, <2>3, RemoveAtAt DEF Typed
  <2>8. pending \in Seq(Nodes)
    BY DEF Typed
  <2>9. /\ Len(pending) \in Nat /\ DOMAIN pending = 1 .. Len(pending)
        /\ DOMAIN pending' = 1 .. Len(pending) - 1
    BY <2>7, <2>8
  <2>10. m \in DOMAIN pending' /\ pending'[m] = pending[k]
    BY ONLY <2>1, <2>4, <2>6, <2>7, <2>9
  <2>11. ASSUME NEW j \in DOMAIN pending', j < m
         PROVE  \E i \in DOMAIN pending : i < k /\ pending'[j] = pending[i]
    <3> DEFINE i == IF j < f THEN j ELSE j + 1
    <3>1. i \in DOMAIN pending /\ i < k
      BY ONLY <2>1, <2>4, <2>6, <2>9, <2>11
    <3> QED BY ONLY <2>7, <2>9, <3>1
  <2> HIDE DEF m, k
  <2> QED BY ONLY <2>5, <2>6, <2>10, <2>11
<1> QED BY <1>5, <1>6


\* The sweep goes on at the node behind the one it deleted.
LEMMA AtNextHeld ==
  ASSUME Typed, HandHeld, hand.at = "unlink", ~hand.freed, hand.k \in DOMAIN pending,
         hand' \in AtNext, pending' \in Seq(Nodes), Len(pending') = Len(pending) - 1,
         hand.k < Len(pending) => pending'[hand.k].x = pending[hand.k + 1].x,
         hand.first => \A j \in DOMAIN pending' : j < hand.k =>
                         pending'[j].x \in Iocs \/ pending'[j].is = "freed"
  PROVE  HandHeld'
<1>1. /\ Len(pending) \in Nat /\ DOMAIN pending = 1 .. Len(pending)
      /\ DOMAIN pending' = 1 .. Len(pending) - 1 /\ hand.k \in Nat
  BY DEF Typed
<1>2. CASE ~(hand.k < Len(pending))
  <2>1. hand' = Idle
    BY <1>2 DEF AtNext
  <2> QED BY <2>1, AtHeld DEF Idle
<1>3. CASE hand.k < Len(pending)
  <2>1. hand.k \in DOMAIN pending' /\ hand.k + 1 \in DOMAIN pending
    BY <1>1, <1>3
  <2>2. CASE hand' = At("walk", NoIoc, hand.k)
    <3>1. "walk" \in Steps /\ NoIoc \in Channels \cup {NoIoc}
      BY DEF Steps
    <3>2. /\ hand' \in Hands /\ hand'.at = "walk" /\ hand'.k = hand.k
      BY ONLY <1>1, <2>2, <3>1, AtTyped
    <3> QED BY <2>1, <3>2 DEF HandHeld, HandTyped, NodeHeld
  <2>3. CASE hand' = [hand EXCEPT !.at = "purge", !.x = pending[hand.k + 1].x]
    <3>1. pending[hand.k + 1].x \in Channels
      <4>1. pending \in Seq(Nodes)
        BY DEF Typed
      <4>2. pending[hand.k + 1] \in Nodes
        BY ONLY <2>1, <4>1
      <4> QED BY <4>2 DEF Nodes
    <3>2. hand \in Hands
      BY DEF HandHeld, HandTyped
    <3>3. /\ hand' \in Hands /\ hand'.at = "purge" /\ hand'.k = hand.k
          /\ hand'.first = hand.first /\ hand'.x = pending[hand.k + 1].x
      <4> DEFINE y == pending[hand.k + 1].x
      <4>1. y \in Channels
        BY <3>1
      <4> HIDE DEF y
      <4>2. hand' = [hand EXCEPT !.at = "purge", !.x = y]
        BY <2>3 DEF y
      <4>3. /\ hand' \in Hands /\ hand'.at = "purge" /\ hand'.k = hand.k
            /\ hand'.first = hand.first /\ hand'.x = y
        BY ONLY <3>2, <4>1, <4>2 DEF Hands, Steps
      <4> QED BY <4>3 DEF y
    <3>4. pending'[hand'.k].x = hand'.x
      BY <1>3, <3>3
    <3>5. hand'.first => \A j \in DOMAIN pending' : j < hand'.k =>
                           pending'[j].x \in Iocs \/ pending'[j].is = "freed"
      BY <3>3
    <3> QED BY ONLY <2>1, <3>3, <3>4, <3>5 DEF HandHeld, HandTyped, NodeHeld
  <2> QED BY <1>3, <2>2, <2>3 DEF AtNext
<1> QED BY <1>2, <1>3

LEMMA HandStep == Typed /\ HandHeld /\ [Next]_vars => HandHeld'
<1> SUFFICES ASSUME Typed, HandHeld, [Next]_vars PROVE HandHeld'
  OBVIOUS
<1> USE NamesAssumption DEF Ready, envVars, startVars, tableVars, serverVars
<1>0. /\ HandTyped /\ NodeHeld /\ pending \in Seq(Nodes)
      /\ hand \in Hands /\ NoIoc \in Channels \cup {NoIoc}
      /\ \A i \in Iocs : i \in Channels
      /\ \A n \in Names : n \in Channels
  BY DEF HandHeld, HandTyped, Typed, Channels
<1>1. CASE Crash
  BY <1>1, CrashHolds
<1>2. ASSUME NEW i \in Iocs, LoadList(i) PROVE HandHeld'
  BY <1>2, HandSame DEF LoadList
<1>3. ASSUME NEW i \in Iocs, SearchHeartbeat(i) PROVE HandHeld'
  BY <1>0, <1>3, AtHeld DEF SearchHeartbeat
<1>4. ASSUME NEW n \in Names, FindEntry(n) PROVE HandHeld'
  BY <1>0, <1>4, AtHeld DEF FindEntry
<1>5. ASSUME NEW n \in Names, SearchName(n) PROVE HandHeld'
  BY <1>0, <1>5, AtHeld DEF SearchName
<1>6. ASSUME NEW x \in Channels, FindOverdue(x) PROVE HandHeld'
  <2>1. PICK k \in DOMAIN pending : pending[k].x = x /\ hand' = At("purge", x, k)
    BY <1>6 DEF FindOverdue
  <2>2. k \in Nat /\ k >= 1 /\ "purge" \in Steps
    BY <1>0 DEF Steps
  <2>3. /\ hand' \in Hands /\ hand'.at = "purge" /\ hand'.x = x /\ hand'.k = k
        /\ hand'.first => k = 1
    BY <2>1, <2>2, AtTyped
  <2>4. pending' = pending
    BY <1>6 DEF FindOverdue
  <2>5. k = 1 => \A j \in DOMAIN pending : ~(j < k)
    BY <1>0
  <2> QED BY <2>1, <2>3, <2>4, <2>5 DEF HandHeld, HandTyped, NodeHeld
<1>7. CASE LookAtNode
  <2>1. PICK k \in DOMAIN pending, step \in {"look", "walk"} : hand' = At(step, NoIoc, k)
    BY <1>7 DEF LookAtNode
  <2>2. k \in Nat /\ step \in Steps
    BY <1>0 DEF Steps
  <2>3. hand' \in Hands /\ hand'.at \in {"look", "walk"} /\ hand'.k = k
    BY <1>0, <2>1, <2>2, AtTyped
  <2>4. pending' = pending
    BY <1>7 DEF LookAtNode
  <2> QED BY <2>1, <2>3, <2>4 DEF HandHeld, HandTyped, NodeHeld
<1>8. CASE SetPuser
  <2>1. CASE hand.at = "puser" /\ hand' = At("addNN", hand.x, 0)
    BY <1>0, <2>1, AtHeld DEF HandTyped
  <2>2. CASE hand.at = "repuser" /\ ~hand.freed /\ hand' = At("walk", NoIoc, hand.k)
    <3>1. hand.k \in DOMAIN pending /\ hand.k \in Nat
      BY <1>0, <2>2 DEF NodeHeld, Holding
    <3>2. hand' \in Hands /\ hand'.at = "walk" /\ hand'.k = hand.k
      BY <1>0, <2>2, <3>1, AtTyped DEF Steps
    <3>3. pending' = pending
      BY <1>8 DEF SetPuser
    <3> QED BY <3>1, <3>2, <3>3 DEF HandHeld, HandTyped, NodeHeld
  <2> QED BY <1>8, <2>1, <2>2 DEF SetPuser
<1>9. CASE AddNN \/ GoOn
  BY <1>0, <1>9, AtHeld DEF AddNN, GoOn, Idle
<1>10. CASE Answer /\ ~Crash
  BY <1>0, <1>10, AnswerDone, AtHeld DEF Idle
<1>11. CASE Rebroadcast
  <2>1. hand' = At("repuser", hand.x, hand.k) /\ hand.k \in DOMAIN pending /\ hand.x \in Channels
    BY <1>0, <1>11 DEF Rebroadcast, Purging, NodeHeld, Holding
  <2>2. hand' \in Hands /\ hand'.at = "repuser" /\ hand'.k = hand.k
    BY <1>0, <2>1, AtTyped DEF Steps
  <2>3. DOMAIN pending' = DOMAIN pending
    BY <1>11 DEF Rebroadcast, Cleared
  <2> QED BY <2>1, <2>2, <2>3 DEF HandHeld, HandTyped, NodeHeld
<1>12. CASE ClearOverdue
  <2>1. /\ hand' = [hand EXCEPT !.at = "unlink"] /\ hand.x \in Names /\ pending' = pending
        /\ hand.at = "purge" /\ ~hand.freed /\ pending[hand.k].is = "good"
        /\ chan' = [chan EXCEPT ![hand.x] = "none"]
    BY <1>12 DEF ClearOverdue, Purging
  <2>2. /\ hand' \in Hands /\ hand'.at = "unlink" /\ hand'.x = hand.x /\ hand'.k = hand.k
        /\ hand'.first = hand.first
    BY ONLY <1>0, <2>1 DEF Hands, Steps
  <2>3. chan'[hand.x] = "none"
    BY <1>0, <2>1 DEF Typed
  <2> QED BY <1>0, <2>1, <2>2, <2>3 DEF HandHeld, HandTyped, NodeHeld, Holding
<1>13. CASE GiveUp
  <2>1. /\ hand.at = "unlink" /\ ~hand.freed /\ hand' \in AtNext
        /\ pending' = RemoveAt(pending, hand.k) /\ (hand.first => hand.k = 1)
    BY <1>13 DEF GiveUp, Unlinking
  <2>2. hand.k \in DOMAIN pending
    BY <1>0, <2>1 DEF NodeHeld, Holding
  <2>3. /\ pending' \in Seq(Nodes) /\ Len(pending') = Len(pending) - 1
        /\ \A j \in 1 .. Len(pending) - 1 :
             pending'[j] = pending[IF j < hand.k THEN j ELSE j + 1]
    BY <1>0, <2>1, <2>2, RemoveAtAt
  <2>4. hand.k < Len(pending) => pending'[hand.k].x = pending[hand.k + 1].x
    BY <1>0, <2>2, <2>3
  <2>5. \A j \in DOMAIN pending' : ~(j < 1)
    BY <2>3
  <2> QED BY <2>1, <2>2, <2>3, <2>4, <2>5, AtNextHeld
<1>14. CASE GiveUpHead
  <2>1. /\ hand.at = "unlink" /\ ~hand.freed /\ hand' \in AtNext /\ hand.first /\ hand.k # 1
        /\ pending' = Tail([pending EXCEPT ![hand.k].is = "freed"])
    BY <1>14 DEF GiveUpHead, Unlinking
  <2>2. /\ hand.k \in DOMAIN pending
        /\ \A j \in DOMAIN pending : j < hand.k =>
             pending[j].x \in Iocs \/ pending[j].is = "freed"
    BY <1>0, <2>1 DEF NodeHeld, Holding
  <2>3. /\ pending' \in Seq(Nodes) /\ Len(pending') = Len(pending) - 1
        /\ \A j \in 1 .. Len(pending) - 1 :
             IF j + 1 = hand.k THEN pending'[j].is = "freed" ELSE pending'[j] = pending[j + 1]
    BY <1>0, <2>1, <2>2, HeadGone
  <2>4. hand.k < Len(pending) => pending'[hand.k].x = pending[hand.k + 1].x
    BY <1>0, <2>2, <2>3
  <2>5. \A j \in DOMAIN pending' : j < hand.k =>
          pending'[j].x \in Iocs \/ pending'[j].is = "freed"
    <3> SUFFICES ASSUME NEW j \in DOMAIN pending', j < hand.k, j + 1 # hand.k
                 PROVE  pending'[j].x \in Iocs \/ pending'[j].is = "freed"
      BY <2>3
    <3>1. j \in 1 .. Len(pending) - 1 /\ j + 1 \in DOMAIN pending /\ j + 1 < hand.k
      BY <1>0, <2>2, <2>3
    <3> QED BY <2>2, <2>3, <3>1
  <2> QED BY <2>1, <2>2, <2>3, <2>4, <2>5, AtNextHeld
<1>15. ASSUME NEW i \in Iocs, HeartbeatUp(i), ~Crash PROVE HandHeld'
  <2>1. /\ pending' = PendingWithout(i) /\ \E E : hand' = HandAfter(E, i)
        /\ chan' = [chan EXCEPT ![i] = i]
    BY <1>15, HeartbeatUpDone
  <2>2. hand.at = "unlink" => chan'[hand.x] = chan[hand.x]
    BY <1>0, <2>1 DEF HandTyped
  <2> QED BY <2>1, <2>2, HandTaken
<1>16. ASSUME NEW i \in Iocs, Reread(i) PROVE HandHeld'
  BY <1>0, <1>16, HandEntry DEF Reread, NodeHeld
<1>17. ASSUME NEW i \in Iocs, HeartbeatDown(i) PROVE HandHeld'
  <2>1. /\ hand' = [hand EXCEPT !.k = IF @ = 0 THEN 0 ELSE @ + 1]
        /\ pending' = <<Node(i)>> \o pending /\ chan' = [chan EXCEPT ![i] = "search"]
    BY <1>17 DEF HeartbeatDown
  <2> DEFINE m == IF hand.k = 0 THEN 0 ELSE hand.k + 1
  <2>2. m \in Nat /\ hand' = [hand EXCEPT !.k = m]
    BY <1>0, <2>1 DEF Hands
  <2>3. /\ hand' \in Hands /\ hand'.at = hand.at /\ hand'.x = hand.x /\ hand'.k = m
        /\ hand'.first = hand.first /\ hand'.freed = hand.freed
    <3> HIDE DEF m
    <3> QED BY ONLY <1>0, <2>2 DEF Hands
  <2>4. hand.at = "unlink" => chan'[hand.x] = "none"
    BY <1>0, <2>1 DEF HandTyped, NodeHeld
  <2>5. Node(i) \in Nodes /\ Node(i).x = i
    BY <1>0 DEF Node, Nodes
  <2>6. /\ pending' \in Seq(Nodes) /\ Len(pending') = Len(pending) + 1
        /\ pending'[1] = Node(i)
        /\ \A j \in DOMAIN pending : pending'[j + 1] = pending[j]
    BY <1>0, <2>1, <2>5, PrependAt
  <2>7. SUFFICES ASSUME hand.at \in Holding, ~hand.freed
                 PROVE  /\ m \in DOMAIN pending'
                        /\ pending'[m] = pending[hand.k]
                        /\ \A j \in DOMAIN pending' : j < m =>
                             \/ pending'[j].x = i
                             \/ \E l \in DOMAIN pending : l < hand.k /\ pending'[j] = pending[l]
    BY <1>0, <2>3, <2>4, <2>7 DEF HandHeld, HandTyped, NodeHeld
  <2>8. hand.k \in DOMAIN pending
    BY <1>0, <2>7 DEF NodeHeld
  <2>9. m = hand.k + 1 /\ m \in DOMAIN pending'
    BY <1>0, <2>6, <2>8
  <2>10. ASSUME NEW j \in DOMAIN pending', j < m, j # 1
         PROVE  \E l \in DOMAIN pending : l < hand.k /\ pending'[j] = pending[l]
    <3>1. j - 1 \in DOMAIN pending /\ j - 1 < hand.k /\ (j - 1) + 1 = j
      BY <1>0, <2>6, <2>8, <2>9, <2>10
    <3> QED BY <2>6, <3>1
  <2> QED BY <2>5, <2>6, <2>8, <2>9, <2>10
<1>18. ASSUME NEW n \in Names, NameUp(n), ~Crash PROVE HandHeld'
  <2>1. /\ pending' = PendingWithout(n) /\ hand' = HandAfter(Taken({n}), n)
        /\ chan[n] = "search" /\ \E s \in Servers : chan' = [chan EXCEPT ![n] = s]
    BY <1>18, NameUpDone
  <2>2. hand.at = "unlink" => chan'[hand.x] = chan[hand.x]
    BY <1>0, <2>1 DEF NodeHeld
  <2> QED BY <2>1, <2>2, HandTaken
<1>19. ASSUME NEW n \in Names, NameDown(n) PROVE HandHeld'
  <2>1. /\ NodesOf(n) \in SUBSET NodesOf(n) /\ pending' = Cleared(NodesOf(n))
        /\ hand' = HandAfter({n}, NoIoc) /\ chan' = [chan EXCEPT ![n] = "none"]
    BY <1>19 DEF NameDown
  <2>2. /\ DOMAIN pending' = DOMAIN pending
        /\ \A j \in DOMAIN pending :
             /\ pending'[j].x = pending[j].x
             /\ pending'[j].is = "freed" <=> pending[j].is = "freed"
    BY <1>0, <2>1, ClearedAt
  <2>3. hand.at = "unlink" => chan'[hand.x] = "none"
    BY <1>0, <2>1 DEF NodeHeld, HandTyped, Typed
  <2> QED BY <2>1, <2>2, <2>3, HandEntry
<1>20. CASE Restart \/ \E s \in Servers : Die(s) \/ Boot(s)
  BY <1>20, HandSame DEF Restart, Die, Boot
<1>21. CASE UNCHANGED vars
  BY <1>21, HandSame DEF vars
<1> QED
  BY <1>1, <1>2, <1>3, <1>4, <1>5, <1>6, <1>7, <1>8, <1>9, <1>10, <1>11, <1>12,
     <1>13, <1>14, <1>15, <1>16, <1>17, <1>18, <1>19, <1>20, <1>21
     DEF Next, MainThread, CaThread, Environment, Handling, AskHeartbeat, UseFreed, WalkFreed


-----------------------------------------------------------------------------
(* Startup and heartbeats *)

\* Where a channel or the nodes of an IOC may change: the heartbeat of i.
LEMMA HeartbeatUpAt ==
  ASSUME Typed, HandHeld, NEW i \in Iocs, HeartbeatUp(i), ~Crash
  PROVE  /\ chan'[i] = i /\ i \in Servers /\ i \notin {"none", "search"}
         /\ (Starting' <=> Starting) /\ hand'.x = hand.x /\ hand'.at = hand.at
         /\ \A x \in Channels \ {i} : chan'[x] = chan[x] /\ Keeps(x)
         /\ \A j \in Iocs \ {i} : status'[j] = status[j] /\ list'[j] = list[j] /\ reading' # j
         /\ unread' = unread /\ unwatched' = unwatched /\ reading = NoIoc
         /\ chan[i] = "search" /\ FreedSame
         /\ \A y : None(y) => None(y)'
         /\ \/ status[i] = "down" /\ status'[i] = "down" /\ reading' = i /\ list'[i] = {}
            \/ status[i] # "down" /\ status'[i] = "up" /\ reading' = NoIoc /\ list'[i] = list[i]
<1>1. chan[i] = "search" /\ chan'[i] = i /\ i \in Servers /\ i \notin {"none", "search"}
  BY HeartbeatUpDone, NamesAssumption DEF Typed, Channels, Servers
<1>2. hand'.at = hand.at /\ hand'.x = hand.x
  BY HeartbeatUpDone, HandAfterOf DEF HandHeld
<1>3. /\ FreedSame /\ \A y : None(y) => None(y)'
      /\ \A x \in Channels \ {i} : Keeps(x)
  BY HeartbeatUpDone, TakenDone
<1>4. \A x \in Channels \ {i} : chan'[x] = chan[x]
  BY HeartbeatUpDone DEF Typed, Channels
<1>5. unread' = unread /\ unwatched' = unwatched /\ reading = NoIoc
  BY HeartbeatUpDone
<1>6. /\ \A j \in Iocs \ {i} : status'[j] = status[j] /\ list'[j] = list[j] /\ reading' # j
      /\ \/ status[i] = "down" /\ status'[i] = "down" /\ reading' = i /\ list'[i] = {}
         \/ status[i] # "down" /\ status'[i] = "up" /\ reading' = NoIoc /\ list'[i] = list[i]
  <2>1. \/ /\ status[i] = "down" /\ reading' = i /\ status' = status
           /\ list' = [list EXCEPT ![i] = {}]
        \/ /\ status[i] # "down" /\ status' = [status EXCEPT ![i] = "up"] /\ reading' = NoIoc
           /\ list' = list
    BY HeartbeatUpDone
  <2>2. NoIoc \notin Iocs /\ DOMAIN status = Iocs /\ DOMAIN list = Iocs
    BY NamesAssumption DEF Typed
  <2> QED BY ONLY <2>1, <2>2
<1> QED BY <1>1, <1>2, <1>3, <1>4, <1>5, <1>6 DEF Starting

\* A name's channel is none of the IOCs'.
LEMMA NameUpAt ==
  ASSUME Typed, HandHeld, NEW n \in Names, NameUp(n), ~Crash
  PROVE  /\ (Starting' <=> Starting) /\ hand'.x = hand.x /\ hand'.at = hand.at
         /\ \A x \in Channels \ {n} : chan'[x] = chan[x] /\ Keeps(x)
         /\ chan[n] = "search" /\ chan'[n] \in Servers
         /\ \A j \in Iocs : list'[j] \subseteq list[j]
         /\ UNCHANGED <<unread, unwatched, status, reading>>
         /\ FreedSame
<1>1. PICK s \in Servers : chan' = [chan EXCEPT ![n] = s]
  BY NameUpDone
<1>2. \A x \in Channels \ {n} : chan'[x] = chan[x]
  BY <1>1 DEF Typed
<1>3. chan'[n] \in Servers /\ chan[n] = "search"
  BY <1>1, NameUpDone DEF Typed, Channels
<1>4. hand'.at = hand.at /\ hand'.x = hand.x
  <2>1. hand' = HandAfter(Taken({n}), n) /\ HandTyped
    BY NameUpDone DEF HandHeld
  <2> QED BY ONLY <2>1, Typed, HandAfterOf
<1>5. FreedSame /\ \A x \in Channels \ {n} : Keeps(x)
  BY NameUpDone, TakenDone
<1>6. \A j \in Iocs : list'[j] \subseteq list[j]
  <2>1. {n} \in SUBSET Names /\ Gateway \in Servers /\ Gateway \notin Iocs
    BY NamesAssumption DEF Servers
  <2>2. list' = ListsAfter({n}, Gateway)
    BY NameUpDone
  <2> QED BY ONLY <2>1, <2>2, Typed, InstalledTyped
<1>7. UNCHANGED <<unread, unwatched, status, reading>>
  BY NameUpDone
<1> QED BY <1>2, <1>3, <1>4, <1>5, <1>6, <1>7 DEF Starting

LEMMA StartupStep ==
  Typed /\ HandHeld /\ Started /\ [Next]_vars => \A j \in Iocs : Startup(j)'
<1> SUFFICES ASSUME Typed, HandHeld, Started, [Next]_vars, NEW j \in Iocs PROVE Startup(j)'
  OBVIOUS
<1> USE NamesAssumption DEF Startup, Typed, Channels, Servers, startVars, tableVars
<1>0. Startup(j) /\ Searched(j) /\ HandStarted /\ Typed /\ HandTyped /\ j \in Channels
  BY DEF Started, HandHeld
<1>1. CASE Crash
  BY <1>1, CrashHolds DEF Started
<1>2. CASE Quiet
  BY <1>0, <1>2, Unmoved DEF Quiet
<1>3. ASSUME NEW i \in Iocs, LoadList(i) PROVE Startup(j)'
  <2>1. pending' = pending /\ chan' = chan /\ i \in unread /\ unread' = unread \ {i}
        /\ reading' = reading
    BY <1>3 DEF LoadList
  <2>2. CASE Heartbeat \in file[i]
    <3>1. Listed(i) \in SUBSET Names /\ i \in Servers
      BY DEF Listed
    <3>2. list' = ListsAfter(Listed(i), i) /\ status' = status /\ unwatched' = unwatched
      BY <1>3, <2>2 DEF LoadList, InstallPVNames
    <3>3. j # i => list'[j] \subseteq list[j]
      BY ONLY <3>1, <3>2, Typed, InstalledTyped, j \in Iocs
    <3>4. status[i] = "new"
      BY <2>1 DEF Started
    <3> QED BY <1>0, <2>1, <3>2, <3>3, <3>4, Unmoved
  <2>3. CASE Heartbeat \notin file[i]
    <3>1. /\ status' = [status EXCEPT ![i] = "gone"] /\ unwatched' = unwatched \ {i}
          /\ list' = list
      BY <1>3, <2>3 DEF LoadList
    <3>2. Startup(i)
      BY DEF Started
    <3> QED BY <1>0, <2>1, <3>1, <3>2, Unmoved
  <2> QED BY <2>2, <2>3
<1>4. ASSUME NEW i \in Iocs, SearchHeartbeat(i) PROVE Startup(j)'
  BY <1>0, <1>4, Unmoved DEF SearchHeartbeat
<1>5. ASSUME NEW n \in Names, SearchName(n) PROVE Startup(j)'
  BY <1>0, <1>5, Unmoved DEF SearchName
<1>6. CASE AddNN
  <2>1. /\ UNCHANGED <<chan, unread, status, list, reading>>
        /\ unwatched' \subseteq unwatched /\ Starting
    BY <1>6 DEF AddNN, Starting
  <2>2. None(j)' <=> None(j) /\ hand.x # j
    BY <1>0, <1>6, AddNNDone DEF Keeps
  <2>3. hand.x = j => unread = {} /\ status[j] # "gone"
    BY <1>0, <2>1 DEF HandStarted
  <2> QED BY <1>0, <2>1, <2>2, <2>3
<1>7. CASE Rebroadcast
  <2>1. /\ UNCHANGED <<unread, unwatched, status, list, reading>> /\ hand.x \in Channels
        /\ chan' = [chan EXCEPT ![hand.x] = "search"]
    BY <1>7 DEF Rebroadcast
  <2>2. (None(j)' <=> None(j)) /\ (hand.x = j => ~None(j))
    BY <1>7, RebroadcastDone DEF Keeps
  <2> QED BY <1>0, <2>1, <2>2
<1>8. CASE ClearOverdue
  BY <1>0, <1>8, Unmoved DEF ClearOverdue
<1>9. CASE GiveUp
  <2>1. UNCHANGED <<chan, unread, unwatched, status, list, reading>>
    BY <1>9 DEF GiveUp
  <2> QED BY <1>0, <1>9, <2>1, GiveUpDone
<1>10. CASE GiveUpHead
  <2>1. UNCHANGED <<chan, unread, unwatched, status, list, reading>>
    BY <1>10 DEF GiveUpHead
  <2> QED BY <1>0, <1>10, <2>1, GiveUpHeadDone
<1>11. ASSUME NEW i \in Iocs, HeartbeatUp(i), ~Crash PROVE Startup(j)'
  <2>1. CASE j = i
    BY ONLY <1>0, <1>11, <2>1, HeartbeatUpAt, Typed, HandHeld, i \in Iocs, NamesAssumption
       DEF Startup
  <2>2. CASE j # i
    BY ONLY <1>0, <1>11, <2>2, HeartbeatUpAt, Typed, HandHeld, i \in Iocs, j \in Iocs
       DEF Startup, Keeps
  <2> QED BY <2>1, <2>2
<1>12. ASSUME NEW i \in Iocs, Reread(i) PROVE Startup(j)'
  <2>1. /\ UNCHANGED <<chan, unread, unwatched, pending>> /\ reading = i /\ reading' = NoIoc
        /\ status' = [status EXCEPT ![i] = "up"] /\ list' = ListsAfter(Listed(i), i)
    BY <1>12 DEF Reread, InstallPVNames
  <2>2. Listed(i) \in SUBSET Names /\ i \in Servers
    BY DEF Listed
  <2>3. j # i => list'[j] \subseteq list[j]
    BY ONLY <2>1, <2>2, Typed, InstalledTyped, j \in Iocs
  <2>4. unread = {}
    BY <2>1 DEF Started
  <2> QED BY <1>0, <2>1, <2>3, <2>4, Unmoved
<1>13. ASSUME NEW i \in Iocs, HeartbeatDown(i) PROVE Startup(j)'
  <2>1. /\ UNCHANGED <<unread, unwatched, list, reading>> /\ reading = NoIoc
        /\ chan' = [chan EXCEPT ![i] = "search"] /\ status' = [status EXCEPT ![i] = "down"]
        /\ chan[i] \in Servers
    BY <1>13 DEF HeartbeatDown, CaIdle, Connected
  <2>2. j # i => (None(j)' <=> None(j))
    BY <1>13, HeartbeatDownDone DEF Keeps
  <2>3. chan[i] # "none" /\ Startup(i)
    BY <2>1 DEF Started
  <2> QED BY <1>0, <2>1, <2>2, <2>3
<1>14. ASSUME NEW n \in Names, NameUp(n), ~Crash PROVE Startup(j)'
  <2>1. j \in Channels \ {n}
    BY <1>0
  <2> QED BY ONLY <1>0, <1>14, <2>1, NameUpAt, Typed, HandHeld, j \in Iocs DEF Startup, Keeps
<1>15. ASSUME NEW n \in Names, NameDown(n) PROVE Startup(j)'
  BY <1>0, <1>15, NameDownDone DEF NameDown
<1> QED
  BY <1>0, <1>1, <1>2, <1>3, <1>4, <1>5, <1>6, <1>7, <1>8, <1>9, <1>10, <1>11, <1>12,
     <1>13, <1>14, <1>15, StepCases


LEMMA SearchedStep ==
  Typed /\ HandHeld /\ Started /\ [Next]_vars => \A j \in Iocs : Searched(j)'
<1> SUFFICES ASSUME Typed, HandHeld, Started, [Next]_vars, NEW j \in Iocs PROVE Searched(j)'
  OBVIOUS
<1> USE NamesAssumption
    DEF Searched, Waiting, Typed, Connected, Channels, Servers, startVars, tableVars
<1>0. Startup(j) /\ Searched(j) /\ HandStarted /\ Typed /\ HandTyped /\ j \in Channels
  BY DEF Started, HandHeld
<1>1. CASE Crash
  BY <1>1, CrashHolds DEF Started
<1>2. CASE Quiet
  BY <1>0, <1>2, Unmoved DEF Quiet
<1>3. ASSUME NEW i \in Iocs, LoadList(i) PROVE Searched(j)'
  <2>1. /\ pending' = pending /\ chan' = chan /\ reading' = reading /\ hand' = hand
        /\ unwatched' \subseteq unwatched /\ i \in unread
        /\ status' = status \/ status' = [status EXCEPT ![i] = "gone"]
    BY <1>3 DEF LoadList
  <2> QED BY <1>0, <2>1, Unmoved DEF Starting
<1>4. ASSUME NEW i \in Iocs, SearchHeartbeat(i) PROVE Searched(j)'
  <2>1. /\ pending' = pending /\ chan' = [chan EXCEPT ![i] = "search"] /\ hand = Idle
        /\ UNCHANGED <<unread, unwatched, status, reading>> /\ i \in unwatched
        /\ hand' = At("puser", i, 0)
    BY <1>4 DEF SearchHeartbeat
  <2>2. ~Starting /\ Starting' /\ hand'.x = i
    BY <2>1 DEF Starting, Idle, At
  <2>3. reading # i
    <3>1. Startup(i) /\ Searched(i)
      BY DEF Started
    <3> QED BY <2>1, <2>2, <3>1 DEF Startup
  <2> QED BY <1>0, <2>1, <2>2, <2>3, Unmoved
<1>5. ASSUME NEW n \in Names, SearchName(n) PROVE Searched(j)'
  BY <1>0, <1>5, Unmoved DEF SearchName, Looping, Starting, Idle, At
<1>6. CASE AddNN
  <2>1. /\ UNCHANGED <<chan, unread, status, reading>>
        /\ unwatched' = unwatched \ {hand.x} /\ Starting
    BY <1>6 DEF AddNN, Starting
  <2>2. /\ FreedSame
        /\ hand.x # j => Keeps(j)
        /\ hand.x = j => ~None(j)'
    BY <1>0, <1>6, AddNNDone
  <2>3. hand.x = j => chan[j] # "none"
    BY <1>0, <2>1 DEF HandStarted
  <2> QED BY <1>0, <2>1, <2>2, <2>3 DEF Keeps, FreedSame
<1>7. CASE Rebroadcast
  <2>1. /\ UNCHANGED <<unread, unwatched, status, reading>> /\ hand.x \in Iocs
        /\ chan' = [chan EXCEPT ![hand.x] = "search"] /\ ~Starting
    BY <1>7 DEF Rebroadcast, Purging, Starting
  <2>2. /\ FreedSame
        /\ hand.x # j => Keeps(j)
        /\ hand.x = j => ~None(j) /\ ~None(j)'
    BY <1>7, RebroadcastDone
  <2> QED BY <1>0, <2>1, <2>2 DEF Keeps, FreedSame
<1>8. CASE ClearOverdue
  BY <1>0, <1>8, Unmoved DEF ClearOverdue, Purging, Starting
<1>9. CASE GiveUp
  <2>1. UNCHANGED <<chan, unread, unwatched, status, reading>> /\ ~Starting
    BY <1>9 DEF GiveUp, Unlinking, Starting
  <2>2. FreedSame /\ Keeps(j)
    BY <1>0, <1>9, GiveUpDone
  <2> QED BY <1>0, <2>1, <2>2 DEF Keeps, FreedSame
<1>10. CASE GiveUpHead
  <2>1. UNCHANGED <<chan, unread, unwatched, status, reading>> /\ ~Starting
    BY <1>10 DEF GiveUpHead, Unlinking, Starting
  <2>2. FreedNodes' # {} /\ (None(j) => None(j)')
    BY <1>10, GiveUpHeadDone
  <2> QED BY <1>0, <2>1, <2>2
<1>11. ASSUME NEW i \in Iocs, HeartbeatUp(i), ~Crash PROVE Searched(j)'
  <2>1. CASE j = i
    BY ONLY <1>0, <1>11, <2>1, HeartbeatUpAt, Typed, HandHeld, i \in Iocs, NamesAssumption
       DEF Searched, Connected, Servers
  <2>2. CASE j # i
    BY ONLY <1>0, <1>11, <2>2, HeartbeatUpAt, Typed, HandHeld, i \in Iocs, j \in Iocs
       DEF Searched, Connected, Waiting, Keeps, FreedSame
  <2> QED BY <2>1, <2>2
<1>12. ASSUME NEW i \in Iocs, Reread(i) PROVE Searched(j)'
  <2>1. /\ UNCHANGED <<chan, unread, unwatched, pending>> /\ reading = i /\ reading' = NoIoc
        /\ status' = [status EXCEPT ![i] = "up"]
        /\ hand' = HandAfter(Taken(Listed(i)), NoIoc)
    BY <1>12 DEF Reread
  <2>2. hand'.at = hand.at /\ hand'.x = hand.x
    BY ONLY <1>0, <2>1, HandAfterOf
  <2>3. Startup(i)
    BY DEF Started
  <2> QED BY <1>0, <2>1, <2>2, <2>3, Unmoved DEF Starting, Startup
<1>13. ASSUME NEW i \in Iocs, HeartbeatDown(i) PROVE Searched(j)'
  <2>1. /\ UNCHANGED <<unread, unwatched, reading>> /\ reading = NoIoc
        /\ chan' = [chan EXCEPT ![i] = "search"] /\ status' = [status EXCEPT ![i] = "down"]
        /\ chan[i] \in Servers /\ hand' = [hand EXCEPT !.k = IF @ = 0 THEN 0 ELSE @ + 1]
    BY <1>13 DEF HeartbeatDown, CaIdle
  <2>2. j # i => Keeps(j)
    BY <1>13, HeartbeatDownDone
  <2>3. hand'.at = hand.at /\ hand'.x = hand.x
    BY <1>0, <2>1 DEF HandTyped, Hands
  <2>4. FreedSame
    BY <1>13, HeartbeatDownDone
  <2> QED BY <1>0, <2>1, <2>2, <2>3, <2>4 DEF Starting, Keeps, FreedSame
<1>14. ASSUME NEW n \in Names, NameUp(n), ~Crash PROVE Searched(j)'
  <2>1. j \in Channels \ {n}
    BY <1>0
  <2> QED BY ONLY <1>0, <1>14, <2>1, NameUpAt, Typed, HandHeld, j \in Iocs
          DEF Searched, Connected, Waiting, Keeps, FreedSame
<1>15. ASSUME NEW n \in Names, NameDown(n) PROVE Searched(j)'
  <2>1. /\ UNCHANGED <<unread, unwatched, status, reading>>
        /\ chan' = [chan EXCEPT ![n] = "none"] /\ hand' = HandAfter({n}, NoIoc)
    BY <1>15 DEF NameDown
  <2>2. hand'.at = hand.at /\ hand'.x = hand.x
    BY ONLY <1>0, <2>1, HandAfterOf
  <2>3. FreedSame /\ Keeps(j)
    BY <1>0, <1>15, NameDownDone
  <2> QED BY <1>0, <2>1, <2>2, <2>3 DEF Starting, Keeps, FreedSame
<1> QED
  BY <1>0, <1>1, <1>2, <1>3, <1>4, <1>5, <1>6, <1>7, <1>8, <1>9, <1>10, <1>11, <1>12,
     <1>13, <1>14, <1>15, StepCases

LEMMA HandStartedStep ==
  Typed /\ HandHeld /\ Started /\ [Next]_vars => HandStarted'
<1> SUFFICES ASSUME Typed, HandHeld, Started, [Next]_vars PROVE HandStarted'
  OBVIOUS
<1> USE NamesAssumption DEF HandStarted, Typed, Channels, Servers, startVars, tableVars
<1>0. HandStarted /\ HandTyped /\ \A i \in Iocs : Startup(i)
  BY DEF Started, HandHeld
<1>1. CASE Crash
  BY <1>1, CrashHolds DEF Started
<1>2. CASE Quiet
  BY <1>0, <1>2 DEF Quiet
<1>3. ASSUME NEW i \in Iocs, LoadList(i) PROVE HandStarted'
  <2>1. chan' = chan /\ i \in unread /\ hand' = hand
    BY <1>3 DEF LoadList
  <2> QED BY <1>0, <2>1 DEF Starting
<1>4. ASSUME NEW i \in Iocs, SearchHeartbeat(i) PROVE HandStarted'
  <2>1. /\ chan' = [chan EXCEPT ![i] = "search"] /\ unread = {}
        /\ UNCHANGED <<unread, status>> /\ i \in unwatched /\ hand' = At("puser", i, 0)
    BY <1>4 DEF SearchHeartbeat
  <2>2. hand'.x = i
    BY <2>1 DEF At
  <2> QED BY <1>0, <2>1, <2>2 DEF Startup
<1>5. ASSUME NEW n \in Names, SearchName(n) PROVE HandStarted'
  BY <1>5 DEF SearchName, At
<1>6. CASE AddNN \/ Rebroadcast \/ ClearOverdue
  BY <1>6 DEF AddNN, Rebroadcast, ClearOverdue, Purging, Starting, Idle, At, HandHeld, HandTyped, Hands
<1>7. CASE GiveUp \/ GiveUpHead
  <2>1. hand.at = "unlink" /\ hand' \in AtNext
    BY <1>7 DEF GiveUp, GiveUpHead, Unlinking
  <2>2. hand'.at \in {"idle", "walk", "purge"}
    <3>1. /\ At("walk", NoIoc, hand.k).at = "walk" /\ Idle.at = "idle"
          /\ [hand EXCEPT !.at = "purge", !.x = pending[hand.k + 1].x].at = "purge"
      BY <1>0 DEF Idle, At, HandTyped, Hands
    <3> QED BY ONLY <2>1, <3>1 DEF AtNext
  <2> QED BY <2>2 DEF Starting
<1>8. ASSUME NEW i \in Iocs, HeartbeatUp(i), ~Crash PROVE HandStarted'
  <2>1. hand.x \in Iocs /\ hand.x # i => hand.x \in Channels \ {i} /\ hand.x \in Iocs \ {i}
    OBVIOUS
  <2> QED BY ONLY <1>0, <1>8, <2>1, HeartbeatUpAt, Typed, HandHeld, i \in Iocs DEF HandStarted
<1>9. ASSUME NEW i \in Iocs, Reread(i) PROVE HandStarted'
  <2>1. /\ UNCHANGED <<chan, unread>> /\ status' = [status EXCEPT ![i] = "up"]
        /\ hand' = HandAfter(Taken(Listed(i)), NoIoc)
    BY <1>9 DEF Reread
  <2>2. hand'.at = hand.at /\ hand'.x = hand.x
    BY ONLY <1>0, Typed, <2>1, HandAfterOf
  <2> QED BY <1>0, <2>1, <2>2 DEF Starting
<1>10. ASSUME NEW i \in Iocs, HeartbeatDown(i) PROVE HandStarted'
  <2>1. /\ UNCHANGED unread
        /\ chan' = [chan EXCEPT ![i] = "search"] /\ status' = [status EXCEPT ![i] = "down"]
        /\ hand' = [hand EXCEPT !.k = IF @ = 0 THEN 0 ELSE @ + 1]
    BY <1>10 DEF HeartbeatDown
  <2>2. hand'.at = hand.at /\ hand'.x = hand.x
    BY <1>0, <2>1 DEF HandTyped, Hands
  <2> QED BY <1>0, <2>1, <2>2 DEF Starting
<1>11. ASSUME NEW n \in Names, NameUp(n), ~Crash PROVE HandStarted'
  <2>1. hand.x \in Iocs => hand.x \in Channels \ {n}
    OBVIOUS
  <2> QED BY ONLY <1>0, <1>11, <2>1, NameUpAt, Typed, HandHeld DEF HandStarted
<1>12. ASSUME NEW n \in Names, NameDown(n) PROVE HandStarted'
  <2>1. /\ UNCHANGED <<unread, status>>
        /\ chan' = [chan EXCEPT ![n] = "none"] /\ hand' = HandAfter({n}, NoIoc)
    BY <1>12 DEF NameDown
  <2>2. hand'.at = hand.at /\ hand'.x = hand.x
    BY ONLY <1>0, Typed, <2>1, HandAfterOf
  <2> QED BY <1>0, <2>1, <2>2 DEF Starting
<1> QED
  BY <1>0, <1>1, <1>2, <1>3, <1>4, <1>5, <1>6, <1>7, <1>8, <1>9, <1>10, <1>11, <1>12,
     StepCases


-----------------------------------------------------------------------------
(* Heartbeats, their status, and searches *)

LEMMA WatchedStep ==
  Typed /\ HandHeld /\ Started /\ HeartbeatWatched /\ [Next]_vars => HeartbeatWatched'
<1> SUFFICES ASSUME Typed, HandHeld, Started, HeartbeatWatched, [Next]_vars,
                    FreedNodes' = {}, NEW j \in Iocs, j \notin unwatched', status'[j] # "gone"
             PROVE  Connected(j)' \/ (chan'[j] = "search" /\ Good(j)')
  BY DEF HeartbeatWatched, HeartbeatPending, Good
<1> USE NamesAssumption DEF Typed, Connected, Channels, Servers, startVars, tableVars
<1>0. /\ Startup(j) /\ Searched(j) /\ HandStarted /\ HandTyped /\ j \in Channels
      /\ FreedNodes = {} /\ j \notin unwatched /\ status[j] # "gone" =>
           Connected(j) \/ (chan[j] = "search" /\ Good(j))
  BY DEF Started, HandHeld, HeartbeatWatched, HeartbeatPending, Good
<1>1. CASE Crash
  BY <1>1, CrashHolds DEF Crash, Fresh
<1>2. CASE Quiet
  BY <1>0, <1>2, Unmoved DEF Quiet
<1>3. ASSUME NEW i \in Iocs, LoadList(i) PROVE Connected(j)' \/ (chan'[j] = "search" /\ Good(j)')
  <2>1. /\ pending' = pending /\ chan' = chan
        /\ \/ status' = status /\ unwatched' = unwatched
           \/ status' = [status EXCEPT ![i] = "gone"] /\ unwatched' = unwatched \ {i}
    BY <1>3 DEF LoadList
  <2> QED BY <1>0, <2>1, Unmoved
<1>4. ASSUME NEW i \in Iocs, SearchHeartbeat(i)
      PROVE  Connected(j)' \/ (chan'[j] = "search" /\ Good(j)')
  BY <1>0, <1>4, Unmoved DEF SearchHeartbeat
<1>5. ASSUME NEW n \in Names, SearchName(n) PROVE Connected(j)' \/ (chan'[j] = "search" /\ Good(j)')
  BY <1>0, <1>5, Unmoved DEF SearchName
<1>6. CASE AddNN
  <2>1. /\ UNCHANGED <<chan, status>> /\ unwatched' = unwatched \ {hand.x} /\ Starting
    BY <1>6 DEF AddNN, Starting
  <2>2. /\ FreedSame
        /\ hand.x # j => Keeps(j)
        /\ hand.x = j /\ chan[j] # "none" => Good(j)'
    BY <1>0, <1>6, AddNNDone
  <2>3. hand.x = j => chan[j] # "none"
    BY <1>0, <2>1 DEF HandStarted
  <2>4. chan[j] \in Servers \/ chan[j] \in {"none", "search"}
    BY <1>0
  <2> QED BY <1>0, <2>1, <2>2, <2>3, <2>4 DEF Keeps, FreedSame
<1>7. CASE Rebroadcast
  <2>1. /\ UNCHANGED <<unwatched, status>> /\ hand.x \in Channels
        /\ chan' = [chan EXCEPT ![hand.x] = "search"]
    BY <1>7 DEF Rebroadcast
  <2>2. /\ FreedSame
        /\ hand.x # j => Keeps(j)
        /\ hand.x = j => Good(j)'
    BY <1>7, RebroadcastDone
  <2> QED BY <1>0, <2>1, <2>2 DEF Keeps, FreedSame
<1>8. CASE ClearOverdue
  BY <1>0, <1>8, Unmoved DEF ClearOverdue
<1>9. CASE GiveUp
  <2>1. UNCHANGED <<chan, unwatched, status>>
    BY <1>9 DEF GiveUp
  <2>2. FreedSame /\ Keeps(j)
    BY <1>0, <1>9, GiveUpDone
  <2> QED BY <1>0, <2>1, <2>2 DEF Keeps, FreedSame
<1>10. CASE GiveUpHead
  \* The lost node leaves a deleted one.
  BY <1>10, GiveUpHeadDone
<1>11. ASSUME NEW i \in Iocs, HeartbeatUp(i), ~Crash
       PROVE  Connected(j)' \/ (chan'[j] = "search" /\ Good(j)')
  <2>1. CASE j = i
    BY ONLY <1>11, <2>1, HeartbeatUpAt, Typed, HandHeld, i \in Iocs DEF Connected
  <2>2. CASE j # i
    <3>1. chan'[j] = chan[j] /\ Keeps(j) /\ FreedSame /\ status'[j] = status[j] /\ j \notin unwatched
      BY ONLY <1>0, <1>11, <2>2, HeartbeatUpAt, Typed, HandHeld, i \in Iocs, j \in Iocs,
              j \notin unwatched'
    <3> QED BY <1>0, <3>1 DEF Keeps, FreedSame
  <2> QED BY <2>1, <2>2
<1>12. ASSUME NEW i \in Iocs, Reread(i) PROVE Connected(j)' \/ (chan'[j] = "search" /\ Good(j)')
  <2>1. /\ UNCHANGED <<chan, unwatched, pending>> /\ reading = i
        /\ status' = [status EXCEPT ![i] = "up"]
    BY <1>12 DEF Reread
  <2>2. Startup(i)
    BY DEF Started
  <2> QED BY <1>0, <2>1, <2>2, Unmoved DEF Startup
<1>13. ASSUME NEW i \in Iocs, HeartbeatDown(i)
       PROVE  Connected(j)' \/ (chan'[j] = "search" /\ Good(j)')
  <2>1. /\ UNCHANGED unwatched
        /\ chan' = [chan EXCEPT ![i] = "search"] /\ status' = [status EXCEPT ![i] = "down"]
    BY <1>13 DEF HeartbeatDown
  <2>2. /\ FreedSame
        /\ j # i => Keeps(j)
        /\ Good(i)'
    BY <1>13, HeartbeatDownDone
  <2> QED BY <1>0, <2>1, <2>2 DEF Keeps, FreedSame
<1>14. ASSUME NEW n \in Names, NameUp(n), ~Crash
       PROVE  Connected(j)' \/ (chan'[j] = "search" /\ Good(j)')
  <2>1. j \in Channels \ {n}
    BY <1>0
  <2>2. chan'[j] = chan[j] /\ Keeps(j) /\ FreedSame /\ UNCHANGED <<unwatched, status>>
    BY ONLY <1>14, <2>1, NameUpAt, Typed, HandHeld
  <2> QED BY <1>0, <2>2 DEF Keeps, FreedSame
<1>15. ASSUME NEW n \in Names, NameDown(n) PROVE Connected(j)' \/ (chan'[j] = "search" /\ Good(j)')
  <2>1. UNCHANGED <<unwatched, status>> /\ chan' = [chan EXCEPT ![n] = "none"]
    BY <1>15 DEF NameDown
  <2>2. FreedSame /\ Keeps(j)
    BY <1>0, <1>15, NameDownDone
  <2> QED BY <1>0, <2>1, <2>2 DEF Keeps, FreedSame
<1> QED
  BY <1>0, <1>1, <1>2, <1>3, <1>4, <1>5, <1>6, <1>7, <1>8, <1>9, <1>10, <1>11, <1>12,
     <1>13, <1>14, <1>15, StepCases

\* The status of one IOC.
StatusOf(j) ==
  /\ status[j] = "new" => ~Connected(j)
  /\ status[j] = "down" => ~Connected(j) \/ reading = j
  /\ status[j] = "up" => Connected(j) \/ Waiting(j)

LEMMA StatusEach == StatusFollowsHeartbeat <=> \A j \in Iocs : StatusOf(j)
BY DEF StatusFollowsHeartbeat, StatusOf, Waiting, None

LEMMA StatusStep ==
  Typed /\ HandHeld /\ Started /\ (\A j \in Iocs : StatusOf(j)) /\ [Next]_vars
    => \A j \in Iocs : StatusOf(j)'
<1> SUFFICES ASSUME Typed, HandHeld, Started, \A i \in Iocs : StatusOf(i), [Next]_vars,
                    NEW j \in Iocs
             PROVE  StatusOf(j)'
  OBVIOUS
<1> USE NamesAssumption
    DEF StatusOf, Waiting, Typed, Connected, Channels, Servers, startVars, tableVars
<1>0. Startup(j) /\ Searched(j) /\ StatusOf(j) /\ Typed /\ HandTyped /\ j \in Channels
  BY DEF Started, HandHeld
<1>1. CASE Crash
  BY <1>1 DEF Crash, Fresh
<1>2. CASE Quiet
  BY <1>0, <1>2, Unmoved DEF Quiet
<1>3. ASSUME NEW i \in Iocs, LoadList(i) PROVE StatusOf(j)'
  <2>1. /\ pending' = pending /\ chan' = chan /\ reading' = reading
        /\ status' = status \/ status' = [status EXCEPT ![i] = "gone"]
    BY <1>3 DEF LoadList
  <2> QED BY <1>0, <2>1, Unmoved
<1>4. ASSUME NEW i \in Iocs, SearchHeartbeat(i) PROVE StatusOf(j)'
  <2>1. /\ pending' = pending /\ chan' = [chan EXCEPT ![i] = "search"] /\ hand = Idle
        /\ UNCHANGED <<status, reading>> /\ i \in unwatched
    BY <1>4 DEF SearchHeartbeat
  <2>2. ~Starting
    BY <2>1 DEF Starting, Idle, At
  <2>3. Searched(i)
    BY DEF Started
  <2>4. status[i] \in {"new", "gone"}
    BY <2>1, <2>2, <2>3 DEF Searched
  <2>5. "search" \notin Servers
    OBVIOUS
  <2> QED BY <1>0, <2>1, <2>4, <2>5, Unmoved
<1>5. ASSUME NEW n \in Names, SearchName(n) PROVE StatusOf(j)'
  BY <1>0, <1>5, Unmoved DEF SearchName
<1>6. CASE AddNN
  <2>1. UNCHANGED <<chan, status, reading>>
    BY <1>6 DEF AddNN
  <2>2. /\ FreedSame
        /\ hand.x # j => Keeps(j)
        /\ hand.x = j => ~None(j)'
    BY <1>0, <1>6, AddNNDone
  <2> QED BY <1>0, <2>1, <2>2 DEF Keeps, FreedSame
<1>7. CASE Rebroadcast
  <2>1. /\ UNCHANGED <<status, reading>> /\ hand.x \in Channels
        /\ chan' = [chan EXCEPT ![hand.x] = "search"]
    BY <1>7 DEF Rebroadcast
  <2>2. /\ FreedSame
        /\ hand.x # j => Keeps(j)
        /\ hand.x = j => ~None(j)'
    BY <1>7, RebroadcastDone
  <2> QED BY <1>0, <2>1, <2>2 DEF Keeps, FreedSame
<1>8. CASE ClearOverdue
  BY <1>0, <1>8, Unmoved DEF ClearOverdue
<1>9. CASE GiveUp
  <2>1. UNCHANGED <<chan, status, reading>>
    BY <1>9 DEF GiveUp
  <2>2. FreedSame /\ Keeps(j)
    BY <1>0, <1>9, GiveUpDone
  <2> QED BY <1>0, <2>1, <2>2 DEF Keeps, FreedSame
<1>10. CASE GiveUpHead
  <2>1. UNCHANGED <<chan, status, reading>>
    BY <1>10 DEF GiveUpHead
  <2>2. FreedNodes' # {}
    BY <1>10, GiveUpHeadDone
  <2> QED BY <1>0, <2>1, <2>2
<1>11. ASSUME NEW i \in Iocs, HeartbeatUp(i), ~Crash PROVE StatusOf(j)'
  <2>1. CASE j = i
    BY ONLY <1>0, <1>11, <2>1, HeartbeatUpAt, Typed, HandHeld, i \in Iocs
       DEF StatusOf, Connected, Servers
  <2>2. CASE j # i
    BY ONLY <1>0, <1>11, <2>2, HeartbeatUpAt, Typed, HandHeld, i \in Iocs, j \in Iocs,
            NamesAssumption
       DEF StatusOf, Connected, Waiting, Keeps, FreedSame
  <2> QED BY <2>1, <2>2
<1>12. ASSUME NEW i \in Iocs, Reread(i) PROVE StatusOf(j)'
  <2>1. /\ UNCHANGED <<chan, pending>> /\ reading = i /\ reading' = NoIoc
        /\ status' = [status EXCEPT ![i] = "up"]
    BY <1>12 DEF Reread
  <2>2. Searched(i)
    BY DEF Started
  <2> QED BY <1>0, <2>1, <2>2, Unmoved DEF Searched
<1>13. ASSUME NEW i \in Iocs, HeartbeatDown(i) PROVE StatusOf(j)'
  <2>1. /\ UNCHANGED reading
        /\ chan' = [chan EXCEPT ![i] = "search"] /\ status' = [status EXCEPT ![i] = "down"]
    BY <1>13 DEF HeartbeatDown
  <2>2. /\ FreedSame
        /\ j # i => Keeps(j)
    BY <1>13, HeartbeatDownDone
  <2> QED BY <1>0, <2>1, <2>2 DEF Keeps, FreedSame
<1>14. ASSUME NEW n \in Names, NameUp(n), ~Crash PROVE StatusOf(j)'
  <2>1. j \in Channels \ {n}
    BY <1>0
  <2> QED BY ONLY <1>0, <1>14, <2>1, NameUpAt, Typed, HandHeld, j \in Iocs
          DEF StatusOf, Connected, Waiting, Keeps, FreedSame
<1>15. ASSUME NEW n \in Names, NameDown(n) PROVE StatusOf(j)'
  <2>1. UNCHANGED <<status, reading>> /\ chan' = [chan EXCEPT ![n] = "none"]
    BY <1>15 DEF NameDown
  <2>2. FreedSame /\ Keeps(j)
    BY <1>0, <1>15, NameDownDone
  <2> QED BY <1>0, <2>1, <2>2 DEF Keeps, FreedSame
<1> QED
  BY <1>0, <1>1, <1>2, <1>3, <1>4, <1>5, <1>6, <1>7, <1>8, <1>9, <1>10, <1>11, <1>12,
     <1>13, <1>14, <1>15, StepCases

\* The search for one name.
Pends(m) == chan[m] = "search" => ~None(m) \/ (hand.at = "addNN" /\ hand.x = m)

LEMMA SearchesEach == SearchesArePending <=> \A m \in Names : Pends(m)
BY DEF SearchesArePending, Pends, None

LEMMA SearchesStep ==
  Typed /\ HandHeld /\ (\A m \in Names : Pends(m)) /\ [Next]_vars => \A m \in Names : Pends(m)'
<1> SUFFICES ASSUME Typed, HandHeld, \A n \in Names : Pends(n), [Next]_vars, NEW m \in Names
             PROVE  Pends(m)'
  OBVIOUS
<1> USE NamesAssumption DEF Pends, Typed, Channels, Servers, startVars, tableVars
<1>0. Pends(m) /\ Typed /\ HandTyped /\ m \in Channels
  BY DEF HandHeld
<1>1. CASE Crash
  BY <1>1 DEF Crash, Fresh
<1>2. CASE Quiet
  BY <1>0, <1>2, Unmoved DEF Quiet, Starting
<1>3. ASSUME NEW i \in Iocs, LoadList(i) PROVE Pends(m)'
  BY <1>0, <1>3, Unmoved DEF LoadList
<1>4. ASSUME NEW i \in Iocs, SearchHeartbeat(i) PROVE Pends(m)'
  BY <1>0, <1>4, Unmoved DEF SearchHeartbeat, Idle, At
<1>5. ASSUME NEW n \in Names, SearchName(n) PROVE Pends(m)'
  BY <1>0, <1>5, Unmoved DEF SearchName, Looping, Idle, At
<1>6. CASE AddNN
  <2>1. UNCHANGED chan
    BY <1>6 DEF AddNN
  <2>2. /\ hand.x # m => Keeps(m)
        /\ hand.x = m => ~None(m)'
    BY <1>0, <1>6, AddNNDone
  <2> QED BY <1>0, <2>1, <2>2 DEF Keeps
<1>7. CASE Rebroadcast
  <2>1. chan' = [chan EXCEPT ![hand.x] = "search"] /\ hand.x \in Iocs /\ hand.at = "purge"
    BY <1>7 DEF Rebroadcast, Purging
  <2>2. Keeps(m)
    BY <1>0, <1>7, <2>1, RebroadcastDone
  <2> QED BY <1>0, <2>1, <2>2 DEF Keeps
<1>8. CASE ClearOverdue
  <2>1. chan' = [chan EXCEPT ![hand.x] = "none"] /\ hand.x \in Channels /\ hand.at = "purge"
        /\ pending' = pending
    BY <1>8 DEF ClearOverdue, Purging
  <2> QED BY <1>0, <2>1, Unmoved
<1>9. CASE GiveUp
  <2>1. UNCHANGED chan /\ hand.at = "unlink"
    BY <1>9 DEF GiveUp, Unlinking
  <2>2. /\ m # hand.x => Keeps(m)
        /\ m = hand.x => chan[m] = "none"
    BY <1>0, <1>9, GiveUpDone
  <2> QED BY <1>0, <2>1, <2>2 DEF Keeps
<1>10. CASE GiveUpHead
  <2>1. UNCHANGED chan /\ hand.at = "unlink"
    BY <1>10 DEF GiveUpHead, Unlinking
  <2>2. /\ m # hand.x => (None(m)' <=> None(m))
        /\ m = hand.x => chan[m] = "none"
    BY <1>0, <1>10, GiveUpHeadDone
  <2> QED BY <1>0, <2>1, <2>2
<1>11. ASSUME NEW i \in Iocs, HeartbeatUp(i), ~Crash PROVE Pends(m)'
  <2>1. m \in Channels \ {i}
    BY <1>0
  <2> QED BY ONLY <1>0, <1>11, <2>1, HeartbeatUpAt, Typed, HandHeld, i \in Iocs
          DEF Pends, Keeps
<1>12. ASSUME NEW i \in Iocs, Reread(i) PROVE Pends(m)'
  <2>1. UNCHANGED <<chan, pending>> /\ hand' = HandAfter(Taken(Listed(i)), NoIoc)
    BY <1>12 DEF Reread
  <2>2. hand'.at = hand.at /\ hand'.x = hand.x
    BY ONLY <1>0, <2>1, HandAfterOf
  <2> QED BY <1>0, <2>1, <2>2, Unmoved
<1>13. ASSUME NEW i \in Iocs, HeartbeatDown(i) PROVE Pends(m)'
  <2>1. /\ chan' = [chan EXCEPT ![i] = "search"]
        /\ hand' = [hand EXCEPT !.k = IF @ = 0 THEN 0 ELSE @ + 1]
    BY <1>13 DEF HeartbeatDown
  <2>2. Keeps(m)
    BY <1>0, <1>13, HeartbeatDownDone
  <2>3. hand'.at = hand.at /\ hand'.x = hand.x
    BY <1>0, <2>1 DEF HandTyped, Hands
  <2> QED BY <1>0, <2>1, <2>2, <2>3 DEF Keeps
<1>14. ASSUME NEW n \in Names, NameUp(n), ~Crash PROVE Pends(m)'
  <2>1. CASE m = n
    <3>1. chan'[m] \in Servers
      BY ONLY <1>14, <2>1, NameUpAt, Typed, HandHeld
    <3> QED BY <3>1
  <2>2. CASE m # n
    BY ONLY <1>0, <1>14, <2>2, NameUpAt, Typed, HandHeld DEF Pends, Keeps
  <2> QED BY <2>1, <2>2
<1>15. ASSUME NEW n \in Names, NameDown(n) PROVE Pends(m)'
  <2>1. chan' = [chan EXCEPT ![n] = "none"] /\ hand' = HandAfter({n}, NoIoc)
    BY <1>15 DEF NameDown
  <2>2. hand'.at = hand.at /\ hand'.x = hand.x
    BY ONLY <1>0, <2>1, HandAfterOf
  <2>3. None(m)' <=> None(m)
    BY <1>15, NameDownDone
  <2> QED BY <1>0, <2>1, <2>2, <2>3
<1> QED
  BY <1>0, <1>1, <1>2, <1>3, <1>4, <1>5, <1>6, <1>7, <1>8, <1>9, <1>10, <1>11, <1>12,
     <1>13, <1>14, <1>15, StepCases


-----------------------------------------------------------------------------
(* The tables *)

LEMMA SourcesStep == Typed /\ HandHeld /\ Sources /\ [Next]_vars => Sources'
<1> SUFFICES ASSUME Typed, HandHeld, Sources, [Next]_vars PROVE Sources'
  OBVIOUS
<1> USE NamesAssumption DEF Typed, Sources, Channels, Servers, startVars, tableVars
<1>0. HandTyped
  BY DEF HandHeld
<1>1. CASE Crash
  BY <1>1, CrashHolds
<1>2. CASE Quiet
  BY <1>2 DEF Quiet
<1>3. ASSUME NEW i \in Iocs, LoadList(i) PROVE Sources'
  <2>1. Listed(i) \in SUBSET Names /\ Listed(i) \subseteq UNION Lists /\ i \in Servers
    BY DEF Listed
  <2>2. list' \in {list, ListsAfter(Listed(i), i)} /\ chan' = chan
    BY <1>3 DEF LoadList, InstallPVNames
  <2>3. \A j \in Iocs : ListsAfter(Listed(i), i)[j] \subseteq list[j] \cup Listed(i)
    BY ONLY Typed, <2>1, InstalledTyped
  <2> QED BY <2>1, <2>2, <2>3
<1>4. ASSUME NEW i \in Iocs, SearchHeartbeat(i) PROVE Sources'
  BY <1>4 DEF SearchHeartbeat
<1>5. ASSUME NEW n \in Names, SearchName(n) PROVE Sources'
  BY <1>5 DEF SearchName
<1>6. CASE AddNN \/ GiveUp \/ GiveUpHead
  BY <1>6 DEF AddNN, GiveUp, GiveUpHead
<1>7. CASE Rebroadcast \/ ClearOverdue
  BY <1>7 DEF Rebroadcast, ClearOverdue
<1>8. ASSUME NEW i \in Iocs, HeartbeatUp(i), ~Crash PROVE Sources'
  <2>1. /\ \A n \in Names : n \in Channels \ {i}
        /\ \A n \in Channels \ {i} : chan'[n] = chan[n]
        /\ \A j \in Iocs : list'[j] \subseteq list[j]
    BY <1>8, HeartbeatUpAt
  <2> QED BY <2>1
<1>9. ASSUME NEW i \in Iocs, Reread(i) PROVE Sources'
  <2>1. Listed(i) \in SUBSET Names /\ Listed(i) \subseteq UNION Lists /\ i \in Servers
    BY DEF Listed
  <2>2. list' = ListsAfter(Listed(i), i) /\ chan' = chan
    BY <1>9 DEF Reread, InstallPVNames
  <2>3. \A j \in Iocs : ListsAfter(Listed(i), i)[j] \subseteq list[j] \cup Listed(i)
    BY ONLY Typed, <2>1, InstalledTyped
  <2> QED BY <2>1, <2>2, <2>3
<1>10. ASSUME NEW i \in Iocs, HeartbeatDown(i) PROVE Sources'
  BY <1>10 DEF HeartbeatDown
<1>11. ASSUME NEW n \in Names, NameUp(n), ~Crash PROVE Sources'
  <2>1. /\ \A m \in Channels \ {n} : chan'[m] = chan[m]
        /\ chan[n] = "search" /\ \A j \in Iocs : list'[j] \subseteq list[j]
    BY ONLY <1>11, NameUpAt, Typed, HandHeld
  <2> QED BY <2>1
<1>12. ASSUME NEW n \in Names, NameDown(n) PROVE Sources'
  BY <1>12 DEF NameDown, Connected
<1> QED
  BY <1>0, <1>1, <1>2, <1>3, <1>4, <1>5, <1>6, <1>7, <1>8, <1>9, <1>10, <1>11, <1>12,
     StepCases

\* An entry and its list.
Matched == \A i \in Iocs, n \in Names : n \in list[i] <=> table[n] = i

GoneEmpty == \A i \in Iocs : status[i] = "gone" => list[i] = {}

LEMMA TablesStep ==
  Disjoint /\ Typed /\ HandHeld /\ Started /\ Sources /\ ListsMatchTable /\ [Next]_vars
    => ListsMatchTable'
<1> SUFFICES ASSUME Disjoint, Typed, HandHeld, Started, Sources, Matched, [Next]_vars
             PROVE  Matched'
  <2>1. Disjoint /\ Typed /\ HandHeld /\ Started /\ [Next]_vars => GoneEmpty'
    BY StartupStep DEF GoneEmpty, Startup
  <2> QED BY <2>1 DEF ListsMatchTable, Matched, GoneEmpty
<1> USE NamesAssumption DEF Matched, Typed, Channels, Servers, startVars, tableVars
<1>0. HandTyped
  BY DEF HandHeld
<1>1. CASE Crash
  BY <1>1, CrashHolds DEF ListsMatchTable
<1>2. CASE Quiet
  BY <1>2 DEF Quiet
<1>3. ASSUME NEW i \in Iocs, LoadList(i) PROVE Matched'
  <2>1. Listed(i) \in SUBSET Names /\ i \in Servers
    BY DEF Listed
  <2>2. \/ UNCHANGED <<list, table>>
        \/ table' = Installed(Listed(i), i) /\ list' = ListsAfter(Listed(i), i)
    BY <1>3 DEF LoadList, InstallPVNames
  <2>3. \A j \in Iocs, n \in Names :
          n \in ListsAfter(Listed(i), i)[j] <=> Installed(Listed(i), i)[n] = j
    BY ONLY Typed, Matched, <2>1, InstalledMatches DEF Matched
  <2> QED BY ONLY Matched, <2>2, <2>3 DEF Matched
<1>4. ASSUME NEW i \in Iocs, SearchHeartbeat(i) PROVE Matched'
  BY <1>4 DEF SearchHeartbeat
<1>5. ASSUME NEW n \in Names, SearchName(n) PROVE Matched'
  BY <1>5 DEF SearchName
<1>6. CASE AddNN \/ Rebroadcast \/ ClearOverdue \/ GiveUp \/ GiveUpHead
  BY <1>6 DEF AddNN, Rebroadcast, ClearOverdue, GiveUp, GiveUpHead
<1>7. ASSUME NEW i \in Iocs, HeartbeatUp(i), ~Crash PROVE Matched'
  <2>1. \/ UNCHANGED <<list, table>>
        \/ list' = [list EXCEPT ![i] = {}] /\ table' = TableWithout(i)
    BY <1>7, HeartbeatUpDone
  <2> QED BY <2>1 DEF TableWithout
<1>8. ASSUME NEW i \in Iocs, Reread(i) PROVE Matched'
  <2>1. Listed(i) \in SUBSET Names /\ i \in Servers
    BY DEF Listed
  <2>2. table' = Installed(Listed(i), i) /\ list' = ListsAfter(Listed(i), i)
    BY <1>8 DEF Reread, InstallPVNames
  <2>3. \A j \in Iocs, n \in Names :
          n \in ListsAfter(Listed(i), i)[j] <=> Installed(Listed(i), i)[n] = j
    BY ONLY Typed, Matched, <2>1, InstalledMatches DEF Matched
  <2> QED BY ONLY <2>2, <2>3 DEF Matched
<1>9. ASSUME NEW i \in Iocs, HeartbeatDown(i) PROVE Matched'
  BY <1>9 DEF HeartbeatDown
<1>10. ASSUME NEW n \in Names, NameUp(n), ~Crash PROVE Matched'
  <2>1. {n} \in SUBSET Names /\ Gateway \in Servers
    OBVIOUS
  <2>2. table' = Installed({n}, Gateway) /\ list' = ListsAfter({n}, Gateway)
    BY <1>10, NameUpDone
  <2>3. \A j \in Iocs, m \in Names :
          m \in ListsAfter({n}, Gateway)[j] <=> Installed({n}, Gateway)[m] = j
    BY ONLY Typed, Matched, <2>1, InstalledMatches DEF Matched
  <2> QED BY ONLY <2>2, <2>3 DEF Matched
<1>11. ASSUME NEW n \in Names, NameDown(n) PROVE Matched'
  \* No file lists a name that is searched for.
  <2>1. n \in Searchable /\ \A i \in Iocs : n \notin list[i]
    BY <1>11 DEF NameDown, Connected, Disjoint, Sources
  <2>2. list' = list /\ table' = [table EXCEPT ![n] = NoIoc]
    BY <1>11 DEF NameDown
  <2> QED BY <2>1, <2>2
<1> QED
  BY <1>0, <1>1, <1>2, <1>3, <1>4, <1>5, <1>6, <1>7, <1>8, <1>9, <1>10, <1>11, StepCases

\* A channel of a name is connected only while the name is in the table, which
\* no file disputes.
NamesHeld == \A n \in Names : Connected(n) => table[n] = Gateway

LEMMA NamesHeldStep ==
  Disjoint /\ Typed /\ HandHeld /\ Sources /\ ListsMatchTable /\ NamesHeld /\ [Next]_vars
    => NamesHeld'
<1> SUFFICES ASSUME Disjoint, Typed, HandHeld, Sources, ListsMatchTable, NamesHeld, [Next]_vars,
                    NEW m \in Names, Connected(m)'
             PROVE  table'[m] = Gateway
  BY DEF NamesHeld
<1> USE NamesAssumption DEF Disjoint, Typed, Sources, NamesHeld, Connected, Channels, Servers,
        startVars, tableVars
<1>0. HandTyped
  BY DEF HandHeld
<1>1. CASE Crash
  BY <1>1 DEF Crash, Fresh
<1>2. CASE Quiet
  BY <1>2 DEF Quiet
<1>3. ASSUME NEW i \in Iocs, table[m] = Gateway PROVE Installed(Listed(i), i)[m] = Gateway
  BY <1>3 DEF Installed, Taken
<1>4. ASSUME NEW i \in Iocs, LoadList(i) PROVE table'[m] = Gateway
  BY <1>3, <1>4 DEF LoadList, InstallPVNames
<1>5. ASSUME NEW i \in Iocs, SearchHeartbeat(i) PROVE table'[m] = Gateway
  BY <1>5 DEF SearchHeartbeat
<1>6. ASSUME NEW n \in Names, SearchName(n) PROVE table'[m] = Gateway
  BY <1>6 DEF SearchName
<1>7. CASE AddNN \/ GiveUp \/ GiveUpHead
  BY <1>7 DEF AddNN, GiveUp, GiveUpHead
<1>8. CASE Rebroadcast \/ ClearOverdue
  BY <1>8 DEF Rebroadcast, ClearOverdue
<1>9. ASSUME NEW i \in Iocs, HeartbeatUp(i), ~Crash PROVE table'[m] = Gateway
  <2>1. chan' = [chan EXCEPT ![i] = i] /\ (table' = table \/ table' = TableWithout(i))
    BY <1>9, HeartbeatUpDone
  <2>2. chan'[m] = chan[m]
    BY <2>1
  <2>3. table[m] = Gateway => TableWithout(i)[m] = Gateway
    BY DEF TableWithout
  <2> QED BY <2>1, <2>2, <2>3
<1>10. ASSUME NEW i \in Iocs, Reread(i) PROVE table'[m] = Gateway
  BY <1>3, <1>10 DEF Reread, InstallPVNames
<1>11. ASSUME NEW i \in Iocs, HeartbeatDown(i) PROVE table'[m] = Gateway
  BY <1>11 DEF HeartbeatDown
<1>12. ASSUME NEW n \in Names, NameUp(n), ~Crash PROVE table'[m] = Gateway
  <2>1. /\ table' = Installed({n}, Gateway) /\ chan[n] = "search"
        /\ \E s \in Servers : chan' = [chan EXCEPT ![n] = s]
    BY <1>12, NameUpDone
  <2>2. CASE m = n
    <3>1. n \in Searchable
      BY <2>1
    <3>2. \A j \in Iocs : n \notin list[j]
      BY <3>1
    <3>3. table[n] \notin Iocs
      BY <3>2 DEF ListsMatchTable
    <3> QED BY <2>1, <2>2, <3>3 DEF Installed, Taken
  <2>3. CASE m # n
    BY <2>1, <2>3 DEF Installed, Taken
  <2> QED BY <2>2, <2>3
<1>13. ASSUME NEW n \in Names, NameDown(n) PROVE table'[m] = Gateway
  BY <1>13 DEF NameDown
<1> QED
  BY <1>0, <1>1, <1>2, <1>4, <1>5, <1>6, <1>7, <1>8, <1>9, <1>10, <1>11, <1>12, <1>13,
     StepCases

-----------------------------------------------------------------------------
(* Theorems *)

LEMMA InitHolds ==
  Init => /\ Typed /\ HandHeld /\ Started /\ Sources /\ ListsMatchTable /\ NamesHeld
          /\ HeartbeatWatched /\ StatusFollowsHeartbeat /\ SearchesArePending
<1> SUFFICES ASSUME Init
             PROVE  /\ Typed /\ HandHeld /\ Started /\ Sources /\ ListsMatchTable /\ NamesHeld
                    /\ HeartbeatWatched /\ StatusFollowsHeartbeat /\ SearchesArePending
  OBVIOUS
<1> USE NamesAssumption DEF Init, Channels, Servers, Idle, At, Connected
<1>1. <<>> \in Seq(Nodes) /\ DOMAIN <<>> = {}
  OBVIOUS
<1>2. Typed /\ HandHeld
  BY <1>1 DEF Typed, HandHeld, HandTyped, NodeHeld, Hands, Steps, Holding
<1>3. \A x : None(x)
  BY <1>1 DEF None, NodesOf
<1>4. Started
  BY <1>3 DEF Started, Startup, Searched, HandStarted, Starting
<1>5. Sources /\ ListsMatchTable /\ NamesHeld
  BY DEF Sources, ListsMatchTable, NamesHeld
<1>6. HeartbeatWatched /\ StatusFollowsHeartbeat /\ SearchesArePending
  BY DEF HeartbeatWatched, HeartbeatPending, StatusFollowsHeartbeat, SearchesArePending
<1> QED BY <1>2, <1>4, <1>5, <1>6

\* The state of the server is well formed, a search has come after startup and
\* only for IOCs whose file has a heartbeat, whatever the two threads do.
THEOREM StartedHolds == Spec => [](Typed /\ HandHeld /\ Started)
<1>1. Typed /\ HandHeld /\ Started /\ [Next]_vars => (Typed /\ HandHeld /\ Started)'
  <2>1. Typed /\ HandHeld /\ Started /\ [Next]_vars => Started'
    BY StartupStep, SearchedStep, HandStartedStep DEF Started
  <2> QED BY <2>1, TypedStep, HandStep
<1> QED BY InitHolds, <1>1, PTL DEF Spec

\* The server's variables have their types; the node in hand is on the list
\* unless a callback deleted it.
THEOREM NameServerTypeCorrect == Spec => []TypeOK
<1>1. Typed /\ HandHeld => TypeOK
  BY DEF Typed, Nodes, HandHeld, HandTyped, NodeHeld, Hands, Steps, Holding, TypeOK
<1> QED BY StartedHolds, <1>1, PTL

\* As long as no deleted node is on the list, every IOC's heartbeat is watched:
\* connected, or searched for with a node that the sweep will rebroadcast.  With
\* the callbacks that add a node in front of the one the sweep removes, it is the
\* strongest that holds: the sweep loses a heartbeat only by taking its node off
\* instead of the deleted one (nameserver/main.cc:458-459).
THEOREM HeartbeatsStayWatched == Spec => []HeartbeatWatched
BY InitHolds, StartedHolds, WatchedStep, PTL DEF Spec

\* The status of an IOC follows its heartbeat, lost or not.
THEOREM StatusHolds == Spec => []StatusFollowsHeartbeat
<1>1. Typed /\ HandHeld /\ Started /\ StatusFollowsHeartbeat /\ [Next]_vars
        => StatusFollowsHeartbeat'
  <2>1. StatusFollowsHeartbeat' <=> \A j \in Iocs : StatusOf(j)'
    BY DEF StatusFollowsHeartbeat, StatusOf, Waiting, None
  <2> QED BY <2>1, StatusEach, StatusStep
<1> QED BY InitHolds, StartedHolds, <1>1, PTL DEF Spec

\* A search for a name stays on the pending list until it is answered or given
\* up, also when the sweep takes another node off the list than its own.
THEOREM SearchesStayPending == Spec => []SearchesArePending
<1>1. Typed /\ HandHeld /\ SearchesArePending /\ [Next]_vars => SearchesArePending'
  <2>1. SearchesArePending' <=> \A m \in Names : Pends(m)'
    BY DEF SearchesArePending, Pends, None
  <2> QED BY <2>1, SearchesEach, SearchesStep
<1> QED BY InitHolds, StartedHolds, <1>1, PTL DEF Spec

\* Names come on lists from files only, searches from Searchable only.
LEMMA SourcesHold == Spec => []Sources
BY InitHolds, StartedHolds, SourcesStep, PTL DEF Spec

\* While nothing is searched for that a file lists, the lists of the IOCs and
\* the hash table agree, also when a name moves from an IOC that is down.
\* (ns_listed_search shows that the condition is needed.)
THEOREM TablesHold == Disjoint => (Spec => []ListsMatchTable)
<1> SUFFICES ASSUME Disjoint PROVE Spec => []ListsMatchTable
  OBVIOUS
<1>1. Typed /\ HandHeld /\ Started /\ Sources /\ ListsMatchTable /\ [Next]_vars
        => ListsMatchTable'
  BY TablesStep
<1> QED BY InitHolds, StartedHolds, SourcesHold, <1>1, PTL DEF Spec

\* Under the same condition a name whose channel is connected is in the table.
THEOREM MonitoredNamesStay == Disjoint => (Spec => []MonitoredNamesKnown)
<1> SUFFICES ASSUME Disjoint PROVE Spec => []MonitoredNamesKnown
  OBVIOUS
<1>1. Typed /\ HandHeld /\ Sources /\ ListsMatchTable /\ NamesHeld /\ [Next]_vars => NamesHeld'
  BY NamesHeldStep
<1>2. NamesHeld => MonitoredNamesKnown
  BY NamesAssumption DEF NamesHeld, MonitoredNamesKnown
<1>3. Spec => []ListsMatchTable
  BY TablesHold
<1> QED BY InitHolds, StartedHolds, SourcesHold, <1>1, <1>2, <1>3, PTL DEF Spec

==============================================================================
