--------------------------- MODULE GatewayAs_proofs ---------------------------
(***************************************************************************)
(* Proofs about GatewayAs, for any names, hosts and lines and files of any *)
(* length.  The lists are computed line after line; an induction over the  *)
(* lines is a set of line numbers that holds 0 and with each number the    *)
(* next, so that the least number outside of it is none.                   *)
(***************************************************************************)
EXTENDS GatewayAs, WellFoundedInduction, SequenceTheorems, TLAPS

-----------------------------------------------------------------------------
(* Numbers *)

LEMMA LeastNatural ==
  ASSUME NEW S \in SUBSET Nat, S # {}
  PROVE  \E m \in S : \A k \in S : m <= k
<1>1. PICK m \in S : \A k \in S : ~(<<k, m>> \in OpToRel(<, Nat))
  BY NatLessThanWellFounded, WFMin
<1> SUFFICES ASSUME NEW k \in S PROVE m <= k
  OBVIOUS
<1>2. k < m => <<k, m>> \in OpToRel(<, Nat)
  BY DEF OpToRel
<1>3. ~(k < m)
  BY <1>1, <1>2
<1> QED BY <1>3

LEMMA GreatestNatural ==
  ASSUME NEW S \in SUBSET Nat, S # {}, NEW n \in Nat, \A k \in S : k <= n
  PROVE  \E m \in S : \A k \in S : k <= m
<1> DEFINE T == {b \in Nat : \A k \in S : k <= b}
<1>1. PICK b \in T : \A k \in T : b <= k
  BY LeastNatural, n \in T
<1>2. b \in S
  <2>1. CASE b = 0
    <3>1. PICK k \in S : TRUE
      OBVIOUS
    <3>2. k = b
      BY <2>1, <1>1, k <= b
    <3> QED BY <3>2
  <2>2. CASE b # 0 /\ b \notin S
    <3>1. b - 1 \in T
      BY <2>2, <1>1
    <3> QED BY <3>1, <1>1
  <2> QED BY <2>1, <2>2
<1> QED BY <1>1, <1>2

LEMMA NumbersUpTo ==
  ASSUME NEW n \in Nat, NEW S, 0 \in S,
         \A k \in 0..n : k \in S /\ k < n => k + 1 \in S
  PROVE  \A k \in 0..n : k \in S
<1> DEFINE T == {k \in 0..n : k \notin S}
<1> SUFFICES ASSUME T # {} PROVE FALSE
  OBVIOUS
<1>1. PICK m \in T : \A k \in T : m <= k
  <2>1. T \in SUBSET Nat
    OBVIOUS
  <2> HIDE DEF T
  <2> QED BY <2>1, LeastNatural
<1>2. m # 0 /\ m - 1 \in 0..n /\ m - 1 \notin T
  BY <1>1
<1>3. m \in S
  BY <1>2
<1> QED BY <1>1, <1>3

LEMMA MinIs ==
  ASSUME NEW I \in SUBSET Nat, NEW m \in I, \A k \in I : m <= k
  PROVE  Min(I) = m
<1>1. Min(I) \in I /\ \A k \in I : Min(I) <= k
  BY DEF Min
<1>2. Min(I) \in Nat /\ m \in Nat /\ Min(I) <= m /\ m <= Min(I)
  BY <1>1
<1> QED BY <1>2

LEMMA MaxIs ==
  ASSUME NEW I \in SUBSET Nat, NEW m \in I, \A k \in I : k <= m
  PROVE  Max(I) = m
<1>1. Max(I) \in I /\ \A k \in I : k <= Max(I)
  BY DEF Max
<1>2. Max(I) \in Nat /\ m \in Nat /\ m <= Max(I) /\ Max(I) <= m
  BY <1>1
<1> QED BY <1>2
-----------------------------------------------------------------------------
(* Reading a file *)

\* The recursion over the lines of a file has a solution, and ListsOf is one.
LEMMA ListsOfDef ==
  ASSUME NEW f \in Seq(Lines), NEW lev
  PROVE  ListsOf(f, lev) =
           [k \in 0..Len(f) |-> IF k = 0 THEN Cleared(lev)
                                ELSE ReadLine(ListsOf(f, lev)[k - 1], f[k])]
<1> DEFINE Fits(g, n) ==
      g = [k \in 0..n |-> IF k = 0 THEN Cleared(lev) ELSE ReadLine(g[k - 1], f[k])]
    S == {n \in 0..Len(f) : \E g : Fits(g, n)}
<1>0. Len(f) \in Nat
  OBVIOUS
<1>1. 0 \in S
  <2> DEFINE g == [k \in 0..0 |-> Cleared(lev)]
  <2>1. \A k \in 0..0 :
          g[k] = IF k = 0 THEN Cleared(lev) ELSE ReadLine(g[k - 1], f[k])
    OBVIOUS
  <2>2. Fits(g, 0)
    BY <2>1
  <2> HIDE DEF Fits
  <2> QED BY <2>2, <1>0
<1>2. ASSUME NEW n \in 0..Len(f), n \in S, n < Len(f)
      PROVE  n + 1 \in S
  <2>1. PICK g : Fits(g, n)
    BY <1>2
  <2> DEFINE h == [k \in 0..(n + 1) |->
                     IF k = n + 1 THEN ReadLine(g[n], f[n + 1]) ELSE g[k]]
  <2>2. ASSUME NEW k \in 0..(n + 1)
        PROVE  h[k] = IF k = 0 THEN Cleared(lev) ELSE ReadLine(h[k - 1], f[k])
    <3>1. CASE k = n + 1
      <4>1. h[k] = ReadLine(g[n], f[n + 1]) /\ h[k - 1] = g[n]
        BY <3>1
      <4> QED BY <4>1, <3>1
    <3>2. CASE k # n + 1 /\ k # 0
      <4>1. k \in 0..n /\ k - 1 \in 0..(n + 1) /\ k - 1 # n + 1
        BY <3>2
      <4>2. h[k] = g[k] /\ h[k - 1] = g[k - 1]
        BY <4>1, <3>2
      <4>3. g[k] = ReadLine(g[k - 1], f[k])
        BY <2>1, <4>1, <3>2
      <4> QED BY <4>2, <4>3, <3>2
    <3>3. CASE k = 0
      BY <3>3, <2>1
    <3> QED BY <3>1, <3>2, <3>3
  <2>3. Fits(h, n + 1)
    BY <2>2
  <2>4. n + 1 \in 0..Len(f)
    BY <1>2, <1>0
  <2> HIDE DEF Fits, h
  <2> QED BY <2>3, <2>4
<1>3. Len(f) \in S
  <2> HIDE DEF S
  <2>1. \A k \in 0..Len(f) : k \in S /\ k < Len(f) => k + 1 \in S
    BY <1>2
  <2>2. \A k \in 0..Len(f) : k \in S
    BY ONLY <1>0, <1>1, <2>1, NumbersUpTo
  <2> QED BY <2>2, <1>0
<1>4. ListsOf(f, lev) = CHOOSE g : Fits(g, Len(f))
  BY Zenon DEF ListsOf
<1>5. Fits(ListsOf(f, lev), Len(f))
  <2> HIDE DEF Fits
  <2>1. \E g : Fits(g, Len(f))
    BY <1>3
  <2> QED BY <2>1, <1>4
<1> QED BY <1>5

-----------------------------------------------------------------------------
(* One line *)

Entries ==
  [pattern : SUBSET Names, alias : Names \cup {NoName},
   group : {"DEFAULT"} \cup STRING \cup Remarks, level : Levels]

Lists ==
  [allow : Seq(Entries), deny : Seq(SUBSET Names),
   from : [Hosts \cup Remarks -> Seq(SUBSET Names)], used : BOOLEAN,
   order : {"allow-deny", "deny-allow"}, lev : Levels]

\* To add an element at the front moves the others by one.
LEMMA Prepended ==
  ASSUME NEW S, NEW s \in Seq(S), NEW x \in S
  PROVE  /\ <<x>> \o s \in Seq(S)
         /\ Len(<<x>> \o s) = Len(s) + 1
         /\ (<<x>> \o s)[1] = x
         /\ \A i \in 1..Len(s) : (<<x>> \o s)[i + 1] = s[i]
  OBVIOUS

\* What is behind the command is words.
LEMMA BehindType ==
  ASSUME NEW l \in Lines, l.cmd \in {"ALLOW", "ALIAS"}
  PROVE  Behind(l) \in Seq(STRING \cup Remarks)
<1>1. l.words \in Seq(STRING) /\ l.comment \in Seq(Remarks)
  BY LinesAssumption
<1>2. l.words \in Seq(STRING \cup Remarks) /\ l.comment \in Seq(STRING \cup Remarks)
  <2> DEFINE W == STRING
  <2> HIDE DEF W
  <2>1. \A s \in Seq(W) : s \in Seq(W \cup Remarks)
    OBVIOUS
  <2>2. \A s \in Seq(Remarks) : s \in Seq(W \cup Remarks)
    OBVIOUS
  <2> QED BY <1>1, <2>1, <2>2 DEF W
<1> QED BY <1>2 DEF Behind

LEMMA LevelAfterType ==
  ASSUME NEW l \in Lines, l.cmd \in {"ALLOW", "ALIAS"}, NEW lev \in Levels
  PROVE  LevelAfter(l, lev) \in Levels
BY DEF LevelAfter, Levels

LEMMA GroupAfterType ==
  ASSUME NEW l \in Lines, l.cmd \in {"ALLOW", "ALIAS"}
  PROVE  GroupAfter(l) \in {"DEFAULT"} \cup STRING \cup Remarks
<1>1. CASE Behind(l) = <<>>
  BY <1>1 DEF GroupAfter
<1>2. CASE Behind(l) # <<>>
  <2> DEFINE b == Behind(l)
             W == STRING \cup Remarks
  <2>1. b \in Seq(W) /\ b # <<>>
    BY <1>2, BehindType
  <2> HIDE DEF b, W
  <2>2. b[1] \in W
    BY <2>1
  <2> QED BY <1>2, <2>2 DEF GroupAfter, b, W
<1> QED BY <1>1, <1>2

LEMMA HostsGivenType ==
  ASSUME NEW l \in Lines, l.cmd = "DENY"
  PROVE  HostsGiven(l) \subseteq Hosts \cup Remarks
<1>1. l.hosts \subseteq Hosts /\ l.comment \in Seq(Remarks)
  BY LinesAssumption
<1>2. ToSet(l.comment) \subseteq Remarks
  <2> DEFINE c == l.comment
  <2>1. c \in Seq(Remarks)
    BY <1>1
  <2> HIDE DEF c
  <2>2. {c[i] : i \in DOMAIN c} \subseteq Remarks
    BY <2>1
  <2> QED BY <2>2 DEF ToSet, c
<1> QED BY <1>1, <1>2 DEF HostsGiven

LEMMA EntryType ==
  ASSUME NEW l \in Lines, l.cmd \in {"ALLOW", "ALIAS"}, NEW lev \in Levels
  PROVE  EntryAfter(l, lev) \in Entries
<1>1. l.pattern \in SUBSET Names /\ l.alias \in Names \cup {NoName}
  BY LinesAssumption
<1> QED BY <1>1, LevelAfterType, GroupAfterType DEF EntryAfter, Entry, Entries

\* What a line does to each of the lists.
LEMMA ReadLineFields ==
  ASSUME NEW a \in Lists, NEW l \in Lines
  PROVE  LET r == ReadLine(a, l)
             allows == l.cmd \in {"ALLOW", "ALIAS"}
         IN /\ r.allow = IF allows THEN <<EntryAfter(l, a.lev)>> \o a.allow
                                   ELSE a.allow
            /\ r.lev = IF allows THEN LevelAfter(l, a.lev) ELSE a.lev
            /\ r.deny = IF l.cmd = "DENY" /\ HostsGiven(l) = {}
                        THEN <<l.pattern>> \o a.deny ELSE a.deny
            /\ r.from = [h \in Hosts \cup Remarks |->
                           IF l.cmd = "DENY" /\ h \in HostsGiven(l)
                           THEN <<l.pattern>> \o a.from[h] ELSE a.from[h]]
            /\ r.used = (IF l.cmd = "DENY" /\ HostsGiven(l) # {} THEN TRUE ELSE a.used)
            /\ r.order = (IF l.cmd = "ORDER" THEN l.order ELSE a.order)
<1>0. l.cmd \in {"ORDER", "DENY", "ALLOW", "ALIAS"}
  BY LinesAssumption
<1>1. a = [allow |-> a.allow, deny |-> a.deny, from |-> a.from, used |-> a.used,
           order |-> a.order, lev |-> a.lev]
  BY DEF Lists
<1>2. DOMAIN a.from = Hosts \cup Remarks /\ a.used \in BOOLEAN
  BY DEF Lists
<1>3. CASE l.cmd = "ORDER"
  <2>1. ReadLine(a, l) = [a EXCEPT !.order = l.order]
    BY <1>3 DEF ReadLine, ReadOrder
  <2>2. a.from = [h \in Hosts \cup Remarks |-> a.from[h]]
    BY DEF Lists
  <2>3. ReadLine(a, l) = [allow |-> a.allow, deny |-> a.deny, from |-> a.from,
                          used |-> a.used, order |-> l.order, lev |-> a.lev]
    BY <2>1, <1>1
  <2>4. \A h \in Hosts \cup Remarks : ~(l.cmd = "DENY" /\ h \in HostsGiven(l))
    BY <1>3
  <2>5. ReadLine(a, l).from = [h \in Hosts \cup Remarks |->
                                 IF l.cmd = "DENY" /\ h \in HostsGiven(l)
                                 THEN <<l.pattern>> \o a.from[h] ELSE a.from[h]]
    BY <2>2, <2>3, <2>4
  <2> QED BY <2>3, <2>5, <1>2, <1>3
<1>4. CASE l.cmd = "DENY" /\ HostsGiven(l) = {}
  <2>1. ReadLine(a, l) = [a EXCEPT !.deny = <<l.pattern>> \o @]
    BY <1>4 DEF ReadLine, ReadDeny
  <2>2. a.from = [h \in Hosts \cup Remarks |-> a.from[h]]
    BY DEF Lists
  <2>3. ReadLine(a, l) = [allow |-> a.allow, deny |-> <<l.pattern>> \o a.deny, from |-> a.from,
                          used |-> a.used, order |-> a.order, lev |-> a.lev]
    BY <2>1, <1>1
  <2>4. \A h \in Hosts \cup Remarks : ~(l.cmd = "DENY" /\ h \in HostsGiven(l))
    BY <1>4
  <2>5. ReadLine(a, l).from = [h \in Hosts \cup Remarks |->
                                 IF l.cmd = "DENY" /\ h \in HostsGiven(l)
                                 THEN <<l.pattern>> \o a.from[h] ELSE a.from[h]]
    BY <2>2, <2>3, <2>4
  <2> QED BY <2>3, <2>5, <1>2, <1>4
<1>5. CASE l.cmd = "DENY" /\ HostsGiven(l) # {}
  <2>1. ReadLine(a, l) =
          [a EXCEPT !.used = TRUE,
             !.from = [h \in DOMAIN @ |-> IF h \in HostsGiven(l)
                                          THEN <<l.pattern>> \o @[h] ELSE @[h]]]
    BY <1>5 DEF ReadLine, ReadDeny
  <2>3. ReadLine(a, l) = [allow |-> a.allow, deny |-> a.deny, from |-> [h \in Hosts \cup Remarks |->
                                     IF h \in HostsGiven(l)
                                     THEN <<l.pattern>> \o a.from[h] ELSE a.from[h]],
                          used |-> TRUE, order |-> a.order, lev |-> a.lev]
    BY <2>1, <1>1, <1>2
  <2>5. ReadLine(a, l).from = [h \in Hosts \cup Remarks |->
                                 IF l.cmd = "DENY" /\ h \in HostsGiven(l)
                                 THEN <<l.pattern>> \o a.from[h] ELSE a.from[h]]
    BY <2>3, <1>5
  <2> QED BY <2>3, <2>5, <1>2, <1>5
<1>6. CASE l.cmd \in {"ALLOW", "ALIAS"}
  <2>1. ReadLine(a, l) = ReadAllow(a, l)
    BY <1>6 DEF ReadLine
  <2>6. ReadLine(a, l) =
          [a EXCEPT !.lev = LevelAfter(l, a.lev),
             !.allow = <<EntryAfter(l, a.lev)>> \o @]
    BY <2>1 DEF ReadAllow
  <2>2. a.from = [h \in Hosts \cup Remarks |-> a.from[h]]
    BY DEF Lists
  <2>3. ReadLine(a, l) = [allow |-> <<EntryAfter(l, a.lev)>> \o a.allow, deny |-> a.deny, from |-> a.from,
                          used |-> a.used, order |-> a.order, lev |-> LevelAfter(l, a.lev)]
    BY <2>6, <1>1
  <2>4. \A h \in Hosts \cup Remarks : ~(l.cmd = "DENY" /\ h \in HostsGiven(l))
    BY <1>6
  <2>5. ReadLine(a, l).from = [h \in Hosts \cup Remarks |->
                                 IF l.cmd = "DENY" /\ h \in HostsGiven(l)
                                 THEN <<l.pattern>> \o a.from[h] ELSE a.from[h]]
    BY <2>2, <2>3, <2>4
  <2>7. l.cmd # "DENY" /\ l.cmd # "ORDER"
    BY <1>6
  <2>8. ReadLine(a, l).allow = <<EntryAfter(l, a.lev)>> \o a.allow
        /\ ReadLine(a, l).deny = a.deny /\ ReadLine(a, l).used = a.used
        /\ ReadLine(a, l).order = a.order
        /\ ReadLine(a, l).lev = LevelAfter(l, a.lev)
    BY <2>3
  <2> QED BY ONLY <2>5, <2>7, <2>8, <1>6, Zenon
<1>7. \/ l.cmd = "ORDER"
      \/ l.cmd = "DENY" /\ HostsGiven(l) = {}
      \/ l.cmd = "DENY" /\ HostsGiven(l) # {}
      \/ l.cmd \in {"ALLOW", "ALIAS"}
  BY <1>0
<1> QED BY ONLY <1>3, <1>4, <1>5, <1>6, <1>7, Zenon

\* The lists stay lists of patterns and entries.
LEMMA ReadLineType ==
  ASSUME NEW a \in Lists, NEW l \in Lines
  PROVE  ReadLine(a, l) \in Lists
<1> DEFINE r == ReadLine(a, l)
<1>0. l.cmd \in {"ORDER", "DENY", "ALLOW", "ALIAS"}
  BY LinesAssumption
<1>1. r.allow \in Seq(Entries) /\ r.lev \in Levels
  <2>1. CASE l.cmd \in {"ALLOW", "ALIAS"}
    <3>1. a.lev \in Levels /\ LevelAfter(l, a.lev) \in Levels
      BY <2>1, LevelAfterType DEF Lists
    <3>2. EntryAfter(l, a.lev) \in Entries
      BY <3>1, <2>1, EntryType
    <3>3. a.allow \in Seq(Entries)
      BY DEF Lists
    <3>4. r.allow = <<EntryAfter(l, a.lev)>> \o a.allow
          /\ r.lev = LevelAfter(l, a.lev)
      BY <2>1, ReadLineFields
    <3> QED BY <3>1, <3>2, <3>3, <3>4, Prepended
  <2>2. CASE ~(l.cmd \in {"ALLOW", "ALIAS"})
    <3>1. r.allow = a.allow /\ r.lev = a.lev
      BY <2>2, ReadLineFields
    <3> QED BY <3>1 DEF Lists
  <2> QED BY <2>1, <2>2
<1>2. r.deny \in Seq(SUBSET Names)
  <2>1. a.deny \in Seq(SUBSET Names)
    BY DEF Lists
  <2>2. l.cmd = "DENY" => l.pattern \in SUBSET Names
    BY LinesAssumption
  <2>3. r.deny = IF l.cmd = "DENY" /\ HostsGiven(l) = {}
                 THEN <<l.pattern>> \o a.deny ELSE a.deny
    BY ReadLineFields
  <2>4. l.cmd = "DENY" => <<l.pattern>> \o a.deny \in Seq(SUBSET Names)
    BY <2>1, <2>2, Prepended
  <2> HIDE DEF r
  <2> QED BY <2>1, <2>3, <2>4
<1>3. r.from \in [Hosts \cup Remarks -> Seq(SUBSET Names)]
  <2>2. l.cmd = "DENY" => l.pattern \in SUBSET Names
    BY LinesAssumption
  <2>3. r.from = [h \in Hosts \cup Remarks |->
                    IF l.cmd = "DENY" /\ h \in HostsGiven(l)
                    THEN <<l.pattern>> \o a.from[h] ELSE a.from[h]]
    BY ReadLineFields
  <2>4. ASSUME NEW h \in Hosts \cup Remarks
        PROVE  (IF l.cmd = "DENY" /\ h \in HostsGiven(l)
                THEN <<l.pattern>> \o a.from[h] ELSE a.from[h]) \in Seq(SUBSET Names)
    <3>1. a.from[h] \in Seq(SUBSET Names)
      BY DEF Lists
    <3> QED BY <3>1, <2>2, Prepended
  <2> DEFINE F(h) == IF l.cmd = "DENY" /\ h \in HostsGiven(l)
                     THEN <<l.pattern>> \o a.from[h] ELSE a.from[h]
  <2>5. r.from = [h \in Hosts \cup Remarks |-> F(h)]
    BY <2>3
  <2>6. \A h \in Hosts \cup Remarks : F(h) \in Seq(SUBSET Names)
    BY <2>4
  <2> HIDE DEF F, r
  <2> QED BY <2>5, <2>6
<1>4. r.used \in BOOLEAN
  <2>1. r.used = (IF l.cmd = "DENY" /\ HostsGiven(l) # {} THEN TRUE ELSE a.used)
    BY ReadLineFields
  <2> QED BY <2>1 DEF Lists
<1>5. r.order \in {"allow-deny", "deny-allow"}
  <2>1. a.order \in {"allow-deny", "deny-allow"}
    BY DEF Lists
  <2>2. r.order = (IF l.cmd = "ORDER" THEN l.order ELSE a.order)
    BY ReadLineFields
  <2> QED BY <2>1, <2>2, LinesAssumption
<1>6. r = [allow |-> r.allow, deny |-> r.deny, from |-> r.from, used |-> r.used,
           order |-> r.order, lev |-> r.lev]
  <2>1. a = [allow |-> a.allow, deny |-> a.deny, from |-> a.from, used |-> a.used,
             order |-> a.order, lev |-> a.lev]
    BY DEF Lists
  <2>2. r = CASE l.cmd = "ORDER" -> ReadOrder(a, l)
              [] l.cmd = "DENY"  -> ReadDeny(a, l)
              [] l.cmd \in {"ALLOW", "ALIAS"} -> ReadAllow(a, l)
    BY DEF ReadLine
  <2> HIDE DEF r
  <2>3. CASE l.cmd = "ORDER"
    BY <2>1, <2>2, <2>3 DEF ReadOrder
  <2>4. CASE l.cmd = "DENY"
    BY <2>1, <2>2, <2>4 DEF ReadDeny
  <2>5. CASE l.cmd \in {"ALLOW", "ALIAS"}
    BY <2>1, <2>2, <2>5 DEF ReadAllow
  <2> QED BY <1>0, <2>3, <2>4, <2>5
<1>7. r \in Lists
  <2> HIDE DEF r
  <2> QED BY <1>1, <1>2, <1>3, <1>4, <1>5, <1>6 DEF Lists
<1> QED BY <1>7

-----------------------------------------------------------------------------
(* All lines of a file *)

LEMMA ListsStep ==
  ASSUME NEW f \in Seq(Lines), NEW lev
  PROVE  /\ ListsOf(f, lev)[0] = Cleared(lev)
         /\ \A k \in 0..Len(f) : k < Len(f) =>
              ListsOf(f, lev)[k + 1] = ReadLine(ListsOf(f, lev)[k], f[k + 1])
<1> DEFINE L == ListsOf(f, lev)
<1>1. L = [k \in 0..Len(f) |-> IF k = 0 THEN Cleared(lev) ELSE ReadLine(L[k - 1], f[k])]
  BY ListsOfDef
<1>2. \A k \in 0..Len(f) : L[k] = IF k = 0 THEN Cleared(lev) ELSE ReadLine(L[k - 1], f[k])
  BY <1>1
<1>3. Len(f) \in Nat
  OBVIOUS
<1> HIDE DEF L
<1>4. L[0] = Cleared(lev)
  BY <1>2, <1>3
<1>5. ASSUME NEW k \in 0..Len(f), k < Len(f)
      PROVE  L[k + 1] = ReadLine(L[k], f[k + 1])
  <2>1. k + 1 \in 0..Len(f) /\ k + 1 # 0 /\ (k + 1) - 1 = k
    BY <1>3, <1>5
  <2> QED BY <1>2, <2>1
<1> QED BY <1>4, <1>5 DEF L

LEMMA ListsType ==
  ASSUME NEW f \in Seq(Lines), NEW lev \in Levels
  PROVE  \A k \in 0..Len(f) : ListsOf(f, lev)[k] \in Lists
<1> DEFINE L == ListsOf(f, lev)
           S == {k \in 0..Len(f) : L[k] \in Lists}
<1>1. Len(f) \in Nat
  OBVIOUS
<1>2. Cleared(lev) \in Lists
  BY DEF Cleared, Lists
<1>3. 0 \in S
  BY <1>1, <1>2, ListsStep
<1>4. ASSUME NEW k \in 0..Len(f), k \in S /\ k < Len(f)
      PROVE  k + 1 \in S
  <2>1. k + 1 \in 0..Len(f) /\ f[k + 1] \in Lines
    BY <1>1, <1>4
  <2>2. L[k] \in Lists /\ L[k + 1] = ReadLine(L[k], f[k + 1])
    BY <1>4, ListsStep
  <2>3. L[k + 1] \in Lists
    BY <2>1, <2>2, ReadLineType
  <2> HIDE DEF L
  <2> QED BY <2>1, <2>3
<1>5. \A k \in 0..Len(f) : k \in S
  <2> HIDE DEF S
  <2> QED BY <1>1, <1>3, <1>4, NumbersUpTo
<1> QED BY <1>5

LEMMA FileType ==
  ASSUME NEW f \in Files
  PROVE  f \in Seq(Lines) /\ Len(f) \in Nat
<1>1. PICK m \in 0..MaxLines : f \in [1..m -> Lines]
  BY DEF Files, SeqOf
<1>2. m \in Nat
  BY AsAssumption
<1> QED BY <1>1, <1>2

\* DENY lines without hosts, and with.
GivesDeny(l, n) == l.cmd = "DENY" /\ n \in l.pattern /\ HostsGiven(l) = {}
GivesFrom(l, n, h) == l.cmd = "DENY" /\ n \in l.pattern /\ h \in HostsGiven(l)

Has(list, n) == \E i \in 1..Len(list) : n \in list[i]

LEMMA PrependedHas ==
  ASSUME NEW s \in Seq(SUBSET Names), NEW x \in SUBSET Names, NEW n
  PROVE  Has(<<x>> \o s, n) <=> n \in x \/ Has(s, n)
<1> DEFINE t == <<x>> \o s
<1>1. Len(s) \in Nat /\ Len(t) = Len(s) + 1 /\ t[1] = x
      /\ \A i \in 1..Len(s) : t[i + 1] = s[i]
  BY Prepended
<1> HIDE DEF t
<1>2. ASSUME NEW i \in 1..Len(t), n \in t[i] PROVE n \in x \/ Has(s, n)
  <2>1. CASE i = 1
    BY <2>1, <1>1, <1>2
  <2>2. CASE i # 1
    <3>1. i - 1 \in 1..Len(s) /\ t[(i - 1) + 1] = t[i]
      BY <2>2, <1>1
    <3> QED BY <3>1, <1>1, <1>2 DEF Has
  <2> QED BY <2>1, <2>2
<1>3. ASSUME NEW i \in 1..Len(s), n \in s[i] PROVE i + 1 \in 1..Len(t) /\ n \in t[i + 1]
  BY <1>1, <1>3
<1>4. n \in x => Has(t, n)
  BY <1>1 DEF Has
<1>5. Has(s, n) => Has(t, n)
  BY <1>3 DEF Has
<1>6. Has(t, n) => n \in x \/ Has(s, n)
  BY <1>2 DEF Has
<1> QED BY <1>4, <1>5, <1>6 DEF t

LEMMA DenyLineRead ==
  ASSUME NEW a \in Lists, NEW l \in Lines, NEW n
  PROVE  Has(ReadLine(a, l).deny, n) <=> GivesDeny(l, n) \/ Has(a.deny, n)
<1>1. CASE l.cmd = "DENY" /\ HostsGiven(l) = {}
  <2>1. ReadLine(a, l).deny = <<l.pattern>> \o a.deny
    BY <1>1, ReadLineFields
  <2>2. a.deny \in Seq(SUBSET Names) /\ l.pattern \in SUBSET Names
    BY <1>1, LinesAssumption DEF Lists
  <2>3. Has(<<l.pattern>> \o a.deny, n) <=> n \in l.pattern \/ Has(a.deny, n)
    BY <2>2, PrependedHas
  <2> QED BY <2>1, <2>3, <1>1 DEF GivesDeny
<1>2. CASE ~(l.cmd = "DENY" /\ HostsGiven(l) = {})
  <2>1. ReadLine(a, l).deny = a.deny
    BY <1>2, ReadLineFields
  <2> QED BY <2>1, <1>2 DEF GivesDeny
<1> QED BY <1>1, <1>2

LEMMA FromLineRead ==
  ASSUME NEW a \in Lists, NEW l \in Lines, NEW n, NEW h \in Hosts
  PROVE  Has(ReadLine(a, l).from[h], n) <=> GivesFrom(l, n, h) \/ Has(a.from[h], n)
<1>0. ReadLine(a, l).from[h] = IF l.cmd = "DENY" /\ h \in HostsGiven(l)
                              THEN <<l.pattern>> \o a.from[h] ELSE a.from[h]
  <2>1. ReadLine(a, l).from = [g \in Hosts \cup Remarks |->
                                 IF l.cmd = "DENY" /\ g \in HostsGiven(l)
                                 THEN <<l.pattern>> \o a.from[g] ELSE a.from[g]]
    BY ReadLineFields
  <2> QED BY <2>1
<1>1. CASE l.cmd = "DENY" /\ h \in HostsGiven(l)
  <2>1. ReadLine(a, l).from[h] = <<l.pattern>> \o a.from[h]
    BY <1>1, <1>0
  <2>2. a.from[h] \in Seq(SUBSET Names) /\ l.pattern \in SUBSET Names
    BY <1>1, LinesAssumption DEF Lists
  <2>3. Has(<<l.pattern>> \o a.from[h], n) <=> n \in l.pattern \/ Has(a.from[h], n)
    BY <2>2, PrependedHas
  <2> QED BY <2>1, <2>3, <1>1 DEF GivesFrom
<1>2. CASE ~(l.cmd = "DENY" /\ h \in HostsGiven(l))
  <2>1. ReadLine(a, l).from[h] = a.from[h]
    BY <1>2, <1>0
  <2> QED BY <2>1, <1>2 DEF GivesFrom
<1> QED BY <1>1, <1>2

LEMMA ClearedFields ==
  ASSUME NEW lev
  PROVE  /\ Cleared(lev).allow = <<>> /\ Cleared(lev).deny = <<>>
         /\ \A h \in Hosts : Cleared(lev).from[h] = <<>>
         /\ Cleared(lev).used = FALSE /\ Cleared(lev).order = "allow-deny"
  BY DEF Cleared

\* The deny list matches a name when a DENY line without hosts does.
LEMMA DenyRead ==
  ASSUME NEW f \in Seq(Lines), NEW lev \in Levels, NEW n
  PROVE  \A k \in 0..Len(f) :
           Has(ListsOf(f, lev)[k].deny, n) <=> \E j \in 1..k : GivesDeny(f[j], n)
<1> DEFINE L == ListsOf(f, lev)
           S == {k \in 0..Len(f) :
                   Has(L[k].deny, n) <=> \E j \in 1..k : GivesDeny(f[j], n)}
<1>1. Len(f) \in Nat
  OBVIOUS
<1>2. 0 \in S
  <2>1. L[0].deny = <<>>
    BY ListsStep, ClearedFields
  <2> QED BY <2>1, <1>1 DEF Has
<1>3. ASSUME NEW k \in 0..Len(f), k \in S /\ k < Len(f)
      PROVE  k + 1 \in S
  <2>1. k + 1 \in 0..Len(f) /\ f[k + 1] \in Lines
    BY <1>1, <1>3
  <2>2. L[k] \in Lists /\ L[k + 1] = ReadLine(L[k], f[k + 1])
    BY <1>3, ListsStep, ListsType
  <2>3. Has(L[k + 1].deny, n) <=> GivesDeny(f[k + 1], n) \/ Has(L[k].deny, n)
    <3> HIDE DEF L
    <3> QED BY <2>1, <2>2, DenyLineRead
  <2>4. Has(L[k].deny, n) <=> \E j \in 1..k : GivesDeny(f[j], n)
    BY <1>3
  <2>5. (\E j \in 1..(k + 1) : GivesDeny(f[j], n))
          <=> GivesDeny(f[k + 1], n) \/ \E j \in 1..k : GivesDeny(f[j], n)
    <3>1. \A j : j \in 1..(k + 1) <=> j \in 1..k \/ j = k + 1
      BY <1>1
    <3> QED BY <3>1
  <2> HIDE DEF L
  <2> QED BY <2>1, <2>3, <2>4, <2>5
<1>4. \A k \in 0..Len(f) : k \in S
  <2> HIDE DEF S
  <2> QED BY <1>1, <1>2, <1>3, NumbersUpTo
<1> QED BY <1>4

\* The list of a host matches a name when a DENY line that names it does.
LEMMA FromRead ==
  ASSUME NEW f \in Seq(Lines), NEW lev \in Levels, NEW n, NEW h \in Hosts
  PROVE  \A k \in 0..Len(f) :
           Has(ListsOf(f, lev)[k].from[h], n) <=> \E j \in 1..k : GivesFrom(f[j], n, h)
<1> DEFINE L == ListsOf(f, lev)
           S == {k \in 0..Len(f) : Has(L[k].from[h], n) <=> \E j \in 1..k : GivesFrom(f[j], n, h)}
<1>1. Len(f) \in Nat
  OBVIOUS
<1>2. 0 \in S
  <2>1. L[0] = Cleared(lev)
    BY ListsStep
  <2>2. L[0].from[h] = <<>>
    <3> HIDE DEF L
    <3> QED BY <2>1, ClearedFields
  <2> QED BY <2>2, <1>1 DEF Has
<1>3. ASSUME NEW k \in 0..Len(f), k \in S /\ k < Len(f)
      PROVE  k + 1 \in S
  <2>1. k + 1 \in 0..Len(f) /\ f[k + 1] \in Lines
    BY <1>1, <1>3
  <2>2. L[k] \in Lists /\ L[k + 1] = ReadLine(L[k], f[k + 1])
    BY <1>3, ListsStep, ListsType
  <2>0. \A j : j \in 1..(k + 1) <=> j \in 1..k \/ j = k + 1
    BY <1>1
  <2>3. Has(L[k + 1].from[h], n) <=> GivesFrom(f[k + 1], n, h) \/ Has(L[k].from[h], n)
    <3> HIDE DEF L
    <3> QED BY <2>1, <2>2, FromLineRead
  <2>4. Has(L[k].from[h], n) <=> \E j \in 1..k : GivesFrom(f[j], n, h)
    BY <1>3
  <2> HIDE DEF L
  <2> QED BY <2>0, <2>1, <2>3, <2>4
<1>4. \A k \in 0..Len(f) : k \in S
  <2> HIDE DEF S
  <2> QED BY <1>1, <1>2, <1>3, NumbersUpTo
<1> QED BY <1>4

LEMMA FlagsLineRead ==
  ASSUME NEW a \in Lists, NEW l \in Lines
  PROVE  /\ l.cmd = "DENY" /\ HostsGiven(l) # {} => ReadLine(a, l).used = TRUE
         /\ ~(l.cmd = "DENY" /\ HostsGiven(l) # {}) => ReadLine(a, l).used = a.used
         /\ l.cmd = "ORDER" => ReadLine(a, l).order = l.order
         /\ l.cmd # "ORDER" => ReadLine(a, l).order = a.order
  BY ReadLineFields

\* A DENY line with a host that is known sets denyFromListUsed.
LEMMA UsedRead ==
  ASSUME NEW f \in Seq(Lines), NEW lev \in Levels
  PROVE  \A k \in 0..Len(f) :
           (\E j \in 1..k : f[j].cmd = "DENY" /\ HostsGiven(f[j]) # {})
             => ListsOf(f, lev)[k].used = TRUE
<1> DEFINE L == ListsOf(f, lev)
           S == {k \in 0..Len(f) : (\E j \in 1..k : f[j].cmd = "DENY" /\ HostsGiven(f[j]) # {})
                     => L[k].used = TRUE}
<1>1. Len(f) \in Nat
  OBVIOUS
<1>2. 0 \in S
  BY <1>1
<1>3. ASSUME NEW k \in 0..Len(f), k \in S /\ k < Len(f)
      PROVE  k + 1 \in S
  <2>1. k + 1 \in 0..Len(f) /\ f[k + 1] \in Lines
    BY <1>1, <1>3
  <2>2. L[k] \in Lists /\ L[k + 1] = ReadLine(L[k], f[k + 1])
    BY <1>3, ListsStep, ListsType
  <2>0. \A j : j \in 1..(k + 1) <=> j \in 1..k \/ j = k + 1
    BY <1>1
  <2> DEFINE a == L[k]
             l == f[k + 1]
             r == L[k + 1]
  <2> HIDE DEF L
  <2>3. a \in Lists /\ l \in Lines /\ r = ReadLine(a, l)
    BY <2>1, <2>2
  <2> HIDE DEF a, l, r
  <2>4. /\ l.cmd = "DENY" /\ HostsGiven(l) # {} => r.used = TRUE
        /\ ~(l.cmd = "DENY" /\ HostsGiven(l) # {}) => r.used = a.used
    BY <2>3, FlagsLineRead
  <2>5. (\E j \in 1..k : f[j].cmd = "DENY" /\ HostsGiven(f[j]) # {}) => a.used = TRUE
    BY <1>3 DEF a
  <2>6. (\E j \in 1..(k + 1) : f[j].cmd = "DENY" /\ HostsGiven(f[j]) # {}) => r.used = TRUE
    BY <2>0, <2>4, <2>5 DEF l
  <2> QED BY <2>1, <2>6 DEF r
<1>4. \A k \in 0..Len(f) : k \in S
  <2> HIDE DEF S
  <2> QED BY <1>1, <1>2, <1>3, NumbersUpTo
<1> QED BY <1>4

\* The order is that of the last ORDER line, or deny over allow.
LEMMA OrderRead ==
  ASSUME NEW f \in Seq(Lines), NEW lev \in Levels
  PROVE  \A k \in 0..Len(f) :
           \/ /\ ListsOf(f, lev)[k].order = "allow-deny"
              /\ \A j \in 1..k : f[j].cmd # "ORDER"
           \/ \E j \in 1..k :
                /\ f[j].cmd = "ORDER" /\ ListsOf(f, lev)[k].order = f[j].order
                /\ \A m \in 1..k : m > j => f[m].cmd # "ORDER"
<1> DEFINE L == ListsOf(f, lev)
           S == {k \in 0..Len(f) :
                  \/ /\ L[k].order = "allow-deny"
                     /\ \A j \in 1..k : f[j].cmd # "ORDER"
                  \/ \E j \in 1..k :
                       /\ f[j].cmd = "ORDER" /\ L[k].order = f[j].order
                       /\ \A m \in 1..k : m > j => f[m].cmd # "ORDER"}
<1>1. Len(f) \in Nat
  OBVIOUS
<1>2. 0 \in S
  <2>1. L[0].order = "allow-deny"
    BY ListsStep, ClearedFields
  <2> QED BY <2>1, <1>1
<1>3. ASSUME NEW k \in 0..Len(f), k \in S /\ k < Len(f)
      PROVE  k + 1 \in S
  <2>1. k + 1 \in 0..Len(f) /\ f[k + 1] \in Lines
    BY <1>1, <1>3
  <2>2. L[k] \in Lists /\ L[k + 1] = ReadLine(L[k], f[k + 1])
    BY <1>3, ListsStep, ListsType
  <2>0. \A j : j \in 1..(k + 1) <=> j \in 1..k \/ j = k + 1
    BY <1>1
  <2> DEFINE a == L[k]
             l == f[k + 1]
             r == L[k + 1]
  <2> HIDE DEF L
  <2>3. a \in Lists /\ l \in Lines /\ r = ReadLine(a, l)
    BY <2>1, <2>2
  <2> HIDE DEF a, l, r
  <2>4. /\ l.cmd = "ORDER" => r.order = l.order
        /\ l.cmd # "ORDER" => r.order = a.order
    BY <2>3, FlagsLineRead
  <2>5. \/ /\ a.order = "allow-deny"
           /\ \A j \in 1..k : f[j].cmd # "ORDER"
        \/ \E j \in 1..k :
             /\ f[j].cmd = "ORDER" /\ a.order = f[j].order
             /\ \A m \in 1..k : m > j => f[m].cmd # "ORDER"
    BY <1>3 DEF a
  <2>6. \/ /\ r.order = "allow-deny"
           /\ \A j \in 1..(k + 1) : f[j].cmd # "ORDER"
        \/ \E j \in 1..(k + 1) :
             /\ f[j].cmd = "ORDER" /\ r.order = f[j].order
             /\ \A m \in 1..(k + 1) : m > j => f[m].cmd # "ORDER"
    <3>1. CASE l.cmd = "ORDER"
      <4>1. k + 1 \in 1..(k + 1) /\ \A m \in 1..(k + 1) : ~(m > k + 1)
        BY <1>1
      <4>2. f[k + 1].cmd = "ORDER" /\ r.order = f[k + 1].order
        BY <3>1, <2>4 DEF l
      <4> QED BY <4>1, <4>2
    <3>2. CASE l.cmd # "ORDER"
      <4>1. r.order = a.order /\ f[k + 1].cmd # "ORDER"
        BY <3>2, <2>4 DEF l
      <4> QED BY <4>1, <2>0, <2>5
    <3> QED BY <3>1, <3>2
  <2> QED BY <2>1, <2>6 DEF r
<1>4. \A k \in 0..Len(f) : k \in S
  <2> HIDE DEF S
  <2> QED BY <1>1, <1>2, <1>3, NumbersUpTo
<1> QED BY <1>4

\* The i-th entry is the first that matches; e is the entry that serves a name.
First(list, n, i) ==
  /\ i \in 1..Len(list) /\ n \in list[i].pattern
  /\ \A m \in 1..Len(list) : n \in list[m].pattern => i <= m
ServedBy(list, n, e) == \E i \in 1..Len(list) : First(list, n, i) /\ list[i] = e
NotListed(list, n) == \A i \in 1..Len(list) : n \notin list[i].pattern

LEMMA PrependedServes ==
  ASSUME NEW s \in Seq(Entries), NEW x \in Entries, NEW n
  PROVE  /\ n \in x.pattern => ServedBy(<<x>> \o s, n, x)
         /\ n \notin x.pattern =>
              /\ \A e : ServedBy(s, n, e) => ServedBy(<<x>> \o s, n, e)
              /\ NotListed(s, n) => NotListed(<<x>> \o s, n)
<1> DEFINE t == <<x>> \o s
<1>1. Len(s) \in Nat /\ Len(t) = Len(s) + 1 /\ t[1] = x
      /\ \A i \in 1..Len(s) : t[i + 1] = s[i]
  BY Prepended
<1> HIDE DEF t
<1>2. \A m \in 1..Len(t) : m # 1 => m - 1 \in 1..Len(s) /\ t[m] = s[m - 1]
  <2>1. ASSUME NEW m \in 1..Len(t), m # 1
        PROVE  m - 1 \in 1..Len(s) /\ t[m] = s[m - 1]
    <3>1. m - 1 \in 1..Len(s) /\ (m - 1) + 1 = m
      BY <1>1, <2>1
    <3> QED BY <3>1, <1>1
  <2> QED BY <2>1
<1>3. n \in x.pattern => ServedBy(t, n, x)
  <2>1. 1 \in 1..Len(t) /\ \A m \in 1..Len(t) : 1 <= m
    BY <1>1
  <2> QED BY <2>1, <1>1 DEF ServedBy, First
<1>4. ASSUME n \notin x.pattern, NEW e, ServedBy(s, n, e)
      PROVE  ServedBy(t, n, e)
  <2>1. PICK i \in 1..Len(s) : First(s, n, i) /\ s[i] = e
    BY <1>4 DEF ServedBy
  <2>2. i + 1 \in 1..Len(t) /\ t[i + 1] = e /\ n \in e.pattern
    BY <2>1, <1>1 DEF First
  <2>3. ASSUME NEW m \in 1..Len(t), n \in t[m].pattern
        PROVE  i + 1 <= m
    <3>1. m # 1
      BY <2>3, <1>1, <1>4
    <3>2. m - 1 \in 1..Len(s) /\ n \in s[m - 1].pattern
      BY <3>1, <1>2, <2>3
    <3>3. i <= m - 1
      BY <3>2, <2>1 DEF First
    <3> QED BY <3>3, <1>1
  <2> QED BY <2>2, <2>3 DEF ServedBy, First
<1>5. n \notin x.pattern /\ NotListed(s, n) => NotListed(t, n)
  BY <1>1, <1>2 DEF NotListed
<1> QED BY <1>3, <1>4, <1>5 DEF t

LEMMA AllowLineRead ==
  ASSUME NEW a \in Lists, NEW l \in Lines, NEW n
  PROVE  LET r == ReadLine(a, l)
         IN /\ AllowLine(l, n) =>
                 ServedBy(r.allow, n, EntryAfter(l, a.lev))
            /\ ~AllowLine(l, n) =>
                 /\ \A e : ServedBy(a.allow, n, e) => ServedBy(r.allow, n, e)
                 /\ NotListed(a.allow, n) => NotListed(r.allow, n)
<1>1. CASE l.cmd \in {"ALLOW", "ALIAS"}
  <2> DEFINE x == EntryAfter(l, a.lev)
  <2>1. ReadLine(a, l).allow = <<x>> \o a.allow
    BY <1>1, ReadLineFields
  <2>2. a.allow \in Seq(Entries) /\ a.lev \in Levels
    BY DEF Lists
  <2>3. x \in Entries
    BY <2>2, <1>1, EntryType
  <2>4. x.pattern = l.pattern
    BY DEF EntryAfter, Entry
  <2>5. AllowLine(l, n) <=> n \in x.pattern
    BY <2>4, <1>1 DEF AllowLine
  <2> HIDE DEF x
  <2>6. /\ n \in x.pattern => ServedBy(<<x>> \o a.allow, n, x)
        /\ n \notin x.pattern =>
             /\ \A e : ServedBy(a.allow, n, e) => ServedBy(<<x>> \o a.allow, n, e)
             /\ NotListed(a.allow, n) => NotListed(<<x>> \o a.allow, n)
    BY <2>2, <2>3, PrependedServes
  <2> QED BY <2>1, <2>5, <2>6 DEF x
<1>2. CASE l.cmd \notin {"ALLOW", "ALIAS"}
  <2>1. ReadLine(a, l).allow = a.allow
    BY <1>2, ReadLineFields
  <2> QED BY <2>1, <1>2 DEF AllowLine
<1> QED BY <1>1, <1>2

\* e is what the last of the first k lines that allow a name has become.
RuleOf(f, k, n, e) ==
  \E j \in 1..k :
    /\ AllowLine(f[j], n) /\ \A m \in 1..k : m > j => ~AllowLine(f[m], n)
    /\ \E v \in Levels : e = EntryAfter(f[j], v)

\* The first entry that matches a name comes from the last line that does.
LEMMA AllowRead ==
  ASSUME NEW f \in Seq(Lines), NEW lev \in Levels, NEW n
  PROVE  \A k \in 0..Len(f) :
           \/ /\ NotListed(ListsOf(f, lev)[k].allow, n)
              /\ \A j \in 1..k : ~AllowLine(f[j], n)
           \/ \E e : ServedBy(ListsOf(f, lev)[k].allow, n, e) /\ RuleOf(f, k, n, e)
<1> DEFINE L == ListsOf(f, lev)
           Good(k, x) ==
             \/ NotListed(x, n) /\ \A j \in 1..k : ~AllowLine(f[j], n)
             \/ \E e : ServedBy(x, n, e) /\ RuleOf(f, k, n, e)
           S == {k \in 0..Len(f) : Good(k, L[k].allow)}
<1>1. Len(f) \in Nat
  OBVIOUS
<1>2. 0 \in S
  <2>1. L[0] = Cleared(lev)
    BY ListsStep
  <2>2. L[0].allow = <<>>
    <3> HIDE DEF L
    <3> QED BY <2>1, ClearedFields
  <2>3. NotListed(L[0].allow, n) /\ \A j \in 1..0 : ~AllowLine(f[j], n)
    BY <2>2 DEF NotListed
  <2> HIDE DEF L
  <2> QED BY <2>3, <1>1
<1>3. ASSUME NEW k \in 0..Len(f), k \in S /\ k < Len(f)
      PROVE  k + 1 \in S
  <2>1. k + 1 \in 0..Len(f) /\ f[k + 1] \in Lines
    BY <1>1, <1>3
  <2>2. L[k] \in Lists /\ L[k + 1] = ReadLine(L[k], f[k + 1])
    BY <1>3, ListsStep, ListsType
  <2>0. \A j : j \in 1..(k + 1) <=> j \in 1..k \/ j = k + 1
    BY <1>1
  <2> DEFINE a == L[k]
             l == f[k + 1]
             r == L[k + 1]
  <2> HIDE DEF L
  <2>3. a \in Lists /\ l \in Lines /\ r = ReadLine(a, l)
    BY <2>1, <2>2
  <2>4. Good(k, a.allow)
    BY <1>3
  <2> HIDE DEF a, l, r
  <2>5. Good(k + 1, r.allow)
    <3>1. CASE AllowLine(l, n)
      <4>1. ServedBy(r.allow, n, EntryAfter(l, a.lev))
        BY <2>3, <3>1, AllowLineRead
      <4>2. a.lev \in Levels
        BY <2>3 DEF Lists
      <4>3. k + 1 \in 1..(k + 1) /\ \A m \in 1..(k + 1) : ~(m > k + 1)
        BY <1>1
      <4>4. RuleOf(f, k + 1, n, EntryAfter(l, a.lev))
        BY <4>2, <4>3, <3>1 DEF RuleOf, l
      <4> QED BY <4>1, <4>4
    <3>2. CASE ~AllowLine(l, n)
      <4>1. CASE NotListed(a.allow, n) /\ \A j \in 1..k : ~AllowLine(f[j], n)
        <5>1. NotListed(r.allow, n)
          BY <4>1, <3>2, <2>3, AllowLineRead
        <5> QED BY <5>1, <4>1, <3>2, <2>0 DEF l
      <4>2. ASSUME NEW e, ServedBy(a.allow, n, e) /\ RuleOf(f, k, n, e)
            PROVE  Good(k + 1, r.allow)
        <5>1. ServedBy(r.allow, n, e)
          BY <4>2, <3>2, <2>3, AllowLineRead
        <5>2. RuleOf(f, k + 1, n, e)
          BY <4>2, <3>2, <2>0 DEF RuleOf, l
        <5> QED BY <5>1, <5>2
      <4> QED BY <4>1, <4>2, <2>4
    <3> QED BY <3>1, <3>2
  <2> HIDE DEF Good
  <2> QED BY <2>1, <2>5 DEF r
<1>4. \A k \in 0..Len(f) : k \in S
  <2> HIDE DEF S
  <2> QED BY <1>1, <1>2, <1>3, NumbersUpTo
<1> QED BY <1>4

-----------------------------------------------------------------------------
(* Decisions *)

LEMMA MatchHas ==
  ASSUME NEW list \in Seq(SUBSET Names), NEW n
  PROVE  Match(list, n) # 0 <=> Has(list, n)
<1> DEFINE I == {i \in 1..Len(list) : n \in list[i]}
<1>1. I \in SUBSET Nat /\ 0 \notin I
  OBVIOUS
<1>2. Match(list, n) = IF I # {} THEN Min(I) ELSE 0
  BY DEF Match, SelectInSeq
<1>3. I # {} => Min(I) \in I
  <2> SUFFICES ASSUME I # {} PROVE Min(I) \in I
    OBVIOUS
  <2> HIDE DEF I
  <2>1. PICK m \in I : \A k \in I : m <= k
    BY <1>1, LeastNatural
  <2> QED BY <2>1, <1>1, MinIs
<1>4. I # {} <=> Has(list, n)
  BY DEF Has
<1> HIDE DEF I
<1> QED BY <1>1, <1>2, <1>3, <1>4

LEMMA FirstSelected ==
  ASSUME NEW list \in Seq(Entries), NEW n
  PROVE  /\ NotListed(list, n) => EntryMatch(list, n) = 0
         /\ \A i : First(list, n, i) => EntryMatch(list, n) = i
<1> DEFINE I == {i \in 1..Len(list) : n \in list[i].pattern}
<1>1. I \in SUBSET Nat
  OBVIOUS
<1>2. EntryMatch(list, n) = IF I # {} THEN Min(I) ELSE 0
  BY DEF EntryMatch, SelectInSeq
<1>3. NotListed(list, n) => I = {}
  BY DEF NotListed
<1>4. ASSUME NEW i, First(list, n, i) PROVE Min(I) = i /\ I # {}
  <2>1. i \in I /\ \A k \in I : i <= k
    BY <1>4 DEF First
  <2> HIDE DEF I
  <2> QED BY <2>1, <1>1, MinIs
<1> QED BY <1>2, <1>3, <1>4

\* A DENY line that counts for the client, in findEntry.
Barred(deny, from, order, n, h) ==
  \/ h # NoHost /\ Has(from[h], n)
  \/ order = "allow-deny" /\ Has(deny, n)

\* What findEntry returns.
LEMMA DecideIs ==
  ASSUME NEW allow \in Seq(Entries), NEW deny \in Seq(SUBSET Names), NEW from,
         NEW order, NEW n, NEW h, h # NoHost => from[h] \in Seq(SUBSET Names)
  PROVE  /\ NotListed(allow, n) => Decide(allow, deny, from, order, n, h) = NoEntry
         /\ Barred(deny, from, order, n, h) =>
              Decide(allow, deny, from, order, n, h) = NoEntry
         /\ \A e : ServedBy(allow, n, e) /\ ~Barred(deny, from, order, n, h) =>
              Decide(allow, deny, from, order, n, h) = e
<1> DEFINE i == EntryMatch(allow, n)
<1>1. Decide(allow, deny, from, order, n, h)
        = IF \/ h # NoHost /\ Match(from[h], n) # 0
             \/ order = "allow-deny" /\ Match(deny, n) # 0
             \/ i = 0
          THEN NoEntry ELSE allow[i]
  BY DEF Decide
<1>2. h # NoHost => (Match(from[h], n) # 0 <=> Has(from[h], n))
  BY MatchHas
<1>3. Match(deny, n) # 0 <=> Has(deny, n)
  BY MatchHas
<1>4. NotListed(allow, n) => i = 0
  BY FirstSelected
<1>5. ASSUME NEW e, ServedBy(allow, n, e) PROVE i # 0 /\ allow[i] = e
  <2>1. PICK k \in 1..Len(allow) : First(allow, n, k) /\ allow[k] = e
    BY <1>5 DEF ServedBy
  <2>2. i = k
    BY <2>1, FirstSelected
  <2> QED BY <2>1, <2>2
<1> HIDE DEF i
<1> QED BY <1>1, <1>2, <1>3, <1>4, <1>5 DEF Barred

LEMMA LastOrderIs ==
  ASSUME NEW f \in Seq(Lines)
  PROVE  /\ (\A j \in 1..Len(f) : f[j].cmd # "ORDER") => LastOrder(f) = 0
         /\ \A j \in 1..Len(f) :
              f[j].cmd = "ORDER" /\ (\A m \in 1..Len(f) : m > j => f[m].cmd # "ORDER")
                => LastOrder(f) = j
<1> DEFINE I == {i \in 1..Len(f) : f[i].cmd = "ORDER"}
<1>1. I \in SUBSET Nat
  OBVIOUS
<1>2. LastOrder(f) = IF I # {} THEN Max(I) ELSE 0
  BY DEF LastOrder, SelectLastInSeq
<1>3. ASSUME NEW j \in 1..Len(f), f[j].cmd = "ORDER",
             \A m \in 1..Len(f) : m > j => f[m].cmd # "ORDER"
      PROVE  Max(I) = j /\ I # {}
  <2>1. j \in I /\ \A k \in I : k <= j
    BY <1>3
  <2> HIDE DEF I
  <2> QED BY <2>1, <1>1, MaxIs
<1> QED BY <1>2, <1>3

LEMMA LastAllowIs ==
  ASSUME NEW f \in Seq(Lines), NEW n
  PROVE  /\ (\A j \in 1..Len(f) : ~AllowLine(f[j], n)) => LastAllow(f, n) = 0
         /\ \A j \in 1..Len(f) :
              AllowLine(f[j], n) /\ (\A m \in 1..Len(f) : m > j => ~AllowLine(f[m], n))
                => LastAllow(f, n) = j
<1> DEFINE I == {i \in 1..Len(f) : AllowLine(f[i], n)}
<1>1. I \in SUBSET Nat
  OBVIOUS
<1>2. LastAllow(f, n) = IF I # {} THEN Max(I) ELSE 0
  BY DEF LastAllow, SelectLastInSeq
<1>3. ASSUME NEW j \in 1..Len(f), AllowLine(f[j], n),
             \A m \in 1..Len(f) : m > j => ~AllowLine(f[m], n)
      PROVE  Max(I) = j /\ I # {}
  <2>1. j \in I /\ \A k \in I : k <= j
    BY <1>3
  <2> HIDE DEF I
  <2> QED BY <2>1, <1>1, MaxIs
<1> QED BY <1>2, <1>3

\* Lines the documentation and the code agree on: no comment behind a DENY
\* without hosts, hosts that are known, a level wherever a group is given, and no
\* comment behind an ALLOW or ALIAS without a group.
PlainLine(l) ==
  /\ l.cmd = "DENY" => /\ l.hosts = {} => l.comment = <<>>
                       /\ l.hosts \subseteq Resolvable
  /\ l.cmd \in {"ALLOW", "ALIAS"} => /\ Len(l.words) # 1
                                     /\ l.words = <<>> => l.comment = <<>>

LEMMA PlainHosts ==
  ASSUME NEW l \in Lines, PlainLine(l), l.cmd = "DENY"
  PROVE  HostsGiven(l) = l.hosts
<1>1. l.hosts \subseteq Hosts /\ ToSet(<<>>) = {}
  BY LinesAssumption DEF ToSet
<1> QED BY <1>1 DEF PlainLine, HostsGiven

LEMMA PlainEntry ==
  ASSUME NEW l \in Lines, PlainLine(l), l.cmd \in {"ALLOW", "ALIAS"}, NEW v
  PROVE  EntryAfter(l, v) = Entry(l, GroupMeant(l), LevelMeant(l))
<1>0. /\ l.words \in Seq(STRING) /\ Len(l.words) <= 2
      /\ l.comment \in Seq(Remarks)
      /\ Len(l.words) = 2 => l.words[2] \in Levels
  BY LinesAssumption
<1>1. Len(l.words) \in {0, 2}
  <2> DEFINE k == Len(l.words)
  <2>1. k \in Nat /\ k # 1 /\ k <= 2
    BY <1>0, LenProperties DEF PlainLine
  <2> HIDE DEF k
  <2>2. k \in {0, 2}
    BY ONLY <2>1
  <2> QED BY <2>2 DEF k
<1>2. CASE Len(l.words) = 0
  <2>1. l.words = <<>>
    <3> DEFINE W == STRING
               w == l.words
    <3>1. w \in Seq(W) /\ Len(w) = 0
      BY <1>0, <1>2
    <3> HIDE DEF W, w
    <3>2. w = <<>>
      BY <3>1
    <3> QED BY <3>2 DEF w
  <2>3. l.comment = <<>>
    BY <2>1 DEF PlainLine
  <2>2. Behind(l) = <<>> /\ Len(Behind(l)) = 0
    BY <2>1, <2>3 DEF Behind
  <2> QED BY <1>2, <2>1, <2>2 DEF EntryAfter, GroupAfter, LevelAfter, GroupMeant, LevelMeant
<1>3. CASE Len(l.words) = 2
  <2> DEFINE W == STRING
             w == l.words
             c == l.comment
  <2>1. w \in Seq(W) /\ c \in Seq(Remarks) /\ Len(w) = 2
    BY <1>0, <1>3
  <2> HIDE DEF W, w, c
  <2>6. /\ Len(w \o c) >= 2 /\ Len(w \o c) \in Nat
        /\ (w \o c)[1] = w[1] /\ (w \o c)[2] = w[2] /\ w \o c # <<>> /\ w # <<>>
    <3> DEFINE U == W \cup Remarks
    <3>1. w \in Seq(U) /\ c \in Seq(U)
      BY <2>1, SeqMonotonic
    <3> HIDE DEF U
    <3>5. /\ Len(w \o c) = Len(w) + Len(c)
          /\ \A i \in 1..(Len(w) + Len(c)) :
               (w \o c)[i] = IF i <= Len(w) THEN w[i] ELSE c[i - Len(w)]
      BY <3>1, ConcatProperties
    <3>2. /\ Len(w \o c) = 2 + Len(c) /\ Len(c) \in Nat
          /\ \A i \in 1..(2 + Len(c)) :
               (w \o c)[i] = IF i <= 2 THEN w[i] ELSE c[i - 2]
      BY <2>1, <3>1, <3>5, LenProperties
    <3>3. 1 \in 1..(2 + Len(c)) /\ 2 \in 1..(2 + Len(c))
      BY <3>2
    <3>4. w # <<>> /\ w \o c # <<>>
      BY <2>1, <3>2
    <3> QED BY <3>2, <3>3, <3>4
  <2>2. /\ Len(Behind(l)) >= 2 /\ Len(Behind(l)) \in Nat
        /\ Behind(l)[1] = l.words[1] /\ Behind(l)[2] = l.words[2]
    BY <2>6 DEF Behind, w, c
  <2>3. Behind(l) # <<>> /\ l.words # <<>>
    BY <2>6 DEF Behind, w, c
  <2>4. GroupAfter(l) = GroupMeant(l)
    BY <2>2, <2>3 DEF GroupAfter, GroupMeant
  <2>5. LevelAfter(l, v) = LevelMeant(l)
    BY <1>0, <1>3, <2>2 DEF LevelAfter, LevelMeant
  <2> QED BY <2>4, <2>5 DEF EntryAfter
<1> QED BY <1>1, <1>2, <1>3

LEMMA ReadFacts ==
  ASSUME NEW f \in Files, NEW lev \in Levels
  PROVE  /\ Read(f, lev) \in Lists
         /\ \A n : Has(Read(f, lev).deny, n) <=> \E j \in 1..Len(f) : GivesDeny(f[j], n)
         /\ \A n, h \in Hosts : Has(Read(f, lev).from[h], n)
                                  <=> \E j \in 1..Len(f) : GivesFrom(f[j], n, h)
         /\ (\E j \in 1..Len(f) : f[j].cmd = "DENY" /\ HostsGiven(f[j]) # {})
              => Read(f, lev).used = TRUE
         /\ (Read(f, lev).order = "allow-deny") <=> DenyOverrides(f)
         /\ \A n : \/ /\ NotListed(Read(f, lev).allow, n)
                      /\ \A j \in 1..Len(f) : ~AllowLine(f[j], n)
                   \/ \E e : ServedBy(Read(f, lev).allow, n, e) /\ RuleOf(f, Len(f), n, e)
<1>1. f \in Seq(Lines) /\ Len(f) \in Nat /\ Len(f) \in 0..Len(f)
  BY FileType
<1>2. Read(f, lev) = ListsOf(f, lev)[Len(f)]
  BY DEF Read
<1>3. Read(f, lev) \in Lists
  BY <1>1, <1>2, ListsType
<1>4. \A n : Has(Read(f, lev).deny, n) <=> \E j \in 1..Len(f) : GivesDeny(f[j], n)
  BY <1>1, <1>2, DenyRead
<1>5. \A n, h \in Hosts : Has(Read(f, lev).from[h], n)
                            <=> \E j \in 1..Len(f) : GivesFrom(f[j], n, h)
  BY <1>1, <1>2, FromRead
<1>6. (\E j \in 1..Len(f) : f[j].cmd = "DENY" /\ HostsGiven(f[j]) # {})
        => Read(f, lev).used = TRUE
  BY <1>1, <1>2, UsedRead
<1>7. (Read(f, lev).order = "allow-deny") <=> DenyOverrides(f)
  <2>1. \/ /\ Read(f, lev).order = "allow-deny"
           /\ \A j \in 1..Len(f) : f[j].cmd # "ORDER"
        \/ \E j \in 1..Len(f) :
             /\ f[j].cmd = "ORDER" /\ Read(f, lev).order = f[j].order
             /\ \A m \in 1..Len(f) : m > j => f[m].cmd # "ORDER"
    BY <1>1, <1>2, OrderRead
  <2>2. CASE \A j \in 1..Len(f) : f[j].cmd # "ORDER"
    BY <2>1, <2>2, <1>1, LastOrderIs DEF DenyOverrides
  <2>3. ASSUME NEW j \in 1..Len(f), f[j].cmd = "ORDER",
               Read(f, lev).order = f[j].order,
               \A m \in 1..Len(f) : m > j => f[m].cmd # "ORDER"
        PROVE  (Read(f, lev).order = "allow-deny") <=> DenyOverrides(f)
    <3>1. LastOrder(f) = j /\ j # 0
      BY <2>3, <1>1, LastOrderIs
    <3> QED BY <3>1, <2>3 DEF DenyOverrides
  <2> QED BY <2>1, <2>2, <2>3
<1>8. \A n : \/ /\ NotListed(Read(f, lev).allow, n)
                /\ \A j \in 1..Len(f) : ~AllowLine(f[j], n)
             \/ \E e : ServedBy(Read(f, lev).allow, n, e) /\ RuleOf(f, Len(f), n, e)
  BY <1>1, <1>2, AllowRead
<1> QED BY <1>3, <1>4, <1>5, <1>6, <1>7, <1>8

LEMMA ReadDenies ==
  ASSUME NEW f \in Files, NEW lev \in Levels, NEW n, NEW h \in Hosts
  PROVE  /\ Has(Read(f, lev).deny, n) <=> \E j \in 1..Len(f) : GivesDeny(f[j], n)
         /\ Has(Read(f, lev).from[h], n) <=> \E j \in 1..Len(f) : GivesFrom(f[j], n, h)
<1>1. f \in Seq(Lines) /\ Len(f) \in Nat /\ Len(f) \in 0..Len(f)
  BY FileType
<1>2. Has(Read(f, lev).deny, n) <=> \E j \in 1..Len(f) : GivesDeny(f[j], n)
  BY <1>1, DenyRead DEF Read
<1>3. Has(Read(f, lev).from[h], n) <=> \E j \in 1..Len(f) : GivesFrom(f[j], n, h)
  BY <1>1, FromRead DEF Read
<1> QED BY <1>2, <1>3

\* The entry the documentation promises is that of the last line that allows
\* the name, unless a DENY line takes it away.
LEMMA MeaningIs ==
  ASSUME NEW f \in Files, \A l \in Lines : PlainLine(l), NEW n, NEW h \in Hosts
  PROVE  /\ (\A j \in 1..Len(f) : ~AllowLine(f[j], n)) => Meaning(f, n, h) = NoEntry
         /\ \A e : RuleOf(f, Len(f), n, e) =>
              Meaning(f, n, h)
                = IF \/ \E j \in 1..Len(f) : GivesFrom(f[j], n, h)
                     \/ DenyOverrides(f) /\ \E j \in 1..Len(f) : GivesDeny(f[j], n)
                  THEN NoEntry ELSE e
<1> DEFINE From == \E j \in DOMAIN f : DenyFromLine(f[j], n, h)
           Denied == \E j \in DOMAIN f : DenyLine(f[j], n)
<1>0. f \in Seq(Lines) /\ Len(f) \in Nat /\ DOMAIN f = 1..Len(f)
      /\ \A j \in 1..Len(f) : f[j] \in Lines
  BY FileType
<1>1. From <=> \E j \in 1..Len(f) : GivesFrom(f[j], n, h)
  <2>1. \A l \in Lines : DenyFromLine(l, n, h) <=> GivesFrom(l, n, h)
    BY PlainHosts DEF DenyFromLine, GivesFrom
  <2> QED BY <2>1, <1>0
<1>2. Denied <=> \E j \in 1..Len(f) : GivesDeny(f[j], n)
  <2>1. \A l \in Lines : DenyLine(l, n) <=> GivesDeny(l, n)
    BY PlainHosts DEF DenyLine, GivesDeny
  <2> QED BY <2>1, <1>0
<1>3. Meaning(f, n, h)
        = IF \/ From
             \/ DenyOverrides(f) /\ Denied
             \/ LastAllow(f, n) = 0
          THEN NoEntry
          ELSE Entry(f[LastAllow(f, n)], GroupMeant(f[LastAllow(f, n)]),
                     LevelMeant(f[LastAllow(f, n)]))
  BY DEF Meaning
<1> HIDE DEF From, Denied
<1>4. (\A j \in 1..Len(f) : ~AllowLine(f[j], n)) => Meaning(f, n, h) = NoEntry
  BY <1>3, <1>0, LastAllowIs
<1>5. ASSUME NEW e, RuleOf(f, Len(f), n, e)
      PROVE  Meaning(f, n, h) = IF From \/ (DenyOverrides(f) /\ Denied) THEN NoEntry ELSE e
  <2>1. PICK j \in 1..Len(f) :
          /\ AllowLine(f[j], n) /\ \A m \in 1..Len(f) : m > j => ~AllowLine(f[m], n)
          /\ \E v \in Levels : e = EntryAfter(f[j], v)
    BY <1>5 DEF RuleOf
  <2>2. LastAllow(f, n) = j /\ j # 0 /\ f[j] \in Lines
    BY <2>1, <1>0, LastAllowIs
  <2>3. PICK v \in Levels : e = EntryAfter(f[j], v)
    BY <2>1
  <2>4. e = Entry(f[j], GroupMeant(f[j]), LevelMeant(f[j]))
    BY <2>1, <2>2, <2>3, PlainEntry DEF AllowLine
  <2> QED BY <1>3, <2>2, <2>4
<1> QED BY <1>1, <1>2, <1>4, <1>5

LEMMA EntryMatchIs ==
  ASSUME NEW list \in Seq(Entries), NEW n, EntryMatch(list, n) # 0
  PROVE  EntryMatch(list, n) \in 1..Len(list)
<1> DEFINE I == {i \in 1..Len(list) : n \in list[i].pattern}
<1>1. I \in SUBSET Nat
  OBVIOUS
<1>2. EntryMatch(list, n) = IF I # {} THEN Min(I) ELSE 0
  BY DEF EntryMatch, SelectInSeq
<1>3. I # {} /\ EntryMatch(list, n) = Min(I)
  BY <1>2
<1>4. Min(I) \in I
  <2> HIDE DEF I
  <2>1. PICK m \in I : \A k \in I : m <= k
    BY <1>1, <1>3, LeastNatural
  <2> QED BY <2>1, <1>1, MinIs
<1> QED BY <1>3, <1>4

\* An entry that is found is one of the list, and is found without a host too.
LEMMA DecideListed ==
  ASSUME NEW allow \in Seq(Entries), NEW deny, NEW from, NEW order, NEW n, NEW h,
         Decide(allow, deny, from, order, n, h) # NoEntry
  PROVE  /\ Decide(allow, deny, from, order, n, NoHost)
              = Decide(allow, deny, from, order, n, h)
         /\ Decide(allow, deny, from, order, n, h) \in Entries
         /\ \E i \in DOMAIN allow : allow[i] = Decide(allow, deny, from, order, n, h)
<1> DEFINE i == EntryMatch(allow, n)
<1>1. i # 0 /\ Decide(allow, deny, from, order, n, h) = allow[i]
      /\ Decide(allow, deny, from, order, n, NoHost) = allow[i]
  BY DEF Decide
<1>2. i \in 1..Len(allow) /\ DOMAIN allow = 1..Len(allow)
  BY <1>1, EntryMatchIs
<1> HIDE DEF i
<1>3. allow[i] \in Entries
  BY <1>2
<1> QED BY <1>1, <1>2, <1>3

-----------------------------------------------------------------------------
(* The state machine *)

\* The lists are those of the file.
ListsAreRead ==
  /\ file \in Files
  /\ \E lev \in Levels :
       LET a == Read(file, lev)
       IN /\ allowList = a.allow /\ denyList = a.deny /\ denyFrom = a.from
          /\ denyFromUsed = a.used /\ evalOrder = a.order

PvType == pv \in [Names -> Entries \cup {NoEntry}]

\* The entry of a PV serves some name.
HeldServes ==
  \A r \in Names : pv[r] # NoEntry => \E n \in Names : findEntry(n, NoHost) = pv[r]

\* The entry of a PV that has no alias serves the PV's own name.
OwnServes ==
  \A r \in Names :
    pv[r] # NoEntry /\ pv[r].alias = NoName => findEntry(r, NoHost) = pv[r]

IInv == ListsAreRead /\ PvType /\ HeldServes /\ OwnServes

LEMMA ListsAreTyped ==
  ASSUME ListsAreRead
  PROVE  allowList \in Seq(Entries)
<1>1. PICK lev \in Levels : allowList = Read(file, lev).allow
  BY DEF ListsAreRead
<1>2. Read(file, lev) \in Lists
  BY ReadFacts DEF ListsAreRead
<1> QED BY <1>1, <1>2 DEF Lists

LEMMA InitIInv ==
  ASSUME Init
  PROVE  IInv
<1>1. ListsAreRead
  BY DEF Init, ListsAreRead
<1>2. pv = [n \in Names |-> NoEntry]
  BY DEF Init
<1> QED BY <1>1, <1>2 DEF IInv, PvType, HeldServes, OwnServes

LEMMA SearchStep ==
  ASSUME IInv, NEW n \in Names, NEW h \in Hosts, pvExistTest(n, h)
  PROVE  IInv'
<1> DEFINE e == SearchEntry(n, h)
           real == getRealName(e, n)
<1>1. e # NoEntry /\ pv' = [pv EXCEPT ![real] = e] /\ UNCHANGED <<listVars, file>>
  BY DEF pvExistTest
<1>2. allowList \in Seq(Entries)
  BY ListsAreTyped DEF IInv
<1>3. findEntry(n, NoHost) = e /\ e \in Entries
  BY <1>1, <1>2, DecideListed DEF SearchEntry, findEntry
<1>4. real \in Names /\ (e.alias = NoName => real = n)
  BY <1>3 DEF getRealName, Entries
<1>5. \A m : findEntry(m, NoHost)' = findEntry(m, NoHost)
  BY <1>1 DEF findEntry, listVars
<1>6. ListsAreRead'
  BY <1>1 DEF IInv, ListsAreRead, listVars
<1> HIDE DEF e, real
<1>7. PvType'
  BY <1>1, <1>3 DEF IInv, PvType
<1>8. \A r \in Names : pv'[r] = IF r = real THEN e ELSE pv[r]
  BY <1>1, <1>4 DEF IInv, PvType
<1>9. HeldServes'
  BY <1>3, <1>5, <1>8 DEF IInv, HeldServes
<1>10. OwnServes'
  BY <1>3, <1>4, <1>5, <1>8 DEF IInv, OwnServes
<1> QED BY <1>6, <1>7, <1>9, <1>10 DEF IInv

LEMMA EndStep ==
  ASSUME IInv, NEW n \in Names, PvEnds(n)
  PROVE  IInv'
<1>1. pv' = [pv EXCEPT ![n] = NoEntry] /\ UNCHANGED <<listVars, file>>
  BY DEF PvEnds
<1>2. \A m : findEntry(m, NoHost)' = findEntry(m, NoHost)
  BY <1>1 DEF findEntry, listVars
<1>3. ListsAreRead'
  BY <1>1 DEF IInv, ListsAreRead, listVars
<1>4. \A r \in Names : pv'[r] = IF r = n THEN NoEntry ELSE pv[r]
  BY <1>1 DEF IInv, PvType
<1>5. PvType'
  BY <1>1 DEF IInv, PvType
<1> QED BY <1>2, <1>3, <1>4, <1>5 DEF IInv, HeldServes, OwnServes

LEMMA ReadStep ==
  ASSUME IInv, NEW f \in Files, newAs(f)
  PROVE  IInv'
<1>1. ListsAreRead'
  BY DEF newAs, SetLists, ListsAreRead
<1>2. \A r \in Names : pv'[r] = IF pv[r] = NoEntry THEN NoEntry
                                ELSE findEntry(r, NoHost)'
  BY DEF newAs, findEntry
<1>3. allowList' \in Seq(Entries)
  <2>1. PICK lev \in Levels : allowList' = Read(f, lev).allow
    BY DEF newAs, SetLists
  <2>2. Read(f, lev) \in Lists
    BY ReadFacts
  <2> QED BY <2>1, <2>2 DEF Lists
<1>4. \A r \in Names : pv'[r] # NoEntry =>
        pv'[r] \in Entries /\ findEntry(r, NoHost)' = pv'[r]
  BY <1>2, <1>3, DecideListed DEF findEntry
<1>5. DOMAIN pv' = Names /\ pv' = [r \in Names |-> pv'[r]]
  BY DEF newAs
<1>6. PvType'
  BY <1>4, <1>5 DEF PvType
<1>7. HeldServes' /\ OwnServes'
  BY <1>4 DEF HeldServes, OwnServes
<1> QED BY <1>1, <1>6, <1>7 DEF IInv

LEMMA StepIInv ==
  ASSUME IInv, [Next]_vars
  PROVE  IInv'
<1>1. ASSUME NEW n \in Names, NEW h \in Hosts, pvExistTest(n, h) PROVE IInv'
  BY <1>1, SearchStep
<1>2. ASSUME NEW n \in Names, PvEnds(n) PROVE IInv'
  BY <1>2, EndStep
<1>3. ASSUME NEW f \in Edited \cap Files, newAs(f) PROVE IInv'
  BY <1>3, ReadStep
<1>4. CASE UNCHANGED vars
  BY <1>4 DEF vars, listVars, IInv, ListsAreRead, PvType, HeldServes, OwnServes, findEntry
<1> QED BY <1>1, <1>2, <1>3, <1>4 DEF Next

\* In every state the lists are those a reading of the file gives, whatever was
\* read before (readPvList, reInitialize), and the PVs' entries are theirs.
THEOREM IInvHolds == Spec => []IInv
  BY InitIInv, StepIInv, PTL DEF Spec

\* No PV holds an entry of lists that newAs has deleted (gateServer::newAs), for
\* any file and any number of readings.
THEOREM PvEntriesCurrent == Spec => []PvEntriesAreCurrent
<1>1. IInv => PvEntriesAreCurrent
  <2> SUFFICES ASSUME IInv, NEW r \in Names, pv[r] # NoEntry
               PROVE  \E i \in DOMAIN allowList :
                        /\ allowList[i] = pv[r]
                        /\ \E n \in Names : findEntry(n, NoHost) = pv[r]
    BY DEF PvEntriesAreCurrent
  <2>1. PICK n \in Names : findEntry(n, NoHost) = pv[r]
    BY DEF IInv, HeldServes
  <2>2. allowList \in Seq(Entries)
    BY ListsAreTyped DEF IInv
  <2>3. \E i \in DOMAIN allowList : allowList[i] = pv[r]
    BY <2>1, <2>2, DecideListed DEF findEntry
  <2> QED BY <2>1, <2>3
<1> QED BY <1>1, IInvHolds, PTL

\* On lines as the documentation explains them the gateway serves every name to
\* every host as it says (findEntry, pvExistTest; Gateway.html), for files of any
\* length and whatever files were read before.
THEOREM DecisionsFollow ==
  ASSUME \A l \in Lines : PlainLine(l)
  PROVE  Spec => []DecisionsFollowFile
<1>1. ListsAreRead => DecisionsFollowFile
  <2> SUFFICES ASSUME ListsAreRead, NEW n \in Names, NEW h \in Hosts
               PROVE  SearchEntry(n, h) = Meaning(file, n, h)
    BY DEF DecisionsFollowFile
  <2>1. PICK lev \in Levels :
          LET a == Read(file, lev)
          IN /\ allowList = a.allow /\ denyList = a.deny /\ denyFrom = a.from
             /\ denyFromUsed = a.used /\ evalOrder = a.order
    BY DEF ListsAreRead
  <2> DEFINE a == Read(file, lev)
             g == IF denyFromUsed THEN h ELSE NoHost
             From == \E j \in 1..Len(file) : GivesFrom(file[j], n, h)
             Denied == \E j \in 1..Len(file) : GivesDeny(file[j], n)
  <2>2. /\ file \in Files /\ a \in Lists
        /\ Has(a.deny, n) <=> Denied
        /\ Has(a.from[h], n) <=> From
        /\ (a.order = "allow-deny") <=> DenyOverrides(file)
        /\ \/ /\ NotListed(a.allow, n)
              /\ \A j \in 1..Len(file) : ~AllowLine(file[j], n)
           \/ \E e : ServedBy(a.allow, n, e) /\ RuleOf(file, Len(file), n, e)
    <3>1. file \in Files
      BY DEF ListsAreRead
    <3>2. a \in Lists /\ ((a.order = "allow-deny") <=> DenyOverrides(file))
      BY <3>1, ReadFacts
    <3>3. (Has(a.deny, n) <=> Denied) /\ (Has(a.from[h], n) <=> From)
      BY <3>1, ReadDenies
    <3>4. \/ /\ NotListed(a.allow, n)
             /\ \A j \in 1..Len(file) : ~AllowLine(file[j], n)
          \/ \E e : ServedBy(a.allow, n, e) /\ RuleOf(file, Len(file), n, e)
      BY <3>1, ReadFacts
    <3> QED BY <3>1, <3>2, <3>3, <3>4
  <2>3. From => denyFromUsed = TRUE
    <3>1. (\E j \in 1..Len(file) : file[j].cmd = "DENY" /\ HostsGiven(file[j]) # {})
            => a.used = TRUE
      BY <2>2, ReadFacts
    <3> QED BY <3>1, <2>1 DEF GivesFrom
  <2>4. /\ allowList = a.allow /\ denyList = a.deny /\ denyFrom = a.from
        /\ evalOrder = a.order
    BY <2>1
  <2>5. /\ a.allow \in Seq(Entries) /\ a.deny \in Seq(SUBSET Names)
        /\ a.from[h] \in Seq(SUBSET Names)
    BY <2>2 DEF Lists
  <2>6. SearchEntry(n, h) = Decide(a.allow, a.deny, a.from, a.order, n, g)
    BY <2>4 DEF SearchEntry, findEntry
  <2>7. (g = h \/ g = NoHost) /\ h # NoHost /\ (denyFromUsed = TRUE => g = h)
    BY AsAssumption
  <2> HIDE DEF a, g, From, Denied
  <2>8. CASE NotListed(a.allow, n) /\ \A j \in 1..Len(file) : ~AllowLine(file[j], n)
    <3>1. SearchEntry(n, h) = NoEntry
      BY <2>5, <2>6, <2>7, <2>8, DecideIs
    <3>2. Meaning(file, n, h) = NoEntry
      BY <2>2, <2>8, MeaningIs
    <3> QED BY <3>1, <3>2
  <2>9. ASSUME NEW e, ServedBy(a.allow, n, e), RuleOf(file, Len(file), n, e)
        PROVE  SearchEntry(n, h) = Meaning(file, n, h)
    <3>1. g # NoHost => a.from[g] \in Seq(SUBSET Names)
      BY <2>5, <2>7
    <3>2. SearchEntry(n, h)
            = IF Barred(a.deny, a.from, a.order, n, g) THEN NoEntry ELSE e
      BY <2>5, <2>6, <2>9, <3>1, DecideIs
    <3>3. Meaning(file, n, h)
            = IF From \/ (DenyOverrides(file) /\ Denied) THEN NoEntry ELSE e
      BY <2>2, <2>9, MeaningIs DEF From, Denied
    <3>4. (g # NoHost /\ Has(a.from[g], n)) <=> From
      BY <2>2, <2>3, <2>7
    <3> QED BY <3>2, <3>3, <3>4, <2>2 DEF Barred
  <2> QED BY <2>2, <2>8, <2>9
<1>2. IInv => ListsAreRead
  BY DEF IInv
<1> QED BY <1>1, <1>2, IInvHolds, PTL

\* The first value of lev does not matter when no line has one word, its level
\* left to the line before, behind ALLOW or the real name.
LEMMA SameReading ==
  ASSUME NEW f \in Files, NEW u \in Levels, NEW v \in Levels,
         \A l \in Lines : l.cmd \in {"ALLOW", "ALIAS"} => Len(Behind(l)) # 1
  PROVE  /\ Read(f, u).allow = Read(f, v).allow /\ Read(f, u).deny = Read(f, v).deny
         /\ Read(f, u).from = Read(f, v).from /\ Read(f, u).order = Read(f, v).order
<1> DEFINE U == ListsOf(f, u)
           V == ListsOf(f, v)
           Same(a, b) == /\ a.allow = b.allow /\ a.deny = b.deny /\ a.from = b.from
                         /\ a.order = b.order
           S == {k \in 0..Len(f) : Same(U[k], V[k])}
<1>1. Len(f) \in Nat /\ f \in Seq(Lines)
  BY FileType
<1>2. 0 \in S
  <2>1. U[0] = Cleared(u) /\ V[0] = Cleared(v)
    BY <1>1, ListsStep
  <2>2. Same(Cleared(u), Cleared(v))
    BY DEF Cleared
  <2> HIDE DEF U, V, Same
  <2> QED BY <1>1, <2>1, <2>2
<1>3. ASSUME NEW k \in 0..Len(f), k \in S /\ k < Len(f)
      PROVE  k + 1 \in S
  <2> DEFINE l == f[k + 1]
             a == U[k]
             b == V[k]
  <2>1. k + 1 \in 0..Len(f) /\ l \in Lines
    BY <1>1, <1>3
  <2>2. /\ a \in Lists /\ U[k + 1] = ReadLine(a, l)
        /\ b \in Lists /\ V[k + 1] = ReadLine(b, l)
    <3>1. a \in Lists /\ b \in Lists
      BY <1>1, <1>3, ListsType
    <3>2. U[k + 1] = ReadLine(a, l)
      BY <1>1, <1>3, ListsStep
    <3>3. V[k + 1] = ReadLine(b, l)
      BY <1>1, <1>3, ListsStep
    <3> QED BY <3>1, <3>2, <3>3
  <2>3. Same(a, b)
    BY <1>3
  <2> HIDE DEF a, b, l, U, V
  <2>4. l.cmd \in {"ALLOW", "ALIAS"} => EntryAfter(l, a.lev) = EntryAfter(l, b.lev)
    BY <2>1 DEF EntryAfter, LevelAfter
  <2>5. Same(ReadLine(a, l), ReadLine(b, l))
    <3> DEFINE r == ReadLine(a, l)
               t == ReadLine(b, l)
    <3>0. r.allow = t.allow
      <4>1. r.allow = IF l.cmd \in {"ALLOW", "ALIAS"}
                      THEN <<EntryAfter(l, a.lev)>> \o a.allow ELSE a.allow
        BY <2>1, <2>2, ReadLineFields
      <4>2. t.allow = IF l.cmd \in {"ALLOW", "ALIAS"}
                      THEN <<EntryAfter(l, b.lev)>> \o b.allow ELSE b.allow
        BY <2>1, <2>2, ReadLineFields
      <4> QED BY <4>1, <4>2, <2>3, <2>4
    <3>1. r.deny = t.deny
      <4>1. r.deny = IF l.cmd = "DENY" /\ HostsGiven(l) = {}
                     THEN <<l.pattern>> \o a.deny ELSE a.deny
        BY <2>1, <2>2, ReadLineFields
      <4>2. t.deny = IF l.cmd = "DENY" /\ HostsGiven(l) = {}
                     THEN <<l.pattern>> \o b.deny ELSE b.deny
        BY <2>1, <2>2, ReadLineFields
      <4> QED BY <4>1, <4>2, <2>3
    <3>2. r.order = t.order
      BY <2>1, <2>2, <2>3, ReadLineFields
    <3>3. r.from = [h \in Hosts \cup Remarks |->
                      IF l.cmd = "DENY" /\ h \in HostsGiven(l)
                      THEN <<l.pattern>> \o a.from[h] ELSE a.from[h]]
      BY <2>1, <2>2, ReadLineFields
    <3>4. t.from = [h \in Hosts \cup Remarks |->
                      IF l.cmd = "DENY" /\ h \in HostsGiven(l)
                      THEN <<l.pattern>> \o b.from[h] ELSE b.from[h]]
      BY <2>1, <2>2, ReadLineFields
    <3>5. r.from = t.from
      BY <2>3, <3>3, <3>4
    <3> QED BY <3>0, <3>1, <3>2, <3>5
  <2> HIDE DEF Same
  <2> QED BY <2>1, <2>2, <2>5
<1>4. \A k \in 0..Len(f) : k \in S
  <2> HIDE DEF S
  <2> QED BY <1>1, <1>2, <1>3, NumbersUpTo
<1> QED BY <1>1, <1>4 DEF Read

\* A reading of the file that is already in force leaves a PV that has no alias
\* the entry it has, group and level included (newAs), if every group of the file,
\* and every comment of one word that is taken for one, has a level.
THEOREM RereadKeeps ==
  ASSUME \A l \in Lines :
           l.cmd \in {"ALLOW", "ALIAS"} => Len(Behind(l)) # 1
  PROVE  Spec => RereadKeepsPvs
<1>1. ASSUME IInv, newAs(file), NEW r \in Names, pv[r] # NoEntry, pv[r].alias = NoName
      PROVE  pv'[r] = pv[r]
  <2>1. PICK u \in Levels :
          /\ allowList = Read(file, u).allow /\ denyList = Read(file, u).deny
          /\ denyFrom = Read(file, u).from /\ evalOrder = Read(file, u).order
    BY <1>1 DEF IInv, ListsAreRead
  <2>2. PICK v \in Levels :
          /\ allowList' = Read(file, v).allow /\ denyList' = Read(file, v).deny
          /\ denyFrom' = Read(file, v).from /\ evalOrder' = Read(file, v).order
    BY <1>1 DEF newAs, SetLists
  <2>3. file \in Files
    BY <1>1 DEF IInv, ListsAreRead
  <2>4. /\ allowList' = allowList /\ denyList' = denyList
        /\ denyFrom' = denyFrom /\ evalOrder' = evalOrder
    BY <2>1, <2>2, <2>3, SameReading
  <2>5. pv'[r] = Decide(allowList', denyList', denyFrom', evalOrder', r, NoHost)
    BY <1>1 DEF newAs
  <2>6. findEntry(r, NoHost) = pv[r]
    BY <1>1 DEF IInv, OwnServes
  <2> QED BY <2>4, <2>5, <2>6 DEF findEntry
<1>2. IInv => [newAs(file) => \A r \in Names :
                 pv[r] # NoEntry /\ pv[r].alias = NoName => pv'[r] = pv[r]]_vars
  BY <1>1
<1> QED BY <1>2, IInvHolds, PTL DEF RereadKeepsPvs

=============================================================================
