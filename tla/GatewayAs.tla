------------------------------ MODULE GatewayAs ------------------------------
(***************************************************************************)
(* Which names the gateway serves, to whom and as what: the pvlist file as *)
(* gateAs::readPvList reads it line by line into three lists, the decision *)
(* of gateAs::findEntry, the PVs that hold on to an entry of those lists,  *)
(* and gateServer::newAs, which deletes the lists under them and reads the *)
(* file again (gateAs.cc, gateAs.h, gateServer.cc of gateway2_0_5_1, built *)
(* with USE_DENYFROM, the default of its Makefile).                        *)
(*                                                                         *)
(* A pattern is the set of names it matches.  A line of the file is a      *)
(* record; lines that readPvList reports as errors are left out, they      *)
(* change nothing.  A comment behind DENY, ALLOW or ALIAS is kept, word by *)
(* word: it is cut off the line that the first pass looks at, not off the  *)
(* copy that the second pass parses (gateAs.cc:462-465).  Every line ends  *)
(* with a newline; the last character of one that does not is lost (463).  *)
(* A file that cannot be opened leaves the lists as an empty file does.    *)
(***************************************************************************)
EXTENDS Integers, Sequences, SequencesExt

CONSTANTS
  Names,      \* PV names, those clients use and the real ones
  Hosts,      \* addresses of the clients
  Resolvable, \* host names of the file that aToIPAddr resolves: addresses here
  Lines,      \* lines a pvlist file may hold
  MaxLines,   \* bound: lines of a file
  NoName, NoEntry, NoHost   \* no value

Levels == {"0", "1"}

\* Words that comments hold.
Remarks == UNION {ToSet(l.comment) : l \in {k \in Lines : k.cmd # "ORDER"}}

ASSUME AsAssumption ==
  /\ Resolvable \subseteq Hosts
  /\ NoHost \notin Hosts \cup Remarks
  /\ NoName \notin Names
  /\ MaxLines \in Nat

\* What the parts of a line are; words are a group and a level, a group, or none.
ASSUME LinesAssumption ==
  \A l \in Lines :
    /\ l.cmd \in {"ORDER", "DENY", "ALLOW", "ALIAS"}
    /\ l.cmd = "ORDER" => l.order \in {"allow-deny", "deny-allow"}
    /\ l.cmd # "ORDER" => l.pattern \subseteq Names /\ l.comment \in Seq(Remarks)
    /\ l.cmd = "DENY" => l.hosts \subseteq Hosts
    /\ l.cmd \in {"ALLOW", "ALIAS"} =>
         /\ l.alias \in Names \cup {NoName}
         /\ l.words \in Seq(STRING) /\ Len(l.words) <= 2
         /\ Len(l.words) = 2 => l.words[2] \in Levels

VARIABLES
  allowList, denyList,  \* allow_list, deny_list: the latest line first
  denyFrom,             \* deny_from_table: a list for every host
  denyFromUsed,         \* denyFromListUsed
  evalOrder,            \* eval_order: "allow-deny" or "deny-allow"
  pv,                   \* by real name: the gateAsEntry of the PV, or NoEntry
  file                  \* history: the file the lists were read from

listVars == <<allowList, denyList, denyFrom, denyFromUsed, evalOrder>>
vars == <<listVars, pv, file>>

Files == SeqOf(Lines, MaxLines)

\* gateAsEntry: what an ALLOW or ALIAS line becomes.
Entry(l, g, lev) ==
  [pattern |-> l.pattern, alias |-> l.alias, group |-> g, level |-> lev]

ASSUME EntryAssumption ==
  \A l \in Lines, lev \in Levels :
    l.cmd \in {"ALLOW", "ALIAS"} =>
      \A g \in {"DEFAULT"} \cup ToSet(l.words) \cup ToSet(l.comment) :
        Entry(l, g, lev) # NoEntry

-----------------------------------------------------------------------------
(* Reading the file *)

\* What one pass of readPvList works on; lev is its local variable.
Cleared(lev) ==
  [allow |-> <<>>, deny |-> <<>>, from |-> [h \in Hosts \cup Remarks |-> <<>>],
   used |-> FALSE, order |-> "allow-deny", lev |-> lev]

ReadOrder(a, l) == [a EXCEPT !.order = l.order]

\* Host names are replaced by addresses in a first pass over the line, which
\* drops those it cannot resolve, and the comment behind them.  A line without
\* hosts goes to the second pass with its comment.
HostsGiven(l) ==
  IF l.hosts # {} THEN l.hosts \cap Resolvable ELSE ToSet(l.comment)

ReadDeny(a, l) ==
  IF HostsGiven(l) = {}
  THEN [a EXCEPT !.deny = <<l.pattern>> \o @]
  ELSE [a EXCEPT !.used = TRUE,
          !.from = [h \in DOMAIN @ |-> IF h \in HostsGiven(l)
                                       THEN <<l.pattern>> \o @[h] ELSE @[h]]]

\* What the second pass finds behind ALLOW, or behind the real name: the comment
\* is still there.
Behind(l) == l.words \o l.comment

GroupAfter(l) == IF Behind(l) = <<>> THEN "DEFAULT" ELSE Behind(l)[1]

\* lev is assigned when there is a second word, which may be no number, or no
\* word, and is else what the line before left in it.
LevelAfter(l, lev) ==
  CASE Len(Behind(l)) = 0 -> "1"
    [] Len(Behind(l)) = 1 -> lev
    [] OTHER -> IF Behind(l)[2] \in Levels THEN Behind(l)[2] ELSE "1"

\* The entry of the line.
EntryAfter(l, lev) == Entry(l, GroupAfter(l), LevelAfter(l, lev))

\* Mutant: the entry is added at the end of the list.
ReadAllowAtEnd(a, l) ==
  [a EXCEPT !.lev = LevelAfter(l, @), !.allow = Append(@, EntryAfter(l, a.lev))]

ReadAllow(a, l) ==
  [a EXCEPT !.lev = LevelAfter(l, @), !.allow = <<EntryAfter(l, a.lev)>> \o @]

ReadLine(a, l) ==
  CASE l.cmd = "ORDER" -> ReadOrder(a, l)
    [] l.cmd = "DENY"  -> ReadDeny(a, l)
    [] l.cmd \in {"ALLOW", "ALIAS"} -> ReadAllow(a, l)

\* The lists after each line; reInitialize clears everything first.
ListsOf(f, lev) ==
  LET lists[k \in 0..Len(f)] ==
        IF k = 0 THEN Cleared(lev) ELSE ReadLine(lists[k - 1], f[k])
  IN lists

Read(f, lev) == ListsOf(f, lev)[Len(f)]

-----------------------------------------------------------------------------
(* Decisions *)

\* findEntryInList: the index of the first entry that matches, or 0; the deny
\* lists hold patterns only.
Match(list, n) == SelectInSeq(list, LAMBDA p : n \in p)
EntryMatch(list, n) == SelectInSeq(list, LAMBDA e : n \in e.pattern)

\* findEntry; NoHost is the default argument.
Decide(allow, deny, from, order, n, h) ==
  LET i == EntryMatch(allow, n)
  IN IF \/ h # NoHost /\ Match(from[h], n) # 0
        \/ order = "allow-deny" /\ Match(deny, n) # 0
        \/ i = 0
     THEN NoEntry ELSE allow[i]

findEntry(n, h) == Decide(allowList, denyList, denyFrom, evalOrder, n, h)

\* getRealName
getRealName(e, n) == IF e.alias = NoName THEN n ELSE e.alias

\* The entry pvExistTest finds for a client of h: the host matters only if the
\* file has a DENY FROM.
SearchEntry(n, h) == findEntry(n, IF denyFromUsed THEN h ELSE NoHost)

-----------------------------------------------------------------------------
(* The state machine *)

\* The lists are read from f.  The first value of lev is that of an
\* uninitialized variable.
SetLists(f) ==
  \E lev \in Levels :
    LET a == Read(f, lev)
    IN /\ allowList' = a.allow /\ denyList' = a.deny /\ denyFrom' = a.from
       /\ denyFromUsed' = a.used /\ evalOrder' = a.order
       /\ file' = f

Init ==
  /\ file \in Files
  /\ \E lev \in Levels :
       LET a == Read(file, lev)
       IN /\ allowList = a.allow /\ denyList = a.deny /\ denyFrom = a.from
          /\ denyFromUsed = a.used /\ evalOrder = a.order
  /\ pv = [n \in Names |-> NoEntry]

\* pvExistTest makes the PV of a name it does not know yet.
pvExistTest(n, h) ==
  LET e == SearchEntry(n, h)
  IN /\ e # NoEntry
     /\ pv[getRealName(e, n)] = NoEntry
     /\ pv' = [pv EXCEPT ![getRealName(e, n)] = e]
     /\ UNCHANGED <<listVars, file>>

\* The PV is not used any more and is deleted.
PvEnds(n) ==
  /\ pv[n] # NoEntry
  /\ pv' = [pv EXCEPT ![n] = NoEntry]
  /\ UNCHANGED <<listVars, file>>

\* Bound: between two readings a line is added at the end of the file or one is
\* taken from its front, or it stays as it is.
Edited == {file} \cup {Append(file, l) : l \in Lines}
            \cup (IF file = <<>> THEN {} ELSE {Tail(file)})

\* Mutant: the PVs keep their entries.
newAsEntriesKept(f) == SetLists(f) /\ UNCHANGED pv

\* Mutant: a PV is denied that is denied to some host.
newAsAnyHost(f) ==
  /\ SetLists(f)
  /\ pv' = [n \in Names |->
       IF pv[n] = NoEntry \/ \E h \in Hosts : Match(denyFrom'[h], n) # 0
       THEN NoEntry
       ELSE Decide(allowList', denyList', denyFrom', evalOrder', n, NoHost)]

\* newAs, after the file has become f: every PV is looked up by its real name
\* and deleted or given the entry found.
newAs(f) ==
  /\ SetLists(f)
  /\ pv' = [n \in Names |-> IF pv[n] = NoEntry THEN NoEntry
              ELSE Decide(allowList', denyList', denyFrom', evalOrder', n, NoHost)]

Next ==
  \/ \E n \in Names, h \in Hosts : pvExistTest(n, h)
  \/ \E n \in Names : PvEnds(n)
  \/ \E f \in Edited \cap Files : newAs(f)

Spec == Init /\ [][Next]_vars

-----------------------------------------------------------------------------
(* What Gateway.html ("Access Security") says that a file means *)

DenyFromLine(l, n, h) == l.cmd = "DENY" /\ n \in l.pattern /\ h \in l.hosts

DenyLine(l, n) == l.cmd = "DENY" /\ n \in l.pattern /\ l.hosts = {}

AllowLine(l, n) == l.cmd \in {"ALLOW", "ALIAS"} /\ n \in l.pattern

LastOrder(f) == SelectLastInSeq(f, LAMBDA l : l.cmd = "ORDER")

LastAllow(f, n) == SelectLastInSeq(f, LAMBDA l : AllowLine(l, n))

\* Deny rules override allow rules, unless the last ORDER line says otherwise.
DenyOverrides(f) == LastOrder(f) = 0 \/ f[LastOrder(f)].order = "allow-deny"

\* The default group is DEFAULT, the default level 1.  A comment means nothing
\* (gateAs.cc:465).
GroupMeant(l) == IF l.words = <<>> THEN "DEFAULT" ELSE l.words[1]
LevelMeant(l) == IF Len(l.words) < 2 THEN "1" ELSE l.words[2]

\* The last rule that matches is used.
Meaning(f, n, h) ==
  LET k == LastAllow(f, n)
  IN IF \/ \E i \in DOMAIN f : DenyFromLine(f[i], n, h)
        \/ DenyOverrides(f) /\ \E i \in DOMAIN f : DenyLine(f[i], n)
        \/ k = 0
     THEN NoEntry
     ELSE Entry(f[k], GroupMeant(f[k]), LevelMeant(f[k]))

-----------------------------------------------------------------------------
(* Properties *)

\* Every name is served to every host, under the rule, as the file says, however
\* often files with other rules, another order and other hosts were read before.
DecisionsFollowFile ==
  \A n \in Names, h \in Hosts : SearchEntry(n, h) = Meaning(file, n, h)

\* A PV never holds an entry of lists that were deleted (gateServer.cc:507-519),
\* and the rule it holds is one of those that serve a name.
PvEntriesAreCurrent ==
  \A r \in Names : pv[r] # NoEntry =>
    \E i \in DOMAIN allowList :
      allowList[i] = pv[r] /\ \E n \in Names : findEntry(n, NoHost) = pv[r]

\* To read a file again that has not changed takes no PV away that clients reach
\* by its own name, and leaves it its group and level.
RereadKeepsPvs ==
  [][newAs(file) => \A r \in Names :
       pv[r] # NoEntry /\ pv[r].alias = NoName => pv'[r] = pv[r]]_vars

==============================================================================
