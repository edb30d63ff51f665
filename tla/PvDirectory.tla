----------------------------- MODULE PvDirectory -----------------------------
(***************************************************************************)
(* What the gateway promises the Channel Access clients that look for      *)
(* process variables: which PVs it serves, which of them clients are       *)
(* attached to, and what becomes of every exist test.                      *)
(***************************************************************************)
EXTENDS FiniteSets

CONSTANTS Names, Tests

VARIABLES
  serving,   \* the PVs the gateway has a working connection to
  attached,  \* those with a served PV, to which clients hold channels
  waiting,   \* the exist tests postponed for each PV
  sought,    \* the PV each exist test asked for last, none if its name is denied
  answer,    \* the fate of each exist test
  run        \* "up" or "crashed"

dvars == <<serving, attached, waiting, sought, answer, run>>

DInit ==
  /\ serving = {} /\ attached = {}
  /\ waiting = [n \in Names |-> {}]
  /\ sought = [t \in Tests |-> {}]
  /\ answer = [t \in Tests |-> "idle"]
  /\ run = "up"

\* The name a test asks for is denied.
Deny(t) ==
  /\ run = "up" /\ answer[t] # "parked"
  /\ sought' = [sought EXCEPT ![t] = {}]
  /\ answer' = [answer EXCEPT ![t] = "notHere"]
  /\ UNCHANGED <<serving, attached, waiting, run>>

\* A test for the PV n is answered at once: "exists" if n is served, else not.
AnswerNow(t, n) ==
  /\ run = "up" /\ answer[t] # "parked"
  /\ sought' = [sought EXCEPT ![t] = {n}]
  /\ answer' = [answer EXCEPT ![t] = IF n \in serving THEN "exists" ELSE "notHere"]
  /\ UNCHANGED <<serving, attached, waiting, run>>

\* A test for a PV that is not served is postponed.
Postpone(t, n) ==
  /\ run = "up" /\ answer[t] # "parked" /\ n \notin serving
  /\ sought' = [sought EXCEPT ![t] = {n}]
  /\ answer' = [answer EXCEPT ![t] = "parked"]
  /\ waiting' = [waiting EXCEPT ![n] = @ \cup {t}]
  /\ UNCHANGED <<serving, attached, run>>

\* The PV is found: all that waited for it learn that it exists.
Found(n) ==
  /\ run = "up" /\ n \notin serving
  /\ serving' = serving \cup {n}
  /\ answer' = [t \in Tests |-> IF t \in waiting[n] THEN "exists" ELSE answer[t]]
  /\ waiting' = [waiting EXCEPT ![n] = {}]
  /\ UNCHANGED <<attached, sought, run>>

Attach(n) ==
  /\ run = "up" /\ n \in serving \ attached
  /\ attached' = attached \cup {n}
  /\ UNCHANGED <<serving, waiting, sought, answer, run>>

Detach(n) ==
  /\ run = "up"
  /\ attached' = attached \ {n}
  /\ UNCHANGED <<serving, waiting, sought, answer, run>>

\* PVs are withdrawn, with their clients' channels, and the search for others
\* is given up: the tests that waited for those learn so.
Withdraw ==
  /\ run = "up"
  /\ \E S \in SUBSET serving : serving' = serving \ S /\ attached' = attached \ S
  /\ \E S \in SUBSET (Names \ serving) :
       /\ waiting' = [n \in Names |-> IF n \in S THEN {} ELSE waiting[n]]
       /\ answer' = [t \in Tests |->
                       IF \E n \in S : t \in waiting[n] THEN "notHere" ELSE answer[t]]
  /\ UNCHANGED <<sought, run>>

\* The process dies; whoever waited asks the new one again.
Crash ==
  /\ run = "up" /\ run' = "crashed"
  /\ serving' = {} /\ attached' = {}
  /\ waiting' = [n \in Names |-> {}]
  /\ UNCHANGED <<sought, answer>>

Recover ==
  /\ run = "crashed" /\ run' = "up"
  /\ answer' = [t \in Tests |-> "idle"]
  /\ sought' = [t \in Tests |-> {}]
  /\ UNCHANGED <<serving, attached, waiting>>

DNext ==
  \/ \E t \in Tests : Deny(t) \/ \E n \in Names : AnswerNow(t, n) \/ Postpone(t, n)
  \/ \E n \in Names : Found(n) \/ Attach(n) \/ Detach(n)
  \/ Withdraw \/ Crash \/ Recover

DSpec == DInit /\ [][DNext]_dvars

\* A postponed test waits for the PV it asked for, and for no other.
WaitingAsked ==
  \A n \in Names : \A t \in waiting[n] : answer[t] = "parked" /\ sought[t] = {n}

\* No test learns that a PV exists but one that asked for it while it is served, or
\* that waited until it was: whoever else is served (pvExistTest answers from the
\* state of the PV it found under the requested name).
ExistsIsServed ==
  [][\A t \in Tests : answer[t] # "exists" /\ answer'[t] = "exists"
                        => sought'[t] # {} /\ sought'[t] \subseteq serving']_dvars
=============================================================================
