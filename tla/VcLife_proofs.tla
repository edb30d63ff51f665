---------------------------- MODULE VcLife_proofs ----------------------------
(* What VcLife implies: GatewayVc_proofs and GatewayLife_proofs carry it over *)
(* to the models that implement VcLife.                                       *)
EXTENDS VcLife, TLAPS

\* A VC is there only over an Active PV; it waits for the first event exactly
\* while its PV is marked needAddRemove.
THEOREM LifeKept == LSpec => []VcLifeOK
<1>1. LInit => VcLifeOK
  BY DEF LInit, VcLifeOK
<1>2. VcLifeOK /\ [LNext]_lvars => VcLifeOK'
  <2> SUFFICES ASSUME VcLifeOK, [LNext]_lvars PROVE VcLifeOK'
    OBVIOUS
  <2>1. CASE Found
    BY <2>1 DEF Found, VcLifeOK
  <2>2. CASE Activate
    BY <2>2 DEF Activate, VcLifeOK
  <2>3. CASE ActivationFails
    BY <2>3 DEF ActivationFails, VcLifeOK
  <2>4. CASE Complete
    BY <2>4 DEF Complete, VcLifeOK
  <2>5. CASE Release
    BY <2>5 DEF Release, VcLifeOK
  <2>6. CASE Lose
    BY <2>6 DEF Lose, VcLifeOK
  <2>7. CASE UNCHANGED lvars
    BY <2>7 DEF lvars, VcLifeOK
  <2> QED BY <2>1, <2>2, <2>3, <2>4, <2>5, <2>6, <2>7 DEF LNext
<1> QED BY <1>1, <1>2, PTL DEF LSpec
=============================================================================
