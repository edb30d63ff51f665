------------------------------- MODULE VcLife -------------------------------
(***************************************************************************)
(* What gatePvData (gatePv.cc) and gateVcData (gateVc.cc) promise each     *)
(* other about one process variable: when there is a gateVcData, when it   *)
(* is ready, and what becomes of it when the PV goes.  GatewayPv, with many*)
(* PVs and no data, and GatewayVc, with one PV and its requests, both      *)
(* implement it: this is where the two models meet.                        *)
(***************************************************************************)
CONSTANT CacheMode  \* global_resources->getCacheMode()

VARIABLES
  pv,    \* gatePvData::pv_state: "Inactive", "Active", or "away" for the others
  vc,    \* the state of the gateVcData, "none" when there is none
  need   \* gatePvData::complete_flag (needAddRemove)

lvars == <<pv, vc, need>>

LInit == pv \in {"away", "Inactive"} /\ vc = "none" /\ need = FALSE

\* life(): the connection comes up.
Found ==
  /\ pv = "away" /\ pv' = "Inactive"
  /\ UNCHANGED <<vc, need>>

\* activate(): without the cache the VC is ready at once, with it the PV is
\* marked, and a mark of an earlier VC may still be there.
Activate ==
  /\ pv = "Inactive" /\ pv' = "Active"
  /\ vc' = (IF CacheMode THEN "Connect" ELSE "Ready")
  /\ need' = (need \/ CacheMode)

\* activate() fails: the VC is deleted, the PV stays Active and marked.
ActivationFails ==
  /\ CacheMode
  /\ pv = "Inactive" /\ pv' = "Active"
  /\ need' = TRUE
  /\ UNCHANGED vc

\* The first event completes the VC.
Complete ==
  /\ vc = "Connect" /\ vc' = "Ready"
  /\ need /\ need' = FALSE
  /\ UNCHANGED pv

\* deactivate(): the last client leaves.  The mark of a VC that was not ready stays.
Release ==
  /\ vc # "none" /\ vc' = "none"
  /\ pv' = "Inactive"
  /\ UNCHANGED need

\* death(), a cleanup, a denial, or the end of the process: the VC goes with its PV.
Lose ==
  /\ pv # "away" /\ pv' = "away"
  /\ vc' = "none" /\ need' = FALSE

LNext == Found \/ Activate \/ ActivationFails \/ Complete \/ Release \/ Lose

LSpec == LInit /\ [][LNext]_lvars

-----------------------------------------------------------------------------
\* There is a VC only over an Active PV; only a PV that is connected is marked;
\* a VC that is not ready is one of the cache, whose PV is marked until the
\* first event makes the VC ready: no VC can wait for an event that would be
\* ignored ("if(pv->needAddRemove())", eventCB, gatePv.cc), none is completed twice.
VcLifeOK ==
  /\ pv \in {"away", "Inactive", "Active"} /\ vc \in {"none", "Connect", "Ready"}
  /\ vc # "none" => pv = "Active"
  /\ need => CacheMode /\ pv # "away"
  /\ vc = "Connect" => need
  /\ vc = "Ready" => ~need
=============================================================================
