----------------------------- MODULE MCGatewayVc -----------------------------
(* Instances of GatewayVc for TLC. *)
EXTENDS GatewayVc, TLC

\* The requests are interchangeable.  Used with safety properties only.
Symmetry == Permutations(Reads) \cup Permutations(NotifyWrites)

==============================================================================
