---------------------------- MODULE MCGatewayPv ----------------------------
(* Instances of GatewayPv for TLC.                                         *)
EXTENDS GatewayPv, TLC

\* Two PVs, one of them also served under an alias.
BothNames    == {"a", "b"}
BothRequests == {"a", "b", "alias"}
Everything   == "a" :> "a" @@ "alias" :> "a" @@ "b" :> "b"
ByAlias      == "alias" :> "a"
ManyLists    == {Everything, ByAlias}

\* One PV, known by its name and by an alias.
OneName     == {"a"}
OneRequests == {"a", "alias"}
AByBoth     == "a" :> "a" @@ "alias" :> "a"
Nothing     == [x \in {} |-> "a"]
FewLists    == {AByBoth, ByAlias, Nothing}
=============================================================================
