----------------------------- MODULE MCGatewayAs -----------------------------
(* Instances of GatewayAs for TLC. *)
EXTENDS GatewayAs

CONSTANTS n1, n2, \* a name that has an alias, and its real name
          h1, h2  \* a client's host and a host that the file names

Order(o) == [cmd |-> "ORDER", order |-> o]

Deny(p, hs, c) == [cmd |-> "DENY", pattern |-> p, hosts |-> hs, comment |-> c]

Allow(p, real, ws, c) ==
  [cmd |-> IF real = NoName THEN "ALLOW" ELSE "ALIAS", pattern |-> p,
   alias |-> real, words |-> ws, comment |-> c]

None == <<>>
Why == <<"#", "why">>  \* # why

\* Lines whose meaning the code and the documentation agree on.
GoodLines ==
  {Order("allow-deny"), Order("deny-allow"),
   Deny({n1, n2}, {}, None), Deny({n2}, {}, None),
   Deny({n2}, {h1}, None), Deny({n1, n2}, {h1, h2}, Why),
   Allow({n1, n2}, NoName, None, None), Allow({n2}, NoName, <<"G", "0">>, Why),
   Allow({n1}, n2, <<"G", "1">>, None)}

\* A DENY with a comment behind it.
CommentedLines ==
  {Deny({n2}, {}, Why), Deny({n2}, {h1}, None),
   Allow({n1, n2}, NoName, None, None), Order("deny-allow")}

\* A comment behind ALLOW, with a blank before its word and without; a group
\* without a level; a host that nobody knows.
CommentedAllowLines ==
  {Allow({n1}, NoName, None, Why), Allow({n2}, NoName, None, <<"#why">>),
   Allow({n1}, NoName, <<"G", "0">>, None)}
BareGroupLines ==
  {Allow({n2}, NoName, <<"G">>, None), Allow({n1}, NoName, <<"G", "0">>, None)}
UnknownHostLines ==
  {Deny({n2}, {h2}, None), Allow({n1, n2}, NoName, None, None)}

==============================================================================
