----------------------------- MODULE MCProvider -----------------------------
(***************************************************************************)
(* Two agents; a baked profile and two others; listings with none, one and *)
(* several workspaces, an account console, a conflict and a bad entry.     *)
(***************************************************************************)
EXTENDS Provider, TLC

CONSTANTS p1, p2, p3, a1, a2, i1, i2

E(n, h) == [name |-> n, host |-> h]

Listings ==
  {{}, {E(p1, "x"), E(p2, "y")}, {E(p2, "y"), E(p3, "z")},
   {E(p2, "y"), E(p1, "account")}, {E(p3, "z"), E(p3, "y")},
   {E(p2, "y"), E("", "x")}}

Requests ==
  {[op |-> "garbage"], [op |-> "info"]} \cup
  [op : {"deploy"}, profile : {None, p2}, agent : {a1, a2}] \cup
  [op : {"operate"}, profile : {None, p2}, flag : {p1}, agent : {a1}] \cup
  [op : {"undeploy"}, flag : {p1, p2}, id : {None, i1}, yes : BOOLEAN, answer : {i1}]

Alike == Permutations(Proc)
=============================================================================
