---------------------------- MODULE MCHandshake ----------------------------
(***************************************************************************)
(* Two servers that report no tool, one, the same twice, or one with an      *)
(* illegal name.  Of the second no tool is expected: it may report none, or  *)
(* the one that is expected of the first.                                   *)
(***************************************************************************)
EXTENDS Handshake

CONSTANTS s1, s2

TwoServers == <<s1, s2>>
Lists == {<<>>, <<"a">>, <<"b">>, <<"b", "b">>, <<"x__y">>}
Names == {"a", "b"}
Inventory == (s1 :> {"a"}) @@ (s2 :> {})
=============================================================================
