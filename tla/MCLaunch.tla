------------------------------ MODULE MCLaunch ------------------------------
(***************************************************************************)
(* A deploy, a redeploy and a start, all at once or in any order.          *)
(***************************************************************************)
EXTENDS Launch, TLC

CONSTANTS d1, d2

TwoDeploys == {d1, d2}
IdsOfTheirOwn == [d \in TwoDeploys |-> d]
Alike == Permutations(TwoDeploys)
=============================================================================
