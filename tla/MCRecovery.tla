----------------------------- MODULE MCRecovery ------------------------------
(* Two cache nodes, whose ids have a file name each or one for both, and    *)
(* one migration; a crash in the middle of a handler and a failing call of  *)
(* the store, with and without plyvel.                                      *)
EXTENDS Recovery

OwnNames  == [n \in Node |-> n]
OneName   == [n \in Node |-> CHOOSE m \in Node : TRUE]
NamesMC   == {OwnNames, OneName}
=============================================================================
