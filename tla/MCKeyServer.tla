----------------------------- MODULE MCKeyServer -----------------------------
(* KeyServer with a prefix of each length and a few random digits.         *)
EXTENDS KeyServer

MCPrefixes == {<<4>>, <<3, 6>>, <<3, 0, 2>>, <<2, 1, 4, 9>>}
MCFills == {[i \in 1 .. 15 |-> 9], [i \in 1 .. 15 |-> i % 10], [i \in 1 .. 15 |-> (7 * i) % 10]}
MCCuts == {<<0, 0, 0, 0>>, <<4, 5, 2, 5>>, <<1, 3, 1, 2>>}
=============================================================================
