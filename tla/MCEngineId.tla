------------------------------ MODULE MCEngineId ------------------------------
(***************************************************************************)
(* An Ethernet card, a card with a name of its own that sorts before it,   *)
(* and a container bridge that sorts between them.                         *)
(***************************************************************************)
EXTENDS EngineId

MCAlphabet == [i \in Iface |-> CASE i = "ath0" -> 1 [] i = "docker0" -> 2 [] OTHER -> 3]
===============================================================================
