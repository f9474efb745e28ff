---------------------------- MODULE MCPluginHost ----------------------------
(***************************************************************************)
(* Instances of PluginHost: c1 is larger than the child's pipe.            *)
(***************************************************************************)
EXTENDS PluginHost

CONSTANTS c1, c2, a1, a2

Disables == [a \in {a1} |-> "disable"]
DisablesAndRestarts == [a \in {a1, a2} |-> IF a = a1 THEN "disable" ELSE "restart"]
NoAsks == [a \in {} |-> "enable"]
=============================================================================
