----------------------------- MODULE MCTurnEngine -----------------------------
(* Calls of the model for model checking TurnEngine. *)
EXTENDS TurnEngine

MCRemove == [op |-> "remove", items |-> <<[id |-> 1, checked |-> FALSE, named |-> TRUE]>>]
MCCall(tool, seconds) == [tool |-> tool, seconds |-> seconds, op |-> MCRemove]
MCCalls == {MCCall("start_timer", 1), MCCall("list_manage", 0), MCCall("stateless", 0)}
MCListRequests == {MCRemove}
===============================================================================
