----------------------------- MODULE MCClaudeCalls -----------------------------
(* ClaudeCalls for TLC: what Claude answers with, and what that costs.       *)
EXTENDS ClaudeCalls

(* A model with a price, one without, and a search that costs as much.       *)
MCResponses ==
  {[model |-> "opus", tokens |-> 1, searches |-> 0], [model |-> "new", tokens |-> 1, searches |-> 0],
   [model |-> "new", tokens |-> 1, searches |-> 1]}
MCTokenPrice == [model \in {"opus"} |-> 5]
MCDearPrice == [model \in {"opus"} |-> 9]
=============================================================================
