----------------------------- MODULE MCAgentShadow -----------------------------
(* Two workers of one budget over two rows, one of which never reaches a      *)
(* model, with two roles. A call reserves 2 and costs up to 3.                *)
EXTENDS AgentShadow, TLC

MCRows == <<"paid", "refused">>
MCRoles == <<"K3", "JEV">>
MCMaxCost == [K3 |-> 2, JEV |-> 2]
Threads == Permutations(Workers)
================================================================================
