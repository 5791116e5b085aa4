------------------------------- MODULE MCArchive ------------------------------
(* Small instances of Archive for TLC.                                         *)
EXTENDS Archive, TLC

CONSTANTS agent, operator, console, n1, n2, n3

Three == {n1, n2, n3}
AllThreads == {agent, operator, console}
TwoSaved == <<n1, n2>>

Order(op, name) == [op |-> op, name |-> name]
Orders(ops) == [op : ops, name : Names]

(* The operator changes experiments, the agent measures, the console polls.    *)
Bench == (operator :> Orders({"start", "switch", "rename", "delete"}))
           @@ (agent :> {Order("run", None)}) @@ (console :> {Order("poll", None)})
===============================================================================
