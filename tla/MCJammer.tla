------------------------------- MODULE MCJammer -------------------------------
(* Small instances of Jammer for TLC. A channel is a model value.              *)
EXTENDS Jammer, TLC

CONSTANTS c1, f1, f2, u1, u2, m1, m2

OneCaller == {c1}
TwoFollowers == {f1, f2}
TwoUnits == {u1, u2}
Band == {m1, m2}

Alike == Permutations(TwoUnits) \cup Permutations(TwoFollowers)

Cmd(on, hz, follow) == [on |-> on, hz |-> hz, follow |-> follow]

(* Arm, arm following, move, stop following, disarm; a move out of range.      *)
Orders == {Cmd("on", None, "on"), Cmd("same", m2, "same"),
           Cmd("off", None, "off"), Cmd("on", "beyond", "same")}

ShortOrders == {Cmd("on", None, "on"), Cmd("off", None, "same")}
===============================================================================
