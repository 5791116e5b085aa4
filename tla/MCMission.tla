------------------------------- MODULE MCMission ------------------------------
(* Small instances of Mission for TLC.                                         *)
EXTENDS Mission, TLC

CONSTANTS f1, f2, f3, bpsk, qpsk, coded, qam

Channels3 == <<f1, f2, f3>>
HopRates == <<50, 100, 200>>

(* A coded rung in the middle of the ladder is no more efficient than the one  *)
(* before it.                                                                  *)
Rungs4 == <<bpsk, qpsk, coded, qam>>
Needs == (bpsk :> 1) @@ (qpsk :> 3) @@ (coded :> 2) @@ (qam :> 5)
Bits == (bpsk :> 2) @@ (qpsk :> 4) @@ (coded :> 2) @@ (qam :> 8)

(* Bit errors by the levels a dwell is short, the target being 1 and a BO run  *)
(* tried up to 4. A third of the dwells one level short, or a fifth of each    *)
(* dwell, still meets.                                                         *)
BitErrorRates ==
  [n \in -7 .. 6 |-> CASE n >= 0 -> 0 [] n = -1 -> 3 [] n = -2 -> 9 [] OTHER -> 50]

Jammer(start, hit, first, floor) ==
  [start |-> start, hit |-> hit, first |-> first, floor |-> floor, kind |-> "fixed", tau |-> 0]

(* Jammers that end at a latency the fastest hop beats and at one it does not, *)
(* and a weak one.                                                             *)
Jammers ==
  {Jammer(f, 6, 20, floor) : f \in {f1, f2}, floor \in {4, 5, 9}} \cup {Jammer(f1, 2, 20, 5)}
===============================================================================
