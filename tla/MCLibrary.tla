------------------------------- MODULE MCLibrary -------------------------------
(* A small instance of Library for TLC.                                        *)
EXTENDS Library, TLC

CONSTANTS e1, e2

TwoExps == {e1, e2}
Same == Permutations(TwoExps)

(* Two structures of one name, one that does not validate.                     *)
Plain16 == Link("16qam_link", "qam16", None)
TheStructures ==
  {Plain16, [Plain16 EXCEPT !.rx = <<MatchedFilter, Agc, SymbolSync, Demod("qam16")>>],
   [Plain16 EXCEPT !.mod = "qpsk"]}

TheLadder == {Rung("qpsk", None), Rung("qam16", None), Rung("qam16", "r34")}
TheCalls == [graph |-> 3, skill |-> 4]
Typing == [sps |-> 8, rolloff |-> 20, loop_bw |-> 500]
===============================================================================
