------------------------------ MODULE MCSession -------------------------------
(* Small instances of Session for TLC: channels are in MHz, the radios wake up *)
(* on 2400 and a bench that declares a channel declares 2370.                  *)
EXTENDS Session, TLC

CONSTANTS c1, c2, e1, e2, s1, s2

OneClient == {c1}
TwoClients == {c1, c2}
OneExp == {e1}
TwoExps == {e1, e2}
OneSpec == {s1}
TwoSpecs == {s1, s2}

Band == {2370, 2400}
WideBand == {2370, 2385, 2400}
Hops == {<<2370, 2400>>}
HopsOfOne == {<<2385>>, <<2370, 2400>>}

(* Experiments and structures are interchangeable, and so are two clients,     *)
(* wherever the daemon is not started in an experiment.                        *)
SerialSymmetry == Permutations(TwoExps) \cup Permutations(TwoSpecs)
ClientSymmetry == Permutations(TwoExps) \cup Permutations(TwoClients)
===============================================================================
