------------------------------ MODULE Controllers -----------------------------
(* The one-shot controllers, which drive a backend from start to end and see   *)
(* nothing of the world but trials and sensed power: two-loop rate adaptation, *)
(* frequency avoidance, hopping, power, and the hardware hop probe.            *)
EXTENDS Band, SequencesExt

CONSTANTS Probe,      \* the rung a scan probes with
          Powers,     \* levels that transmit power can add, 0 .. Powers
          Iterations  \* halvings of the power search

ASSUME ControllersAssumption ==
  Probe \in Rungs /\ Powers \in Nat \ {0} /\ Iterations \in Nat

On(f) == [chan |-> f, rate |-> None]
Hop(rate) == [chan |-> Candidates[1], rate |-> rate]

(* choose_modcod: the first of the most efficient rungs that meet, the ladder's*)
(* first rung in an outage.                                                    *)
BestOf(meeting) ==
  LET best == SelectSeq(Ladder, LAMBDA r : r \in meeting /\ \A s \in meeting : Eff[s] <= Eff[r])
  IN IF best = <<>> THEN None ELSE best[1]

TwoLoop(w, link, tuned) ==
  BestOf({r \in Rungs : IF tuned THEN MeetsTuned(w, link, r) ELSE Meets(w, link, r)})

(* amc_sweep over the condition of a clean channel.                            *)
Sweep(w) == BestOf({r \in Rungs : Need[r] <= w.snr})

(* FrequencyAvoidanceController: the quietest clear channel if there is a      *)
(* monitor, the first channel that the probe meets on otherwise.               *)
SensedChannel(w) ==
  LET clear == {f \in Channels : ~Occupied(w, f)}
      quietest == SelectSeq(Candidates, LAMBDA f :
                    f \in clear /\ \A g \in clear : Power(w, f) <= Power(w, g))
  IN IF quietest = <<>> THEN None ELSE quietest[1]

BlindChannel(w) ==
  LET met == SelectSeq(Candidates, LAMBDA f : Meets(w, On(f), Probe))
  IN IF met = <<>> THEN None ELSE met[1]

Avoid(w, monitor) ==
  LET f == IF monitor THEN SensedChannel(w) ELSE BlindChannel(w)
  IN [chan |-> f, rung |-> IF f = None THEN None ELSE TwoLoop(w, On(f), TRUE)]

(* FrequencyHoppingController: the lowest rate at which the probe meets.       *)
Evade(w) ==
  LET evading == {i \in DOMAIN Rates : Meets(w, Hop(Rates[i]), Probe)}
      rate == Rates[Min(evading)]
  IN IF evading = {} THEN [rate |-> None, rung |-> None]
     ELSE [rate |-> rate, rung |-> TwoLoop(w, Hop(rate), FALSE)]

(* PowerController: the least power by halving, in units of a halving's last   *)
(* step, and the most efficient rung it makes feasible, at the least power.    *)
Doubled[i \in 0 .. Iterations] == IF i = 0 THEN 1 ELSE 2 * Doubled[i - 1]
Step == Doubled[Iterations]

MeetsAt(w, r, power) == Need[r] * Step <= w.snr * Step + power

Halve(w, r, range) ==
  LET mid == (range.lo + range.hi) \div 2
  IN IF MeetsAt(w, r, mid) THEN [range EXCEPT !.hi = mid] ELSE [range EXCEPT !.lo = mid]

Narrowed(w, r) ==
  LET range[i \in 0 .. Iterations] ==
        IF i = 0 THEN [lo |-> 0, hi |-> Powers * Step] ELSE Halve(w, r, range[i - 1])
  IN range[Iterations]

(* Mutant: the last level that failed is returned.                             *)
BisectBelow(w, r) == Narrowed(w, r).lo

Bisect(w, r) == Narrowed(w, r).hi

MinPower(w, r) ==
  IF ~MeetsAt(w, r, Powers * Step) THEN None
  ELSE IF MeetsAt(w, r, 0) THEN 0
  ELSE Bisect(w, r)

Better(w, best, r) ==
  IF MinPower(w, r) = None THEN best
  ELSE IF best = None THEN r
  ELSE IF Eff[r] > Eff[best] \/ (Eff[r] = Eff[best] /\ MinPower(w, r) < MinPower(w, best))
    THEN r ELSE best

Afford(w) ==
  LET best[i \in 0 .. Len(Ladder)] ==
        IF i = 0 THEN None ELSE Better(w, best[i - 1], Ladder[i])
  IN best[Len(Ladder)]

(* HardwareHopProbe: the dwells of a number of cycles that a follower hits     *)
(* which sits where the link was some dwells ago.                              *)
Visited(t) == Candidates[(t % Len(Candidates)) + 1]

(* Mutant: a history that already holds the current channel.                   *)
FollowerAhead(t, behind) ==
  IF behind <= 0 THEN Visited(t) ELSE IF t < behind THEN None ELSE Visited(t - behind + 1)

FollowerChannel(t, behind) ==
  IF behind <= 0 THEN Visited(t) ELSE IF t < behind THEN None ELSE Visited(t - behind)

JammedDwells(cycles, behind) ==
  {t \in 0 .. cycles * Len(Candidates) - 1 : FollowerChannel(t, behind) = Visited(t)}
===============================================================================
