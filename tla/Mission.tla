-------------------------------- MODULE Mission -------------------------------
(* AutonomousAgent, which adapts a link through the tools by what it measures: *)
(* rate, then another channel, then hopping ever faster; and the arms race, in *)
(* which the jammer answers what the agent did.                                *)
EXTENDS Controllers

CONSTANTS Foes,      \* adaptive jammers that a race may be run against
          MaxRounds,
          Lapses     \* stages in which a tool call may fail

VARIABLES world, link,       \* the hidden condition, the link as the tools left it
          centre, hopping,   \* what the agent believes of it
          stage, rung, best, \* where adapt is, the rung to try, the best so far
          todo,              \* channels or hop rates still to try, by their place
          result,
          foe, round, verdict

hidden == <<world, foe, round, verdict>>
belief == <<centre, hopping>>
search == <<stage, rung, best, todo>>
vars == <<hidden, link, belief, search, result>>

Searches == {"dropped", "current", "avoided", "hopped"}

Verdicts == {"agent", "jammer", "raised", "inconclusive"}

(* AdaptiveJammer: where it starts, its first latency and its floor, what it   *)
(* has escalated to.                                                           *)
Adversaries ==
  [start : Channels, hit : Hits, first : Taus, floor : Nat \ {0},
   kind : {"fixed", "follower"}, tau : Nat]

ASSUME MissionAssumption ==
  /\ Foes \subseteq Adversaries /\ None \notin Adversaries \cup Verdicts
  /\ MaxRounds \in Nat /\ Lapses \subseteq Searches

Clean == [snr |-> CHOOSE l \in Levels : \A k \in Levels : k <= l, jam |-> None, skew |-> 0]

Init ==
  /\ world = Clean /\ link = On(Candidates[1])
  /\ centre = Candidates[1] /\ hopping = FALSE
  /\ stage = "idle" /\ rung = 1 /\ best = None /\ todo = {}
  /\ result = None
  /\ foe \in {None} \cup Foes /\ round = 0 /\ verdict = None

-------------------------------------------------------------------------------
Search(place) == stage' = place /\ rung' = 1 /\ best' = None

(* adapt under a condition: a hopping agent drops to one channel first.        *)
Adapt(w) ==
  /\ stage = "idle"
  /\ world' = w /\ result' = None /\ todo' = {}
  /\ link' = IF hopping THEN [link EXCEPT !.rate = None] ELSE link
  /\ hopping' = FALSE
  /\ Search(IF hopping THEN "dropped" ELSE "current")
  /\ UNCHANGED centre

Epoch == foe = None /\ (\E w \in Worlds : Adapt(w)) /\ UNCHANGED <<foe, round, verdict>>

(* AdaptiveJammer.to_interferer, on a clean band.                              *)
Interfering(j) == IF j.kind = "fixed" THEN Fixed(j.start, j.hit) ELSE Follower(j.hit, j.tau)

Round ==
  /\ foe # None /\ verdict = None
  /\ Adapt([Clean EXCEPT !.jam = Interfering(foe)])
  /\ round' = round + 1
  /\ UNCHANGED <<foe, verdict>>

(* _probe, and again after a BO run when the first one missed by little.       *)
Rescued(w, l, r) == Within(w, l, r, w.skew, Forgiven) /\ MeetsTuned(w, l, r)
Reachable(w, l, r) == Meets(w, l, r) \/ Rescued(w, l, r)

(* Mutant: the last rung that meets is kept.                                   *)
PreferLast(r) == Reachable(world, link, r)

Prefer(r) == Reachable(world, link, r) /\ (best = None \/ Eff[r] > Eff[best])

TryRung ==
  /\ stage \in Searches /\ rung <= Len(Ladder)
  /\ best' = IF Prefer(Ladder[rung]) THEN Ladder[rung] ELSE best
  /\ rung' = rung + 1
  /\ UNCHANGED <<hidden, link, belief, stage, todo, result>>

Searched == stage \in Searches /\ rung > Len(Ladder)

Report(r, rate) == [rung |-> r, chan |-> centre, rate |-> rate]

Restored ==
  /\ Searched /\ best # None
  /\ hopping' = (stage = "hopped")
  /\ result' = Report(best, IF stage = "hopped" THEN link.rate ELSE None)
  /\ stage' = "reported"
  /\ UNCHANGED <<hidden, link, centre, rung, best, todo>>

Broken == Searched /\ best = None

StillJammed ==
  /\ Broken /\ stage = "dropped"
  /\ Search("current")
  /\ UNCHANGED <<hidden, link, belief, todo, result>>

(* sense_spectrum: what is jammed is avoided, what is not seen is out-hopped.  *)
Sense ==
  /\ Broken /\ stage = "current"
  /\ IF \E f \in Channels : Occupied(world, f)
       THEN /\ todo' = {i \in DOMAIN Candidates :
                           ~Occupied(world, Candidates[i]) /\ Candidates[i] # centre}
            /\ stage' = "avoiding"
       ELSE todo' = DOMAIN Rates /\ stage' = "hopping"
  /\ UNCHANGED <<hidden, link, belief, rung, best, result>>

First(i) == i \in todo /\ \A k \in todo : i <= k

Retune ==
  /\ stage = "avoiding"
  /\ \E i \in todo :
       /\ First(i)
       /\ link' = [link EXCEPT !.chan = Candidates[i]] /\ centre' = Candidates[i]
       /\ todo' = todo \ {i}
  /\ Search("avoided")
  /\ UNCHANGED <<hidden, hopping, result>>

NoChannelLeft ==
  /\ stage = "avoiding" /\ todo = {}
  /\ todo' = DOMAIN Rates /\ stage' = "hopping"
  /\ UNCHANGED <<hidden, link, belief, rung, best, result>>

HopFaster ==
  /\ stage = "hopping"
  /\ \E i \in todo :
       /\ First(i)
       /\ link' = [link EXCEPT !.rate = Rates[i]]
       /\ todo' = todo \ {i}
  /\ Search("hopped")
  /\ UNCHANGED <<hidden, belief, result>>

NextChoice ==
  /\ Broken /\ stage \in {"avoided", "hopped"}
  /\ stage' = IF stage = "avoided" THEN "avoiding" ELSE "hopping"
  /\ UNCHANGED <<hidden, link, belief, rung, best, todo, result>>

(* Mutant: the last hop plan is left set.                                      *)
GiveUpHopping ==
  /\ stage = "hopping" /\ todo = {}
  /\ result' = Report(None, None) /\ stage' = "reported"
  /\ UNCHANGED <<hidden, link, belief, rung, best, todo>>

NothingWorked ==
  /\ stage = "hopping" /\ todo = {}
  /\ link' = [link EXCEPT !.rate = None]
  /\ result' = Report(None, None) /\ stage' = "reported"
  /\ UNCHANGED <<hidden, belief, rung, best, todo>>

(* A tool call raises: adapt is left where it is.                              *)
Lapse ==
  /\ foe = None /\ stage \in Lapses
  /\ stage' = "idle" /\ rung' = 1 /\ best' = None
  /\ UNCHANGED <<hidden, link, belief, todo, result>>

-------------------------------------------------------------------------------
EndEpoch ==
  /\ foe = None /\ stage = "reported"
  /\ stage' = "idle"
  /\ UNCHANGED <<hidden, link, belief, rung, best, todo, result>>

Larger(a, b) == IF a > b THEN a ELSE b

(* The latency escalate aims at: just under the agent's dwell, or half of what *)
(* it is.                                                                      *)
Target(j, rate) ==
  LET under == (9 * Second) \div (10 * rate)
  IN Larger(j.floor, IF under >= j.tau THEN j.tau \div 2 ELSE under)

(* Mutant: a jammer gives up as soon as it is out-hopped.                      *)
ConcedesAtOnce(j, rate) == j.kind = "follower"

(* escalate returns None: the jammer concedes.                                 *)
Concedes(j, rate) == j.kind = "follower" /\ (rate = None \/ Target(j, rate) >= j.tau)

Escalated(j, rate) ==
  IF j.kind = "fixed" THEN [j EXCEPT !.kind = "follower", !.tau = j.first]
  ELSE [j EXCEPT !.tau = Target(j, rate)]

(* A concession to an agent that does not hop raises: its report formats the   *)
(* hop rate.                                                                   *)
Judge ==
  /\ foe # None /\ stage = "reported" /\ verdict = None
  /\ CASE result.rung = None -> verdict' = "jammer" /\ UNCHANGED foe
       [] result.rung # None /\ Concedes(foe, result.rate) ->
            /\ verdict' = IF result.rate = None THEN "raised" ELSE "agent"
            /\ UNCHANGED foe
       [] OTHER ->
            /\ foe' = Escalated(foe, result.rate)
            /\ verdict' = IF round = MaxRounds THEN "inconclusive" ELSE None
  /\ stage' = "idle"
  /\ UNCHANGED <<world, round, link, belief, rung, best, todo, result>>

-------------------------------------------------------------------------------
Choose == Sense \/ Retune \/ NoChannelLeft \/ HopFaster \/ NextChoice

Next ==
  \/ Epoch \/ Round
  \/ TryRung \/ Restored \/ StillJammed \/ Choose \/ NothingWorked \/ Lapse
  \/ EndEpoch \/ Judge

Spec == Init /\ [][Next]_vars

-------------------------------------------------------------------------------
(* What adapt reports is how it leaves the link: the channel it is on, and     *)
(* whether and how fast it hops, which is what the next epoch starts from.     *)
ReportNamesTheLink ==
  stage = "reported" =>
    /\ result.chan = link.chan /\ result.rate = link.rate
    /\ hopping = (link.rate # None)

(* "no countermeasure worked" means that no channel and no hop rate within     *)
(* the agent's reach would have carried any rung, although it tries neither    *)
(* the channels that sense occupied nor, where none does, any other one. Only  *)
(* a fixed jammer on its own channel that stays under the sensing margin is    *)
(* taken for a follower, and its other channels are then left untried. A       *)
(* restored link carries the most efficient rung that it can.                  *)
Overlooked(w, f) == InBand(w, f) /\ ~Reactive(w) /\ ~Occupied(w, f)

Sites(w, f) == IF Overlooked(w, f) THEN {f} ELSE Channels

Settings(w, f) == {On(g) : g \in Sites(w, f)} \cup {Hop(Rates[i]) : i \in DOMAIN Rates}

Hopeless(w, f) == \A l \in Settings(w, f), r \in Rungs : ~Reachable(w, l, r)

ChoosesWell ==
  stage = "reported" =>
    IF result.rung = None THEN Hopeless(world, result.chan)
    ELSE /\ Reachable(world, link, result.rung)
         /\ \A r \in Rungs : Reachable(world, link, r) => Eff[r] <= Eff[result.rung]

(* A race that is decided stays decided: the jammer that lost could not have   *)
(* reacted any faster and is beaten as it is, and the agent that lost had no   *)
(* setting left within its reach.                                              *)
VerdictsStand ==
  /\ verdict = "jammer" => Hopeless(world, result.chan)
  /\ verdict = "agent" =>
       Reachable([world EXCEPT !.jam.tau = foe.floor], link, result.rung)

(* Bisection finds the least power that meets, to its last step, and the power *)
(* controller the most efficient rung that any power in the budget carries.    *)
LeastPower ==
  /\ \A r \in Rungs :
       LET p == MinPower(world, r)
       IN IF p = None THEN ~MeetsAt(world, r, Powers * Step)
          ELSE MeetsAt(world, r, p) /\ (p > 0 => ~MeetsAt(world, r, p - Powers))
  /\ LET r == Afford(world)
     IN IF r = None THEN \A s \in Rungs : MinPower(world, s) = None
        ELSE \A s \in Rungs : MinPower(world, s) # None => Eff[s] <= Eff[r]

(* Where the hopping controller evades a follower in the simulated band, the   *)
(* hardware probe, whose follower is a whole number of dwells behind, is not   *)
(* hit either, as long as that is not a whole number of cycles, nor none: a    *)
(* hop that is caught for over half of each dwell may still meet the target.   *)
Behind(tau, rate) == (2 * tau * rate + Second) \div (2 * Second)

ProbeSeesTheEvasion ==
  Reactive(world) /\ Evade(world).rate # None /\ ~Meets(world, On(centre), Probe) =>
    LET b == Behind(world.jam.tau, Evade(world).rate)
    IN b % Len(Candidates) # 0 => JammedDwells(3, b) = {}
===============================================================================
