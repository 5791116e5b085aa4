----------------------------- MODULE MissionProofs ----------------------------
(* What holds of the reference agent and of the arms race for any channels,    *)
(* hop rates, ladders, jammers and conditions, as long as no tool call fails   *)
(* in the middle of a hop.                                                     *)
EXTENDS Mission, WellFoundedInduction, TLAPS

NoLapseInHop == "hopped" \notin Lapses

Stages == Searches \cup {"idle", "avoiding", "hopping", "reported"}

RateSet == {Rates[i] : i \in DOMAIN Rates}
Links == [chan : Channels, rate : {None} \cup RateSet]
Reports == [rung : {None} \cup Rungs, chan : Channels, rate : {None} \cup RateSet]

(* A jammer that does not follow sits on one of the channels.                  *)
Bands == {w \in [snr : Levels, jam : {None} \cup Emitters, skew : {0} \cup Skews] :
            w.jam # None /\ w.jam.kind = "fixed" => w.jam.at \in Channels}

TypeInv ==
  /\ world \in Bands /\ link \in Links
  /\ centre \in Channels /\ hopping \in BOOLEAN
  /\ stage \in Stages /\ rung \in Nat \ {0} /\ best \in {None} \cup Rungs
  /\ stage \in {"avoiding", "avoided"} => todo \subseteq DOMAIN Candidates
  /\ stage \in {"hopping", "hopped"} => todo \subseteq DOMAIN Rates
  /\ stage = "reported" => result \in Reports
  /\ foe \in {None} \cup Adversaries /\ round \in Nat
  /\ verdict \in {None} \cup Verdicts

(* The agent knows which channel the link is on; between epochs also whether   *)
(* it hops, which it finds out about a hop plan of its own only at the end.    *)
Aware ==
  /\ centre = link.chan
  /\ stage \in {"idle", "reported"} => hopping = (link.rate # None)
  /\ stage \in {"dropped", "current", "avoiding", "avoided"} => ~hopping /\ link.rate = None
  /\ stage \in {"hopping", "hopped"} => ~hopping
  /\ stage = "hopped" => link.rate # None

(* Of the rungs it has tried, best is the most efficient that the link carries.*)
Carries(r) == Reachable(world, link, r)

BestSoFar ==
  stage \in Searches =>
    /\ best # None => Carries(best)
    /\ \A i \in DOMAIN Ladder :
         i < rung /\ Carries(Ladder[i]) => best # None /\ Eff[Ladder[i]] <= Eff[best]

(* What is not to be tried any more has failed. A channel that was occupied is *)
(* not tried, until the others have failed; where none was, those that the     *)
(* agent could be on have failed, and all of them unless it overlooked a       *)
(* jammer on its own.                                                          *)
Fails(w, l) == \A r \in Rungs : ~Reachable(w, l, r)

ChannelsTried ==
  \A f \in Channels :
    \/ Occupied(world, f) \/ Fails(world, On(f))
    \/ \E i \in todo : Candidates[i] = f
    \/ stage = "avoided" /\ f = centre

RatesTried ==
  \A i \in DOMAIN Rates \ todo :
    \/ Fails(world, Hop(Rates[i]))
    \/ stage = "hopped" /\ Rates[i] = link.rate

Tried ==
  /\ stage \in {"avoiding", "avoided"} => ChannelsTried
  /\ stage \in {"hopping", "hopped"} =>
       RatesTried /\ \A f \in Sites(world, centre) : Fails(world, On(f))

(* In a race the band is clean but for the jammer, and ends with a verdict.    *)
Racing ==
  /\ foe # None /\ stage # "idle" => world = [Clean EXCEPT !.jam = Interfering(foe)]
  /\ verdict # None => foe # None /\ stage = "idle"

-------------------------------------------------------------------------------
LEMMA RatesArePositive == RateSet \subseteq Nat \ {0} /\ None \notin RateSet
BY BandAssumption DEF BandAssumption, RateSet

LEMMA ChannelsAreNamed == None \notin Channels /\ None \notin Rungs /\ None \notin Nat
BY BandAssumption DEF BandAssumption

LEMMA Quality ==
  ASSUME NEW w \in Bands
  PROVE  /\ w.snr \in Nat /\ w.skew \in Nat
         /\ w.jam # None => /\ w.jam.hit \in Nat /\ w.jam.tau \in Nat
                            /\ w.jam.kind \in {"fixed", "follower"}
         /\ Jammed(w) \in Nat /\ Jammed(w) <= w.snr
<1>1. w.snr \in Nat /\ w.skew \in Nat
  BY BandAssumption DEF Bands, BandAssumption
<1>2. ASSUME w.jam # None
      PROVE  w.jam.hit \in Nat /\ w.jam.tau \in Nat /\ w.jam.kind \in {"fixed", "follower"}
  BY <1>2 DEF Bands, Emitters
<1>3. Jammed(w) \in Nat /\ Jammed(w) <= w.snr
  BY <1>1, <1>2 DEF Jammed, Floor
<1> QED
  BY <1>1, <1>2, <1>3

(* What is graded jammed has at least the errors of what is graded clean.      *)
LEMMA Grades ==
  ASSUME NEW w \in Bands, NEW r \in Rungs, NEW k \in {w.skew, 0}
  PROVE  /\ Errors[Jammed(w) - Need[r] - k] \in Nat /\ Errors[w.snr - Need[r] - k] \in Nat
         /\ Errors[w.snr - Need[r] - k] <= Errors[Jammed(w) - Need[r] - k]
<1> DEFINE Reach == UNION {0 .. m : m \in Levels}
           worse == Jammed(w) - Need[r] - k
           better == w.snr - Need[r] - k
<1>1. /\ Jammed(w) \in Nat /\ w.snr \in Nat /\ Jammed(w) <= w.snr /\ w.snr \in Levels
      /\ Need[r] \in Nat /\ k \in Nat /\ k \in {0} \cup Skews
  BY Quality, BandAssumption DEF BandAssumption, Bands
<1>2. Jammed(w) \in 0 .. w.snr /\ w.snr \in 0 .. w.snr
  BY <1>1
<1>3. Jammed(w) \in Reach /\ w.snr \in Reach
  BY <1>1, <1>2
<1>4. worse \in Spares /\ better \in Spares
  BY <1>1, <1>3 DEF Spares
<1>5. worse <= better
  BY <1>1
<1> HIDE DEF worse, better
<1>6. Errors[worse] \in Nat /\ Errors[better] \in Nat /\ Errors[better] <= Errors[worse]
  BY <1>4, <1>5, BandAssumption DEF BandAssumption
<1> QED
  BY <1>6 DEF worse, better

LEMMA ShareIs ==
  ASSUME NEW w \in Bands, NEW l \in Links
  PROVE  /\ Dwells(w, l).of \in Nat /\ Dwells(w, l).hit \in Nat
         /\ Dwells(w, l).hit <= Dwells(w, l).of
<1>1. CASE l.rate = None
  <2>1. Dwells(w, l) = [of |-> 1, hit |-> IF InBand(w, l.chan) THEN 1 ELSE 0]
    BY <1>1, Zenon DEF Dwells
  <2> QED
    BY <2>1
<1>2. CASE l.rate # None /\ Reactive(w)
  <2>1. Dwells(w, l) = [of |-> Second, hit |-> Caught(w.jam.tau, l.rate)]
    BY <1>2 DEF Dwells
  <2>2. l.rate \in RateSet
    BY <1>2 DEF Links
  <2>3. w.jam.tau \in Nat /\ l.rate \in Nat
    BY <1>2, <2>2, Quality, RatesArePositive DEF Reactive
  <2>4. w.jam.tau * l.rate \in Nat
    BY <2>3
  <2> QED
    BY <2>1, <2>4 DEF Caught, Floor, Second
<1>3. CASE l.rate # None /\ ~Reactive(w)
  <2>1. Dwells(w, l) = [of |-> Len(Candidates), hit |-> IF w.jam = None THEN 0 ELSE 1]
    BY <1>3 DEF Dwells
  <2>2. Len(Candidates) \in Nat /\ Len(Candidates) > 1
    BY BandAssumption DEF BandAssumption
  <2> QED
    BY <2>1, <2>2
<1> QED
  BY <1>1, <1>2, <1>3

(* A smaller share of the worse of two rates is the smaller mixture.           *)
LEMMA SmallerShare ==
  ASSUME NEW few \in Nat, NEW many \in Nat, NEW of \in Nat, few <= many, many <= of,
         NEW worse \in Nat, NEW better \in Nat, better <= worse
  PROVE  few * worse + (of - few) * better <= many * worse + (of - many) * better
<1>1. PICK d \in Nat : many = few + d
  <2>1. many - few \in Nat /\ many = few + (many - few)
    OBVIOUS
  <2> QED
    BY <2>1
<1>2. PICK e \in Nat : of = many + e
  <2>1. of - many \in Nat /\ of = many + (of - many)
    OBVIOUS
  <2> QED
    BY <2>1
<1>3. of - few = d + e /\ of - many = e
  BY <1>1, <1>2
<1>4. d * better <= d * worse /\ d * better \in Nat /\ d * worse \in Nat
  OBVIOUS
<1>5. (few + d) * worse = few * worse + d * worse
  OBVIOUS
<1>6. (d + e) * better = d * better + e * better
  OBVIOUS
<1>7. few * worse \in Nat /\ e * better \in Nat
  OBVIOUS
<1> QED
  BY <1>1, <1>3, <1>4, <1>5, <1>6, <1>7

(* The less of a trial is jammed, in conditions that are otherwise the same,   *)
(* the more it carries.                                                        *)
Alike(v, w) == v.snr = w.snr /\ v.skew = w.skew /\ Jammed(v) = Jammed(w)

LEMMA FewerErrors ==
  ASSUME NEW v \in Bands, NEW w \in Bands, Alike(v, w), NEW k \in Links, NEW l \in Links,
         Dwells(v, k).of = Dwells(w, l).of, Dwells(w, l).hit <= Dwells(v, k).hit,
         NEW r \in Rungs, NEW s \in {w.skew, 0}
  PROVE  /\ BitErrors(w, l, r, s) \in Nat /\ BitErrors(v, k, r, s) \in Nat
         /\ BitErrors(w, l, r, s) <= BitErrors(v, k, r, s)
<1> DEFINE few == Dwells(w, l).hit
           many == Dwells(v, k).hit
           of == Dwells(w, l).of
           worse == Errors[Jammed(w) - Need[r] - s]
           better == Errors[w.snr - Need[r] - s]
<1>1. few \in Nat /\ many \in Nat /\ of \in Nat /\ few <= many /\ many <= of
  BY ShareIs
<1>2. worse \in Nat /\ better \in Nat /\ better <= worse
  BY Grades
<1>3. BitErrors(w, l, r, s) = few * worse + (of - few) * better
  BY DEF BitErrors
<1>4. BitErrors(v, k, r, s) = many * worse + (of - many) * better
  BY DEF BitErrors, Alike
<1> HIDE DEF few, many, of, worse, better
<1>5. few * worse + (of - few) * better <= many * worse + (of - many) * better
  BY <1>1, <1>2, SmallerShare
<1>6. of - few \in Nat /\ of - many \in Nat
  BY <1>1
<1>7. /\ few * worse \in Nat /\ (of - few) * better \in Nat
      /\ many * worse \in Nat /\ (of - many) * better \in Nat
  BY <1>1, <1>2, <1>6
<1> QED
  BY <1>3, <1>4, <1>5, <1>7

LEMMA CarriesMore ==
  ASSUME NEW v \in Bands, NEW w \in Bands, Alike(v, w), NEW k \in Links, NEW l \in Links,
         Dwells(v, k).of = Dwells(w, l).of, Dwells(w, l).hit <= Dwells(v, k).hit,
         NEW r \in Rungs, Reachable(v, k, r)
  PROVE  Reachable(w, l, r)
<1> DEFINE of == Dwells(w, l).of
<1>1. of \in Nat /\ v.skew = w.skew /\ Dwells(v, k).of = of
  BY ShareIs DEF Alike
<1>2. \A limit \in Nat : limit * of \in Nat
  BY <1>1
<1>3. ASSUME NEW s \in {w.skew, 0}, NEW limit \in Nat, Within(v, k, r, s, limit)
      PROVE  Within(w, l, r, s, limit)
  <2>1. /\ BitErrors(w, l, r, s) \in Nat /\ BitErrors(v, k, r, s) \in Nat
        /\ BitErrors(w, l, r, s) <= BitErrors(v, k, r, s)
    BY FewerErrors
  <2>2. BitErrors(v, k, r, s) <= limit * of
    BY <1>1, <1>3 DEF Within
  <2> HIDE DEF of
  <2>3. BitErrors(w, l, r, s) <= limit * of
    BY <1>2, <2>1, <2>2
  <2> QED
    BY <2>3 DEF Within, of
<1>4. Tolerated \in Nat /\ Forgiven \in Nat
  BY BandAssumption DEF BandAssumption
<1> QED
  BY <1>1, <1>3, <1>4 DEF Reachable, Rescued, Meets, MeetsTuned

LEMMA OnIsLink == \A f \in Channels : On(f) \in Links /\ On(f).chan = f /\ On(f).rate = None
BY DEF On, Links

LEMMA HopIsLink ==
  \A i \in DOMAIN Rates :
    Hop(Rates[i]) \in Links /\ Hop(Rates[i]).rate = Rates[i] /\ Rates[i] # None
<1>1. Candidates[1] \in Channels
  BY BandAssumption DEF BandAssumption, Channels
<1> QED
  BY <1>1, RatesArePositive DEF Hop, Links, RateSet

(* A channel that is jammed wherever another one is carries no more than it.   *)
LEMMA JammedFails ==
  ASSUME NEW w \in Bands, NEW f \in Channels, NEW g \in Channels,
         InBand(w, g) => InBand(w, f), Fails(w, On(g))
  PROVE  Fails(w, On(f))
<1>1. /\ Dwells(w, On(f)) = [of |-> 1, hit |-> IF InBand(w, f) THEN 1 ELSE 0]
      /\ Dwells(w, On(g)) = [of |-> 1, hit |-> IF InBand(w, g) THEN 1 ELSE 0]
  BY OnIsLink, Zenon DEF Dwells
<1>2. /\ Dwells(w, On(f)).of = Dwells(w, On(g)).of
      /\ Dwells(w, On(g)).hit <= Dwells(w, On(f)).hit
  BY <1>1
<1>3. On(f) \in Links /\ On(g) \in Links /\ Alike(w, w)
  BY OnIsLink DEF Alike
<1> QED
  BY <1>2, <1>3, CarriesMore DEF Fails

(* A channel that senses occupied has the jammer, and no other one has.        *)
LEMMA OccupiedIsJammed ==
  ASSUME NEW w, NEW f, Occupied(w, f)
  PROVE  InBand(w, f) /\ ~Reactive(w) /\ w.jam # None /\ w.jam.at = f
<1>1. Margin \in Nat /\ Power(w, f) > Margin
  BY BandAssumption DEF BandAssumption, Occupied
<1>2. Power(w, f) # 0
  BY <1>1
<1>3. InBand(w, f) /\ ~Reactive(w)
  BY <1>2 DEF Power
<1> QED
  BY <1>3 DEF InBand

LEMMA SomewhereClear == \A w \in Bands : \E f \in Channels : ~Occupied(w, f)
<1>1. 1 \in DOMAIN Candidates /\ 2 \in DOMAIN Candidates
  BY BandAssumption DEF BandAssumption
<1>2. Candidates[1] \in Channels /\ Candidates[2] \in Channels /\ Candidates[1] # Candidates[2]
  BY <1>1, BandAssumption DEF BandAssumption, Channels
<1> QED
  BY <1>2, OccupiedIsJammed

(* Everything fails once all channels fail that sense clear.                   *)
LEMMA OccupiedFails ==
  ASSUME NEW w \in Bands,
         \A f \in Channels : Occupied(w, f) \/ Fails(w, On(f))
  PROVE  \A f \in Channels : Fails(w, On(f))
<1> SUFFICES ASSUME NEW f \in Channels, Occupied(w, f) PROVE Fails(w, On(f))
  OBVIOUS
<1>1. PICK g \in Channels : ~Occupied(w, g)
  BY SomewhereClear
<1> QED
  BY <1>1, OccupiedIsJammed, JammedFails

(* Where none senses occupied, the channel the agent is on fails like the rest *)
(* unless the jammer it overlooks is there.                                    *)
LEMMA UnseenFails ==
  ASSUME NEW w \in Bands, NEW c \in Channels, \A f \in Channels : ~Occupied(w, f),
         Fails(w, On(c))
  PROVE  \A f \in Sites(w, c) : Fails(w, On(f))
<1> SUFFICES ASSUME NEW f \in Sites(w, c) PROVE Fails(w, On(f))
  OBVIOUS
<1>1. CASE Overlooked(w, c)
  BY <1>1 DEF Sites
<1>2. CASE ~Overlooked(w, c)
  <2>1. f \in Channels
    BY <1>2 DEF Sites
  <2>2. InBand(w, c) => Reactive(w)
    BY <1>2 DEF Overlooked
  <2>3. InBand(w, c) => InBand(w, f)
    BY <2>2 DEF InBand
  <2> QED
    BY <2>1, <2>3, JammedFails
<1> QED
  BY <1>1, <1>2

LEMMA SitesAreChannels == \A w, c : c \in Channels => Sites(w, c) \subseteq Channels
BY DEF Sites

(* A slower jammer beats no link that a faster one does not.                   *)
LEMMA SlowerIsNoWorse ==
  ASSUME NEW w \in Bands, NEW l \in Links, l.rate # None, Reactive(w),
         NEW late \in Nat, w.jam.tau <= late, NEW r \in Rungs, Reachable(w, l, r)
  PROVE  Reachable([w EXCEPT !.jam.tau = late], l, r)
<1> DEFINE v == [w EXCEPT !.jam.tau = late]
<1>0. w.jam # None /\ w.jam \in Emitters
  BY DEF Reactive, Bands
<1>1. v = [w EXCEPT !.jam = [w.jam EXCEPT !.tau = late]]
  OBVIOUS
<1>2. [w.jam EXCEPT !.tau = late] \in Emitters /\ [w.jam EXCEPT !.tau = late].kind = "follower"
  BY <1>0 DEF Emitters, Reactive
<1>3. v \in [snr : Levels, jam : {None} \cup Emitters, skew : {0} \cup Skews]
  BY <1>1, <1>2 DEF Bands
<1>4. /\ v.jam = [w.jam EXCEPT !.tau = late] /\ v.snr = w.snr /\ v.skew = w.skew
      /\ v.jam.hit = w.jam.hit /\ v.jam.tau = late
  BY <1>0, <1>1 DEF Bands, Emitters
<1>5. v.jam # None
  BY <1>2, <1>4, BandAssumption DEF BandAssumption
<1>6. Reactive(v) /\ v \in Bands
  BY <1>2, <1>3, <1>4, <1>5 DEF Reactive, Bands
<1>7. Alike(w, v)
  BY <1>0, <1>4, <1>5 DEF Alike, Jammed
<1>8. /\ Dwells(v, l) = [of |-> Second, hit |-> Caught(late, l.rate)]
      /\ Dwells(w, l) = [of |-> Second, hit |-> Caught(w.jam.tau, l.rate)]
  BY <1>4, <1>6 DEF Dwells
<1>9. Dwells(v, l).hit <= Dwells(w, l).hit
  <2>1. l.rate \in RateSet
    BY DEF Links
  <2>2. w.jam.tau \in Nat /\ l.rate \in Nat
    BY <1>0, <2>1, Quality, RatesArePositive
  <2>3. w.jam.tau * l.rate <= late * l.rate /\ w.jam.tau * l.rate \in Nat /\ late * l.rate \in Nat
    BY <2>2
  <2>4. Caught(late, l.rate) <= Caught(w.jam.tau, l.rate)
    BY <2>3 DEF Caught, Floor, Second
  <2> QED
    BY <1>8, <2>4
<1>10. Dwells(w, l).of = Dwells(v, l).of
  BY <1>8
<1> HIDE DEF v
<1>11. Reachable(v, l, r)
  BY <1>6, <1>7, <1>9, <1>10, CarriesMore
<1> QED
  BY <1>11 DEF v

-------------------------------------------------------------------------------
LEMMA CleanBand == Clean \in Bands /\ Clean.jam = None
<1>1. Clean.snr \in Levels
  BY BandAssumption DEF BandAssumption, Clean
<1> QED
  BY <1>1 DEF Clean, Bands

LEMMA FirstCandidate == Candidates[1] \in Channels
BY BandAssumption DEF BandAssumption, Channels

LEMMA AdversaryFields ==
  \A j \in Adversaries :
    /\ j # None /\ j.start \in Channels /\ j.hit \in Nat /\ j.first \in Nat
    /\ j.floor \in Nat \ {0} /\ j.kind \in {"fixed", "follower"} /\ j.tau \in Nat
<1> SUFFICES ASSUME NEW j \in Adversaries
             PROVE  /\ j # None /\ j.start \in Channels /\ j.hit \in Nat /\ j.first \in Nat
                    /\ j.floor \in Nat \ {0} /\ j.kind \in {"fixed", "follower"} /\ j.tau \in Nat
  OBVIOUS
<1>1. j # None
  BY MissionAssumption DEF MissionAssumption
<1>2. j.hit \in Hits /\ j.first \in Taus
  BY DEF Adversaries
<1>3. Hits \subseteq Nat /\ Taus \subseteq Nat
  BY BandAssumption DEF BandAssumption
<1> QED
  BY <1>1, <1>2, <1>3 DEF Adversaries

LEMMA InterferingInBand ==
  ASSUME NEW j \in Adversaries
  PROVE  LET w == [Clean EXCEPT !.jam = Interfering(j)]
         IN /\ w \in Bands /\ w.jam = Interfering(j) /\ w.jam # None
            /\ w.jam.kind = j.kind /\ w.jam.tau = (IF j.kind = "fixed" THEN 0 ELSE j.tau)
<1>1. Interfering(j) \in Emitters
  BY AdversaryFields DEF Interfering, Fixed, Follower, Emitters
<1>2. Interfering(j).kind = "fixed" => Interfering(j).at \in Channels
  BY AdversaryFields DEF Interfering, Fixed, Follower
<1>3. /\ Interfering(j).kind = j.kind
      /\ Interfering(j).tau = (IF j.kind = "fixed" THEN 0 ELSE j.tau)
  BY AdversaryFields DEF Interfering, Fixed, Follower
<1>4. Interfering(j) # None
  BY <1>1, BandAssumption DEF BandAssumption
<1> QED
  BY <1>1, <1>2, <1>3, <1>4, CleanBand DEF Bands

LEMMA WorldsInBand == Worlds \subseteq Bands
<1> SUFFICES ASSUME NEW w \in Worlds PROVE w \in Bands
  OBVIOUS
<1>1. Hits \subseteq Nat /\ Taus \subseteq Nat
  BY BandAssumption DEF BandAssumption
<1>2. w.snr \in Levels /\ w.skew \in Skews /\ w.jam \in {None} \cup Interferers
  BY <1>1 DEF Worlds
<1>3. \A j \in Interferers : j \in Emitters /\ (j.kind = "fixed" => j.at \in Channels)
  BY <1>1 DEF Interferers, Fixed, Follower, Emitters
<1>4. w = [snr |-> w.snr, jam |-> w.jam, skew |-> w.skew]
  BY DEF Worlds
<1> QED
  BY <1>2, <1>3, <1>4 DEF Bands

(* An escalation goes no lower than the floor, and a concession means that     *)
(* the jammer reacts as fast as it can.                                        *)
LEMMA TargetFloor ==
  ASSUME NEW j \in Adversaries, NEW rate \in RateSet
  PROVE  /\ Target(j, rate) \in Nat
         /\ Target(j, rate) >= j.tau => j.floor >= j.tau
<1>1. j.floor \in Nat /\ j.tau \in Nat
  BY AdversaryFields
<1>2. rate \in Nat /\ rate > 0
  <2>1. rate \in Nat \ {0}
    BY RatesArePositive
  <2> QED
    BY <2>1
<1>3. (9 * Second) \div (10 * rate) \in Nat
  <2>1. 10 * rate \in Nat /\ 10 * rate > 0
    BY <1>2
  <2> QED
    BY <2>1 DEF Second
<1>4. j.tau \div 2 \in Nat /\ (j.tau > 0 => j.tau \div 2 < j.tau)
  BY <1>1
<1> QED
  BY <1>1, <1>3, <1>4 DEF Target, Larger

LEMMA EscalatedFits ==
  ASSUME NEW j \in Adversaries, NEW rate \in {None} \cup RateSet, ~Concedes(j, rate)
  PROVE  Escalated(j, rate) \in Adversaries
<1>1. CASE j.kind = "fixed"
  BY <1>1, AdversaryFields DEF Escalated, Adversaries
<1>2. CASE j.kind = "follower"
  <2>1. Target(j, rate) \in Nat
    BY <1>2, TargetFloor DEF Concedes
  <2> QED
    BY <1>2, <2>1 DEF Escalated, Adversaries
<1> QED
  BY <1>1, <1>2, AdversaryFields

-------------------------------------------------------------------------------
LEMMA TypeStarts == Init => TypeInv
<1> SUFFICES ASSUME Init PROVE TypeInv
  OBVIOUS
<1>1. On(Candidates[1]) \in Links
  BY FirstCandidate, OnIsLink
<1>2. foe \in {None} \cup Adversaries
  BY MissionAssumption DEF MissionAssumption, Init
<1>3. world \in Bands /\ link \in Links /\ centre \in Channels
  BY <1>1, CleanBand, FirstCandidate DEF Init
<1>4. stage = "idle" /\ rung = 1 /\ best = None /\ round = 0 /\ verdict = None
  BY DEF Init
<1>5. hopping \in BOOLEAN
  BY DEF Init
<1> QED
  BY <1>2, <1>3, <1>4, <1>5 DEF TypeInv, Stages

LEMMA AdaptTyped ==
  ASSUME TypeInv, NEW w \in Bands, Adapt(w)
  PROVE  /\ world' \in Bands /\ link' \in Links
         /\ centre' \in Channels /\ hopping' \in BOOLEAN
         /\ stage' \in {"dropped", "current"} /\ rung' = 1 /\ best' = None
<1>1. link' \in Links
  BY DEF TypeInv, Adapt, Links
<1> QED
  BY <1>1 DEF TypeInv, Adapt, Search

LEMMA TypeStep == TypeInv /\ [Next]_vars => TypeInv'
<1> SUFFICES ASSUME TypeInv, [Next]_vars PROVE TypeInv'
  OBVIOUS
<1> USE DEF TypeInv, Stages, Searches
<1>1. ASSUME NEW w \in Worlds, Adapt(w), UNCHANGED <<foe, round, verdict>> PROVE TypeInv'
  BY <1>1, AdaptTyped, WorldsInBand
<1>2. CASE Epoch
  BY <1>1, <1>2 DEF Epoch
<1>3. CASE Round
  <2>1. foe \in Adversaries
    BY <1>3 DEF Round
  <2>2. [Clean EXCEPT !.jam = Interfering(foe)] \in Bands
    BY <2>1, InterferingInBand
  <2> QED
    BY <1>3, <2>2, AdaptTyped DEF Round
<1>4. CASE TryRung
  <2>1. Ladder[rung] \in Rungs
    BY <1>4, BandAssumption DEF TryRung, BandAssumption
  <2> QED
    BY <1>4, <2>1 DEF TryRung, hidden, belief
<1>5. CASE Restored
  <2>1. best \in Rungs
    BY <1>5 DEF Restored
  <2>2. link.rate \in {None} \cup RateSet
    BY DEF Links
  <2>3. result' \in Reports
    BY <1>5, <2>1, <2>2 DEF Restored, Report, Reports
  <2> QED
    BY <1>5, <2>3 DEF Restored, hidden
<1>6. CASE StillJammed
  BY <1>6 DEF StillJammed, Search, hidden, belief
<1>7. CASE Sense
  BY <1>7 DEF Sense, hidden, belief
<1>8. CASE Retune
  <2>1. PICK i \in todo : /\ link' = [link EXCEPT !.chan = Candidates[i]]
                          /\ centre' = Candidates[i] /\ todo' = todo \ {i}
    BY <1>8 DEF Retune
  <2>2. Candidates[i] \in Channels
    BY <1>8, <2>1, BandAssumption DEF Retune, Channels, BandAssumption
  <2>3. link' \in Links
    BY <2>1, <2>2 DEF Links
  <2> QED
    BY <1>8, <2>1, <2>2, <2>3 DEF Retune, Search, hidden
<1>9. CASE NoChannelLeft
  BY <1>9 DEF NoChannelLeft, hidden, belief
<1>10. CASE HopFaster
  <2>1. PICK i \in todo : link' = [link EXCEPT !.rate = Rates[i]] /\ todo' = todo \ {i}
    BY <1>10 DEF HopFaster
  <2>2. Rates[i] \in RateSet
    BY <1>10, <2>1 DEF HopFaster, RateSet
  <2>3. link' \in Links
    BY <2>1, <2>2 DEF Links
  <2> QED
    BY <1>10, <2>1, <2>3 DEF HopFaster, Search, hidden, belief
<1>11. CASE NextChoice
  BY <1>11 DEF NextChoice, Broken, Searched, hidden, belief
<1>12. CASE NothingWorked
  <2>1. link' \in Links /\ result' \in Reports
    BY <1>12 DEF NothingWorked, Links, Report, Reports
  <2> QED
    BY <1>12, <2>1 DEF NothingWorked, hidden, belief
<1>13. CASE Lapse
  BY <1>13 DEF Lapse, hidden, belief
<1>14. CASE EndEpoch
  BY <1>14 DEF EndEpoch, hidden, belief
<1>15. CASE Judge
  <2>1. foe \in Adversaries /\ result.rate \in {None} \cup RateSet
    BY <1>15 DEF Judge, Reports
  <2>2. foe' = foe \/ (~Concedes(foe, result.rate) /\ foe' = Escalated(foe, result.rate))
    BY <1>15 DEF Judge
  <2>3. foe' \in Adversaries
    BY <2>1, <2>2, EscalatedFits
  <2>4. verdict' \in {None} \cup Verdicts
    BY <1>15 DEF Judge, Verdicts
  <2> QED
    BY <1>15, <2>3, <2>4 DEF Judge, belief
<1>16. CASE UNCHANGED vars
  BY <1>16 DEF vars, hidden, belief, search
<1> QED
  BY <1>2, <1>3, <1>4, <1>5, <1>6, <1>7, <1>8, <1>9, <1>10, <1>11, <1>12, <1>13, <1>14, <1>15,
     <1>16 DEF Next, Choose

LEMMA AwareStarts == Init => Aware
BY FirstCandidate, OnIsLink DEF Init, Aware, On

LEMMA AwareStep == NoLapseInHop /\ TypeInv /\ Aware /\ [Next]_vars => Aware'
<1> SUFFICES ASSUME NoLapseInHop, TypeInv, Aware, [Next]_vars PROVE Aware'
  OBVIOUS
<1> USE DEF Aware
<1>0. /\ link \in Links /\ link.rate \in {None} \cup RateSet
      /\ hopping \in BOOLEAN /\ stage \in Stages
  BY DEF TypeInv, Links
<1>1. ASSUME NEW w, Adapt(w) PROVE Aware'
  <2>1. /\ link'.chan = link.chan /\ centre' = centre /\ link'.rate = None
        /\ hopping' = FALSE /\ stage' \in {"dropped", "current"}
    BY <1>0, <1>1 DEF Adapt, Search, Links
  <2> QED
    BY <2>1
<1>2. CASE Epoch \/ Round
  BY <1>1, <1>2 DEF Epoch, Round
<1>3. CASE TryRung
  BY <1>3 DEF TryRung, belief
<1>4. CASE Restored
  <2>1. stage \in Searches /\ UNCHANGED <<link, centre>> /\ stage' = "reported"
    BY <1>4 DEF Restored, Searched
  <2> QED
    BY <1>4, <2>1 DEF Restored, Searches
<1>5. CASE StillJammed
  BY <1>5 DEF StillJammed, Search, belief
<1>6. CASE Sense
  BY <1>6 DEF Sense, belief
<1>7. CASE Retune
  <2>1. PICK i : link' = [link EXCEPT !.chan = Candidates[i]] /\ centre' = Candidates[i]
    BY <1>7 DEF Retune
  <2>2. link'.chan = centre' /\ link'.rate = link.rate
    BY <1>0, <2>1 DEF Links
  <2> QED
    BY <1>7, <2>2 DEF Retune, Search
<1>8. CASE NoChannelLeft
  BY <1>8 DEF NoChannelLeft, belief
<1>9. CASE HopFaster
  <2>1. PICK i \in todo : link' = [link EXCEPT !.rate = Rates[i]]
    BY <1>9 DEF HopFaster
  <2>2. Rates[i] # None
    BY <1>9, <2>1, HopIsLink DEF HopFaster, TypeInv
  <2>3. link'.rate # None /\ link'.chan = link.chan
    BY <1>0, <2>1, <2>2 DEF Links
  <2> QED
    BY <1>9, <2>3 DEF HopFaster, Search, belief
<1>10. CASE NextChoice
  BY <1>10 DEF NextChoice, belief
<1>11. CASE NothingWorked
  <2>1. link'.rate = None /\ link'.chan = link.chan
    BY <1>0, <1>11 DEF NothingWorked, Links
  <2>2. hopping' = FALSE /\ centre' = centre /\ stage' = "reported"
    BY <1>0, <1>11 DEF NothingWorked, belief
  <2> QED
    BY <2>1, <2>2
<1>12. CASE Lapse
  <2>1. stage \in {"dropped", "current", "avoided"}
    BY <1>12, MissionAssumption DEF Lapse, MissionAssumption, NoLapseInHop, Searches
  <2>2. hopping' = FALSE /\ centre' = centre /\ link' = link /\ stage' = "idle"
    BY <1>0, <1>12, <2>1 DEF Lapse, belief
  <2>3. link.rate = None
    BY <2>1
  <2> QED
    BY <2>2, <2>3
<1>13. CASE EndEpoch
  BY <1>13 DEF EndEpoch, belief
<1>14. CASE Judge
  BY <1>14 DEF Judge, belief
<1>15. CASE UNCHANGED vars
  BY <1>15 DEF vars, belief, search
<1> QED
  BY <1>2, <1>3, <1>4, <1>5, <1>6, <1>7, <1>8, <1>9, <1>10, <1>11, <1>12, <1>13, <1>14, <1>15
  DEF Next, Choose

-------------------------------------------------------------------------------
LEMMA LadderRungs ==
  /\ \A i \in DOMAIN Ladder : i \in Nat /\ 1 <= i /\ i <= Len(Ladder) /\ Ladder[i] \in Rungs
  /\ \A r \in Rungs : \E i \in DOMAIN Ladder : r = Ladder[i]
  /\ \A i \in Nat \ {0} : i <= Len(Ladder) => i \in DOMAIN Ladder
  /\ Len(Ladder) \in Nat /\ None \notin Rungs
  /\ \A r \in Rungs : Eff[r] \in Nat
BY BandAssumption DEF BandAssumption, Rungs

LEMMA FreshSearch == rung' = 1 /\ best' = None => BestSoFar'
BY LadderRungs DEF BestSoFar

LEMMA BestStarts == Init => BestSoFar
BY DEF Init, BestSoFar, Searches

(* A search that went through the ladder for nothing has shown that the link   *)
(* carries no rung.                                                            *)
LEMMA BrokenFails == TypeInv /\ BestSoFar /\ Broken => Fails(world, link)
<1> SUFFICES ASSUME TypeInv, BestSoFar, Broken, NEW r \in Rungs, Reachable(world, link, r)
             PROVE  FALSE
  BY DEF Fails
<1>1. PICK i \in DOMAIN Ladder : r = Ladder[i]
  BY LadderRungs
<1>2. stage \in Searches /\ i < rung /\ best = None
  BY LadderRungs DEF Broken, Searched, TypeInv
<1> QED
  BY <1>1, <1>2 DEF BestSoFar, Carries

LEMMA TryRungKeepsBest == TypeInv /\ BestSoFar /\ TryRung => BestSoFar'
<1> SUFFICES ASSUME TypeInv, BestSoFar, TryRung PROVE BestSoFar'
  OBVIOUS
<1> DEFINE new == Ladder[rung]
<1>0. /\ stage \in Searches /\ rung \in DOMAIN Ladder /\ rung \in Nat /\ rung' = rung + 1
      /\ world' = world /\ link' = link /\ stage' = stage
      /\ best' = IF Prefer(new) THEN new ELSE best
  BY LadderRungs DEF TryRung, TypeInv, hidden
<1>1. new \in Rungs /\ new # None /\ Eff[new] \in Nat
  BY <1>0, LadderRungs
<1>2. best # None => best \in Rungs /\ Eff[best] \in Nat
  BY LadderRungs DEF TypeInv
<1>3. ASSUME best' # None PROVE Carries(best')
  BY <1>0, <1>3 DEF Prefer, BestSoFar, Carries
<1>4. ASSUME NEW i \in DOMAIN Ladder, i < rung + 1, Carries(Ladder[i])
      PROVE  best' # None /\ Eff[Ladder[i]] <= Eff[best']
  <2>0. i \in Nat /\ Eff[Ladder[i]] \in Nat
    BY LadderRungs
  <2>1. CASE i = rung
    BY <1>0, <1>1, <1>2, <1>4, <2>1 DEF Prefer, Carries
  <2>2. CASE i # rung
    <3>1. best # None /\ Eff[Ladder[i]] <= Eff[best]
      BY <1>0, <1>4, <2>0, <2>2 DEF BestSoFar
    <3> QED
      BY <1>0, <1>1, <1>2, <2>0, <3>1 DEF Prefer
  <2> QED
    BY <2>1, <2>2
<1>5. \A r : Reachable(world', link', r) = Reachable(world, link, r)
  BY <1>0
<1> QED
  BY <1>0, <1>3, <1>4, <1>5 DEF BestSoFar, Carries

LEMMA BestStep == TypeInv /\ BestSoFar /\ [Next]_vars => BestSoFar'
<1> SUFFICES ASSUME TypeInv, BestSoFar, [Next]_vars PROVE BestSoFar'
  OBVIOUS
<1>1. CASE Epoch \/ Round \/ StillJammed \/ Retune \/ HopFaster \/ Lapse
  BY <1>1, FreshSearch DEF Epoch, Round, Adapt, StillJammed, Retune, HopFaster, Lapse, Search
<1>2. CASE TryRung
  BY <1>2, TryRungKeepsBest
<1>3. CASE Restored \/ Sense \/ NoChannelLeft \/ NextChoice \/ NothingWorked \/ EndEpoch \/ Judge
  <2>1. stage' \notin Searches
    BY <1>3 DEF Restored, Sense, NoChannelLeft, NextChoice, NothingWorked, EndEpoch, Judge,
                Searches
  <2> QED
    BY <2>1 DEF BestSoFar
<1>4. CASE UNCHANGED vars
  <2>1. UNCHANGED <<world, link, stage, rung, best>>
    BY <1>4 DEF vars, hidden, search
  <2>2. \A r : Reachable(world', link', r) = Reachable(world, link, r)
    BY <2>1
  <2> QED
    BY <2>1, <2>2 DEF BestSoFar, Carries
<1> QED
  BY <1>1, <1>2, <1>3, <1>4 DEF Next, Choose

-------------------------------------------------------------------------------
LEMMA TriedStarts == Init => Tried
BY DEF Init, Tried

(* The link the agent sits on, which fails, fails as that channel or hop rate. *)
LEMMA LinkFails ==
  ASSUME TypeInv, Aware, BestSoFar, Broken
  PROVE  /\ stage \in {"current", "avoided"} => Fails(world, On(centre))
         /\ stage = "hopped" =>
              \A i \in DOMAIN Rates : Rates[i] = link.rate => Fails(world, Hop(Rates[i]))
<1>1. Fails(world, link) /\ world \in Bands /\ link \in Links /\ centre \in Channels
  BY BrokenFails DEF TypeInv
<1>2. ASSUME stage \in {"current", "avoided"} PROVE Fails(world, On(centre))
  <2>1. link.chan = centre /\ link.rate = None
    BY <1>2 DEF Aware
  <2>2. link = On(centre)
    BY <1>1, <2>1 DEF Links, On
  <2> QED
    BY <1>1, <2>2
<1>3. ASSUME stage = "hopped", NEW i \in DOMAIN Rates, Rates[i] = link.rate
      PROVE  Fails(world, Hop(Rates[i]))
  <2>1. Hop(Rates[i]) \in Links /\ Hop(Rates[i]).rate = link.rate /\ link.rate # None
    BY <1>3, HopIsLink
  <2>2. Dwells(world, Hop(Rates[i])) = Dwells(world, link)
    BY <2>1 DEF Dwells
  <2> QED
    BY <1>1, <2>2 DEF Fails, Reachable, Rescued, Meets, MeetsTuned, Within, BitErrors
<1> QED
  BY <1>2, <1>3

LEMMA CandidatesCover == \A f \in Channels : \E i \in DOMAIN Candidates : Candidates[i] = f
BY DEF Channels

LEMMA SenseTries == TypeInv /\ Aware /\ BestSoFar /\ Sense => Tried'
<1> SUFFICES ASSUME TypeInv, Aware, BestSoFar, Sense PROVE Tried'
  OBVIOUS
<1>0. world' = world /\ centre' = centre /\ world \in Bands /\ centre \in Channels
  BY DEF Sense, TypeInv, hidden, belief
<1>1. Fails(world, On(centre))
  BY LinkFails DEF Sense
<1>2. CASE \E f \in Channels : Occupied(world, f)
  <2>1. /\ stage' = "avoiding"
        /\ todo' = {i \in DOMAIN Candidates :
                      ~Occupied(world, Candidates[i]) /\ Candidates[i] # centre}
    BY <1>2 DEF Sense
  <2>2. ASSUME NEW f \in Channels, ~Occupied(world, f), ~Fails(world, On(f))
        PROVE  \E i \in todo' : Candidates[i] = f
    <3>1. PICK i \in DOMAIN Candidates : Candidates[i] = f
      BY CandidatesCover
    <3>2. f # centre
      BY <1>1, <2>2
    <3> QED
      BY <2>1, <2>2, <3>1, <3>2
  <2>3. ChannelsTried'
    BY <1>0, <2>2 DEF ChannelsTried
  <2> QED
    BY <2>1, <2>3 DEF Tried
<1>3. CASE \A f \in Channels : ~Occupied(world, f)
  <2>1. stage' = "hopping" /\ todo' = DOMAIN Rates
    BY <1>3 DEF Sense
  <2>2. \A f \in Sites(world, centre) : Fails(world, On(f))
    BY <1>0, <1>1, <1>3, UnseenFails
  <2>3. RatesTried'
    BY <2>1 DEF RatesTried
  <2>4. (\A f \in Sites(world, centre) : Fails(world, On(f)))'
    BY <1>0, <2>2
  <2> QED
    BY <2>1, <2>3, <2>4 DEF Tried
<1> QED
  BY <1>2, <1>3

LEMMA RetuneTries == TypeInv /\ Tried /\ Retune => Tried'
<1> SUFFICES ASSUME TypeInv, Tried, Retune PROVE Tried'
  OBVIOUS
<1>0. stage = "avoiding" /\ stage' = "avoided" /\ world' = world
  BY DEF Retune, Search, hidden
<1>1. PICK i \in todo : centre' = Candidates[i] /\ todo' = todo \ {i}
  BY DEF Retune
<1>2. ASSUME NEW f \in Channels, ~Occupied(world, f), ~Fails(world, On(f)), f # centre'
      PROVE  \E k \in todo' : Candidates[k] = f
  <2>1. PICK k \in todo : Candidates[k] = f
    BY <1>0, <1>2 DEF Tried, ChannelsTried
  <2> QED
    BY <1>1, <1>2, <2>1
<1>3. ChannelsTried'
  BY <1>0, <1>2 DEF ChannelsTried
<1> QED
  BY <1>0, <1>3 DEF Tried

LEMMA HopFasterTries == TypeInv /\ Tried /\ HopFaster => Tried'
<1> SUFFICES ASSUME TypeInv, Tried, HopFaster PROVE Tried'
  OBVIOUS
<1>0. /\ stage = "hopping" /\ stage' = "hopped" /\ world' = world /\ centre' = centre
      /\ link \in Links
  BY DEF HopFaster, Search, hidden, belief, TypeInv
<1>1. PICK i \in todo : link' = [link EXCEPT !.rate = Rates[i]] /\ todo' = todo \ {i}
  BY DEF HopFaster
<1>2. link'.rate = Rates[i]
  BY <1>0, <1>1 DEF Links
<1>3. ASSUME NEW k \in DOMAIN Rates, k \notin todo', Rates[k] # Rates[i]
      PROVE  Fails(world, Hop(Rates[k]))
  <2>1. k \notin todo
    BY <1>1, <1>3
  <2> QED
    BY <1>0, <2>1 DEF Tried, RatesTried
<1>4. RatesTried'
  BY <1>0, <1>2, <1>3 DEF RatesTried
<1>5. (\A f \in Sites(world, centre) : Fails(world, On(f)))'
  BY <1>0 DEF Tried
<1> QED
  BY <1>0, <1>4, <1>5 DEF Tried

LEMMA NoChannelLeftTries == TypeInv /\ Tried /\ NoChannelLeft => Tried'
<1> SUFFICES ASSUME TypeInv, Tried, NoChannelLeft PROVE Tried'
  OBVIOUS
<1>0. /\ stage = "avoiding" /\ todo = {} /\ stage' = "hopping" /\ todo' = DOMAIN Rates
      /\ world' = world /\ world \in Bands /\ centre' = centre /\ centre \in Channels
  BY DEF NoChannelLeft, hidden, belief, TypeInv
<1>1. \A f \in Channels : Occupied(world, f) \/ Fails(world, On(f))
  BY <1>0 DEF Tried, ChannelsTried
<1>2. (\A f \in Sites(world, centre) : Fails(world, On(f)))'
  BY <1>0, <1>1, OccupiedFails, SitesAreChannels
<1>3. RatesTried'
  BY <1>0 DEF RatesTried
<1> QED
  BY <1>0, <1>2, <1>3 DEF Tried

LEMMA NextChoiceTries == TypeInv /\ Aware /\ BestSoFar /\ Tried /\ NextChoice => Tried'
<1> SUFFICES ASSUME TypeInv, Aware, BestSoFar, Tried, NextChoice PROVE Tried'
  OBVIOUS
<1>0. /\ Broken /\ world' = world /\ todo' = todo /\ centre' = centre /\ link' = link
  BY DEF NextChoice, hidden, belief
<1>1. CASE stage = "avoided"
  <2>1. stage' = "avoiding"
    BY <1>1 DEF NextChoice
  <2>2. Fails(world, On(centre))
    BY <1>0, <1>1, LinkFails
  <2>3. ASSUME NEW f \in Channels, ~Occupied(world, f), ~Fails(world, On(f))
        PROVE  \E i \in todo : Candidates[i] = f
    BY <1>1, <2>2, <2>3 DEF Tried, ChannelsTried
  <2>4. ChannelsTried'
    BY <1>0, <2>3 DEF ChannelsTried
  <2> QED
    BY <2>1, <2>4 DEF Tried
<1>2. CASE stage = "hopped"
  <2>1. stage' = "hopping"
    BY <1>2 DEF NextChoice
  <2>2. ASSUME NEW i \in DOMAIN Rates, i \notin todo PROVE Fails(world, Hop(Rates[i]))
    BY <1>0, <1>2, <2>2, LinkFails DEF Tried, RatesTried
  <2>3. RatesTried'
    BY <1>0, <2>2 DEF RatesTried
  <2>4. (\A f \in Sites(world, centre) : Fails(world, On(f)))'
    BY <1>0, <1>2 DEF Tried
  <2> QED
    BY <2>1, <2>3, <2>4 DEF Tried
<1> QED
  BY <1>1, <1>2 DEF NextChoice

LEMMA TriedFrame == Tried /\ UNCHANGED <<world, link, centre, stage, todo>> => Tried'
<1> SUFFICES ASSUME Tried, UNCHANGED <<world, link, centre, stage, todo>> PROVE Tried'
  OBVIOUS
<1>1. \A l : Fails(world', l) = Fails(world, l)
  OBVIOUS
<1>2. \A f : Occupied(world', f) = Occupied(world, f) /\ Sites(world', f) = Sites(world, f)
  OBVIOUS
<1>3. ChannelsTried => ChannelsTried'
  BY <1>1, <1>2 DEF ChannelsTried
<1>4. RatesTried => RatesTried'
  BY <1>1 DEF RatesTried
<1> QED
  BY <1>1, <1>2, <1>3, <1>4 DEF Tried

LEMMA TriedStep == TypeInv /\ Aware /\ BestSoFar /\ Tried /\ [Next]_vars => Tried'
<1> SUFFICES ASSUME TypeInv, Aware, BestSoFar, Tried, [Next]_vars PROVE Tried'
  OBVIOUS
<1>1. CASE Epoch \/ Round \/ Restored \/ StillJammed \/ NothingWorked \/ Lapse \/ EndEpoch \/ Judge
  <2>1. stage' \in {"dropped", "current", "reported", "idle"}
    BY <1>1 DEF Epoch, Round, Adapt, Restored, StillJammed, NothingWorked, Lapse, EndEpoch,
                Judge, Search
  <2> QED
    BY <2>1 DEF Tried
<1>2. CASE TryRung \/ UNCHANGED vars
  BY <1>2, TriedFrame DEF TryRung, vars, hidden, belief, search
<1>3. CASE Choose
  BY <1>3, SenseTries, RetuneTries, NoChannelLeftTries, HopFasterTries, NextChoiceTries
  DEF Choose
<1> QED
  BY <1>1, <1>2, <1>3 DEF Next

-------------------------------------------------------------------------------
LEMMA RacingStarts == Init => Racing
BY DEF Init, Racing

LEMMA RacingStep == TypeInv /\ TypeInv' /\ Racing /\ [Next]_vars => Racing'
<1> SUFFICES ASSUME TypeInv, TypeInv', Racing, [Next]_vars PROVE Racing'
  OBVIOUS
<1>1. CASE Epoch
  BY <1>1 DEF Epoch, Racing
<1>2. CASE Round
  BY <1>2 DEF Round, Adapt, Racing
<1>3. CASE Judge
  <2>1. stage' = "idle"
    BY <1>3 DEF Judge
  <2>2. foe \in Adversaries /\ result.rate \in {None} \cup RateSet
    BY <1>3 DEF Judge, TypeInv, Reports
  <2>3. foe' = foe \/ (~Concedes(foe, result.rate) /\ foe' = Escalated(foe, result.rate))
    BY <1>3 DEF Judge
  <2>4. foe' # None
    BY <2>2, <2>3, EscalatedFits, AdversaryFields
  <2> QED
    BY <2>1, <2>4 DEF Racing
<1>4. CASE EndEpoch \/ Lapse
  BY <1>4 DEF EndEpoch, Lapse, Racing, hidden
<1>5. CASE TryRung \/ Restored \/ StillJammed \/ Choose \/ NothingWorked
  <2>1. UNCHANGED <<world, foe, verdict>> /\ stage # "idle"
    BY <1>5 DEF TryRung, Restored, Searched, Searches, StillJammed, Broken, Choose, Sense,
                Retune, NoChannelLeft, HopFaster, NextChoice, NothingWorked, hidden
  <2> QED
    BY <2>1 DEF Racing
<1>6. CASE UNCHANGED vars
  BY <1>6 DEF vars, hidden, search, Racing
<1> QED
  BY <1>1, <1>2, <1>3, <1>4, <1>5, <1>6 DEF Next

-------------------------------------------------------------------------------
Reported == ReportNamesTheLink /\ ChoosesWell

LEMMA RestoredReports == TypeInv /\ Aware /\ BestSoFar /\ Restored => Reported'
<1> SUFFICES ASSUME TypeInv, Aware, BestSoFar, Restored PROVE Reported'
  OBVIOUS
<1>0. /\ stage \in Searches /\ rung > Len(Ladder) /\ rung \in Nat /\ best # None
      /\ world' = world /\ link' = link /\ best \in Rungs
      /\ hopping' = (stage = "hopped")
      /\ result' = Report(best, IF stage = "hopped" THEN link.rate ELSE None)
  BY DEF Restored, Searched, TypeInv, hidden
<1>1. stage = "hopped" <=> link.rate # None
  BY <1>0 DEF Aware, Searches
<1>2. /\ result'.rung = best /\ result'.chan = link.chan
      /\ result'.rate = link.rate
  BY <1>0, <1>1 DEF Report, Aware
<1>3. hopping' = (link'.rate # None)
  BY <1>0, <1>1
<1>4. ReportNamesTheLink'
  BY <1>0, <1>2, <1>3 DEF ReportNamesTheLink
<1>5. Reachable(world, link, best)
  BY <1>0 DEF BestSoFar, Carries
<1>6. ASSUME NEW r \in Rungs, Reachable(world, link, r) PROVE Eff[r] <= Eff[best]
  <2>1. PICK i \in DOMAIN Ladder : r = Ladder[i]
    BY LadderRungs
  <2>2. i < rung
    BY <1>0, <2>1, LadderRungs
  <2> QED
    BY <1>0, <1>6, <2>1, <2>2 DEF BestSoFar, Carries
<1>7. result'.rung # None
  BY <1>0, <1>2
<1>8. ChoosesWell'
  BY <1>0, <1>2, <1>5, <1>6, <1>7 DEF ChoosesWell
<1> QED
  BY <1>4, <1>8 DEF Reported

LEMMA NothingWorkedReports == TypeInv /\ Aware /\ Tried /\ NothingWorked => Reported'
<1> SUFFICES ASSUME TypeInv, Aware, Tried, NothingWorked PROVE Reported'
  OBVIOUS
<1>0. /\ stage = "hopping" /\ todo = {} /\ world' = world /\ link \in Links
      /\ link' = [link EXCEPT !.rate = None] /\ result' = Report(None, None)
  BY DEF NothingWorked, hidden, TypeInv
<1>1. link'.rate = None /\ link'.chan = link.chan
  BY <1>0 DEF Links
<1>2. hopping' = FALSE /\ centre = link.chan
  <2>1. hopping' = hopping /\ hopping \in BOOLEAN /\ ~hopping
    BY <1>0 DEF NothingWorked, belief, TypeInv, Aware
  <2> QED
    BY <2>1 DEF Aware
<1>3. result'.rung = None /\ result'.chan = link'.chan /\ result'.rate = link'.rate
  BY <1>0, <1>1, <1>2 DEF Report
<1>4. hopping' = (link'.rate # None)
  BY <1>1, <1>2
<1>5. ReportNamesTheLink'
  BY <1>3, <1>4 DEF ReportNamesTheLink
<1>6. \A l \in Settings(world, centre) : Fails(world, l)
  BY <1>0 DEF Tried, RatesTried, Settings
<1>7. Hopeless(world, result'.chan)
  BY <1>2, <1>3, <1>1, <1>6 DEF Hopeless, Fails
<1>8. ChoosesWell'
  BY <1>0, <1>3, <1>7 DEF ChoosesWell
<1> QED
  BY <1>5, <1>8 DEF Reported

LEMMA ReportedStarts == Init => Reported
BY DEF Init, Reported, ReportNamesTheLink, ChoosesWell

LEMMA ReportedStep ==
  TypeInv /\ Aware /\ BestSoFar /\ Tried /\ Reported /\ [Next]_vars => Reported'
<1> SUFFICES ASSUME TypeInv, Aware, BestSoFar, Tried, Reported, [Next]_vars PROVE Reported'
  OBVIOUS
<1>1. CASE Restored
  BY <1>1, RestoredReports
<1>2. CASE NothingWorked
  BY <1>2, NothingWorkedReports
<1>3. CASE Epoch \/ Round \/ TryRung \/ StillJammed \/ Choose \/ Lapse \/ EndEpoch \/ Judge
  <2>1. stage' # "reported"
    BY <1>3 DEF Epoch, Round, Adapt, TryRung, StillJammed, Choose, Sense, Retune, NoChannelLeft,
                HopFaster, NextChoice, Lapse, EndEpoch, Judge, Search, Searches
  <2> QED
    BY <2>1 DEF Reported, ReportNamesTheLink, ChoosesWell
<1>4. CASE UNCHANGED vars
  <2>1. /\ world' = world /\ link' = link /\ hopping' = hopping /\ stage' = stage
        /\ result' = result
    BY <1>4 DEF vars, hidden, belief, search
  <2>2. \A l, r : Reachable(world', l, r) = Reachable(world, l, r)
    BY <2>1
  <2>3. ChoosesWell'
    BY <2>1, <2>2 DEF ChoosesWell, Reported, Hopeless
  <2>4. ReportNamesTheLink'
    BY <2>1 DEF ReportNamesTheLink, Reported
  <2> QED
    BY <2>3, <2>4 DEF Reported
<1> QED
  BY <1>1, <1>2, <1>3, <1>4 DEF Next

-------------------------------------------------------------------------------
LEMMA VerdictStarts == Init => VerdictsStand
BY MissionAssumption DEF Init, VerdictsStand, MissionAssumption, Verdicts

(* A jammer that concedes to a hop reacts no faster at its floor than it does. *)
LEMMA ConcessionStands ==
  ASSUME TypeInv, Racing, ReportNamesTheLink, ChoosesWell,
         foe # None, stage = "reported", result.rung # None,
         Concedes(foe, result.rate), result.rate # None
  PROVE  Reachable([world EXCEPT !.jam.tau = foe.floor], link, result.rung)
<1>1. foe \in Adversaries /\ result.rung \in Rungs /\ result.rate \in RateSet
  BY DEF TypeInv, Reports
<1>2. foe.kind = "follower" /\ foe.floor >= foe.tau /\ foe.floor \in Nat /\ foe.tau \in Nat
  BY <1>1, TargetFloor, AdversaryFields DEF Concedes
<1>3. world = [Clean EXCEPT !.jam = Interfering(foe)] /\ world \in Bands
  BY DEF Racing, TypeInv
<1>4. world.jam # None /\ world.jam.kind = "follower" /\ world.jam.tau = foe.tau
  BY <1>1, <1>2, <1>3, InterferingInBand
<1>5. link.rate # None /\ link \in Links
  BY DEF ReportNamesTheLink, TypeInv
<1>6. Reachable(world, link, result.rung)
  BY DEF ChoosesWell
<1> QED
  BY <1>1, <1>2, <1>3, <1>4, <1>5, <1>6, SlowerIsNoWorse DEF Reactive

LEMMA VerdictStep ==
  TypeInv /\ Racing /\ Reported /\ VerdictsStand /\ [Next]_vars => VerdictsStand'
<1> SUFFICES ASSUME TypeInv, Racing, Reported, VerdictsStand, [Next]_vars PROVE VerdictsStand'
  OBVIOUS
<1>0. None # "jammer" /\ None # "agent"
  BY MissionAssumption DEF MissionAssumption, Verdicts
<1>1. CASE UNCHANGED vars
  <2>1. /\ world' = world /\ link' = link /\ foe' = foe /\ verdict' = verdict
        /\ result' = result
    BY <1>1 DEF vars, hidden
  <2> QED
    BY <2>1 DEF VerdictsStand, Hopeless
<1>2. CASE Judge
  <2>0. /\ foe # None /\ stage = "reported"
        /\ world' = world /\ link' = link /\ result' = result
    BY <1>2 DEF Judge
  <2>1. ASSUME verdict' = "jammer" PROVE Hopeless(world, result.chan)
    <3>1. result.rung = None
      BY <1>0, <1>2, <2>1 DEF Judge
    <3> QED
      BY <2>0, <3>1 DEF Reported, ChoosesWell
  <2>2. ASSUME verdict' = "agent"
        PROVE  Reachable([world EXCEPT !.jam.tau = foe'.floor], link, result.rung)
    <3>1. /\ result.rung # None /\ Concedes(foe, result.rate) /\ result.rate # None
          /\ foe' = foe
      BY <1>0, <1>2, <2>2 DEF Judge
    <3> QED
      BY <2>0, <3>1, ConcessionStands DEF Reported
  <2> QED
    BY <2>0, <2>1, <2>2 DEF VerdictsStand, Hopeless
<1>3. CASE Epoch \/ Round \/ TryRung \/ Restored \/ StillJammed \/ Choose \/ NothingWorked
           \/ Lapse \/ EndEpoch
  <2>1. verdict' = verdict /\ verdict = None
    BY <1>3 DEF Epoch, Round, TryRung, Restored, Searched, Searches, StillJammed, Broken, Choose,
                Sense, Retune, NoChannelLeft, HopFaster, NextChoice, NothingWorked, Lapse,
                EndEpoch, Racing, hidden
  <2> QED
    BY <1>0, <2>1 DEF VerdictsStand
<1> QED
  BY <1>1, <1>2, <1>3 DEF Next

-------------------------------------------------------------------------------
(* What adapt is sure of at each stage: where the link is, the best rung so    *)
(* far, what has failed; and what a race leaves as it is.                      *)
THEOREM MissionInvariant ==
  ASSUME NoLapseInHop
  PROVE  Spec => [](TypeInv /\ Aware /\ BestSoFar /\ Tried /\ Racing)
<1> DEFINE Sure == TypeInv /\ Aware /\ BestSoFar /\ Tried /\ Racing
<1>1. Init => Sure
  BY TypeStarts, AwareStarts, BestStarts, TriedStarts, RacingStarts
<1>2. Sure /\ [Next]_vars => Sure'
  BY TypeStep, AwareStep, BestStep, TriedStep, RacingStep
<1> QED
  BY <1>1, <1>2, PTL DEF Spec

LEMMA ReportsHold == ASSUME NoLapseInHop PROVE Spec => []Reported
<1>1. Init => Reported
  BY ReportedStarts
<1>2. TypeInv /\ Aware /\ BestSoFar /\ Tried /\ Racing /\ Reported /\ [Next]_vars => Reported'
  BY ReportedStep
<1> QED
  BY <1>1, <1>2, MissionInvariant, PTL DEF Spec

(* An epoch's report names the channel and the hop rate that the tools left    *)
(* the link on, from which the agent starts its next epoch.                    *)
THEOREM ReportsNameTheLink == ASSUME NoLapseInHop PROVE Spec => []ReportNamesTheLink
<1>1. Reported => ReportNamesTheLink
  BY DEF Reported
<1> QED
  BY <1>1, ReportsHold, PTL

(* adapt gives up only where no setting within reach carries any rung, and     *)
(* otherwise reports the most efficient rung its link carries: although it     *)
(* never tries an occupied channel, nor the other channels when none is. Where *)
(* the agent overlooks a fixed jammer on its own channel, what is within reach *)
(* is that channel and the hop rates, and no other channel.                    *)
THEOREM AdaptChoosesWell == ASSUME NoLapseInHop PROVE Spec => []ChoosesWell
<1>1. Reported => ChoosesWell
  BY DEF Reported
<1> QED
  BY <1>1, ReportsHold, PTL

(* Whom run_arms_race names the winner has won: the beaten agent had nothing   *)
(* left to try (but for a channel it leaves for a jammer that it overlooks),   *)
(* the beaten jammer is at its floor and is still out-hopped.                  *)
THEOREM VerdictsStay == ASSUME NoLapseInHop PROVE Spec => []VerdictsStand
<1>1. Init => VerdictsStand
  BY VerdictStarts
<1>2. TypeInv /\ Racing /\ Reported /\ VerdictsStand /\ [Next]_vars => VerdictsStand'
  BY VerdictStep
<1>3. TypeInv /\ Aware /\ BestSoFar /\ Tried /\ Racing => TypeInv /\ Racing
  OBVIOUS
<1> QED
  BY <1>1, <1>2, <1>3, MissionInvariant, ReportsHold, PTL DEF Spec

-------------------------------------------------------------------------------
(* The least-number principle, and with it the functions that the controllers  *)
(* define by recursion over the numbers up to some m.                          *)
Below == {p \in Nat \X Nat : p[1] < p[2]}

LEMMA BelowIsWellFounded == IsWellFoundedOn(Below, Nat)
<1>1. Below = OpToRel(<, Nat)
  BY Zenon DEF Below, OpToRel
<1> QED
  BY <1>1, NatLessThanWellFounded, Zenon

LEMMA LeastNumber ==
  ASSUME NEW T, T \subseteq Nat, T # {}
  PROVE  \E n \in T : \A k \in T : n <= k
<1>1. PICK n \in T : \A k \in T : <<k, n>> \notin Below
  BY BelowIsWellFounded, WFMin
<1>2. \A k \in T : ~ (k < n)
  BY <1>1 DEF Below
<1> QED
  BY <1>2

LEMMA Upward ==
  ASSUME NEW m \in Nat, NEW T, 0 \in T, \A n \in 1 .. m : n - 1 \in T => n \in T
  PROVE  \A n \in 0 .. m : n \in T
<1> DEFINE Missed == {n \in 0 .. m : n \notin T}
<1>1. SUFFICES ASSUME Missed # {} PROVE FALSE
  OBVIOUS
<1>2. Missed \subseteq Nat
  OBVIOUS
<1>3. PICK n \in Missed : \A k \in Missed : n <= k
  <2> HIDE DEF Missed
  <2> QED
    BY <1>1, <1>2, LeastNumber
<1>4. n \in 1 .. m /\ n \notin T
  BY <1>3
<1>5. n - 1 \in 0 .. m /\ ~ (n <= n - 1)
  BY <1>4
<1>6. n - 1 \in T
  BY <1>3, <1>5
<1> QED
  BY <1>4, <1>6

(* A function on 0 .. m that satisfies a recursion.                            *)
Solves(f, m, first, step) ==
  /\ f = [n \in 0 .. m |-> f[n]] /\ f[0] = first
  /\ \A n \in 1 .. m : f[n] = step[n][f[n - 1]]

LEMMA Recursion ==
  ASSUME NEW m \in Nat, NEW first, NEW step
  PROVE  \E f : Solves(f, m, first, step)
<1> DEFINE Solvable == {k \in Nat : \E f : Solves(f, k, first, step)}
<1>1. 0 \in Solvable
  <2>1. Solves([n \in 0 .. 0 |-> first], 0, first, step)
    BY DEF Solves
  <2> QED
    BY <2>1
<1>2. ASSUME NEW k \in 1 .. m, k - 1 \in Solvable PROVE k \in Solvable
  <2>1. PICK f : Solves(f, k - 1, first, step)
    BY <1>2
  <2> DEFINE g == [n \in 0 .. k |-> IF n = k THEN step[k][f[k - 1]] ELSE f[n]]
  <2>2. g = [n \in 0 .. k |-> g[n]]
    OBVIOUS
  <2>3. /\ g[k] = step[k][f[k - 1]]
        /\ \A n \in 0 .. (k - 1) : g[n] = f[n]
    OBVIOUS
  <2> HIDE DEF g
  <2>4. g[0] = first
    BY <2>1, <2>3 DEF Solves
  <2>5. ASSUME NEW n \in 1 .. k PROVE g[n] = step[n][g[n - 1]]
    <3>1. n - 1 \in 0 .. (k - 1)
      OBVIOUS
    <3>2. g[n - 1] = f[n - 1]
      BY <2>3, <3>1
    <3>3. CASE n = k
      BY <2>3, <3>2, <3>3
    <3>4. CASE n # k
      <4>1. n \in 1 .. (k - 1) /\ n \in 0 .. (k - 1)
        BY <3>4
      <4>2. f[n] = step[n][f[n - 1]]
        BY <2>1, <4>1 DEF Solves
      <4> QED
        BY <2>3, <3>2, <4>1, <4>2
    <3> QED
      BY <3>3, <3>4
  <2>6. Solves(g, k, first, step)
    BY <2>2, <2>4, <2>5 DEF Solves
  <2>7. k \in Nat
    OBVIOUS
  <2> QED
    BY <2>6, <2>7
<1> HIDE DEF Solvable
<1>3. m \in Solvable
  BY <1>1, <1>2, Upward
<1> QED
  BY <1>3 DEF Solvable

LEMMA RecursionIn ==
  ASSUME NEW m \in Nat, NEW S, NEW first \in S, NEW step,
         \A n \in 1 .. m : \A x \in S : step[n][x] \in S
  PROVE  \E f \in [0 .. m -> S] : Solves(f, m, first, step)
<1>1. PICK f : Solves(f, m, first, step)
  BY Recursion
<1> DEFINE Typed == {n \in 0 .. m : f[n] \in S}
<1>2. 0 \in Typed
  BY <1>1 DEF Solves
<1>3. ASSUME NEW n \in 1 .. m, n - 1 \in Typed PROVE n \in Typed
  <2>1. f[n] = step[n][f[n - 1]] /\ f[n - 1] \in S
    BY <1>1, <1>3 DEF Solves
  <2>2. step[n][f[n - 1]] \in S
    BY <2>1
  <2> QED
    BY <2>1, <2>2
<1>4. \A n \in 0 .. m : n \in Typed
  <2> HIDE DEF Typed
  <2> QED
    BY <1>2, <1>3, Upward
<1>5. f \in [0 .. m -> S]
  BY <1>1, <1>4 DEF Solves
<1> QED
  BY <1>1, <1>5

LEMMA DoubledIs ==
  /\ Doubled \in [0 .. Iterations -> Nat \ {0}]
  /\ Doubled[0] = 1
  /\ \A i \in 1 .. Iterations : Doubled[i] = 2 * Doubled[i - 1]
<1> DEFINE Positive == Nat \ {0}
           step == [n \in 1 .. Iterations |-> [x \in Positive |-> 2 * x]]
           Twice(f) == [i \in 0 .. Iterations |-> IF i = 0 THEN 1 ELSE 2 * f[i - 1]]
<1>0. Iterations \in Nat
  BY ControllersAssumption DEF ControllersAssumption
<1>1. \A n \in 1 .. Iterations : \A x \in Positive : step[n][x] = 2 * x /\ 2 * x \in Positive
  OBVIOUS
<1>2. PICK f \in [0 .. Iterations -> Positive] : Solves(f, Iterations, 1, step)
  <2>1. 1 \in Positive
    OBVIOUS
  <2> HIDE DEF step, Positive
  <2> QED
    BY <1>0, <1>1, <2>1, RecursionIn
<1>3. \A i \in 1 .. Iterations : f[i] = 2 * f[i - 1]
  <2> SUFFICES ASSUME NEW i \in 1 .. Iterations PROVE f[i] = 2 * f[i - 1]
    OBVIOUS
  <2>1. i - 1 \in 0 .. Iterations
    BY <1>0
  <2>2. f[i - 1] \in Positive
    BY <1>2, <2>1
  <2>3. f[i] = step[i][f[i - 1]]
    BY <1>2 DEF Solves
  <2> HIDE DEF step
  <2> QED
    BY <1>1, <2>2, <2>3
<1>4. f = Twice(f)
  <2>1. \A i \in 0 .. Iterations : f[i] = Twice(f)[i]
    BY <1>2, <1>3 DEF Solves
  <2>2. f = [i \in 0 .. Iterations |-> f[i]] /\ Twice(f) = [i \in 0 .. Iterations |-> Twice(f)[i]]
    BY <1>2 DEF Solves
  <2> HIDE DEF Twice
  <2> QED
    BY <2>1, <2>2
<1>5. Doubled = CHOOSE g : g = Twice(g)
  BY DEF Doubled
<1>6. Doubled = Twice(Doubled)
  <2> HIDE DEF Twice
  <2> QED
    BY <1>4, <1>5
<1>7. Doubled[0] = 1 /\ \A i \in 1 .. Iterations : Doubled[i] = 2 * Doubled[i - 1]
  BY <1>0, <1>6
<1> DEFINE Typed == {n \in 0 .. Iterations : Doubled[n] \in Positive}
<1>8. 0 \in Typed /\ \A n \in 1 .. Iterations : n - 1 \in Typed => n \in Typed
  BY <1>0, <1>7
<1>9. \A n \in 0 .. Iterations : n \in Typed
  <2> HIDE DEF Typed
  <2> QED
    BY <1>0, <1>8, Upward
<1>10. Doubled = [i \in 0 .. Iterations |-> Doubled[i]]
  <2>1. Twice(Doubled) = [i \in 0 .. Iterations |-> Twice(Doubled)[i]]
    OBVIOUS
  <2> HIDE DEF Twice
  <2> QED
    BY <1>6, <2>1
<1> QED
  BY <1>7, <1>9, <1>10

LEMMA StepIs == Step \in Nat \ {0} /\ Step = Doubled[Iterations] /\ Iterations \in Nat
                /\ Powers \in Nat \ {0}
BY DoubledIs, ControllersAssumption DEF Step, ControllersAssumption

(* Bisection: the end that meets and the end that does not come closer by a    *)
(* half at a time, down to one level of power in units of its last step.       *)
Ends == [lo : Nat, hi : Nat]

Between(w, r, i, x) ==
  /\ MeetsAt(w, r, x.hi) /\ ~MeetsAt(w, r, x.lo)
  /\ x.hi = x.lo + Powers * Doubled[Iterations - i]

LEMMA HalveEnds ==
  ASSUME NEW w \in Bands, NEW r \in Rungs, NEW x \in Ends
  PROVE  Halve(w, r, x) \in Ends
<1>1. (x.lo + x.hi) \div 2 \in Nat
  BY DEF Ends
<1> QED
  BY <1>1 DEF Halve, Ends

LEMMA Midpoint == \A a, h \in Nat : (a + (a + 2 * h)) \div 2 = a + h
OBVIOUS

LEMMA HalveNarrows ==
  ASSUME NEW w \in Bands, NEW r \in Rungs, NEW x \in Ends, NEW i \in 1 .. Iterations,
         Between(w, r, i - 1, x)
  PROVE  Between(w, r, i, Halve(w, r, x))
<1> DEFINE half == Powers * Doubled[Iterations - i]
           mid == (x.lo + x.hi) \div 2
<1>1. x.lo \in Nat /\ x.hi \in Nat
  BY DEF Ends
<1>2. Iterations - i \in 0 .. Iterations /\ Iterations - (i - 1) \in 1 .. Iterations
      /\ (Iterations - (i - 1)) - 1 = Iterations - i
  BY StepIs
<1>3. /\ Doubled[Iterations - i] \in Nat
      /\ Doubled[Iterations - (i - 1)] = 2 * Doubled[Iterations - i]
  BY <1>2, DoubledIs
<1>4. half \in Nat /\ Powers * Doubled[Iterations - (i - 1)] = 2 * half
  BY <1>3, StepIs
<1>5. x.hi = x.lo + 2 * half
  BY <1>4 DEF Between
<1>6. mid = x.lo + half
  <2> HIDE DEF half
  <2>1. (x.lo + (x.lo + 2 * half)) \div 2 = x.lo + half
    BY <1>1, <1>4, Midpoint
  <2> QED
    BY <1>5, <2>1
<1>7. CASE MeetsAt(w, r, mid)
  <2>1. Halve(w, r, x) = [x EXCEPT !.hi = mid]
    BY <1>7 DEF Halve
  <2>2. Halve(w, r, x).hi = mid /\ Halve(w, r, x).lo = x.lo
    BY <2>1 DEF Ends
  <2> QED
    BY <1>6, <1>7, <2>2 DEF Between
<1>8. CASE ~MeetsAt(w, r, mid)
  <2>1. Halve(w, r, x) = [x EXCEPT !.lo = mid]
    BY <1>8 DEF Halve
  <2>2. Halve(w, r, x).lo = mid /\ Halve(w, r, x).hi = x.hi
    BY <2>1 DEF Ends
  <2>3. x.hi = mid + half
    <3> HIDE DEF half, mid
    <3> QED
      BY <1>1, <1>4, <1>5, <1>6
  <2> QED
    BY <1>8, <2>2, <2>3 DEF Between
<1> QED
  BY <1>7, <1>8

LEMMA NarrowedIs ==
  ASSUME NEW w \in Bands, NEW r \in Rungs,
         ~MeetsAt(w, r, 0), MeetsAt(w, r, Powers * Step)
  PROVE  Narrowed(w, r) \in Ends /\ Between(w, r, Iterations, Narrowed(w, r))
<1> DEFINE first == [lo |-> 0, hi |-> Powers * Step]
           step == [n \in 1 .. Iterations |-> [x \in Ends |-> Halve(w, r, x)]]
           Steps(f) == [i \in 0 .. Iterations |->
                          IF i = 0 THEN [lo |-> 0, hi |-> Powers * Step] ELSE Halve(w, r, f[i - 1])]
<1>0. Iterations \in Nat /\ Powers * Step \in Nat /\ first \in Ends
  BY StepIs DEF Ends
<1>1. \A n \in 1 .. Iterations : \A x \in Ends :
        step[n][x] = Halve(w, r, x) /\ Halve(w, r, x) \in Ends
  BY HalveEnds
<1>2. PICK f \in [0 .. Iterations -> Ends] : Solves(f, Iterations, first, step)
  <2> HIDE DEF step, first
  <2>1. \A n \in 1 .. Iterations : \A x \in Ends : step[n][x] \in Ends
    BY <1>1
  <2> QED
    BY <1>0, <2>1, RecursionIn
<1>3. \A i \in 1 .. Iterations : f[i] = Halve(w, r, f[i - 1])
  <2> SUFFICES ASSUME NEW i \in 1 .. Iterations PROVE f[i] = Halve(w, r, f[i - 1])
    OBVIOUS
  <2>1. i - 1 \in 0 .. Iterations
    BY <1>0
  <2>2. f[i - 1] \in Ends
    BY <1>2, <2>1
  <2>3. f[i] = step[i][f[i - 1]]
    BY <1>2 DEF Solves
  <2> HIDE DEF step
  <2> QED
    BY <1>1, <2>2, <2>3
<1>4. f = Steps(f)
  <2>0. f[0] = first
    BY <1>2 DEF Solves
  <2>1. \A i \in 0 .. Iterations : f[i] = Steps(f)[i]
    BY <1>0, <1>3, <2>0
  <2>2. f = [i \in 0 .. Iterations |-> f[i]] /\ Steps(f) = [i \in 0 .. Iterations |-> Steps(f)[i]]
    BY <1>2 DEF Solves
  <2> HIDE DEF Steps
  <2> QED
    BY <2>1, <2>2
<1> DEFINE range == CHOOSE g : g = Steps(g)
<1>5. Narrowed(w, r) = range[Iterations]
  BY DEF Narrowed
<1>6. range = Steps(range)
  <2> HIDE DEF Steps
  <2> QED
    BY <1>4
<1> HIDE DEF range
<1>7. range[0] = first /\ \A i \in 1 .. Iterations : range[i] = Halve(w, r, range[i - 1])
  BY <1>0, <1>6
<1> DEFINE Good == {i \in 0 .. Iterations : range[i] \in Ends /\ Between(w, r, i, range[i])}
<1>8. 0 \in Good
  BY <1>0, <1>7, StepIs DEF Between
<1>9. ASSUME NEW i \in 1 .. Iterations, i - 1 \in Good PROVE i \in Good
  <2>1. range[i - 1] \in Ends /\ Between(w, r, i - 1, range[i - 1])
    BY <1>9
  <2>2. Halve(w, r, range[i - 1]) \in Ends /\ Between(w, r, i, Halve(w, r, range[i - 1]))
    BY <2>1, HalveEnds, HalveNarrows
  <2> QED
    BY <1>7, <2>2
<1>10. \A i \in 0 .. Iterations : i \in Good
  <2> HIDE DEF Good
  <2> QED
    BY <1>0, <1>8, <1>9, Upward
<1>11. Iterations \in Good
  <2> HIDE DEF Good
  <2> QED
    BY <1>0, <1>10
<1> QED
  BY <1>5, <1>11

LEMMA MinPowerIs ==
  ASSUME NEW w \in Bands, NEW r \in Rungs
  PROVE  LET p == MinPower(w, r)
         IN IF p = None THEN ~MeetsAt(w, r, Powers * Step)
            ELSE p \in Nat /\ MeetsAt(w, r, p) /\ (p > 0 => ~MeetsAt(w, r, p - Powers))
<1>1. None \notin Nat
  BY ChannelsAreNamed
<1>2. CASE ~MeetsAt(w, r, Powers * Step)
  BY <1>2 DEF MinPower
<1>3. CASE MeetsAt(w, r, 0) /\ MeetsAt(w, r, Powers * Step)
  BY <1>1, <1>3 DEF MinPower
<1>4. CASE ~MeetsAt(w, r, 0) /\ MeetsAt(w, r, Powers * Step)
  <2> DEFINE x == Narrowed(w, r)
  <2>1. x \in Ends /\ Between(w, r, Iterations, x)
    BY <1>4, NarrowedIs
  <2> HIDE DEF x
  <2>2. Doubled[Iterations - Iterations] = 1
    BY StepIs, DoubledIs
  <2>3. x.hi \in Nat /\ x.lo \in Nat /\ x.hi = x.lo + Powers
    BY <2>1, <2>2, StepIs DEF Between, Ends
  <2>4. x.hi - Powers = x.lo
    BY <2>3, StepIs
  <2>5. MinPower(w, r) = x.hi
    BY <1>4 DEF MinPower, Bisect, x
  <2> QED
    BY <1>1, <2>1, <2>3, <2>4, <2>5 DEF Between
<1> QED
  BY <1>2, <1>3, <1>4

(* The power controller goes through the ladder keeping the most efficient     *)
(* rung that some power carries.                                               *)
Affords(w, i, b) ==
  /\ b # None => MinPower(w, b) # None
  /\ \A k \in 1 .. i : MinPower(w, Ladder[k]) # None => b # None /\ Eff[Ladder[k]] <= Eff[b]

LEMMA BetterAffords ==
  ASSUME NEW w \in Bands, NEW i \in DOMAIN Ladder, NEW b \in {None} \cup Rungs,
         Affords(w, i - 1, b)
  PROVE  Affords(w, i, Better(w, b, Ladder[i]))
<1> DEFINE r == Ladder[i]
           c == Better(w, b, r)
<1>1. r \in Rungs /\ r # None /\ Eff[r] \in Nat /\ i \in Nat
  BY LadderRungs
<1>2. b # None => Eff[b] \in Nat
  BY LadderRungs
<1>3. c = b \/ c = r
  BY DEF Better
<1>4. c # None => MinPower(w, c) # None
  BY DEF Better, Affords
<1>5. b # None => c # None /\ Eff[b] <= Eff[c]
  BY <1>1, <1>2 DEF Better
<1>6. MinPower(w, r) # None => c # None /\ Eff[r] <= Eff[c]
  BY <1>1, <1>2 DEF Better
<1>7. ASSUME NEW k \in 1 .. i, MinPower(w, Ladder[k]) # None
      PROVE  c # None /\ Eff[Ladder[k]] <= Eff[c]
  <2>1. CASE k = i
    BY <1>6, <1>7, <2>1
  <2>2. CASE k # i
    <3>1. k \in 1 .. (i - 1) /\ k \in DOMAIN Ladder
      BY <1>1, <2>2, LadderRungs
    <3>2. b # None /\ Eff[Ladder[k]] <= Eff[b]
      BY <1>7, <3>1 DEF Affords
    <3>3. Eff[Ladder[k]] \in Nat /\ Eff[b] \in Nat /\ c # None /\ Eff[b] <= Eff[c]
      BY <1>2, <1>5, <3>1, <3>2, LadderRungs
    <3>4. Eff[c] \in Nat
      BY <1>1, <1>2, <1>3, <3>2
    <3> HIDE DEF c
    <3> QED
      BY <3>2, <3>3, <3>4
  <2> QED
    BY <2>1, <2>2
<1> HIDE DEF c
<1>8. c = Better(w, b, Ladder[i])
  BY DEF c
<1> QED
  BY <1>4, <1>7, <1>8 DEF Affords

LEMMA AffordIs == \A w \in Bands : Affords(w, Len(Ladder), Afford(w))
<1> SUFFICES ASSUME NEW w \in Bands PROVE Affords(w, Len(Ladder), Afford(w))
  OBVIOUS
<1> DEFINE S == {None} \cup Rungs
           m == Len(Ladder)
           step == [n \in 1 .. m |-> [x \in S |-> Better(w, x, Ladder[n])]]
           Kept(f) == [i \in 0 .. m |-> IF i = 0 THEN None ELSE Better(w, f[i - 1], Ladder[i])]
<1>0. m \in Nat /\ None \in S /\ \A i \in 1 .. m : i \in DOMAIN Ladder /\ Ladder[i] \in Rungs
  BY LadderRungs
<1> HIDE DEF m
<1>1. \A n \in 1 .. m : \A x \in S :
        step[n][x] = Better(w, x, Ladder[n]) /\ Better(w, x, Ladder[n]) \in S
  BY <1>0 DEF Better
<1>2. PICK f \in [0 .. m -> S] : Solves(f, m, None, step)
  <2> HIDE DEF step, S
  <2>1. \A n \in 1 .. m : \A x \in S : step[n][x] \in S
    BY <1>1
  <2> QED
    BY <1>0, <2>1, RecursionIn
<1>3. \A i \in 1 .. m : f[i] = Better(w, f[i - 1], Ladder[i])
  <2> SUFFICES ASSUME NEW i \in 1 .. m PROVE f[i] = Better(w, f[i - 1], Ladder[i])
    OBVIOUS
  <2>1. i - 1 \in 0 .. m
    BY <1>0
  <2>2. f[i - 1] \in S
    BY <1>2, <2>1
  <2>3. f[i] = step[i][f[i - 1]]
    BY <1>2 DEF Solves
  <2> HIDE DEF step, S
  <2> QED
    BY <1>1, <2>2, <2>3
<1>4. f = Kept(f)
  <2>0. f[0] = None
    BY <1>2 DEF Solves
  <2>1. \A i \in 0 .. m : f[i] = Kept(f)[i]
    BY <1>0, <1>3, <2>0
  <2>2. f = [i \in 0 .. m |-> f[i]] /\ Kept(f) = [i \in 0 .. m |-> Kept(f)[i]]
    BY <1>2 DEF Solves
  <2> HIDE DEF Kept
  <2> QED
    BY <2>1, <2>2
<1> DEFINE kept == CHOOSE g : g = Kept(g)
<1>5. Afford(w) = kept[m]
  BY DEF Afford, m
<1>6. kept = Kept(kept)
  <2> HIDE DEF Kept
  <2> QED
    BY <1>4
<1> HIDE DEF kept
<1>7. kept[0] = None /\ \A i \in 1 .. m : kept[i] = Better(w, kept[i - 1], Ladder[i])
  BY <1>0, <1>6
<1> DEFINE Good == {i \in 0 .. m : kept[i] \in S /\ Affords(w, i, kept[i])}
<1>8. 0 \in Good
  BY <1>0, <1>7 DEF Affords
<1>9. ASSUME NEW i \in 1 .. m, i - 1 \in Good PROVE i \in Good
  <2>1. kept[i - 1] \in S /\ Affords(w, i - 1, kept[i - 1])
    BY <1>9
  <2>2. kept[i] = Better(w, kept[i - 1], Ladder[i]) /\ i \in DOMAIN Ladder
    BY <1>0, <1>7
  <2>3. Affords(w, i, kept[i])
    BY <2>1, <2>2, BetterAffords
  <2>4. kept[i] \in S
    BY <1>1, <2>1, <2>2
  <2> QED
    BY <2>3, <2>4
<1>10. \A i \in 0 .. m : i \in Good
  <2> HIDE DEF Good
  <2> QED
    BY <1>0, <1>8, <1>9, Upward
<1>11. m \in Good
  <2> HIDE DEF Good
  <2> QED
    BY <1>0, <1>10
<1> QED
  BY <1>5, <1>11 DEF m

LEMMA PowersSuffice == TypeInv => LeastPower
<1> SUFFICES ASSUME world \in Bands PROVE LeastPower
  BY DEF TypeInv
<1>1. \A r \in Rungs :
        LET p == MinPower(world, r)
        IN IF p = None THEN ~MeetsAt(world, r, Powers * Step)
           ELSE MeetsAt(world, r, p) /\ (p > 0 => ~MeetsAt(world, r, p - Powers))
  BY MinPowerIs
<1>2. Affords(world, Len(Ladder), Afford(world))
  BY AffordIs
<1>3. ASSUME NEW s \in Rungs, MinPower(world, s) # None
      PROVE  Afford(world) # None /\ Eff[s] <= Eff[Afford(world)]
  <2>1. PICK k \in DOMAIN Ladder : s = Ladder[k]
    BY LadderRungs
  <2>2. k \in 1 .. Len(Ladder)
    BY <2>1, LadderRungs
  <2> QED
    BY <1>2, <1>3, <2>1, <2>2 DEF Affords
<1> QED
  BY <1>1, <1>3 DEF LeastPower

-------------------------------------------------------------------------------
LEMMA Divided ==
  ASSUME NEW n \in Nat \ {0}, NEW a \in Nat
  PROVE  /\ a \div n \in Int /\ a % n \in 0 .. (n - 1)
         /\ a = (n * (a \div n)) + (a % n)
  OBVIOUS

(* A follower some dwells behind is where the link is only if that is a whole  *)
(* number of cycles.                                                           *)
LEMMA SameRemainder ==
  ASSUME NEW n \in Nat \ {0}, NEW a \in Nat, NEW b \in Nat, a % n = (a + b) % n
  PROVE  b % n = 0
<1>1. PICK p \in Int : a = (n * p) + (a % n)
  BY Divided
<1>2. PICK q \in Int : a + b = (n * q) + ((a + b) % n)
  <2>1. a + b \in Nat
    OBVIOUS
  <2> QED
    BY <2>1, Divided
<1>3. PICK s \in Int : b = (n * s) + (b % n)
  BY Divided
<1>4. b % n \in 0 .. (n - 1) /\ a % n \in Int /\ (a + b) % n \in Int
  BY Divided
<1>5. b = (n * q) - (n * p)
  <2>1. n * q \in Int /\ n * p \in Int
    OBVIOUS
  <2> QED
    BY <1>1, <1>2, <1>4, <2>1
<1>6. PICK d \in Int : d = (q - p) - s
  OBVIOUS
<1>7. n * d = ((n * q) - (n * p)) - (n * s)
  BY <1>6
<1>8. b % n = n * d
  <2>1. n * q \in Int /\ n * p \in Int /\ n * s \in Int
    OBVIOUS
  <2> QED
    BY <1>3, <1>4, <1>5, <1>7, <2>1
<1>9. CASE d >= 1
  <2>1. n * d >= n
    BY <1>9
  <2> QED
    BY <1>4, <1>8, <2>1
<1>10. CASE d <= -1
  <2>1. n * d <= -n
    BY <1>10
  <2> QED
    BY <1>4, <1>8, <2>1
<1>11. CASE d = 0
  BY <1>8, <1>11
<1> QED
  BY <1>9, <1>10, <1>11

(* HardwareHopProbe, for any number of channels and of cycles.                 *)
LEMMA FollowerMisses ==
  ASSUME NEW cycles \in Nat, NEW behind \in Nat, behind % Len(Candidates) # 0
  PROVE  JammedDwells(cycles, behind) = {}
<1> DEFINE n == Len(Candidates)
<1>1. n \in Nat \ {0} /\ DOMAIN Candidates = 1 .. n
  BY BandAssumption DEF BandAssumption
<1>2. behind > 0
  <2>1. 0 % n = 0
    BY <1>1
  <2> QED
    BY <2>1
<1> SUFFICES ASSUME NEW t \in 0 .. ((cycles * n) - 1), FollowerChannel(t, behind) = Visited(t)
             PROVE  FALSE
  BY DEF JammedDwells
<1>3. cycles * n \in Nat
  BY <1>1
<1>4. t \in Nat
  BY <1>3
<1>5. \A k \in Nat : ((k % n) + 1) \in DOMAIN Candidates /\ k % n \in Nat
  BY <1>1
<1>6. \A k \in Nat : Visited(k) # None
  BY <1>5, ChannelsAreNamed DEF Visited, Channels
<1>7. t >= behind /\ Visited(t - behind) = Visited(t)
  BY <1>2, <1>4, <1>6 DEF FollowerChannel
<1>8. t - behind \in Nat
  BY <1>4, <1>7
<1>9. ((t - behind) % n) + 1 = (t % n) + 1
  BY <1>4, <1>5, <1>7, <1>8, BandAssumption DEF Visited, BandAssumption
<1>10. (t - behind) % n = t % n
  <2>1. (t - behind) % n \in Nat /\ t % n \in Nat
    BY <1>4, <1>5, <1>8
  <2> HIDE DEF n
  <2> QED
    BY <1>9, <2>1
<1>11. ((t - behind) + behind) % n = t % n
  BY <1>4
<1>12. behind % n = 0
  BY <1>1, <1>8, <1>10, <1>11, SameRemainder
<1> QED
  BY <1>12

LEMMA EvadeRate ==
  ASSUME NEW w, Evade(w).rate # None
  PROVE  Evade(w).rate \in RateSet
<1> DEFINE evading == {i \in DOMAIN Rates : Meets(w, Hop(Rates[i]), Probe)}
<1>1. evading # {}
  BY DEF Evade
<1>2. DOMAIN Rates \subseteq Nat
  BY BandAssumption DEF BandAssumption
<1>3. evading \subseteq Nat /\ evading \subseteq DOMAIN Rates
  BY <1>2
<1>4. Evade(w).rate = Rates[Min(evading)]
  BY <1>1 DEF Evade
<1> HIDE DEF evading
<1>5. Min(evading) \in evading
  BY <1>1, <1>3, LeastNumber DEF Min
<1> QED
  BY <1>3, <1>4, <1>5 DEF RateSet

LEMMA ProbesAgree == TypeInv => ProbeSeesTheEvasion
<1> SUFFICES ASSUME TypeInv, Reactive(world), Evade(world).rate # None
             PROVE  LET b == Behind(world.jam.tau, Evade(world).rate)
                    IN b % Len(Candidates) # 0 => JammedDwells(3, b) = {}
  BY DEF ProbeSeesTheEvasion
<1>1. world.jam.tau \in Nat
  BY Quality DEF TypeInv, Reactive
<1>2. Evade(world).rate \in Nat
  BY EvadeRate, RatesArePositive
<1>3. Behind(world.jam.tau, Evade(world).rate) \in Nat
  <2>1. (2 * world.jam.tau) * Evade(world).rate \in Nat
    BY <1>1, <1>2
  <2> QED
    BY <2>1 DEF Behind, Second
<1> QED
  BY <1>3, FollowerMisses

-------------------------------------------------------------------------------
(* Every mission keeps its types, whatever calls fail.                         *)
LEMMA TypesHold == Spec => []TypeInv
<1> QED
  BY TypeStarts, TypeStep, PTL DEF Spec

(* PowerController, in every world a mission can meet: _min_power returns a    *)
(* power that meets and below which the last halving's step does not, None     *)
(* only where the whole budget fails, and adapt chooses the most efficient     *)
(* rung that some power in the budget carries.                                 *)
THEOREM PowerIsLeast == Spec => []LeastPower
BY TypesHold, PowersSuffice, PTL

(* HardwareHopProbe, for any number of channels: a follower, at the hop rate   *)
(* with which the controller evades it, hits no dwell of the probe unless it   *)
(* lags by whole cycles of the hop plan or by less than half a dwell.          *)
THEOREM ProbesAgreeWithTheModel == Spec => []ProbeSeesTheEvasion
BY TypesHold, ProbesAgree, PTL
===============================================================================
