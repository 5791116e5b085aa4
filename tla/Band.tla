--------------------------------- MODULE Band ---------------------------------
(* The band a link is measured in: InterferenceSimBackend with its interferer, *)
(* and what a trial of each rung of the ladder reads there. Signal quality is  *)
(* a level; a rung needs one, a jammer takes some away, which is what it adds  *)
(* to the noise that a monitor senses.                                         *)
EXTENDS Integers, Sequences, FiniteSets

CONSTANTS Candidates, \* the channels, in the order they are tried
          Rates,      \* hop rates in Hz, lowest first
          Ladder,     \* rungs, in the order they are tried
          Need,       \* rung -> the level at which it meets the target
          Eff,        \* rung -> spectral efficiency
          Levels,     \* levels a clean channel may have
          Hits,       \* levels a jammer takes away
          Margin,     \* levels over the noise up to which a channel senses clear
          Errors,     \* levels over what a rung needs -> bit error rate
          Tolerated,  \* the target bit error rate
          Forgiven,   \* the bit error rate up to which a BO run is tried
          Taus,       \* reaction latencies of a follower, in ms
          Skews,      \* levels a phase error costs
          None

Second == 1000
Channels == {Candidates[i] : i \in DOMAIN Candidates}
Rungs == {Ladder[i] : i \in DOMAIN Ladder}

(* How far over its need a rung may be graded, in any condition.               *)
Spares ==
  {l - Need[r] - k : l \in UNION {0 .. m : m \in Levels}, r \in Rungs, k \in {0} \cup Skews}

(* What an interferer is: where it sits, the levels it takes away, how late it *)
(* is where it follows.                                                        *)
Emitters == [kind : {"fixed", "follower"}, at : Channels \cup {None}, hit : Nat, tau : Nat]

ASSUME BandAssumption ==
  /\ Candidates \in Seq(Channels) /\ Len(Candidates) > 1
  /\ \A i, j \in DOMAIN Candidates : Candidates[i] = Candidates[j] => i = j
  /\ Rates \in Seq(Nat \ {0})
  /\ \A i \in 1 .. Len(Rates) - 1 : Rates[i] < Rates[i + 1]
  /\ Ladder \in Seq(Rungs)
  /\ \A r \in Rungs : Need[r] \in Nat \ {0} /\ Eff[r] \in Nat
  /\ Levels \cup Hits \cup Skews \subseteq Nat /\ Taus \subseteq Nat \ {0}
  /\ \E l \in Levels : \A k \in Levels : k <= l
  /\ Margin \in Nat /\ Tolerated \in Nat /\ Forgiven \in Nat
  /\ \A n \in Spares : Errors[n] \in Nat
  /\ \A m, n \in Spares : m <= n => Errors[n] <= Errors[m]
  /\ None \notin Channels \cup Rungs \cup Emitters \cup Nat

Fixed(f, hit) == [kind |-> "fixed", at |-> f, hit |-> hit, tau |-> 0]
Follower(hit, tau) == [kind |-> "follower", at |-> None, hit |-> hit, tau |-> tau]

Interferers ==
  {Fixed(f, h) : f \in Channels, h \in Hits} \cup {Follower(h, t) : h \in Hits, t \in Taus}

(* What is hidden from the agent. The skew is what a phase error costs, and    *)
(* tuning gives back.                                                          *)
Worlds == [snr : Levels, jam : {None} \cup Interferers, skew : Skews]

-------------------------------------------------------------------------------
Reactive(w) == w.jam # None /\ w.jam.kind = "follower"
InBand(w, f) == w.jam # None /\ (Reactive(w) \/ w.jam.at = f)

Floor(n) == IF n < 0 THEN 0 ELSE n
Jammed(w) == IF w.jam = None THEN w.snr ELSE Floor(w.snr - w.jam.hit)

(* What is left of each dwell when a follower arrives, in parts of a second.   *)
Caught(tau, rate) == Floor(Second - tau * rate)

(* The share of a trial's bits that is graded jammed, as hit out of "of": a    *)
(* link is [chan, rate], and hops over the candidates where its rate is not    *)
(* None.                                                                       *)
Dwells(w, link) ==
  CASE link.rate = None -> [of |-> 1, hit |-> IF InBand(w, link.chan) THEN 1 ELSE 0]
    [] link.rate # None /\ Reactive(w) ->
         [of |-> Second, hit |-> Caught(w.jam.tau, link.rate)]
    [] OTHER -> [of |-> Len(Candidates), hit |-> IF w.jam = None THEN 0 ELSE 1]

(* Every dwell's bits are graded at its own level, and counted together; skew  *)
(* is what a phase error costs.                                                *)
BitErrors(w, link, r, skew) ==
  LET share == Dwells(w, link)
  IN share.hit * Errors[Jammed(w) - Need[r] - skew]
       + (share.of - share.hit) * Errors[w.snr - Need[r] - skew]

Within(w, link, r, skew, rate) == BitErrors(w, link, r, skew) <= rate * Dwells(w, link).of

Meets(w, link, r) == Within(w, link, r, w.skew, Tolerated)
MeetsTuned(w, link, r) == Within(w, link, r, 0, Tolerated)

(* sense_spectrum: energy detection with the link silent, as a follower is. A  *)
(* fixed jammer raises the noise by what it takes from a link, and is occupied *)
(* only over the margin.                                                       *)
Power(w, f) == IF InBand(w, f) /\ ~Reactive(w) THEN w.jam.hit ELSE 0
Occupied(w, f) == Power(w, f) > Margin
===============================================================================
