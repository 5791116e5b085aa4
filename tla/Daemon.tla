--------------------------------- MODULE Daemon --------------------------------
(* autopilotd from its command line to its exit (daemon.main): the declared    *)
(* bench, the radios the worker holds, what the device tools say of them, the  *)
(* identity check, the interferer's interlock and the path check that keys it. *)
(* Anybody may swap or unplug a radio between any two steps.                   *)
EXTENDS Topology, Integers, Sequences

CONSTANTS
  Radios,        \* the radios that may stand at an address, with their facts
  Uris,
  Benches,       \* what may stand at the addresses when the daemon starts
  Invocations,   \* command lines: host, token, topology, explicit, radios, tx,
                 \* rx, jammer, verify
  Margins,       \* dB the keyed interferer may raise its channel by
  Missing,       \* the declaration file that is not there
  MaxReplugs,
  MinMargin, MaxSpread, Senses   \* path_check's thresholds

ASSUME ThresholdAssumption ==
  Margins \subseteq Int /\ MinMargin \in Int /\ MaxSpread \in Int /\ Senses \in Nat \ {0}

ASSUME BenchAssumption ==
  /\ Benches \subseteq [Uris -> Radios \cup {None}]
  /\ \A i \in Invocations : i.tx \in Uris /\ i.rx \in Uris

VARIABLES
  asked,      \* the command line
  bench,      \* address -> the radio that stands there now, or None
  replugs,
  topology,   \* the declaration, or None
  worker,     \* None, or the radios the worker opened and whether it still runs
  devices,    \* role -> the manifest the device tools show
  findings,
  jammer,     \* enabled, keyed, retired; wanted: the operator's last word
  path,       \* the path check: "none" or what it found, and its senses
  trial,      \* the last graded trial on radios, or None
  pc

vars == <<asked, bench, replugs, topology, worker, devices, findings, jammer, path, trial, pc>>

--------------------------------------------------------------------------------
(* Devices: a manifest is what the radio answers, or a made-up vanilla one.    *)

Simulated == [serial |-> None, chip |-> None, range |-> None, simulated |-> TRUE]
Manifest(radio) ==
  [serial |-> radio.serial, chip |-> radio.chip, range |-> radio.range, simulated |-> FALSE]

At(role) == bench[IF role = "transmitter" THEN asked.tx ELSE asked.rx]
Ends == {"transmitter", "receiver"}
Mocked == [role \in Ends |-> Simulated]

(* detect_bench binds the roles by the addresses that were asked for, and      *)
(* refuses one radio in both.                                                  *)
Detectable ==
  /\ \A role \in Ends : At(role) # None
  /\ At("transmitter").serial # At("receiver").serial

Real == \E role \in Ends : ~devices[role].simulated

(* Mutant: the pair is bound in the order a scan lists it.                     *)
DetectInScanOrder ==
  LET first == CHOOSE u \in {asked.tx, asked.rx} : TRUE
      second == IF first = asked.tx THEN asked.rx ELSE asked.tx
  IN [role \in Ends |-> Manifest(bench[IF role = "transmitter" THEN second ELSE first])]
Detected == [role \in Ends |-> Manifest(At(role))]

--------------------------------------------------------------------------------
Init ==
  /\ asked \in Invocations
  /\ bench \in Benches
  /\ replugs = 0 /\ topology = None /\ worker = None /\ devices = Mocked /\ findings = {}
  /\ jammer = [enabled |-> FALSE, keyed |-> FALSE, retired |-> FALSE, wanted |-> FALSE]
  /\ path = [found |-> "none", senses |-> <<>>]
  /\ trial = None
  /\ pc = "argv"

(* A daemon that other machines can reach needs a token.                       *)
ParseArgs ==
  /\ pc = "argv"
  /\ pc' = IF asked.host = "network" /\ ~asked.token THEN "gone" ELSE "topology"
  /\ UNCHANGED <<asked, bench, replugs, topology, worker, devices, findings, jammer, path, trial>>

(* A missing file is an error only when it was named; a declaration that       *)
(* cannot be used always is one.                                               *)
LoadTopology ==
  /\ pc = "topology"
  /\ LET declared == asked.topology \notin {None, Missing}
         fatal == IF declared THEN ~Loadable(asked.topology)
                  ELSE asked.topology = Missing /\ asked.explicit
     IN /\ topology' = IF declared /\ ~fatal THEN asked.topology ELSE None
        /\ pc' = IF fatal THEN "gone" ELSE "radios"
  /\ UNCHANGED <<asked, bench, replugs, worker, devices, findings, jammer, path, trial>>

(* A worker that cannot open its radios leaves a daemon on the simulator.      *)
OpenRadios ==
  /\ pc = "radios"
  /\ \/ UNCHANGED worker
     \/ /\ asked.radios /\ \A role \in Ends : At(role) # None
        /\ worker' = [radios |-> [role \in Ends |-> At(role)], runs |-> TRUE]
  /\ pc' = "build"
  /\ UNCHANGED <<asked, bench, replugs, topology, devices, findings, jammer, path, trial>>

(* Any failure to read the radios builds the service again on made-up          *)
(* manifests, which say that they are simulated.                               *)
Build ==
  /\ pc = "build"
  /\ \/ worker # None /\ Detectable /\ devices' = Detected
     \/ devices' = Mocked
  /\ pc' = "identity"
  /\ UNCHANGED <<asked, bench, replugs, topology, worker, findings, jammer, path, trial>>

(* The findings are stored for run_flowgraph to refuse by. Then the text that  *)
(* announces them joins findings as if they were strings: the daemon dies.     *)
VerifyIdentity ==
  /\ pc = "identity"
  /\ findings' = IF topology # None /\ Real THEN Findings(topology, devices) ELSE {}
  /\ \/ findings' = {} /\ pc' = "arm" /\ UNCHANGED worker
     \/ findings' # {} /\ pc' = "gone" /\ worker' = None
  /\ UNCHANGED <<asked, bench, replugs, topology, devices, jammer, path, trial>>

AllowJammer ==
  /\ pc = "arm"
  /\ jammer' = [jammer EXCEPT !.enabled =
                  asked.jammer /\ topology # None /\ JammerPermitted(topology)]
  /\ pc' = IF asked.verify /\ worker # None THEN "link" ELSE "serving"
  /\ UNCHANGED <<asked, bench, replugs, topology, worker, devices, findings, path, trial>>

--------------------------------------------------------------------------------
(* The path check: it transmits, so it runs last and on request. It asks       *)
(* nothing of the identity check.                                              *)

Flies == worker # None /\ worker.runs /\ \A role \in Ends : At(role) = worker.radios[role]

(* A radio that is gone takes the worker with it when it is next used.         *)
UseRadios == worker' = [worker EXCEPT !.runs = Flies]

CheckLink ==
  /\ pc = "link"
  /\ UseRadios
  /\ \/ /\ path' = [path EXCEPT !.found = "no link"]
        /\ pc' = "serving"
     \/ /\ Flies
        /\ \E found \in {"link", "weak link"} : path' = [path EXCEPT !.found = found]
        /\ pc' = IF jammer.enabled THEN "key" ELSE "serving"
  /\ UNCHANGED <<asked, bench, replugs, topology, devices, findings, jammer, trial>>

(* An arm that raises may have keyed it all the same.                          *)
Key ==
  /\ pc = "key"
  /\ \/ jammer' = [jammer EXCEPT !.keyed = TRUE] /\ pc' = "sense" /\ UNCHANGED path
     \/ /\ path' = [path EXCEPT !.found = "no interferer"] /\ pc' = "release"
        /\ \E keyed \in BOOLEAN : jammer' = [jammer EXCEPT !.keyed = keyed]
  /\ UNCHANGED <<asked, bench, replugs, topology, worker, devices, findings, trial>>

(* A sense that raises, or whose rows leave the channel out, ends the arm.     *)
Sense ==
  /\ pc = "sense"
  /\ UseRadios
  /\ \/ /\ path' = [path EXCEPT !.found = "no interferer"]
        /\ pc' = "release"
     \/ /\ Flies
        /\ \E m \in Margins : path' = [path EXCEPT !.senses = Append(@, m)]
        /\ pc' = IF Len(path.senses) + 1 = Senses THEN "release" ELSE "sense"
  /\ UNCHANGED <<asked, bench, replugs, topology, devices, findings, jammer, trial>>

(* The median of an odd number of senses reaches the margin when most do.      *)
Heard(senses) == 2 * Cardinality({i \in DOMAIN senses : senses[i] >= MinMargin}) > Len(senses)

(* Mutant: the median is enough.                                               *)
HeardOnAverage(senses) == Heard(senses)

HeardAndSteady(senses) ==
  Heard(senses) /\ \A i, j \in DOMAIN senses : senses[i] - senses[j] <= MaxSpread

(* Mutant: only a check that went well lets go of the interferer.              *)
ReleaseIfDone ==
  /\ pc = "release"
  /\ jammer' = [jammer EXCEPT !.keyed = @ /\ path.found = "no interferer"]
  /\ pc' = "serving"
  /\ UNCHANGED <<asked, bench, replugs, topology, worker, devices, findings, path, trial>>

(* The finally: off, and when even that raises, the instrument is shut down.   *)
Release ==
  /\ pc = "release"
  /\ \E broken \in BOOLEAN :
       jammer' = [jammer EXCEPT !.keyed = FALSE, !.retired = broken]
  /\ path' = IF path.found = "no interferer" THEN path
             ELSE [path EXCEPT !.found = IF ~HeardAndSteady(path.senses) THEN "no interferer"
                                         ELSE IF path.found = "link" THEN "passed" ELSE @]
  /\ pc' = "serving"
  /\ UNCHANGED <<asked, bench, replugs, topology, worker, devices, findings, trial>>

--------------------------------------------------------------------------------
(* Serving: the operator's interferer, and the agent's measurements.           *)

Operate(on) ==
  /\ pc = "serving"
  /\ on => jammer.enabled /\ ~jammer.retired
  /\ jammer' = [jammer EXCEPT !.keyed = on, !.wanted = on]
  /\ UNCHANGED <<asked, bench, replugs, topology, worker, devices, findings, path, trial, pc>>

(* A new experiment inherits no keyed interferer.                              *)
OnReset ==
  /\ pc = "serving" /\ jammer.keyed
  /\ jammer' = [jammer EXCEPT !.keyed = FALSE, !.wanted = FALSE]
  /\ UNCHANGED <<asked, bench, replugs, topology, worker, devices, findings, path, trial, pc>>

Trial == [radios |-> worker.radios, devices |-> devices]

Measure ==
  /\ pc = "serving" /\ worker # None
  /\ UseRadios
  /\ trial' = IF Flies THEN Trial ELSE None
  /\ UNCHANGED <<asked, bench, replugs, topology, devices, findings, jammer, path, pc>>

(* run_flowgraph refuses a bench that contradicts its declaration.             *)
RunFlowgraph == findings = {} /\ Measure

(* start_bo_run does not ask.                                                  *)
StartBoRun == Measure

--------------------------------------------------------------------------------
(* The world: radios move, the interferer dies, the daemon is stopped. The     *)
(* worker's radios are lost for good when they are unplugged.                  *)

Replug(uri, radio) ==
  /\ replugs < MaxReplugs /\ pc # "gone"
  /\ bench[uri] # radio /\ \A u \in Uris : radio = None \/ bench[u] # radio
  /\ bench' = [bench EXCEPT ![uri] = radio]
  /\ replugs' = replugs + 1
  /\ worker' = IF worker # None /\ uri \in {asked.tx, asked.rx}
                 THEN [worker EXCEPT !.runs = FALSE] ELSE worker
  /\ UNCHANGED <<asked, topology, devices, findings, jammer, path, trial, pc>>

JammerDies ==
  /\ jammer.keyed
  /\ jammer' = [jammer EXCEPT !.keyed = FALSE]
  /\ UNCHANGED <<asked, bench, replugs, topology, worker, devices, findings, path, trial, pc>>

(* SIGTERM and SIGINT silence the interferer on their way out, atexit does so  *)
(* again, and the kernel kills it when the daemon is killed outright. The      *)
(* worker ends with its pipe.                                                  *)
Exit ==
  /\ pc # "gone"
  /\ jammer' = [jammer EXCEPT !.keyed = FALSE, !.retired = TRUE]
  /\ worker' = None
  /\ pc' = "gone"
  /\ UNCHANGED <<asked, bench, replugs, topology, devices, findings, path, trial>>

Next ==
  \/ ParseArgs \/ LoadTopology \/ OpenRadios \/ Build \/ VerifyIdentity \/ AllowJammer
  \/ CheckLink \/ Key \/ Sense \/ Release
  \/ Operate(TRUE) \/ Operate(FALSE) \/ OnReset \/ RunFlowgraph \/ StartBoRun
  \/ JammerDies \/ Exit
  \/ \E uri \in Uris, radio \in Radios \cup {None} : Replug(uri, radio)

Spec == Init /\ [][Next]_vars

--------------------------------------------------------------------------------
(* A trial on a declared bench, a BO run's too, flew on radios of which every  *)
(* declared fact is true, whatever was swapped between opening, reading and    *)
(* using them, unless the device tools say that their manifests are made up.   *)
MeasuresDeclaredBench ==
  trial # None /\ topology # None =>
    \/ \E role \in Ends : trial.devices[role].simulated
    \/ \A d \in LinkEnds(topology) : Contradicted(d, trial.radios[d.role]) = {}

(* What leaves the bench: antennas, or a chamber that only absorbs, or nobody  *)
(* has said.                                                                   *)
Radiates(doc) ==
  \/ doc.attestation = None
  \/ doc.attestation.medium \notin {"coax", "anechoic"}
  \/ doc.attestation.medium = "coax" /\ doc.attestation.antennas \in {None, TRUE}
  \/ doc.attestation.medium = "anechoic" /\ doc.attestation.shielded \in {None, FALSE}

(* The interferer is on the air only on a bench declared to contain it, and    *)
(* then only inside the path check or at the operator's word: a check that     *)
(* fails at any step leaves nothing keyed behind, nor does an exit.            *)
KeyedOnlyContained ==
  jammer.keyed =>
    /\ topology # None /\ ByRole(topology, "jammer") # {} /\ ~Radiates(topology)
    /\ \/ pc \in {"sense", "release"}
       \/ pc = "serving" /\ jammer.wanted

(* A path check that passed heard the interferer in every sense, within the    *)
(* tolerated spread of the margin it must reach.                               *)
PassedMeansHeard ==
  path.found = "passed" =>
    \A i \in DOMAIN path.senses : path.senses[i] >= MinMargin - MaxSpread
===============================================================================
