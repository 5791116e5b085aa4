------------------------------ MODULE DaemonProofs -----------------------------
(* Theorems about Daemon, for every bench, declaration and command line.       *)
EXTENDS Daemon, FiniteSetTheorems, TLAPS

Verdicts == {"none", "no link", "link", "weak link", "no interferer", "passed"}

Workers == [radios : [Ends -> Radios], runs : BOOLEAN]

Shapes ==
  /\ jammer \in [enabled : BOOLEAN, keyed : BOOLEAN, retired : BOOLEAN, wanted : BOOLEAN]
  /\ path \in [found : Verdicts, senses : Seq(Int)]
  /\ bench \in [Uris -> Radios \cup {None}] /\ asked.tx \in Uris /\ asked.rx \in Uris
  /\ worker \in {None} \cup Workers
  /\ pc \in {"link", "key", "sense", "release"} => worker \in Workers

Unarmed == {"argv", "topology", "radios", "build", "identity", "arm"}
Unread == {"argv", "topology", "radios", "build"}

(* The interferer is allowed only once the declaration has been read, and      *)
(* keyed only where it is allowed.                                             *)
Interlocked ==
  /\ jammer.enabled => topology # None /\ JammerPermitted(topology)
  /\ pc \in Unarmed => ~jammer.enabled
  /\ pc \in {"key", "sense", "release"} => jammer.enabled
  /\ jammer.keyed => /\ jammer.enabled
                     /\ \/ pc \in {"sense", "release"}
                        \/ pc = "serving" /\ jammer.wanted

(* Radios that are still held are those at the addresses, so that manifests    *)
(* read from the addresses are theirs; past the identity check those manifests *)
(* contradict nothing, for the daemon does not survive what they contradict.   *)
Identified ==
  /\ pc \in {"argv", "topology", "radios"} => worker = None
  /\ worker # None /\ worker.runs => \A role \in Ends : worker.radios[role] = At(role)
  /\ pc \notin Unread /\ Real /\ worker # None /\ worker.runs =>
       \A role \in Ends : devices[role] = Manifest(worker.radios[role])
  /\ pc \notin Unread \cup {"identity", "gone"} /\ Real /\ topology # None =>
       Findings(topology, devices) = {}
  /\ trial # None => pc \in {"serving", "gone"}

Checked == path.found = "passed" => pc \in {"serving", "gone"} /\ HeardAndSteady(path.senses)

DaemonInv == Shapes /\ Interlocked /\ Identified /\ MeasuresDeclaredBench /\ Checked

(* A worker is used, or loses its radios, and stays the worker of two radios.  *)
LEMMA WorkerKept ==
  ASSUME worker \in Workers, NEW b \in BOOLEAN
  PROVE  [worker EXCEPT !.runs = b] \in Workers
BY DEF Workers

LEMMA UsedWorkerKept ==
  ASSUME worker \in Workers, UseRadios
  PROVE  worker' \in Workers
<1>1. Flies \in BOOLEAN
  BY DEF Flies
<1> QED
  BY <1>1, WorkerKept DEF UseRadios

LEMMA ShapesKept ==
  ASSUME Shapes, [Next]_vars
  PROVE  Shapes'
<1> USE ThresholdAssumption DEF Verdicts, Ends
<1>1. CASE ParseArgs
  BY <1>1 DEF ParseArgs, Shapes
<1>2. CASE LoadTopology
  BY <1>2 DEF LoadTopology, Shapes
<1>3. CASE OpenRadios
  <2>1. pc = "radios"
    BY <1>3 DEF OpenRadios
  <2>2. CASE UNCHANGED worker
    BY <1>3, <2>2 DEF OpenRadios, Shapes
  <2>3. CASE /\ \A role \in Ends : At(role) # None
             /\ worker' = [radios |-> [role \in Ends |-> At(role)], runs |-> TRUE]
    <3>1. \A role \in Ends : At(role) \in Radios
      BY <2>3 DEF At, Shapes
    <3>2. worker' \in Workers
      BY <2>3, <3>1 DEF Workers
    <3> QED
      BY <1>3, <3>2 DEF OpenRadios, Shapes
  <2> QED
    BY <1>3, <2>2, <2>3 DEF OpenRadios
<1>4. CASE Build
  BY <1>4 DEF Build, Shapes
<1>5. CASE VerifyIdentity
  BY <1>5 DEF VerifyIdentity, Shapes
<1>6. CASE AllowJammer
  BY <1>6 DEF AllowJammer, Shapes
<1>7. CASE CheckLink
  BY <1>7, UsedWorkerKept DEF CheckLink, Shapes
<1>8. CASE Key
  BY <1>8 DEF Key, Shapes
<1>9. CASE Sense
  <2>1. worker' \in Workers
    BY <1>9, UsedWorkerKept DEF Sense, Shapes
  <2>2. path' \in [found : Verdicts, senses : Seq(Int)]
    <3>1. path \in [found : Verdicts, senses : Seq(Int)]
      BY DEF Shapes
    <3>2. ASSUME NEW m \in Margins, path' = [path EXCEPT !.senses = Append(@, m)]
          PROVE  path' \in [found : Verdicts, senses : Seq(Int)]
      <4>1. path.senses \in Seq(Int) /\ m \in Int
        BY <3>1
      <4>2. Append(path.senses, m) \in Seq(Int)
        BY <4>1
      <4> QED
        BY <3>1, <3>2, <4>2
    <3> QED
      BY <1>9, <3>1, <3>2 DEF Sense
  <2> QED
    BY <1>9, <2>1, <2>2 DEF Sense, Shapes
<1>10. CASE Release
  BY <1>10 DEF Release, Shapes
<1>11. ASSUME NEW on \in BOOLEAN, Operate(on)
      PROVE  Shapes'
  BY <1>11 DEF Operate, Shapes
<1>12. CASE OnReset
  BY <1>12 DEF OnReset, Shapes
<1>13. CASE RunFlowgraph
  BY <1>13, UsedWorkerKept DEF RunFlowgraph, Measure, Shapes
<1>14. CASE StartBoRun
  BY <1>14, UsedWorkerKept DEF StartBoRun, Measure, Shapes
<1>15. CASE JammerDies
  BY <1>15 DEF JammerDies, Shapes
<1>16. CASE Exit
  BY <1>16 DEF Exit, Shapes
<1>17. ASSUME NEW uri \in Uris, NEW radio \in Radios \cup {None}, Replug(uri, radio)
      PROVE  Shapes'
  BY <1>17, WorkerKept DEF Replug, Shapes
<1>18. CASE UNCHANGED vars
  BY <1>18 DEF vars, Shapes
<1> QED
  BY <1>1, <1>2, <1>3, <1>4, <1>5, <1>6, <1>7, <1>8, <1>9, <1>10, <1>11, <1>12,
      <1>13, <1>14, <1>15, <1>16, <1>17, <1>18 DEF Next

LEMMA InterlockKept ==
  ASSUME Shapes, Interlocked, [Next]_vars
  PROVE  Interlocked'
<1>1. CASE ParseArgs
  BY <1>1 DEF ParseArgs, Shapes, Interlocked, Unarmed
<1>2. CASE LoadTopology
  BY <1>2 DEF LoadTopology, Shapes, Interlocked, Unarmed
<1>3. CASE OpenRadios
  BY <1>3 DEF OpenRadios, Shapes, Interlocked, Unarmed
<1>4. CASE Build
  BY <1>4 DEF Build, Shapes, Interlocked, Unarmed
<1>5. CASE VerifyIdentity
  BY <1>5 DEF VerifyIdentity, Shapes, Interlocked, Unarmed
<1>6. CASE AllowJammer
  BY <1>6 DEF AllowJammer, Shapes, Interlocked, Unarmed
<1>7. CASE CheckLink
  BY <1>7 DEF CheckLink, UseRadios, Shapes, Interlocked, Unarmed
<1>8. CASE Key
  BY <1>8 DEF Key, Shapes, Interlocked, Unarmed
<1>9. CASE Sense
  BY <1>9 DEF Sense, UseRadios, Shapes, Interlocked, Unarmed
<1>10. CASE Release
  BY <1>10 DEF Release, Shapes, Interlocked, Unarmed
<1>11. ASSUME NEW on \in BOOLEAN, Operate(on)
      PROVE  Interlocked'
  BY <1>11 DEF Operate, Shapes, Interlocked, Unarmed
<1>12. CASE OnReset
  BY <1>12 DEF OnReset, Shapes, Interlocked, Unarmed
<1>13. CASE RunFlowgraph
  BY <1>13 DEF RunFlowgraph, Measure, UseRadios, Shapes, Interlocked, Unarmed
<1>14. CASE StartBoRun
  BY <1>14 DEF StartBoRun, Measure, UseRadios, Shapes, Interlocked, Unarmed
<1>15. CASE JammerDies
  BY <1>15 DEF JammerDies, Shapes, Interlocked, Unarmed
<1>16. CASE Exit
  BY <1>16 DEF Exit, Shapes, Interlocked, Unarmed
<1>17. ASSUME NEW uri \in Uris, NEW radio \in Radios \cup {None}, Replug(uri, radio)
      PROVE  Interlocked'
  BY <1>17 DEF Replug, Shapes, Interlocked, Unarmed
<1>18. CASE UNCHANGED vars
  BY <1>18 DEF vars, Shapes, Interlocked, Unarmed
<1> QED
  BY <1>1, <1>2, <1>3, <1>4, <1>5, <1>6, <1>7, <1>8, <1>9, <1>10, <1>11, <1>12,
      <1>13, <1>14, <1>15, <1>16, <1>17, <1>18 DEF Next

LEMMA CheckedKept ==
  ASSUME Shapes, Checked, [Next]_vars
  PROVE  Checked'
<1>1. CASE ParseArgs
  BY <1>1 DEF ParseArgs, Shapes, Checked, Verdicts
<1>2. CASE LoadTopology
  BY <1>2 DEF LoadTopology, Shapes, Checked, Verdicts
<1>3. CASE OpenRadios
  BY <1>3 DEF OpenRadios, Shapes, Checked, Verdicts
<1>4. CASE Build
  BY <1>4 DEF Build, Shapes, Checked, Verdicts
<1>5. CASE VerifyIdentity
  BY <1>5 DEF VerifyIdentity, Shapes, Checked, Verdicts
<1>6. CASE AllowJammer
  BY <1>6 DEF AllowJammer, Shapes, Checked, Verdicts
<1>7. CASE CheckLink
  BY <1>7 DEF CheckLink, UseRadios, Shapes, Checked, Verdicts
<1>8. CASE Key
  BY <1>8 DEF Key, Shapes, Checked, Verdicts
<1>9. CASE Sense
  BY <1>9 DEF Sense, UseRadios, Shapes, Checked, Verdicts
<1>10. CASE Release
  BY <1>10 DEF Release, Shapes, Checked, Verdicts
<1>11. ASSUME NEW on \in BOOLEAN, Operate(on)
      PROVE  Checked'
  BY <1>11 DEF Operate, Shapes, Checked, Verdicts
<1>12. CASE OnReset
  BY <1>12 DEF OnReset, Shapes, Checked, Verdicts
<1>13. CASE RunFlowgraph
  BY <1>13 DEF RunFlowgraph, Measure, UseRadios, Shapes, Checked, Verdicts
<1>14. CASE StartBoRun
  BY <1>14 DEF StartBoRun, Measure, UseRadios, Shapes, Checked, Verdicts
<1>15. CASE JammerDies
  BY <1>15 DEF JammerDies, Shapes, Checked, Verdicts
<1>16. CASE Exit
  BY <1>16 DEF Exit, Shapes, Checked, Verdicts
<1>17. ASSUME NEW uri \in Uris, NEW radio \in Radios \cup {None}, Replug(uri, radio)
      PROVE  Checked'
  BY <1>17 DEF Replug, Shapes, Checked, Verdicts
<1>18. CASE UNCHANGED vars
  BY <1>18 DEF vars, Shapes, Checked, Verdicts
<1> QED
  BY <1>1, <1>2, <1>3, <1>4, <1>5, <1>6, <1>7, <1>8, <1>9, <1>10, <1>11, <1>12,
      <1>13, <1>14, <1>15, <1>16, <1>17, <1>18 DEF Next

LEMMA IdentityKept ==
  ASSUME Shapes, Identified, [Next]_vars
  PROVE  Identified'
<1>1. CASE ParseArgs
  BY <1>1 DEF ParseArgs, Shapes, Workers, Identified, Unread, Ends, At, Real, Flies
<1>2. CASE LoadTopology
  BY <1>2 DEF LoadTopology, Shapes, Workers, Identified, Unread, Ends, At, Real, Flies
<1>3. CASE OpenRadios
  BY <1>3 DEF OpenRadios, Shapes, Workers, Identified, Unread, Ends, At, Real, Flies
<1>4. CASE Build
  <2>1. CASE devices' = Mocked
    <3>1. ~Real'
      BY <2>1 DEF Mocked, Simulated, Real, Ends
    <3> QED
      BY <1>4, <2>1, <3>1 DEF Build, Identified, Unread, At, Ends
  <2>2. CASE devices' = Detected
    <3>1. worker # None /\ worker.runs =>
            \A role \in Ends : devices'[role] = Manifest(worker.radios[role])
      BY <1>4, <2>2 DEF Build, Detected, Identified
    <3> QED
      BY <1>4, <3>1 DEF Build, Identified, Unread, At, Ends
  <2> QED
    BY <1>4, <2>1, <2>2 DEF Build
<1>5. CASE VerifyIdentity
  BY <1>5 DEF VerifyIdentity, Shapes, Workers, Identified, Unread, Ends, At, Real, Flies
<1>6. CASE AllowJammer
  BY <1>6 DEF AllowJammer, Shapes, Workers, Identified, Unread, Ends, At, Real, Flies
<1>7. CASE CheckLink
  BY <1>7 DEF CheckLink, UseRadios, Shapes, Workers, Identified, Unread, Ends, At, Real, Flies
<1>8. CASE Key
  BY <1>8 DEF Key, Shapes, Workers, Identified, Unread, Ends, At, Real, Flies
<1>9. CASE Sense
  BY <1>9 DEF Sense, UseRadios, Shapes, Workers, Identified, Unread, Ends, At, Real, Flies
<1>10. CASE Release
  BY <1>10 DEF Release, Shapes, Workers, Identified, Unread, Ends, At, Real, Flies
<1>11. ASSUME NEW on \in BOOLEAN, Operate(on)
      PROVE  Identified'
  BY <1>11 DEF Operate, Shapes, Workers, Identified, Unread, Ends, At, Real, Flies
<1>12. CASE OnReset
  BY <1>12 DEF OnReset, Shapes, Workers, Identified, Unread, Ends, At, Real, Flies
<1>13. CASE RunFlowgraph
  BY <1>13 DEF RunFlowgraph, Measure, UseRadios, Shapes, Workers, Identified, Unread, Ends, At, Real, Flies
<1>14. CASE StartBoRun
  BY <1>14 DEF StartBoRun, Measure, UseRadios, Shapes, Workers, Identified, Unread, Ends, At, Real, Flies
<1>15. CASE JammerDies
  BY <1>15 DEF JammerDies, Shapes, Workers, Identified, Unread, Ends, At, Real, Flies
<1>16. CASE Exit
  BY <1>16 DEF Exit, Shapes, Workers, Identified, Unread, Ends, At, Real, Flies
<1>17. ASSUME NEW uri \in Uris, NEW radio \in Radios \cup {None}, Replug(uri, radio)
      PROVE  Identified'
  BY <1>17 DEF Replug, Shapes, Workers, Identified, Unread, Ends, At, Real, Flies
<1>18. CASE UNCHANGED vars
  BY <1>18 DEF vars, Shapes, Workers, Identified, Unread, Ends, At, Real, Flies
<1> QED
  BY <1>1, <1>2, <1>3, <1>4, <1>5, <1>6, <1>7, <1>8, <1>9, <1>10, <1>11, <1>12,
      <1>13, <1>14, <1>15, <1>16, <1>17, <1>18 DEF Next

LEMMA TrialKept ==
  ASSUME Shapes, Identified, MeasuresDeclaredBench, [Next]_vars
  PROVE  MeasuresDeclaredBench'
<1>1. CASE Measure
  <2>1. SUFFICES ASSUME trial' # None, topology # None,
                        \A role \in Ends : ~trial'.devices[role].simulated,
                        NEW d \in LinkEnds(topology)
                 PROVE  Contradicted(d, trial'.radios[d.role]) = {}
    BY <1>1 DEF Measure, MeasuresDeclaredBench
  <2>2. /\ Flies /\ trial'.radios = worker.radios /\ trial'.devices = devices
        /\ pc = "serving" /\ worker # None
    BY <1>1, <2>1 DEF Measure, Trial
  <2>3. Real
    BY <2>1, <2>2 DEF Real, Ends
  <2>4. d.role \in Ends
    BY <2>1 DEF LinkEnds, ByRole, Ends
  <2>5. devices[d.role] = Manifest(worker.radios[d.role])
    BY <2>2, <2>3, <2>4 DEF Identified, Flies, Unread
  <2>6. Contradicted(d, devices[d.role]) = {}
    <3>1. Findings(topology, devices) = {}
      BY <2>1, <2>2, <2>3 DEF Identified, Unread
    <3>2. ASSUME NEW f \in Contradicted(d, devices[d.role])
          PROVE  FALSE
      <4>1. <<d.name, f>> \in {<<d.name, g>> : g \in Contradicted(d, devices[d.role])}
        OBVIOUS
      <4>2. <<d.name, f>> \in Findings(topology, devices)
        BY <2>1, <4>1 DEF Findings
      <4> QED
        BY <3>1, <4>2
    <3> QED
      BY <3>2
  <2>7. Contradicted(d, Manifest(worker.radios[d.role]))
          = Contradicted(d, worker.radios[d.role])
    BY DEF Contradicted, Manifest
  <2> QED
    BY <2>2, <2>5, <2>6, <2>7
<1>2. CASE LoadTopology
  <2>1. trial = None /\ trial' = trial
    BY <1>2 DEF LoadTopology, Identified
  <2> QED
    BY <2>1 DEF MeasuresDeclaredBench
<1>3. CASE UNCHANGED <<trial, topology>>
  BY <1>3 DEF MeasuresDeclaredBench
<1>4. UNCHANGED <<trial, topology>> \/ Measure \/ LoadTopology
  BY DEF Next, vars, RunFlowgraph, StartBoRun, ParseArgs, OpenRadios, Build, VerifyIdentity, AllowJammer, CheckLink, Key,
         Sense, Release, Operate, OnReset, JammerDies, Exit, Replug
<1> QED
  BY <1>1, <1>2, <1>3, <1>4

THEOREM DaemonInvariant == Spec => []DaemonInv
<1>1. Init => DaemonInv
  BY BenchAssumption DEF Init, DaemonInv, Shapes, Verdicts, Interlocked, Unarmed, Identified,
     Unread, Real, Mocked, Simulated, MeasuresDeclaredBench, Checked
<1>2. DaemonInv /\ [Next]_vars => DaemonInv'
  BY ShapesKept, InterlockKept, CheckedKept, IdentityKept, TrialKept DEF DaemonInv
<1> QED
  BY <1>1, <1>2, PTL DEF Spec

(* A measured bench is the declared one, for a BO run too: no swap between     *)
(* opening the radios, reading them and using them can put a trial on others.  *)
THEOREM MeasuresDeclared == Spec => []MeasuresDeclaredBench
<1>1. DaemonInv => MeasuresDeclaredBench
  BY DEF DaemonInv
<1> QED
  BY <1>1, DaemonInvariant, PTL

(* The interferer is never on the air on a bench that does not contain it.     *)
THEOREM KeyedContained == Spec => []KeyedOnlyContained
<1>1. DaemonInv => KeyedOnlyContained
  BY NoneIsNoFlag DEF DaemonInv, Interlocked, KeyedOnlyContained, JammerPermitted, Radiates
<1> QED
  BY <1>1, DaemonInvariant, PTL

(* A passed check heard the interferer in each of its senses.                  *)
THEOREM PassedHeard == Spec => []PassedMeansHeard
<1>1. DaemonInv => PassedMeansHeard
  <2>1. SUFFICES ASSUME DaemonInv, path.found = "passed", NEW i \in DOMAIN path.senses
                 PROVE  path.senses[i] >= MinMargin - MaxSpread
    BY DEF PassedMeansHeard
  <2>2. path.senses \in Seq(Int) /\ HeardAndSteady(path.senses)
    BY <2>1 DEF DaemonInv, Shapes, Checked
  <2>3. PICK k \in DOMAIN path.senses : path.senses[k] >= MinMargin
    <3>1. CASE \A k \in DOMAIN path.senses : ~(path.senses[k] >= MinMargin)
      <4>1. {k \in DOMAIN path.senses : path.senses[k] >= MinMargin} = {}
        BY <3>1
      <4>2. Heard(path.senses) => 2 * 0 > Len(path.senses)
        BY <4>1, FS_EmptySet DEF Heard
      <4> QED
        BY <4>2, <2>2 DEF HeardAndSteady
    <3> QED
      BY <3>1
  <2>4. path.senses[k] - path.senses[i] <= MaxSpread
    BY <2>2 DEF HeardAndSteady
  <2>5. path.senses[k] \in Int /\ path.senses[i] \in Int
    BY <2>2
  <2> QED
    BY <2>3, <2>4, <2>5, ThresholdAssumption
<1> QED
  BY <1>1, DaemonInvariant, PTL
===============================================================================
