-------------------------------- MODULE Pluto ---------------------------------
(* PlutoBackend, the backend inside the radio worker: one flowgraph, built at  *)
(* the first capture and never rebuilt, whose tuning, waveform and capture     *)
(* gate every trial and every sensing sweep must leave fit for the next one.   *)
(* The receiver feeds the sink by itself, whatever the one thread is doing.    *)
EXTENDS Naturals, Sequences

CONSTANTS Chans,    \* centre frequencies
          Declared, \* the one the radios are started on
          Window    \* samples that make a capture

ASSUME PlutoAssumption == Window \in Nat \ {0} /\ Declared \in Chans

VARIABLES cond,     \* condition.center_freq_hz
          graph,    \* _tb: the flowgraph runs
          lo,       \* where both local oscillators are
          wave,     \* what the transmit source repeats
          gate,     \* the capture gate is open
          sink,     \* samples in the vector sink
          stage,    \* where the call in progress is
          todo      \* candidates a sweep has still to hear, the current one first

plutoVars == <<cond, graph, lo, wave, gate, sink, stage, todo>>
tuning == <<lo, wave>>
capture == <<gate, sink>>

PlutoInit ==
  /\ cond = Declared /\ lo = Declared
  /\ graph = FALSE /\ wave = "silent"
  /\ gate = FALSE /\ sink = 0
  /\ stage = "rest" /\ todo = <<>>

Sensing == todo # <<>>

SetCondition(f) ==
  /\ stage = "rest"
  /\ cond' = f /\ stage' = "done"
  /\ UNCHANGED <<graph, tuning, capture, todo>>

(* A call refused before a radio is touched.                                   *)
Refuse ==
  /\ stage = "rest"
  /\ stage' = "failed"
  /\ UNCHANGED <<cond, graph, tuning, capture, todo>>

(* Mutant: only a new flowgraph is tuned.                                      *)
TransmitUntuned(present) ==
  /\ stage = "rest" /\ present
  /\ graph' = TRUE
  /\ lo' = IF graph THEN lo ELSE cond
  /\ wave' = "frame" /\ stage' = "armed"
  /\ UNCHANGED <<cond, capture, todo>>

(* _transmit_capture up to the capture: build if need be, retune both ends to  *)
(* the condition, replace the waveform, settle. An absent radio fails a build. *)
Transmit(present) ==
  /\ stage = "rest"
  /\ \/ ~graph /\ ~present /\ stage' = "failed" /\ UNCHANGED <<graph, tuning>>
     \/ /\ graph \/ present
        /\ graph' = TRUE /\ lo' = cond /\ wave' = "frame" /\ stage' = "armed"
  /\ UNCHANGED <<cond, capture, todo>>

Sweep(freqs) ==
  /\ stage = "rest"
  /\ stage' = "scan" /\ todo' = freqs
  /\ UNCHANGED <<cond, graph, tuning, capture>>

(* Mutant: a sweep does not replace the waveform of the trial before it.       *)
ListenTalking(present) ==
  /\ stage = "scan" /\ Sensing /\ present
  /\ graph' = TRUE /\ lo' = Head(todo) /\ stage' = "armed"
  /\ UNCHANGED <<cond, wave, capture, todo>>

(* _silent_capture up to the capture.                                          *)
Listen(present) ==
  /\ stage = "scan" /\ Sensing
  /\ \/ /\ ~graph /\ ~present
        /\ stage' = "failed" /\ todo' = <<>> /\ UNCHANGED <<graph, tuning>>
     \/ /\ graph \/ present
        /\ graph' = TRUE /\ lo' = Head(todo) /\ wave' = "silent" /\ stage' = "armed"
        /\ UNCHANGED todo
  /\ UNCHANGED <<cond, capture>>

Judge ==
  /\ stage = "scan" /\ ~Sensing
  /\ stage' = "done"
  /\ UNCHANGED <<cond, graph, tuning, capture, todo>>

(* _gated_capture empties the sink and opens the gate.                         *)
Open ==
  /\ stage = "armed"
  /\ sink' = 0 /\ gate' = TRUE /\ stage' = "open"
  /\ UNCHANGED <<cond, graph, tuning, todo>>

(* A sample reaches the gate. Bound: the model stops counting one past Window. *)
Sample ==
  /\ graph /\ gate /\ sink <= Window
  /\ sink' = sink + 1
  /\ UNCHANGED <<cond, graph, tuning, gate, stage, todo>>

(* A sweep goes on to its next candidate. A trial is decoded if the capture is *)
(* full, and may still hold no whole frame.                                    *)
AfterCapture ==
  /\ todo' = IF Sensing THEN Tail(todo) ELSE <<>>
  /\ stage' \in (IF Sensing THEN {"scan"}
                 ELSE IF sink >= Window THEN {"done", "failed"} ELSE {"failed"})

(* Mutant: the gate is closed only after a full capture, not in a finally.     *)
ShutFull ==
  /\ stage = "open"
  /\ AfterCapture
  /\ IF sink >= Window THEN gate' = FALSE /\ sink' = 0 ELSE UNCHANGED capture
  /\ UNCHANGED <<cond, graph, tuning>>

(* The capture is full, or its deadline has passed: a short trial is an error, *)
(* a short sensing capture a weak reading. Either way the gate closes.         *)
Shut ==
  /\ stage = "open"
  /\ AfterCapture
  /\ gate' = FALSE /\ sink' = 0
  /\ UNCHANGED <<cond, graph, tuning>>

PlutoStep(present) ==
  Listen(present) \/ Judge \/ Open \/ Shut

Rest ==
  /\ stage' = "rest"
  /\ UNCHANGED <<cond, graph, tuning, capture, todo>>

-------------------------------------------------------------------------------
PlutoTypeOK ==
  /\ cond \in Chans /\ lo \in Chans
  /\ graph \in BOOLEAN /\ gate \in BOOLEAN
  /\ wave \in {"silent", "frame"}
  /\ sink \in 0 .. Window + 1
  /\ stage \in {"rest", "scan", "armed", "open", "done", "failed"}
  /\ todo \in Seq(Chans)

(* A trial is captured on the channel of the condition with the frame on the   *)
(* air, whatever was sensed or measured before it: the flowgraph is shared.    *)
TrialFliesItsCondition ==
  stage = "open" /\ ~Sensing => lo = cond /\ wave = "frame"

(* A sweep listens on its candidate with the link silent, so that what it      *)
(* hears is not the link's own frame of the trial before.                      *)
SweepIsSilent ==
  stage = "open" /\ Sensing => lo = Head(todo) /\ wave = "silent"

(* Between captures the sink is empty and stays so, also after a capture that  *)
(* failed: the receiver never stops feeding the gate.                          *)
GateClosedBetweenCaptures == stage # "open" => ~gate /\ sink = 0
===============================================================================
