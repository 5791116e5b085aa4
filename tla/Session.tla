------------------------------- MODULE Session --------------------------------
(* The experiment session: AutopilotService, the ledger it writes and the link *)
(* it measures through (HoppingBackend over a radio worker). The service has   *)
(* no lock and every request is served on a thread of its own, so a client is  *)
(* a process, and its operations are cut where a thread waits: at every radio  *)
(* request and at every database statement.                                    *)
EXTENDS Naturals, Sequences

CONSTANTS Clients,     \* requests being served at the same time
          Exps,        \* experiments
          Specs,       \* flowgraph structures that validate
          Chans,       \* centre frequencies in the link band
          HopPlans,    \* hop sets a client may ask for
          Declared,    \* the topology's demo_center_freq_hz, None without one
          BootHz,      \* where the radios sit until something tunes them
          StartupExp,  \* experiment the daemon is started in, None without one
          NoteSeqs,    \* iteration numbers a client may annotate
          Faults,      \* what may go wrong in a radio request
          Budget,      \* trials a BO run takes before it keeps its best
          MaxRows,     \* bound: no operation starts beyond this many rows
          None

ASSUME SessionAssumption ==
  /\ None \notin Exps /\ None \notin Specs
  /\ None \notin Chans /\ None \notin HopPlans
  /\ HopPlans \subseteq Seq(Chans) \ {<<>>}
  /\ Declared \in Chans \cup {None}
  /\ BootHz \in Chans
  /\ StartupExp \in Exps \cup {None}
  /\ NoteSeqs \subseteq Nat
  /\ Faults \subseteq {"error", "gone"}
  /\ Budget \in Nat \ {0}
  /\ MaxRows \in Nat

VARIABLES ledger,     \* the current experiment
          saved,      \* experiments that exist on disk
          log,        \* experiment -> its rows in insertion order
          top,        \* experiment -> MAX(seq) of its rows
          concluded,  \* experiment -> ended_at is set
          report,     \* experiment -> rows its last conclusion counted
          spec,       \* the built structure
          tuning,     \* what the last BO run left: the structure it was for
          agentHz,    \* _agent_rf["center_freq_hz"]
          agentHop,   \* _agent_rf["hop_plan"]
          last,       \* _last_result
          plan,       \* HoppingBackend.hop_plan
          tuned,      \* HoppingBackend._tuned_hz
          live,       \* HoppingBackend.live_channel_hz
          lo,         \* where the radios really are
          radio,      \* "up", or "gone" once a radio or its worker is lost
          at,         \* client -> where its operation waits
          job         \* client -> the operation's locals

ledgerVars == <<saved, log, top, concluded, report>>
rfVars == <<agentHz, agentHop>>
linkVars == <<plan, tuned, live, lo, radio>>
vars == <<ledger, saved, log, top, concluded, report, spec, tuning, agentHz,
          agentHop, last, plan, tuned, live, lo, radio, at, job>>

-------------------------------------------------------------------------------
(* A measurement: the experiment and structure it was started for, how many    *)
(* captures the backend set out to take, and the channel each one was taken on.*)
Measurement == [exp : Exps, spec : Specs, want : Nat, flown : Seq(Chans)]

Row == [kind : {"run", "aborted", "decision", "annotation"}, seq : Nat,
        spec : Specs \cup {None}, hz : Chans \cup {None},
        hop : HopPlans \cup {None}, meas : Measurement \cup {None}]

Places == {"idle", "apply", "tune", "fly", "hop", "capture", "grade", "search",
           "number", "record", "outcome", "conclude", "reset", "adopt"}

Ops == {"none", "run", "lost", "bo", "validate", "decision", "finish", "change"}

Job == [op : Ops, exp : Exps \cup {None}, spec : Specs \cup {None},
        to : Chans \cup {None}, next : Places, left : Seq(Chans),
        orig : Chans \cup {None}, want : Nat, flown : Seq(Chans),
        seq : Nat, count : Nat]

NoJob == [op |-> "none", exp |-> None, spec |-> None, to |-> None,
          next |-> "idle", left |-> <<>>, orig |-> None, want |-> 0,
          flown |-> <<>>, seq |-> 0, count |-> 0]

MeasurementOf(j) ==
  [exp |-> j.exp, spec |-> j.spec, want |-> j.want, flown |-> j.flown]

(* Mutant: the row always names the declared channel.                          *)
LinkHzNeverRetuned == Declared

(* Where the link is said to be: the agent's retune, else the declared channel.*)
LinkHz == IF agentHz # None THEN agentHz ELSE Declared

Init ==
  /\ ledger = StartupExp
  /\ saved = {StartupExp} \ {None}
  /\ log = [e \in Exps |-> <<>>]
  /\ top = [e \in Exps |-> 0]
  /\ concluded = [e \in Exps |-> FALSE]
  /\ report = [e \in Exps |-> 0]
  /\ spec = None
  /\ tuning = None
  /\ agentHz = None
  /\ agentHop = None
  /\ last = None
  /\ plan = None
  /\ tuned = None
  /\ live = None
  /\ lo = BootHz
  /\ radio = "up"
  /\ at = [c \in Clients |-> "idle"]
  /\ job = [c \in Clients |-> NoJob]

-------------------------------------------------------------------------------
(* How a thread moves on.                                                      *)
Become(c, place, j) ==
  /\ at' = [at EXCEPT ![c] = place]
  /\ job' = [job EXCEPT ![c] = j]

Move(c, place) == Become(c, place, job[c])

Done(c) == Become(c, "idle", NoJob)

Idle(c) == at[c] = "idle"

Room == \A e \in Exps : Len(log[e]) < MaxRows

(* add_iteration: one transaction inserts the row and clears ended_at.         *)
AppendRow(e, row) ==
  /\ log' = [log EXCEPT ![e] = Append(@, row)]
  /\ top' = [top EXCEPT ![e] = IF row.seq > @ THEN row.seq ELSE @]
  /\ concluded' = [concluded EXCEPT ![e] = FALSE]
  /\ UNCHANGED <<saved, report>>

(* Mutant: a lost radio ends the flight, and what was captured is graded.      *)
LostThenGraded(c) ==
  /\ radio = "gone" \/ "gone" \in Faults
  /\ radio' = "gone"
  /\ \/ job[c].op = "run" /\ Move(c, "grade")
     \/ job[c].op = "change" /\ Move(c, "adopt")
     \/ job[c].op \notin {"run", "change"} /\ Done(c)

(* Mutant: the reset insists on a radio that answers.                          *)
LostRetried(c) ==
  /\ radio = "gone" \/ "gone" \in Faults
  /\ radio' = "gone"
  /\ \/ /\ job[c].op = "run"
        /\ Become(c, "number", [job[c] EXCEPT !.op = "lost"])
     \/ job[c].op = "change" /\ UNCHANGED <<at, job>>
     \/ job[c].op \notin {"run", "change"} /\ Done(c)

(* A request raised DeviceUnavailable: only run_flowgraph turns that into an   *)
(* aborted row, and only _reset_session carries on regardless.                 *)
Lost(c) ==
  /\ radio = "gone" \/ "gone" \in Faults
  /\ radio' = "gone"
  /\ \/ /\ job[c].op = "run"
        /\ Become(c, "number", [job[c] EXCEPT !.op = "lost"])
     \/ job[c].op = "change" /\ Move(c, "adopt")
     \/ job[c].op \notin {"run", "change"} /\ Done(c)

-------------------------------------------------------------------------------
(* Choosing an experiment: open or create it, clear the session, point the     *)
(* radios back at the declared channel, and only then make it current.         *)
Change(c, e) ==
  /\ Idle(c)
  /\ e # ledger
  /\ saved' = saved \cup {e}
  /\ Become(c, "reset", [NoJob EXCEPT !.op = "change", !.exp = e])
  /\ UNCHANGED <<ledger, log, top, concluded, report, spec, tuning, last,
                 rfVars, linkVars>>

(* Mutant: the last measurement outlives the experiment it was taken for.      *)
ResetKeepsLast(c) ==
  /\ at[c] = "reset"
  /\ spec' = None /\ tuning' = None
  /\ agentHz' = None /\ agentHop' = None
  /\ plan' = None
  /\ \/ /\ Declared # None
        /\ tuned' = Declared /\ live' = Declared
        /\ Become(c, "tune", [job[c] EXCEPT !.to = Declared, !.next = "adopt"])
     \/ /\ Declared = None
        /\ UNCHANGED <<tuned, live>>
        /\ Move(c, "adopt")
  /\ UNCHANGED <<ledger, ledgerVars, last, lo, radio>>

Reset(c) ==
  /\ at[c] = "reset"
  /\ spec' = None /\ tuning' = None /\ last' = None
  /\ agentHz' = None /\ agentHop' = None
  /\ plan' = None
  /\ \/ /\ Declared # None
        /\ tuned' = Declared /\ live' = Declared
        /\ Become(c, "tune", [job[c] EXCEPT !.to = Declared, !.next = "adopt"])
     \/ /\ Declared = None
        /\ UNCHANGED <<tuned, live>>
        /\ Move(c, "adopt")
  /\ UNCHANGED <<ledger, ledgerVars, lo, radio>>

Adopt(c) ==
  /\ at[c] = "adopt"
  /\ ledger' = job[c].exp
  /\ Done(c)
  /\ UNCHANGED <<ledgerVars, spec, tuning, last, rfVars, linkVars>>

-------------------------------------------------------------------------------
(* Mutant: a new structure inherits the tuning of the one before it.           *)
BuildKeepsTuning(c, s) ==
  /\ Idle(c) /\ ledger # None
  /\ spec' = s
  /\ UNCHANGED <<ledger, ledgerVars, tuning, last, rfVars, linkVars, at, job>>

(* The agent's own knobs. Each one that takes effect leaves a decision row.    *)
Build(c, s) ==
  /\ Idle(c) /\ ledger # None
  /\ spec' = s /\ tuning' = None
  /\ UNCHANGED <<ledger, ledgerVars, last, rfVars, linkVars, at, job>>

Retune(c, f) ==
  /\ Idle(c) /\ Room
  /\ agentHz' = f /\ tuned' = f
  /\ live' = IF plan = None THEN f ELSE live
  /\ Become(c, "tune", [NoJob EXCEPT !.op = "decision", !.to = f, !.next = "number"])
  /\ UNCHANGED <<ledger, ledgerVars, spec, tuning, last, agentHop, plan, lo, radio>>

HopOn(c, p) ==
  /\ Idle(c) /\ Room /\ ledger # None
  /\ agentHop' = p /\ plan' = p
  /\ Become(c, "number", [NoJob EXCEPT !.op = "decision"])
  /\ UNCHANGED <<ledger, ledgerVars, spec, tuning, last, agentHz, tuned, live, lo, radio>>

HopOff(c) ==
  /\ Idle(c) /\ Room
  /\ agentHop' = None /\ plan' = None
  /\ \/ agentHop = None /\ UNCHANGED <<at, job>>
     \/ agentHop # None /\ Become(c, "number", [NoJob EXCEPT !.op = "decision"])
  /\ UNCHANGED <<ledger, ledgerVars, spec, tuning, last, agentHz, tuned, live, lo, radio>>

Sense(c) ==
  /\ Idle(c) /\ Room
  /\ \/ /\ radio = "up" /\ UNCHANGED radio
        /\ Become(c, "number", [NoJob EXCEPT !.op = "decision"])
     \/ Lost(c)
  /\ UNCHANGED <<ledger, ledgerVars, spec, tuning, last, rfVars, plan, tuned, live, lo>>

Diagnose(c) ==
  /\ Idle(c) /\ Room /\ last # None
  /\ Become(c, "number", [NoJob EXCEPT !.op = "decision", !.spec = spec])
  /\ UNCHANGED <<ledger, ledgerVars, spec, tuning, last, rfVars, linkVars>>

-------------------------------------------------------------------------------
(* Mutant: no structure needs to have been built.                              *)
StartUnbuiltRun(c) ==
  /\ Idle(c) /\ Room /\ ledger # None
  /\ \E op \in {"run", "bo"} :
       Become(c, "apply", [NoJob EXCEPT !.op = op, !.exp = ledger, !.spec = spec])
  /\ UNCHANGED <<ledger, ledgerVars, spec, tuning, last, rfVars, linkVars>>

(* Measuring: run_flowgraph, and start_bo_run, which measures without logging. *)
StartRun(c) ==
  /\ Idle(c) /\ Room /\ ledger # None /\ spec # None
  /\ \E op \in {"run", "bo"} :
       Become(c, "apply", [NoJob EXCEPT !.op = op, !.exp = ledger, !.spec = spec])
  /\ UNCHANGED <<ledger, ledgerVars, spec, tuning, last, rfVars, linkVars>>

(* _channel_kwargs: a request for the hidden condition, if there is one, then  *)
(* the agent's knobs.                                                          *)
Apply(c) ==
  /\ at[c] = "apply"
  /\ \/ Lost(c) /\ UNCHANGED <<plan, tuned, live>>
     \/ /\ plan' = IF agentHop # None THEN agentHop ELSE plan
        /\ \/ /\ agentHz # None
              /\ tuned' = agentHz
              /\ live' = IF plan' = None THEN agentHz ELSE live
              /\ Become(c, "tune", [job[c] EXCEPT !.to = agentHz, !.next = "fly"])
           \/ /\ agentHz = None
              /\ UNCHANGED <<tuned, live>>
              /\ Move(c, "fly")
        /\ UNCHANGED radio
  /\ UNCHANGED <<ledger, ledgerVars, spec, tuning, last, rfVars, lo>>

(* A set_condition request that carries a centre frequency.                    *)
Tune(c) ==
  /\ at[c] = "tune"
  /\ \/ /\ radio = "up" /\ UNCHANGED radio
        /\ lo' = job[c].to
        /\ Move(c, job[c].next)
     \/ Lost(c) /\ UNCHANGED lo
  /\ UNCHANGED <<ledger, ledgerVars, spec, tuning, last, rfVars, plan, tuned, live>>

(* Mutant: a two-channel plan is passed through too.                           *)
HoppingOverTwo == plan # None /\ Len(plan) > 2

Hopping == plan # None /\ Len(plan) > 1

(* run_link: pass through on the tuned channel, or begin a hop cycle.          *)
Fly(c) ==
  /\ at[c] = "fly"
  /\ \/ /\ ~Hopping
        /\ Become(c, "capture", [job[c] EXCEPT !.want = 1])
     \/ /\ Hopping
        /\ Become(c, "hop", [job[c] EXCEPT !.left = plan, !.want = Len(plan),
                                           !.orig = tuned])
  /\ UNCHANGED <<ledger, ledgerVars, spec, tuning, last, rfVars, linkVars>>

Hop(c) ==
  /\ at[c] = "hop"
  /\ live' = Head(job[c].left)
  /\ Become(c, "tune", [job[c] EXCEPT !.to = Head(job[c].left),
                                      !.left = Tail(@),
                                      !.next = "capture"])
  /\ UNCHANGED <<ledger, ledgerVars, spec, tuning, last, rfVars, plan, tuned, lo, radio>>

(* Mutant: the cycle ends on its last channel.                                 *)
CaptureAndStay(c) ==
  /\ at[c] = "capture"
  /\ \/ /\ radio = "up" /\ UNCHANGED radio
        /\ LET j == [job[c] EXCEPT !.flown = Append(@, lo)]
           IN  Become(c, IF j.left # <<>> THEN "hop" ELSE "grade", j)
     \/ radio = "up" /\ "error" \in Faults /\ UNCHANGED radio /\ Done(c)
     \/ Lost(c)
  /\ UNCHANGED <<ledger, ledgerVars, spec, tuning, last, rfVars, plan, tuned, live, lo>>

(* One graded capture; after the last one of a cycle the LO goes back.         *)
Capture(c) ==
  /\ at[c] = "capture"
  /\ \/ /\ radio = "up" /\ UNCHANGED radio
        /\ LET j == [job[c] EXCEPT !.flown = Append(@, lo)]
           IN  \/ j.left # <<>> /\ Become(c, "hop", j)
               \/ /\ j.left = <<>> /\ j.orig # None
                  /\ Become(c, "tune", [j EXCEPT !.to = j.orig, !.next = "grade"])
               \/ j.left = <<>> /\ j.orig = None /\ Become(c, "grade", j)
     \/ radio = "up" /\ "error" \in Faults /\ UNCHANGED radio /\ Done(c)
     \/ Lost(c)
  /\ UNCHANGED <<ledger, ledgerVars, spec, tuning, last, rfVars, plan, tuned, live, lo>>

Grade(c) ==
  /\ at[c] = "grade"
  /\ live' = IF job[c].orig # None THEN job[c].orig ELSE live
  /\ \/ /\ job[c].op = "run"
        /\ last' = MeasurementOf(job[c])
        /\ Move(c, "number")
     \/ job[c].op = "bo" /\ UNCHANGED last /\ Move(c, "search")
     \/ job[c].op = "validate" /\ UNCHANGED last /\ Done(c)
  /\ UNCHANGED <<ledger, ledgerVars, spec, tuning, rfVars, plan, tuned, lo, radio>>

(* Another trial while the budget lasts, or keep the best point, early or not, *)
(* and measure it once more.                                                   *)
Search(c) ==
  /\ at[c] = "search"
  /\ \/ /\ job[c].count + 1 < Budget
        /\ Become(c, "apply", [job[c] EXCEPT !.count = @ + 1, !.flown = <<>>,
                                             !.orig = None])
        /\ UNCHANGED tuning
     \/ /\ tuning' = [exp |-> job[c].exp, spec |-> job[c].spec]
        /\ Become(c, "apply", [NoJob EXCEPT !.op = "validate", !.exp = job[c].exp,
                                            !.spec = job[c].spec])
  /\ UNCHANGED <<ledger, ledgerVars, spec, last, rfVars, linkVars>>

-------------------------------------------------------------------------------
(* Mutant: the next number is one more than the count of rows.                 *)
NumberByCount(c) ==
  /\ at[c] = "number"
  /\ \/ ledger = None /\ Done(c)
     \/ /\ ledger # None
        /\ Become(c, "record", [job[c] EXCEPT !.seq = Len(log[ledger]) + 1,
                                 !.exp = IF job[c].op = "run" THEN @ ELSE ledger])
  /\ UNCHANGED <<ledger, ledgerVars, spec, tuning, last, rfVars, linkVars>>

(* Writing a row: MAX(seq) is read in a statement of its own, before the       *)
(* insert. A run's row goes to whatever experiment is current when it is       *)
(* written; every other row to the one its number was read from.               *)
Number(c) ==
  /\ at[c] = "number"
  /\ \/ ledger = None /\ Done(c)
     \/ /\ ledger # None
        /\ Become(c, "record", [job[c] EXCEPT !.seq = top[ledger] + 1,
                                 !.exp = IF job[c].op = "run" THEN @ ELSE ledger])
  /\ UNCHANGED <<ledger, ledgerVars, spec, tuning, last, rfVars, linkVars>>

RecordRun(c) ==
  /\ at[c] = "record" /\ job[c].op = "run"
  /\ \/ /\ spec # None
        /\ AppendRow(ledger, [kind |-> "run", seq |-> job[c].seq, spec |-> spec,
                              hz |-> LinkHz, hop |-> agentHop,
                              meas |-> MeasurementOf(job[c])])
     \/ spec = None /\ UNCHANGED ledgerVars
  /\ Done(c)
  /\ UNCHANGED <<ledger, spec, tuning, last, rfVars, linkVars>>

(* Mutant: the result before the abort stays readable.                         *)
RecordLostQuietly(c) ==
  /\ at[c] = "record" /\ job[c].op = "lost"
  /\ \/ /\ spec # None
        /\ AppendRow(job[c].exp, [kind |-> "aborted", seq |-> job[c].seq,
                                  spec |-> spec, hz |-> None, hop |-> None,
                                  meas |-> None])
     \/ spec = None /\ UNCHANGED ledgerVars
  /\ Done(c)
  /\ UNCHANGED <<ledger, spec, tuning, last, rfVars, linkVars>>

RecordLost(c) ==
  /\ at[c] = "record" /\ job[c].op = "lost"
  /\ \/ /\ spec # None
        /\ last' = None
        /\ AppendRow(job[c].exp, [kind |-> "aborted", seq |-> job[c].seq,
                                  spec |-> spec, hz |-> None, hop |-> None,
                                  meas |-> None])
     \/ spec = None /\ UNCHANGED <<last, ledgerVars>>
  /\ Done(c)
  /\ UNCHANGED <<ledger, spec, tuning, rfVars, linkVars>>

RecordDecision(c) ==
  /\ at[c] = "record" /\ job[c].op \in {"decision", "finish"}
  /\ AppendRow(job[c].exp, [kind |-> "decision", seq |-> job[c].seq,
                            spec |-> job[c].spec, hz |-> None, hop |-> None,
                            meas |-> None])
  /\ \/ job[c].op = "finish" /\ Move(c, "outcome")
     \/ job[c].op = "decision" /\ Done(c)
  /\ UNCHANGED <<ledger, spec, tuning, last, rfVars, linkVars>>

Annotate(c, n) ==
  /\ Idle(c) /\ Room /\ ledger # None
  /\ AppendRow(ledger, [kind |-> "annotation", seq |-> n, spec |-> None,
                        hz |-> None, hop |-> None, meas |-> None])
  /\ UNCHANGED <<ledger, spec, tuning, last, rfVars, linkVars, at, job>>

-------------------------------------------------------------------------------
(* Concluding: an optional verdict row, the outcome read from every row, then  *)
(* the stamp, which only the first of two conclusions wins.                    *)
Finish(c) ==
  /\ Idle(c) /\ Room /\ ledger # None
  /\ \E place \in {"number", "outcome"} :
       Become(c, place, [NoJob EXCEPT !.op = "finish"])
  /\ UNCHANGED <<ledger, ledgerVars, spec, tuning, last, rfVars, linkVars>>

Outcome(c) ==
  /\ at[c] = "outcome"
  /\ Become(c, "conclude", [job[c] EXCEPT !.count = Len(log[ledger])])
  /\ UNCHANGED <<ledger, ledgerVars, spec, tuning, last, rfVars, linkVars>>

Conclude(c) ==
  /\ at[c] = "conclude"
  /\ \/ /\ ~concluded[ledger]
        /\ concluded' = [concluded EXCEPT ![ledger] = TRUE]
        /\ report' = [report EXCEPT ![ledger] = job[c].count]
     \/ concluded[ledger] /\ UNCHANGED <<concluded, report>>
  /\ Done(c)
  /\ UNCHANGED <<ledger, saved, log, top, spec, tuning, last, rfVars, linkVars>>

-------------------------------------------------------------------------------
Choose(c) == (\E e \in Exps : Change(c, e)) \/ Reset(c) \/ Adopt(c)

Steer(c) ==
  \/ \E s \in Specs : Build(c, s)
  \/ \E f \in Chans : Retune(c, f)
  \/ \E p \in HopPlans : HopOn(c, p)
  \/ HopOff(c) \/ Sense(c) \/ Diagnose(c)

Measure(c) ==
  \/ StartRun(c) \/ Apply(c) \/ Tune(c) \/ Fly(c)
  \/ Hop(c) \/ Capture(c) \/ Grade(c) \/ Search(c)

Journal(c) ==
  \/ Number(c) \/ RecordRun(c) \/ RecordLost(c) \/ RecordDecision(c)
  \/ \E n \in NoteSeqs : Annotate(c, n)
  \/ Finish(c) \/ Outcome(c) \/ Conclude(c)

Next == \E c \in Clients : Choose(c) \/ Steer(c) \/ Measure(c) \/ Journal(c)

(* A request's thread keeps running, and a radio request always answers or     *)
(* fails within its timeout; nothing makes a client send another request.      *)
Resume(c) == ~Idle(c) /\ (Choose(c) \/ Measure(c) \/ Journal(c))

Spec == Init /\ [][Next]_vars

FairSpec == Spec /\ \A c \in Clients : WF_vars(Resume(c))

-------------------------------------------------------------------------------
DataOK ==
  /\ ledger \in Exps \cup {None}
  /\ saved \subseteq Exps
  /\ log \in [Exps -> Seq(Row)]
  /\ top \in [Exps -> Nat]
  /\ concluded \in [Exps -> BOOLEAN]
  /\ report \in [Exps -> Nat]
  /\ spec \in Specs \cup {None}
  /\ tuning \in [exp : Exps, spec : Specs] \cup {None}
  /\ agentHz \in Chans \cup {None}
  /\ agentHop \in HopPlans \cup {None}
  /\ last \in Measurement \cup {None}
  /\ plan \in HopPlans \cup {None}
  /\ tuned \in Chans \cup {None}
  /\ live \in Chans \cup {None}
  /\ lo \in Chans
  /\ radio \in {"up", "gone"}

ThreadsOK ==
  /\ at \in [Clients -> Places]
  /\ job \in [Clients -> Job]

(* Every variable has the shape the code gives it, whatever the threads do:    *)
(* in particular no handler dereferences an experiment or a structure that is  *)
(* not there and carries the None on into its result.                          *)
TypeOK == DataOK /\ ThreadsOK

(* What a reader of one experiment is told was measured for that experiment:   *)
(* _reset_session's promise that the last result belongs to the experiment     *)
(* that is ending and goes with it.                                            *)
LastResultIsCurrent == last # None => last.exp = ledger

(* Tuned knobs are applied to the structure, and in the experiment, that the   *)
(* BO run searched for; build_flowgraph and _reset_session both drop them.     *)
TuningFitsStructure ==
  tuning # None => tuning = [exp |-> ledger, spec |-> spec]

(* The centre frequency that travels with an unhopped measurement is the one   *)
(* its bits were captured on.                                                  *)
CentreIsMeasured ==
  \A e \in Exps : \A i \in DOMAIN log[e] :
    LET row == log[e][i]
    IN  row.kind = "run" /\ row.hop = None /\ row.hz # None
          => row.meas.flown = <<row.hz>>

(* A row that says the link was hopping was captured on the hop set, one dwell *)
(* on each channel in order. A plan of one channel is passed through untuned,  *)
(* and is left out.                                                            *)
RealHopsFlewTheirPlan ==
  \A e \in Exps : \A i \in DOMAIN log[e] :
    LET row == log[e][i]
    IN  row.kind = "run" /\ row.hop # None /\ Len(row.hop) > 1
          => row.meas.flown = row.hop

(* Between operations the radios sit where the backend believes it tuned them: *)
(* a hop cycle leaves the LO where it started.                                 *)
LinkReturnsHome ==
  (\A c \in Clients : Idle(c)) /\ tuned # None => lo = tuned

(* Whatever is graded, recorded or kept as the last result is a whole flight:  *)
(* a cycle cut short by a fault never reaches the ledger as a measurement.     *)
WholeFlightsOnly ==
  /\ last # None => Len(last.flown) = last.want
  /\ \A e \in Exps : \A i \in DOMAIN log[e] :
       LET row == log[e][i]
       IN  row.kind = "run" => Len(row.meas.flown) = row.meas.want

(* Once a run has been recorded as aborted, and until another one is graded,   *)
(* there is no result left to read.                                            *)
AbortLeavesNoResult ==
  ledger # None /\ (\A c \in Clients : Idle(c)) =>
    LET runs == {i \in DOMAIN log[ledger] : log[ledger][i].kind \in {"run", "aborted"}}
    IN  \A i \in runs : (\A k \in runs : k <= i) /\ log[ledger][i].kind = "aborted"
                          => last = None

(* Every request that is being served returns, radios lost or not.             *)
RequestsReturn == \A c \in Clients : ~Idle(c) ~> Idle(c)

(* The ledger as its readers see it: rows appear one at a time and stay, each  *)
(* numbered after those before it, and a conclusion reports all of them.       *)
Shown(rows) == [i \in DOMAIN rows |-> [kind |-> rows[i].kind, seq |-> rows[i].seq]]

Ledger == INSTANCE RunJournal WITH
            journal <- [e \in Exps |-> Shown(log[e])],
            closed <- concluded

IsARunJournal == Ledger!Spec
===============================================================================
