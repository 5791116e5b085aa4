----------------------------- MODULE SessionProofs ----------------------------
(* Theorems about Session for every value of its constants, faults included:   *)
(* first what any number of clients may rely on, however requests overlap,     *)
(* then what one client at a time may.                                         *)
EXTENDS Session, SequenceTheorems, TLAPS

-------------------------------------------------------------------------------
(* Type correctness is not inductive by itself: a thread carries its locals    *)
(* from one wait to the next, so what it holds must fit the place it is at.    *)
Measures(j) == j.op \in {"run", "bo", "validate"}

Fit(p, j) ==
  /\ Measures(j) => j.exp \in Exps /\ j.spec \in Specs
  /\ j.op = "change" => j.exp \in Exps
  /\ p \in {"reset", "adopt"} \/ (p = "tune" /\ j.next = "adopt") => j.op = "change"
  /\ p = "tune" => j.to \in Chans /\ j.next \in {"adopt", "number", "fly", "capture", "grade"}
  /\ p = "hop" => j.left # <<>>
  /\ p = "search" => j.op = "bo"
  /\ p = "record" => j.exp \in Exps
  /\ p \in {"outcome", "conclude"} => j.op = "finish"

(* Places and operations that are only reached with an experiment selected;    *)
(* once one is, one always is.                                                 *)
NeedsLedger(p, j) == p = "record" \/ j.op \in {"run", "lost", "bo", "validate", "finish"}

JobsFit ==
  \A c \in Clients :
    /\ Fit(at[c], job[c])
    /\ NeedsLedger(at[c], job[c]) => ledger # None

TypeInv == TypeOK /\ JobsFit

-------------------------------------------------------------------------------
(* A thread that moves on leaves every other thread where it was.              *)
LEMMA BecomeFits ==
  ASSUME TypeInv, NEW c \in Clients, NEW p \in Places, NEW j \in Job,
         Become(c, p, j), Fit(p, j),
         ledger # None => ledger' # None,
         NeedsLedger(p, j) => ledger' # None
  PROVE  /\ at' \in [Clients -> Places]
         /\ job' \in [Clients -> Job]
         /\ JobsFit'
<1>1. /\ at \in [Clients -> Places] /\ job \in [Clients -> Job]
      /\ at' = [at EXCEPT ![c] = p] /\ job' = [job EXCEPT ![c] = j]
  BY DEF TypeInv, TypeOK, ThreadsOK, Become
<1>2. at' \in [Clients -> Places] /\ job' \in [Clients -> Job]
  BY <1>1
<1>3. ASSUME NEW d \in Clients
      PROVE  /\ Fit(at'[d], job'[d])
             /\ NeedsLedger(at'[d], job'[d]) => ledger' # None
  <2>1. CASE d = c
    <3>1. at'[d] = p /\ job'[d] = j
      BY <1>1, <2>1
    <3> QED
      BY <3>1
  <2>2. CASE d # c
    <3>1. at'[d] = at[d] /\ job'[d] = job[d]
      BY <1>1, <2>2
    <3>2. /\ Fit(at[d], job[d])
          /\ NeedsLedger(at[d], job[d]) => ledger # None
      BY DEF TypeInv, JobsFit
    <3> QED
      BY <3>1, <3>2
  <2> QED
    BY <2>1, <2>2
<1> QED
  BY <1>2, <1>3 DEF JobsFit, Fit, NeedsLedger, Measures

(* The idle job, and a job that starts one of the operations.                  *)
LEMMA NoJobFits == NoJob \in Job /\ Fit("idle", NoJob) /\ ~NeedsLedger("idle", NoJob)
BY DEF NoJob, Job, Ops, Places, Fit, NeedsLedger, Measures

(* A row goes to one experiment's log and keeps the ledger well typed.         *)
LEMMA AppendRowType ==
  ASSUME DataOK, NEW e \in Exps, NEW row \in Row, AppendRow(e, row)
  PROVE  /\ log' \in [Exps -> Seq(Row)]
         /\ top' \in [Exps -> Nat]
         /\ concluded' \in [Exps -> BOOLEAN]
         /\ report' \in [Exps -> Nat]
         /\ saved' \subseteq Exps
<1>1. Append(log[e], row) \in Seq(Row)
  BY DEF DataOK
<1>2. row.seq \in Nat
  BY DEF Row
<1> QED
  BY <1>1, <1>2 DEF DataOK, AppendRow

-------------------------------------------------------------------------------
LEMMA InitTypeInv == Init => TypeInv
<1> SUFFICES ASSUME Init PROVE TypeInv
  OBVIOUS
<1> USE SessionAssumption
<1>1. TypeOK
  <2>1. <<>> \in Seq(Row)
    OBVIOUS
  <2>2. NoJob \in Job
    BY NoJobFits
  <2> QED
    BY <2>1, <2>2 DEF Init, TypeOK, DataOK, ThreadsOK, Places
<1>2. JobsFit
  BY NoJobFits DEF Init, JobsFit
<1> QED
  BY <1>1, <1>2 DEF TypeInv

(* A step that moves one thread where it fits, and keeps the data well typed.  *)
LEMMA ThreadStep ==
  ASSUME TypeInv, DataOK', NEW c \in Clients, NEW p \in Places, NEW j \in Job,
         Become(c, p, j), Fit(p, j),
         ledger # None => ledger' # None,
         NeedsLedger(p, j) => ledger' # None
  PROVE  TypeInv'
<1>1. at' \in [Clients -> Places] /\ job' \in [Clients -> Job] /\ JobsFit'
  BY BecomeFits
<1> QED
  BY <1>1 DEF TypeInv, TypeOK, ThreadsOK

LEMMA ThreadFacts ==
  ASSUME TypeInv, NEW c \in Clients
  PROVE  /\ job[c] \in Job /\ at[c] \in Places /\ Fit(at[c], job[c])
         /\ NeedsLedger(at[c], job[c]) => ledger # None
BY DEF TypeInv, TypeOK, ThreadsOK, JobsFit

(* A thread that ends its request.                                             *)
LEMMA DoneFits ==
  ASSUME NEW c \in Clients, Done(c)
  PROVE  /\ Become(c, "idle", NoJob)
         /\ "idle" \in Places /\ NoJob \in Job
         /\ Fit("idle", NoJob) /\ ~NeedsLedger("idle", NoJob)
BY NoJobFits DEF Done, Places

(* A request that failed moves its thread somewhere it fits.                   *)
LEMMA LostFits ==
  ASSUME TypeInv, NEW c \in Clients, Lost(c)
  PROVE  /\ radio' \in {"up", "gone"}
         /\ \E p \in Places, j \in Job :
              /\ Become(c, p, j) /\ Fit(p, j)
              /\ NeedsLedger(p, j) => ledger # None
<1>0. /\ job[c] \in Job /\ Fit(at[c], job[c])
      /\ NeedsLedger(at[c], job[c]) => ledger # None
  BY ThreadFacts
<1>1. radio' \in {"up", "gone"}
  BY DEF Lost
<1>2. CASE job[c].op = "run" /\ Become(c, "number", [job[c] EXCEPT !.op = "lost"])
  <2>1. /\ [job[c] EXCEPT !.op = "lost"] \in Job /\ "number" \in Places
        /\ Fit("number", [job[c] EXCEPT !.op = "lost"])
        /\ NeedsLedger("number", [job[c] EXCEPT !.op = "lost"]) => ledger # None
    BY <1>0, <1>2 DEF Job, Ops, Places, Fit, NeedsLedger, Measures
  <2> QED
    BY <1>1, <1>2, <2>1
<1>3. CASE job[c].op = "change" /\ Move(c, "adopt")
  <2>1. /\ "adopt" \in Places /\ Fit("adopt", job[c])
        /\ NeedsLedger("adopt", job[c]) => ledger # None
    BY <1>0, <1>3 DEF Places, Fit, NeedsLedger, Measures
  <2> QED
    BY <1>0, <1>1, <1>3, <2>1 DEF Move
<1>4. CASE Done(c)
  BY <1>1, <1>4, DoneFits
<1> QED
  BY <1>2, <1>3, <1>4 DEF Lost

LEMMA ChangeTypeInv ==
  ASSUME TypeInv, NEW c \in Clients, NEW e \in Exps, Change(c, e)
  PROVE  TypeInv'
<1> DEFINE j == [NoJob EXCEPT !.op = "change", !.exp = e]
<1>1. /\ j \in Job /\ Fit("reset", j) /\ ~NeedsLedger("reset", j)
      /\ "reset" \in Places /\ Become(c, "reset", j)
  BY NoJobFits DEF Change, Job, NoJob, Ops, Places, Fit, NeedsLedger, Measures
<1>2. DataOK' /\ ledger' = ledger
  BY DEF Change, TypeInv, TypeOK, DataOK, rfVars, linkVars
<1> HIDE DEF j
<1> QED
  BY <1>1, <1>2, ThreadStep

LEMMA ResetTypeInv ==
  ASSUME TypeInv, NEW c \in Clients, Reset(c)
  PROVE  TypeInv'
<1>0. /\ job[c] \in Job /\ Fit("reset", job[c])
      /\ NeedsLedger("reset", job[c]) => ledger # None
  BY ThreadFacts DEF Reset
<1>1. DataOK' /\ ledger' = ledger
  BY SessionAssumption DEF Reset, TypeInv, TypeOK, DataOK, ledgerVars
<1>2. CASE Declared # None
  <2> DEFINE j == [job[c] EXCEPT !.to = Declared, !.next = "adopt"]
  <2>1. /\ j \in Job /\ "tune" \in Places /\ Become(c, "tune", j)
        /\ Fit("tune", j)
        /\ NeedsLedger("tune", j) => ledger # None
    BY <1>0, <1>2, SessionAssumption DEF Reset, Job, Places, Fit, NeedsLedger, Measures
  <2> HIDE DEF j
  <2> QED
    BY <1>1, <2>1, ThreadStep
<1>3. CASE Declared = None
  <2>1. /\ "adopt" \in Places /\ Fit("adopt", job[c])
        /\ NeedsLedger("adopt", job[c]) => ledger # None
    BY <1>0 DEF Places, Fit, NeedsLedger, Measures
  <2>2. Become(c, "adopt", job[c])
    BY <1>3 DEF Reset, Move
  <2> QED
    BY <1>0, <1>1, <2>1, <2>2, ThreadStep
<1> QED
  BY <1>2, <1>3

LEMMA AdoptTypeInv ==
  ASSUME TypeInv, NEW c \in Clients, Adopt(c)
  PROVE  TypeInv'
<1>1. job[c].exp \in Exps /\ Done(c) /\ ledger' = job[c].exp
  BY ThreadFacts DEF Adopt, Fit
<1>2. DataOK'
  BY <1>1 DEF Adopt, TypeInv, TypeOK, DataOK, ledgerVars, rfVars, linkVars
<1> QED
  BY <1>1, <1>2, DoneFits, ThreadStep, SessionAssumption

LEMMA BuildTypeInv ==
  ASSUME TypeInv, NEW c \in Clients, NEW s \in Specs, Build(c, s)
  PROVE  TypeInv'
BY DEF Build, TypeInv, TypeOK, DataOK, ThreadsOK, JobsFit, ledgerVars, rfVars, linkVars

LEMMA RetuneTypeInv ==
  ASSUME TypeInv, NEW c \in Clients, NEW f \in Chans, Retune(c, f)
  PROVE  TypeInv'
<1> DEFINE j == [NoJob EXCEPT !.op = "decision", !.to = f, !.next = "number"]
<1>1. /\ j \in Job /\ Fit("tune", j) /\ ~NeedsLedger("tune", j)
      /\ "tune" \in Places /\ Become(c, "tune", j)
  BY NoJobFits DEF Retune, Job, NoJob, Ops, Places, Fit, NeedsLedger, Measures
<1>2. DataOK' /\ ledger' = ledger
  BY DEF Retune, TypeInv, TypeOK, DataOK, ledgerVars
<1> HIDE DEF j
<1> QED
  BY <1>1, <1>2, ThreadStep

(* Every other knob only sends the thread to write its decision down.          *)
LEMMA DecisionFits ==
  ASSUME NEW s \in Specs \cup {None}
  PROVE  /\ "number" \in Places
         /\ [NoJob EXCEPT !.op = "decision"] \in Job
         /\ Fit("number", [NoJob EXCEPT !.op = "decision"])
         /\ ~NeedsLedger("number", [NoJob EXCEPT !.op = "decision"])
         /\ [NoJob EXCEPT !.op = "decision", !.spec = s] \in Job
         /\ Fit("number", [NoJob EXCEPT !.op = "decision", !.spec = s])
         /\ ~NeedsLedger("number", [NoJob EXCEPT !.op = "decision", !.spec = s])
BY NoJobFits DEF Job, NoJob, Ops, Places, Fit, NeedsLedger, Measures

LEMMA HopOnTypeInv ==
  ASSUME TypeInv, NEW c \in Clients, NEW p \in HopPlans, HopOn(c, p)
  PROVE  TypeInv'
<1>1. Become(c, "number", [NoJob EXCEPT !.op = "decision"])
  BY DEF HopOn
<1>2. DataOK' /\ ledger' = ledger
  BY DEF HopOn, TypeInv, TypeOK, DataOK, ledgerVars
<1> QED
  BY <1>1, <1>2, DecisionFits, ThreadStep

LEMMA HopOffTypeInv ==
  ASSUME TypeInv, NEW c \in Clients, HopOff(c)
  PROVE  TypeInv'
<1>1. DataOK' /\ ledger' = ledger
  BY DEF HopOff, TypeInv, TypeOK, DataOK, ledgerVars
<1>2. CASE UNCHANGED <<at, job>>
  BY <1>1, <1>2 DEF TypeInv, TypeOK, ThreadsOK, JobsFit
<1>3. CASE Become(c, "number", [NoJob EXCEPT !.op = "decision"])
  BY <1>1, <1>3, DecisionFits, ThreadStep
<1> QED
  BY <1>2, <1>3 DEF HopOff

LEMMA SenseTypeInv ==
  ASSUME TypeInv, NEW c \in Clients, Sense(c)
  PROVE  TypeInv'
<1>1. DataOK' /\ ledger' = ledger
  BY LostFits DEF Sense, TypeInv, TypeOK, DataOK, ledgerVars, rfVars
<1>2. CASE Become(c, "number", [NoJob EXCEPT !.op = "decision"])
  BY <1>1, <1>2, DecisionFits, ThreadStep
<1>3. CASE Lost(c)
  BY <1>1, <1>3, LostFits, ThreadStep
<1> QED
  BY <1>2, <1>3 DEF Sense

LEMMA DiagnoseTypeInv ==
  ASSUME TypeInv, NEW c \in Clients, Diagnose(c)
  PROVE  TypeInv'
<1>1. DataOK' /\ ledger' = ledger /\ spec \in Specs \cup {None}
  BY DEF Diagnose, TypeInv, TypeOK, DataOK, ledgerVars, rfVars, linkVars
<1>2. Become(c, "number", [NoJob EXCEPT !.op = "decision", !.spec = spec])
  BY DEF Diagnose
<1> QED
  BY <1>1, <1>2, DecisionFits, ThreadStep

LEMMA StartRunTypeInv ==
  ASSUME TypeInv, NEW c \in Clients, StartRun(c)
  PROVE  TypeInv'
<1>1. PICK op \in {"run", "bo"} :
        Become(c, "apply", [NoJob EXCEPT !.op = op, !.exp = ledger, !.spec = spec])
  BY DEF StartRun
<1> DEFINE j == [NoJob EXCEPT !.op = op, !.exp = ledger, !.spec = spec]
<1>2. DataOK' /\ ledger' = ledger
  BY DEF StartRun, TypeInv, TypeOK, DataOK, ledgerVars, rfVars, linkVars
<1>3. /\ j \in Job /\ "apply" \in Places
      /\ Fit("apply", j)
      /\ ledger # None
  BY NoJobFits DEF StartRun, TypeInv, TypeOK, DataOK, Job, NoJob, Ops, Places, Fit,
                   Measures
<1>4. Become(c, "apply", j)
  BY <1>1
<1> HIDE DEF j
<1> QED
  BY <1>2, <1>3, <1>4, ThreadStep

LEMMA ApplyTypeInv ==
  ASSUME TypeInv, NEW c \in Clients, Apply(c)
  PROVE  TypeInv'
<1>0. /\ job[c] \in Job /\ Fit("apply", job[c])
      /\ NeedsLedger("apply", job[c]) => ledger # None
  BY ThreadFacts DEF Apply
<1>1. DataOK' /\ ledger' = ledger
  BY LostFits DEF Apply, TypeInv, TypeOK, DataOK, ledgerVars, rfVars
<1>2. CASE Lost(c)
  BY <1>1, <1>2, LostFits, ThreadStep
<1>3. CASE /\ agentHz # None
           /\ Become(c, "tune", [job[c] EXCEPT !.to = agentHz, !.next = "fly"])
  <2> DEFINE j == [job[c] EXCEPT !.to = agentHz, !.next = "fly"]
  <2>1. agentHz \in Chans
    BY <1>3 DEF TypeInv, TypeOK, DataOK
  <2>2. /\ j \in Job /\ "tune" \in Places /\ Become(c, "tune", j)
        /\ Fit("tune", j)
        /\ NeedsLedger("tune", j) => ledger # None
    BY <1>0, <1>3, <2>1 DEF Job, Places, Fit, NeedsLedger, Measures
  <2> HIDE DEF j
  <2> QED
    BY <1>1, <2>2, ThreadStep
<1>4. CASE Move(c, "fly")
  <2>1. /\ "fly" \in Places /\ Fit("fly", job[c])
        /\ NeedsLedger("fly", job[c]) => ledger # None
    BY <1>0 DEF Places, Fit, NeedsLedger, Measures
  <2> QED
    BY <1>0, <1>1, <1>4, <2>1, ThreadStep DEF Move
<1> QED
  BY <1>2, <1>3, <1>4 DEF Apply

LEMMA TuneTypeInv ==
  ASSUME TypeInv, NEW c \in Clients, Tune(c)
  PROVE  TypeInv'
<1>0. /\ job[c] \in Job /\ Fit("tune", job[c])
      /\ NeedsLedger("tune", job[c]) => ledger # None
  BY ThreadFacts DEF Tune
<1>1. DataOK' /\ ledger' = ledger
  BY <1>0, LostFits DEF Tune, TypeInv, TypeOK, DataOK, Fit, ledgerVars, rfVars
<1>2. CASE Lost(c)
  BY <1>1, <1>2, LostFits, ThreadStep
<1>3. CASE Move(c, job[c].next)
  <2>1. /\ job[c].next \in Places /\ Fit(job[c].next, job[c])
        /\ NeedsLedger(job[c].next, job[c]) => ledger # None
    BY <1>0 DEF Job, Fit, NeedsLedger, Measures
  <2> QED
    BY <1>0, <1>1, <1>3, <2>1, ThreadStep DEF Move
<1> QED
  BY <1>2, <1>3 DEF Tune

LEMMA FlyTypeInv ==
  ASSUME TypeInv, NEW c \in Clients, Fly(c)
  PROVE  TypeInv'
<1>0. /\ job[c] \in Job /\ Fit("fly", job[c])
      /\ NeedsLedger("fly", job[c]) => ledger # None
  BY ThreadFacts DEF Fly
<1>1. DataOK' /\ ledger' = ledger
  BY DEF Fly, TypeInv, TypeOK, DataOK, ledgerVars, rfVars, linkVars
<1>2. CASE ~Hopping
  <2> DEFINE j == [job[c] EXCEPT !.want = 1]
  <2>1. /\ j \in Job /\ "capture" \in Places /\ Become(c, "capture", j)
        /\ Fit("capture", j)
        /\ NeedsLedger("capture", j) => ledger # None
    BY <1>0, <1>2 DEF Fly, Job, Places, Fit, NeedsLedger, Measures
  <2> HIDE DEF j
  <2> QED
    BY <1>1, <2>1, ThreadStep
<1>3. CASE Hopping
  <2> DEFINE j == [job[c] EXCEPT !.left = plan, !.want = Len(plan), !.orig = tuned]
  <2>1. /\ plan \in Seq(Chans) /\ plan # <<>> /\ Len(plan) \in Nat
        /\ tuned \in Chans \cup {None}
    BY <1>3, SessionAssumption DEF Hopping, TypeInv, TypeOK, DataOK
  <2>2. Become(c, "hop", j)
    BY <1>3 DEF Fly
  <2>3. j \in Job /\ "hop" \in Places
    BY <1>0, <2>1 DEF Job, Places
  <2>4. /\ Fit("hop", j)
        /\ NeedsLedger("hop", j) => ledger # None
    BY <1>0, <2>1 DEF Job, Fit, NeedsLedger, Measures
  <2> HIDE DEF j
  <2> QED
    BY <1>1, <2>2, <2>3, <2>4, ThreadStep
<1> QED
  BY <1>2, <1>3

LEMMA HopTypeInv ==
  ASSUME TypeInv, NEW c \in Clients, Hop(c)
  PROVE  TypeInv'
<1> DEFINE j == [job[c] EXCEPT !.to = Head(job[c].left),
                               !.left = Tail(job[c].left), !.next = "capture"]
<1>0. /\ job[c] \in Job /\ Fit("hop", job[c])
      /\ NeedsLedger("hop", job[c]) => ledger # None
  BY ThreadFacts DEF Hop
<1>1. Head(job[c].left) \in Chans /\ Tail(job[c].left) \in Seq(Chans)
  <2>1. job[c].left \in Seq(Chans) /\ job[c].left # <<>>
    BY <1>0 DEF Job, Fit
  <2> QED
    BY <2>1
<1>2. DataOK' /\ ledger' = ledger
  BY <1>1 DEF Hop, TypeInv, TypeOK, DataOK, ledgerVars, rfVars
<1>3. /\ j \in Job /\ "tune" \in Places /\ Become(c, "tune", j)
      /\ Fit("tune", j)
      /\ NeedsLedger("tune", j) => ledger # None
  BY <1>0, <1>1 DEF Hop, Job, Places, Fit, NeedsLedger, Measures
<1> HIDE DEF j
<1> QED
  BY <1>2, <1>3, ThreadStep

LEMMA CaptureTypeInv ==
  ASSUME TypeInv, NEW c \in Clients, Capture(c)
  PROVE  TypeInv'
<1> DEFINE j == [job[c] EXCEPT !.flown = Append(@, lo)]
           k == [j EXCEPT !.to = j.orig, !.next = "grade"]
<1>0. /\ job[c] \in Job /\ Fit("capture", job[c])
      /\ NeedsLedger("capture", job[c]) => ledger # None
  BY ThreadFacts DEF Capture
<1>1. DataOK' /\ ledger' = ledger
  BY LostFits DEF Capture, TypeInv, TypeOK, DataOK, ledgerVars, rfVars
<1>2. j \in Job
  <2>1. Append(job[c].flown, lo) \in Seq(Chans)
    BY <1>0 DEF Job, TypeInv, TypeOK, DataOK
  <2> QED
    BY <1>0, <2>1 DEF Job
<1>3. /\ j.op = job[c].op /\ j.exp = job[c].exp /\ j.spec = job[c].spec
      /\ j.left = job[c].left /\ j.orig = job[c].orig
  BY <1>0 DEF Job
<1>4. CASE j.left # <<>> /\ Become(c, "hop", j)
  <2>1. /\ "hop" \in Places /\ Fit("hop", j)
        /\ NeedsLedger("hop", j) => ledger # None
    BY <1>0, <1>3, <1>4 DEF Places, Fit, NeedsLedger, Measures
  <2> HIDE DEF j
  <2> QED
    BY <1>1, <1>2, <1>4, <2>1, ThreadStep
<1>5. CASE j.orig # None /\ Become(c, "tune", k)
  <2>1. k \in Job /\ "tune" \in Places
    BY <1>2, <1>5 DEF Job, Places
  <2>2. /\ k.op = j.op /\ k.exp = j.exp /\ k.spec = j.spec
        /\ k.to \in Chans /\ k.next = "grade"
    BY <1>2, <1>5 DEF Job
  <2>3. /\ Fit("tune", k)
        /\ NeedsLedger("tune", k) => ledger # None
    BY <1>0, <1>3, <2>2 DEF Fit, NeedsLedger, Measures
  <2> HIDE DEF k
  <2> QED
    BY <1>1, <1>5, <2>1, <2>3, ThreadStep
<1>6. CASE Become(c, "grade", j)
  <2>1. /\ "grade" \in Places /\ Fit("grade", j)
        /\ NeedsLedger("grade", j) => ledger # None
    BY <1>0, <1>3 DEF Places, Fit, NeedsLedger, Measures
  <2> HIDE DEF j
  <2> QED
    BY <1>1, <1>2, <1>6, <2>1, ThreadStep
<1>7. CASE Done(c)
  BY <1>1, <1>7, DoneFits, ThreadStep
<1>8. CASE Lost(c)
  BY <1>1, <1>8, LostFits, ThreadStep
<1> QED
  BY <1>4, <1>5, <1>6, <1>7, <1>8 DEF Capture

LEMMA GradeTypeInv ==
  ASSUME TypeInv, NEW c \in Clients, Grade(c)
  PROVE  TypeInv'
<1>0. /\ job[c] \in Job /\ Fit("grade", job[c])
      /\ NeedsLedger("grade", job[c]) => ledger # None
  BY ThreadFacts DEF Grade
<1>1. live' \in Chans \cup {None}
  BY <1>0 DEF Grade, Job, TypeInv, TypeOK, DataOK
<1>2. last' \in Measurement \cup {None}
  BY <1>0 DEF Grade, Job, Fit, Measures, Measurement, MeasurementOf, TypeInv, TypeOK, DataOK
<1>3. DataOK' /\ ledger' = ledger
  BY <1>1, <1>2 DEF Grade, TypeInv, TypeOK, DataOK, ledgerVars, rfVars
<1>4. CASE Move(c, "number")
  <2>1. /\ "number" \in Places /\ Fit("number", job[c])
        /\ NeedsLedger("number", job[c]) => ledger # None
    BY <1>0 DEF Places, Fit, NeedsLedger, Measures
  <2> QED
    BY <1>0, <1>3, <1>4, <2>1, ThreadStep DEF Move
<1>5. CASE job[c].op = "bo" /\ Move(c, "search")
  <2>1. /\ "search" \in Places /\ Fit("search", job[c])
        /\ NeedsLedger("search", job[c]) => ledger # None
    BY <1>0, <1>5 DEF Places, Fit, NeedsLedger, Measures
  <2> QED
    BY <1>0, <1>3, <1>5, <2>1, ThreadStep DEF Move
<1>6. CASE Done(c)
  BY <1>3, <1>6, DoneFits, ThreadStep
<1> QED
  BY <1>4, <1>5, <1>6 DEF Grade

LEMMA SearchTypeInv ==
  ASSUME TypeInv, NEW c \in Clients, Search(c)
  PROVE  TypeInv'
<1>0. /\ job[c] \in Job /\ Fit("search", job[c])
      /\ NeedsLedger("search", job[c]) => ledger # None
  BY ThreadFacts DEF Search
<1>1. /\ job[c].op = "bo" /\ job[c].exp \in Exps /\ job[c].spec \in Specs
      /\ ledger # None
  BY <1>0 DEF Fit, NeedsLedger, Measures
<1>2. DataOK' /\ ledger' = ledger
  BY <1>1 DEF Search, TypeInv, TypeOK, DataOK, ledgerVars, rfVars, linkVars
<1>3. CASE Become(c, "apply", [job[c] EXCEPT !.count = @ + 1, !.flown = <<>>,
                                              !.orig = None])
  <2> DEFINE j == [job[c] EXCEPT !.count = @ + 1, !.flown = <<>>, !.orig = None]
  <2>1. <<>> \in Seq(Chans) /\ job[c].count + 1 \in Nat
    BY <1>0 DEF Job
  <2>2. j \in Job
    BY <1>0, <2>1 DEF Job
  <2>3. "apply" \in Places /\ Fit("apply", j)
    BY <1>0, <1>1 DEF Job, Places, Fit, Measures
  <2>4. Become(c, "apply", j)
    BY <1>3
  <2> HIDE DEF j
  <2> QED
    BY <1>1, <1>2, <2>2, <2>3, <2>4, ThreadStep
<1>4. CASE Become(c, "apply", [NoJob EXCEPT !.op = "validate", !.exp = job[c].exp,
                                            !.spec = job[c].spec])
  <2> DEFINE j == [NoJob EXCEPT !.op = "validate", !.exp = job[c].exp,
                                !.spec = job[c].spec]
  <2>1. /\ j \in Job /\ "apply" \in Places /\ Fit("apply", j)
        /\ Become(c, "apply", j)
    BY <1>1, <1>4, NoJobFits DEF Job, NoJob, Ops, Places, Fit, Measures
  <2> HIDE DEF j
  <2> QED
    BY <1>1, <1>2, <2>1, ThreadStep
<1> QED
  BY <1>3, <1>4 DEF Search

LEMMA NumberTypeInv ==
  ASSUME TypeInv, NEW c \in Clients, Number(c)
  PROVE  TypeInv'
<1>0. /\ job[c] \in Job /\ Fit("number", job[c])
      /\ NeedsLedger("number", job[c]) => ledger # None
  BY ThreadFacts DEF Number
<1>1. DataOK' /\ ledger' = ledger
  BY DEF Number, TypeInv, TypeOK, DataOK, ledgerVars, rfVars, linkVars
<1>2. CASE Done(c)
  BY <1>1, <1>2, DoneFits, ThreadStep
<1>3. CASE /\ ledger # None
           /\ Become(c, "record", [job[c] EXCEPT !.seq = top[ledger] + 1,
                                   !.exp = IF job[c].op = "run" THEN @ ELSE ledger])
  <2> DEFINE j == [job[c] EXCEPT !.seq = top[ledger] + 1,
                                 !.exp = IF job[c].op = "run" THEN @ ELSE ledger]
  <2>1. ledger \in Exps /\ top[ledger] + 1 \in Nat
    BY <1>3 DEF TypeInv, TypeOK, DataOK
  <2>2. j \in Job /\ "record" \in Places
    BY <1>0, <2>1 DEF Job, Places
  <2>3. Fit("record", j)
    BY <1>0, <2>1 DEF Job, Fit, Measures
  <2>4. Become(c, "record", j)
    BY <1>3
  <2> HIDE DEF j
  <2> QED
    BY <1>1, <1>3, <2>2, <2>3, <2>4, ThreadStep
<1> QED
  BY <1>2, <1>3 DEF Number

LEMMA RecordRunTypeInv ==
  ASSUME TypeInv, NEW c \in Clients, RecordRun(c)
  PROVE  TypeInv'
<1>0. /\ job[c] \in Job /\ Fit("record", job[c]) /\ ledger # None
  BY ThreadFacts DEF RecordRun, NeedsLedger
<1>1. CASE spec # None
  <2> DEFINE row == [kind |-> "run", seq |-> job[c].seq, spec |-> spec,
                     hz |-> LinkHz, hop |-> agentHop, meas |-> MeasurementOf(job[c])]
  <2>1. MeasurementOf(job[c]) \in Measurement
    BY <1>0 DEF RecordRun, Job, Fit, Measures, Measurement, MeasurementOf
  <2>2. LinkHz \in Chans \cup {None}
    BY SessionAssumption DEF LinkHz, TypeInv, TypeOK, DataOK
  <2>3. row \in Row
    BY <1>0, <2>1, <2>2 DEF Row, Job, TypeInv, TypeOK, DataOK
  <2>4. AppendRow(ledger, row) /\ Done(c)
    BY <1>1 DEF RecordRun
  <2> HIDE DEF row
  <2>5. DataOK'
    BY <1>0, <2>3, <2>4, AppendRowType
       DEF RecordRun, TypeInv, TypeOK, DataOK, rfVars, linkVars
  <2> QED
    BY <2>4, <2>5, DoneFits, ThreadStep DEF RecordRun
<1>2. CASE spec = None
  <2>1. DataOK' /\ Done(c)
    BY <1>2 DEF RecordRun, TypeInv, TypeOK, DataOK, ledgerVars, rfVars, linkVars
  <2> QED
    BY <2>1, DoneFits, ThreadStep DEF RecordRun
<1> QED
  BY <1>1, <1>2

LEMMA RecordLostTypeInv ==
  ASSUME TypeInv, NEW c \in Clients, RecordLost(c)
  PROVE  TypeInv'
<1>0. /\ job[c] \in Job /\ Fit("record", job[c])
  BY ThreadFacts DEF RecordLost
<1>1. CASE spec # None
  <2> DEFINE row == [kind |-> "aborted", seq |-> job[c].seq, spec |-> spec,
                     hz |-> None, hop |-> None, meas |-> None]
  <2>1. row \in Row /\ job[c].exp \in Exps
    BY <1>0 DEF Row, Job, Fit, TypeInv, TypeOK, DataOK
  <2>2. AppendRow(job[c].exp, row) /\ Done(c) /\ last' = None
    BY <1>1 DEF RecordLost
  <2> HIDE DEF row
  <2>3. DataOK'
    BY <2>1, <2>2, AppendRowType
       DEF RecordLost, TypeInv, TypeOK, DataOK, rfVars, linkVars
  <2> QED
    BY <2>2, <2>3, DoneFits, ThreadStep DEF RecordLost
<1>2. CASE spec = None
  <2>1. DataOK' /\ Done(c)
    BY <1>2 DEF RecordLost, TypeInv, TypeOK, DataOK, ledgerVars, rfVars, linkVars
  <2> QED
    BY <2>1, DoneFits, ThreadStep DEF RecordLost
<1> QED
  BY <1>1, <1>2

LEMMA RecordDecisionTypeInv ==
  ASSUME TypeInv, NEW c \in Clients, RecordDecision(c)
  PROVE  TypeInv'
<1>0. /\ job[c] \in Job /\ Fit("record", job[c]) /\ ledger # None
  BY ThreadFacts DEF RecordDecision, NeedsLedger
<1> DEFINE row == [kind |-> "decision", seq |-> job[c].seq, spec |-> job[c].spec,
                   hz |-> None, hop |-> None, meas |-> None]
<1>1. row \in Row /\ job[c].exp \in Exps
  BY <1>0 DEF Row, Job, Fit
<1>2. AppendRow(job[c].exp, row)
  BY DEF RecordDecision
<1> HIDE DEF row
<1>3. DataOK'
  BY <1>1, <1>2, AppendRowType
     DEF RecordDecision, TypeInv, TypeOK, DataOK, rfVars, linkVars
<1>4. CASE job[c].op = "finish" /\ Move(c, "outcome")
  <2>1. "outcome" \in Places /\ Fit("outcome", job[c])
    BY <1>0, <1>4 DEF Places, Fit, Measures
  <2> QED
    BY <1>0, <1>3, <1>4, <2>1, ThreadStep DEF RecordDecision, Move
<1>5. CASE Done(c)
  BY <1>3, <1>5, DoneFits, ThreadStep DEF RecordDecision
<1> QED
  BY <1>4, <1>5 DEF RecordDecision

LEMMA AnnotateTypeInv ==
  ASSUME TypeInv, NEW c \in Clients, NEW n \in NoteSeqs, Annotate(c, n)
  PROVE  TypeInv'
<1> DEFINE row == [kind |-> "annotation", seq |-> n, spec |-> None,
                   hz |-> None, hop |-> None, meas |-> None]
<1>1. row \in Row /\ ledger \in Exps
  BY SessionAssumption DEF Annotate, Row, TypeInv, TypeOK, DataOK
<1>2. AppendRow(ledger, row)
  BY DEF Annotate
<1> HIDE DEF row
<1>3. DataOK'
  BY <1>1, <1>2, AppendRowType
     DEF Annotate, TypeInv, TypeOK, DataOK, rfVars, linkVars
<1> QED
  BY <1>3 DEF Annotate, TypeInv, TypeOK, ThreadsOK, JobsFit

LEMMA FinishTypeInv ==
  ASSUME TypeInv, NEW c \in Clients, Finish(c)
  PROVE  TypeInv'
<1> DEFINE j == [NoJob EXCEPT !.op = "finish"]
<1>1. PICK p \in {"number", "outcome"} : Become(c, p, j)
  BY DEF Finish
<1>2. /\ j \in Job /\ p \in Places
      /\ Fit(p, j)
  BY <1>1, NoJobFits DEF Job, NoJob, Ops, Places, Fit, Measures
<1>3. DataOK' /\ ledger' = ledger /\ ledger # None
  BY DEF Finish, TypeInv, TypeOK, DataOK, ledgerVars, rfVars, linkVars
<1> HIDE DEF j
<1> QED
  BY <1>1, <1>2, <1>3, ThreadStep

LEMMA OutcomeTypeInv ==
  ASSUME TypeInv, NEW c \in Clients, Outcome(c)
  PROVE  TypeInv'
<1> DEFINE j == [job[c] EXCEPT !.count = Len(log[ledger])]
<1>0. /\ job[c] \in Job /\ Fit("outcome", job[c]) /\ ledger # None
  BY ThreadFacts DEF Outcome, Fit, NeedsLedger
<1>1. Len(log[ledger]) \in Nat
  <2>1. log[ledger] \in Seq(Row)
    BY <1>0 DEF TypeInv, TypeOK, DataOK
  <2> QED
    BY <2>1
<1>2. j \in Job /\ "conclude" \in Places /\ Fit("conclude", j) /\ Become(c, "conclude", j)
  BY <1>0, <1>1 DEF Outcome, Job, Places, Fit, Measures
<1>3. DataOK' /\ ledger' = ledger
  BY DEF Outcome, TypeInv, TypeOK, DataOK, ledgerVars, rfVars, linkVars
<1> HIDE DEF j
<1> QED
  BY <1>0, <1>2, <1>3, ThreadStep

LEMMA ConcludeTypeInv ==
  ASSUME TypeInv, NEW c \in Clients, Conclude(c)
  PROVE  TypeInv'
<1>1. job[c].count \in Nat
  BY ThreadFacts DEF Job
<1>2. DataOK' /\ ledger' = ledger /\ Done(c)
  BY <1>1 DEF Conclude, TypeInv, TypeOK, DataOK, rfVars, linkVars
<1> QED
  BY <1>2, DoneFits, ThreadStep

-------------------------------------------------------------------------------
LEMMA NextTypeInv == TypeInv /\ [Next]_vars => TypeInv'
<1> SUFFICES ASSUME TypeInv, [Next]_vars PROVE TypeInv'
  OBVIOUS
<1>1. CASE UNCHANGED vars
  BY <1>1 DEF vars, TypeInv, TypeOK, DataOK, ThreadsOK, JobsFit
<1>2. ASSUME NEW c \in Clients, Choose(c) PROVE TypeInv'
  BY <1>2, ChangeTypeInv, ResetTypeInv, AdoptTypeInv DEF Choose
<1>3. ASSUME NEW c \in Clients, Steer(c) PROVE TypeInv'
  BY <1>3, BuildTypeInv, RetuneTypeInv, HopOnTypeInv, HopOffTypeInv, SenseTypeInv,
     DiagnoseTypeInv DEF Steer
<1>4. ASSUME NEW c \in Clients, Measure(c) PROVE TypeInv'
  BY <1>4, StartRunTypeInv, ApplyTypeInv, TuneTypeInv, FlyTypeInv, HopTypeInv,
     CaptureTypeInv, GradeTypeInv, SearchTypeInv DEF Measure
<1>5. ASSUME NEW c \in Clients, Journal(c) PROVE TypeInv'
  BY <1>5, NumberTypeInv, RecordRunTypeInv, RecordLostTypeInv, RecordDecisionTypeInv,
     AnnotateTypeInv, FinishTypeInv, OutcomeTypeInv, ConcludeTypeInv DEF Journal
<1> QED
  BY <1>1, <1>2, <1>3, <1>4, <1>5 DEF Next

(* However many clients interleave and whatever the radios do, every variable  *)
(* keeps its type, and every thread only ever waits where its locals fit.      *)
THEOREM TypeInvariance == Spec => []TypeInv
BY InitTypeInv, NextTypeInv, PTL DEF Spec

THEOREM TypeCorrect == Spec => []TypeOK
<1>1. TypeInv => TypeOK
  BY DEF TypeInv
<1> QED
  BY <1>1, TypeInvariance, PTL

-------------------------------------------------------------------------------
(* Only its own thread touches a flight: what it has flown and what is left of *)
(* it always add up to what it set out to take.                                *)
Towards(p, j, place) == p = place \/ (p = "tune" /\ j.next = place)

Flight(p, j) ==
  /\ p = "apply" \/ Towards(p, j, "fly") => j.flown = <<>> /\ j.left = <<>>
  /\ p = "hop" => Len(j.flown) + Len(j.left) = j.want
  /\ Towards(p, j, "capture") => Len(j.flown) + Len(j.left) + 1 = j.want
  /\ Towards(p, j, "grade") => j.left = <<>> /\ Len(j.flown) = j.want
  /\ p = "search" => j.left = <<>>
  /\ j.op = "run" /\ p \in {"number", "record"} => Len(j.flown) = j.want
  /\ j.op = "run" => ~(p = "tune" /\ j.next = "number")

Flights == \A c \in Clients : Flight(at[c], job[c])

FlightInv == Flights /\ WholeFlightsOnly

LEMMA OthersFly ==
  ASSUME TypeInv, Flights, NEW c \in Clients, NEW p, NEW j, Become(c, p, j), Flight(p, j)
  PROVE  Flights'
<1> SUFFICES ASSUME NEW d \in Clients PROVE Flight(at'[d], job'[d])
  BY DEF Flights, Flight, Towards
<1>1. /\ at' = [at EXCEPT ![c] = p] /\ job' = [job EXCEPT ![c] = j]
      /\ at \in [Clients -> Places] /\ job \in [Clients -> Job]
  BY DEF Become, TypeInv, TypeOK, ThreadsOK
<1>2. CASE d = c
  <2>1. at'[d] = p /\ job'[d] = j
    BY <1>1, <1>2
  <2> QED
    BY <2>1
<1>3. CASE d # c
  <2>1. at'[d] = at[d] /\ job'[d] = job[d]
    BY <1>1, <1>3
  <2> QED
    BY <2>1 DEF Flights
<1> QED
  BY <1>2, <1>3

LEMMA OneMore ==
  ASSUME NEW a \in Nat, NEW b \in Nat
  PROVE  (a + 1) + b = a + b + 1
OBVIOUS

LEMMA NoFlight == Flight("idle", NoJob)
BY DEF Flight, Towards, NoJob

LEMMA DoneFlies ==
  ASSUME TypeInv, Flights, NEW c \in Clients, Done(c)
  PROVE  Flights'
BY OthersFly, NoFlight DEF Done

(* A flight that a radio ends is not a run any more.                           *)
LEMMA LostFlies ==
  ASSUME TypeInv, Flights, NEW c \in Clients, Lost(c)
  PROVE  Flights'
<1>0. job[c] \in Job
  BY ThreadFacts
<1>1. CASE Become(c, "number", [job[c] EXCEPT !.op = "lost"])
  <2>1. Flight("number", [job[c] EXCEPT !.op = "lost"])
    BY <1>0 DEF Flight, Towards, Job
  <2> QED
    BY <1>1, <2>1, OthersFly
<1>2. CASE job[c].op = "change" /\ Move(c, "adopt")
  <2>1. Flight("adopt", job[c])
    BY <1>2 DEF Flight, Towards
  <2> QED
    BY <1>2, <2>1, OthersFly DEF Move
<1> QED
  BY <1>1, <1>2, DoneFlies DEF Lost

-------------------------------------------------------------------------------
LEMMA ChooseFlies ==
  ASSUME TypeInv, Flights, NEW c \in Clients, Choose(c)
  PROVE  Flights'
<1>0. job[c] \in Job /\ Fit(at[c], job[c])
  BY ThreadFacts
<1>1. ASSUME NEW e \in Exps, Change(c, e) PROVE Flights'
  <2>1. [NoJob EXCEPT !.op = "change", !.exp = e].op = "change"
    BY DEF NoJob
  <2>2. Flight("reset", [NoJob EXCEPT !.op = "change", !.exp = e])
    BY <2>1 DEF Flight, Towards
  <2> QED
    BY <1>1, <2>2, OthersFly DEF Change
<1>2. CASE Reset(c)
  <2>1. job[c].op = "change"
    BY <1>0, <1>2 DEF Reset, Fit
  <2>2. Flight("tune", [job[c] EXCEPT !.to = Declared, !.next = "adopt"])
    BY <1>0, <2>1 DEF Flight, Towards, Job
  <2>3. Flight("adopt", job[c])
    BY <2>1 DEF Flight, Towards
  <2> QED
    BY <1>2, <2>2, <2>3, OthersFly DEF Reset, Move
<1>3. CASE Adopt(c)
  BY <1>3, DoneFlies DEF Adopt
<1> QED
  BY <1>1, <1>2, <1>3 DEF Choose

LEMMA SteerFlies ==
  ASSUME TypeInv, Flights, NEW c \in Clients, Steer(c)
  PROVE  Flights'
<1>1. ASSUME NEW s \in Specs, Build(c, s) PROVE Flights'
  BY <1>1 DEF Build, Flights
<1>2. ASSUME NEW f \in Chans, Retune(c, f) PROVE Flights'
  <2>1. Flight("tune", [NoJob EXCEPT !.op = "decision", !.to = f, !.next = "number"])
    BY DEF Flight, Towards, NoJob
  <2> QED
    BY <1>2, <2>1, OthersFly DEF Retune
<1>3. Flight("number", [NoJob EXCEPT !.op = "decision"])
  BY DEF Flight, Towards, NoJob
<1>4. ASSUME NEW p \in HopPlans, HopOn(c, p) PROVE Flights'
  BY <1>3, <1>4, OthersFly DEF HopOn
<1>5. CASE HopOff(c)
  BY <1>3, <1>5, OthersFly DEF HopOff, Flights
<1>6. CASE Sense(c)
  BY <1>3, <1>6, OthersFly, LostFlies DEF Sense
<1>7. CASE Diagnose(c)
  <2>1. Flight("number", [NoJob EXCEPT !.op = "decision", !.spec = spec])
    BY DEF Flight, Towards, NoJob
  <2> QED
    BY <1>7, <2>1, OthersFly DEF Diagnose
<1> QED
  BY <1>1, <1>2, <1>4, <1>5, <1>6, <1>7 DEF Steer

LEMMA MeasureFlies ==
  ASSUME TypeInv, Flights, NEW c \in Clients, Measure(c)
  PROVE  Flights'
<1>0. /\ job[c] \in Job /\ Fit(at[c], job[c]) /\ Flight(at[c], job[c])
      /\ plan \in HopPlans \cup {None}
  BY ThreadFacts DEF Flights, TypeInv, TypeOK, DataOK
<1>1. CASE StartRun(c)
  <2>1. ASSUME NEW op \in {"run", "bo"}
        PROVE  Flight("apply", [NoJob EXCEPT !.op = op, !.exp = ledger, !.spec = spec])
    BY DEF Flight, Towards, NoJob
  <2> QED
    BY <1>1, <2>1, OthersFly DEF StartRun
<1>2. CASE Apply(c)
  <2>1. Flight("fly", job[c]) /\ Flight("tune", [job[c] EXCEPT !.to = agentHz, !.next = "fly"])
    BY <1>0, <1>2 DEF Apply, Flight, Towards, Job
  <2> QED
    BY <1>2, <2>1, OthersFly, LostFlies DEF Apply, Move
<1>3. CASE Tune(c)
  <2>1. Flight(job[c].next, job[c])
    BY <1>0, <1>3 DEF Tune, Flight, Towards, Fit
  <2> QED
    BY <1>3, <2>1, OthersFly, LostFlies DEF Tune, Move
<1>4. CASE Fly(c)
  <2>1. job[c].flown = <<>> /\ job[c].left = <<>>
    BY <1>0, <1>4 DEF Fly, Flight, Towards
  <2>2. Flight("capture", [job[c] EXCEPT !.want = 1])
    <3> DEFINE j == [job[c] EXCEPT !.want = 1]
    <3>1. j.flown = <<>> /\ j.left = <<>> /\ j.want = 1
      BY <1>0, <2>1 DEF Job
    <3>2. Len(j.flown) = 0 /\ Len(j.left) = 0
      BY <3>1
    <3> HIDE DEF j
    <3>3. Flight("capture", j)
      BY <3>1, <3>2 DEF Flight, Towards
    <3> QED
      BY <3>3 DEF j
  <2>3. ASSUME Hopping
        PROVE  Flight("hop", [job[c] EXCEPT !.left = plan, !.want = Len(plan), !.orig = tuned])
    <3>1. plan \in Seq(Chans) /\ Len(plan) \in Nat
      BY <1>0, <2>3, SessionAssumption DEF Hopping
    <3> QED
      BY <1>0, <2>1, <3>1 DEF Flight, Towards, Job
  <2> QED
    BY <1>4, <2>2, <2>3, OthersFly DEF Fly
<1>5. CASE Hop(c)
  <2> DEFINE j == [job[c] EXCEPT !.to = Head(job[c].left), !.left = Tail(@), !.next = "capture"]
  <2>1. /\ job[c].left # <<>> /\ job[c].left \in Seq(Chans) /\ job[c].flown \in Seq(Chans)
        /\ Len(job[c].flown) + Len(job[c].left) = job[c].want
    BY <1>0, <1>5 DEF Hop, Fit, Flight, Job
  <2>2. Len(Tail(job[c].left)) = Len(job[c].left) - 1
    BY <2>1
  <2>3. /\ j.flown = job[c].flown /\ j.want = job[c].want /\ j.next = "capture"
        /\ j.left = Tail(job[c].left)
    BY <1>0 DEF Job
  <2>4. Flight("tune", j)
    <3>1. Len(j.flown) + Len(j.left) + 1 = j.want
      <4>1. Len(job[c].left) \in Nat /\ Len(job[c].flown) \in Nat
        BY <2>1
      <4>2. Len(j.flown) = Len(job[c].flown) /\ Len(j.left) = Len(job[c].left) - 1
        BY <2>2, <2>3
      <4> HIDE DEF j
      <4>3. Len(j.flown) + Len(j.left) + 1 = Len(job[c].flown) + Len(job[c].left)
        BY <4>1, <4>2
      <4> QED
        BY <2>1, <2>3, <4>3
    <3> HIDE DEF j
    <3> QED
      BY <2>3, <3>1 DEF Flight, Towards
  <2> QED
    BY <1>5, <2>4, OthersFly DEF Hop
<1>6. CASE Capture(c)
  <2> DEFINE j == [job[c] EXCEPT !.flown = Append(@, lo)]
  <2>1. /\ job[c].left \in Seq(Chans) /\ job[c].flown \in Seq(Chans) /\ job[c].want \in Nat
        /\ Len(job[c].flown) + Len(job[c].left) + 1 = job[c].want
    BY <1>0, <1>6 DEF Capture, Flight, Towards, Job
  <2>2. j \in Job /\ Len(j.flown) = Len(job[c].flown) + 1
        /\ j.left = job[c].left /\ j.want = job[c].want /\ j.orig = job[c].orig
    <3>1. lo \in Chans
      BY DEF TypeInv, TypeOK, DataOK
    <3>2. /\ Append(job[c].flown, lo) \in Seq(Chans)
          /\ Len(Append(job[c].flown, lo)) = Len(job[c].flown) + 1
      BY <2>1, <3>1
    <3>3. j \in Job
      BY <1>0, <3>2 DEF Job
    <3>4. /\ j.flown = Append(job[c].flown, lo)
          /\ j.left = job[c].left /\ j.want = job[c].want /\ j.orig = job[c].orig
      BY <1>0 DEF Job
    <3> HIDE DEF j
    <3> QED
      BY <3>2, <3>3, <3>4
  <2>3. Flight("hop", j)
    <3>1. Len(j.flown) + Len(j.left) = j.want
      <4>1. Len(job[c].left) \in Nat /\ Len(job[c].flown) \in Nat
        BY <2>1
      <4>2. Len(j.flown) = Len(job[c].flown) + 1 /\ Len(j.left) = Len(job[c].left)
        BY <2>2
      <4> HIDE DEF j
      <4>3. (Len(job[c].flown) + 1) + Len(job[c].left)
              = Len(job[c].flown) + Len(job[c].left) + 1
        BY <4>1, OneMore, Zenon
      <4>4. j.want = Len(job[c].flown) + Len(job[c].left) + 1
        BY <2>1, <2>2, Zenon
      <4> QED
        BY <4>2, <4>3, <4>4, Zenon
    <3> HIDE DEF j
    <3> QED
      BY <3>1 DEF Flight, Towards
  <2>4. ASSUME job[c].left = <<>>
        PROVE  Flight("grade", j) /\ Flight("tune", [j EXCEPT !.to = j.orig, !.next = "grade"])
    <3>1. Len(job[c].left) = 0
      BY <2>4
    <3>2. j.left = <<>> /\ Len(j.flown) = j.want
      BY <2>1, <2>2, <2>4, <3>1
    <3> HIDE DEF j
    <3> QED
      BY <2>2, <3>2 DEF Flight, Towards, Job
  <2>5. ASSUME \/ job[c].left # <<>> /\ Become(c, "hop", j)
               \/ /\ job[c].left = <<>> /\ job[c].orig # None
                  /\ Become(c, "tune", [j EXCEPT !.to = j.orig, !.next = "grade"])
               \/ job[c].left = <<>> /\ Become(c, "grade", j)
        PROVE  Flights'
    BY <2>3, <2>4, <2>5, OthersFly
  <2>6. \/ \/ j.left # <<>> /\ Become(c, "hop", j)
           \/ /\ j.left = <<>> /\ j.orig # None
              /\ Become(c, "tune", [j EXCEPT !.to = j.orig, !.next = "grade"])
           \/ j.left = <<>> /\ j.orig = None /\ Become(c, "grade", j)
        \/ Done(c) \/ Lost(c)
    BY <1>6 DEF Capture
  <2> QED
    BY <2>2, <2>5, <2>6, DoneFlies, LostFlies
<1>7. CASE Grade(c)
  <2>1. job[c].left = <<>> /\ Len(job[c].flown) = job[c].want
    BY <1>0, <1>7 DEF Grade, Flight, Towards
  <2>2. Flight("number", job[c]) /\ Flight("search", job[c])
    BY <2>1 DEF Flight, Towards
  <2> QED
    BY <1>7, <2>2, OthersFly, DoneFlies DEF Grade, Move
<1>8. CASE Search(c)
  <2>1. job[c].left = <<>>
    BY <1>0, <1>8 DEF Search, Flight, Towards
  <2>2. Flight("apply", [job[c] EXCEPT !.count = @ + 1, !.flown = <<>>, !.orig = None])
    BY <1>0, <2>1 DEF Flight, Towards, Job
  <2>3. Flight("apply", [NoJob EXCEPT !.op = "validate", !.exp = job[c].exp, !.spec = job[c].spec])
    BY DEF Flight, Towards, NoJob
  <2> QED
    BY <1>8, <2>2, <2>3, OthersFly DEF Search
<1> QED
  BY <1>1, <1>2, <1>3, <1>4, <1>5, <1>6, <1>7, <1>8 DEF Measure

LEMMA JournalFlies ==
  ASSUME TypeInv, Flights, NEW c \in Clients, Journal(c)
  PROVE  Flights'
<1>0. job[c] \in Job /\ Flight(at[c], job[c])
  BY ThreadFacts DEF Flights
<1>1. CASE Number(c)
  <2> DEFINE j == [job[c] EXCEPT !.seq = top[ledger] + 1,
                                 !.exp = IF job[c].op = "run" THEN @ ELSE ledger]
  <2>1. j.op = job[c].op /\ j.flown = job[c].flown /\ j.want = job[c].want
    BY <1>0 DEF Job
  <2>2. Flight("record", j)
    BY <1>0, <1>1, <2>1 DEF Number, Flight, Towards
  <2>3. Done(c) \/ Become(c, "record", j)
    BY <1>1 DEF Number
  <2> QED
    BY <2>2, <2>3, OthersFly, DoneFlies
<1>2. CASE RecordRun(c) \/ RecordLost(c)
  BY <1>2, DoneFlies DEF RecordRun, RecordLost
<1>3. CASE RecordDecision(c)
  <2>1. Flight("outcome", job[c])
    BY DEF Flight, Towards
  <2> QED
    BY <1>3, <2>1, OthersFly, DoneFlies DEF RecordDecision, Move
<1>4. ASSUME NEW n \in NoteSeqs, Annotate(c, n) PROVE Flights'
  BY <1>4 DEF Annotate, Flights
<1>5. CASE Finish(c)
  <2>1. ASSUME NEW place \in {"number", "outcome"}
        PROVE  Flight(place, [NoJob EXCEPT !.op = "finish"])
    BY DEF Flight, Towards, NoJob
  <2> QED
    BY <1>5, <2>1, OthersFly DEF Finish
<1>6. CASE Outcome(c)
  <2>1. Flight("conclude", [job[c] EXCEPT !.count = Len(log[ledger])])
    BY DEF Flight, Towards
  <2> QED
    BY <1>6, <2>1, OthersFly DEF Outcome
<1>7. CASE Conclude(c)
  BY <1>7, DoneFlies DEF Conclude
<1> QED
  BY <1>1, <1>2, <1>3, <1>4, <1>5, <1>6, <1>7 DEF Journal

-------------------------------------------------------------------------------
(* Only a run that has flown all of its plan is graded or written.             *)
LEMMA WholeAppend ==
  ASSUME DataOK, WholeFlightsOnly, NEW e \in Exps, NEW row,
         row \in Row, AppendRow(e, row),
         row.kind = "run" => Len(row.meas.flown) = row.meas.want,
         last' \in {last, None}
  PROVE  WholeFlightsOnly'
<1> SUFFICES ASSUME NEW d \in Exps, NEW i \in DOMAIN log'[d], log'[d][i].kind = "run"
             PROVE  Len(log'[d][i].meas.flown) = log'[d][i].meas.want
  BY DEF WholeFlightsOnly
<1>1. log[d] \in Seq(Row)
  BY DEF DataOK
<1>2. log'[d] = IF d = e THEN Append(log[d], row) ELSE log[d]
  BY DEF AppendRow, DataOK
<1>3. (i \in DOMAIN log[d] /\ log'[d][i] = log[d][i]) \/ log'[d][i] = row
  <2>1. CASE d = e
    <3>1. log'[d] = Append(log[d], row)
      BY <1>2, <2>1
    <3> QED
      BY <1>1, <3>1
  <2>2. CASE d # e
    BY <1>2, <2>2
  <2> QED
    BY <2>1, <2>2
<1> QED
  BY <1>3 DEF WholeFlightsOnly

LEMMA WholeKept ==
  ASSUME TypeInv, FlightInv, NEW c \in Clients, Choose(c) \/ Steer(c) \/ Measure(c) \/ Journal(c)
  PROVE  WholeFlightsOnly'
<1>0. /\ job[c] \in Job /\ Flight(at[c], job[c]) /\ Fit(at[c], job[c]) /\ DataOK
      /\ NeedsLedger(at[c], job[c]) => ledger # None
  BY ThreadFacts DEF FlightInv, Flights, TypeInv, TypeOK
<1>1. CASE UNCHANGED <<log, last>>
  BY <1>1 DEF FlightInv, WholeFlightsOnly
<1>2. CASE Reset(c)
  BY <1>2 DEF Reset, ledgerVars, FlightInv, WholeFlightsOnly
<1>3. CASE Grade(c)
  <2>1. Len(job[c].flown) = job[c].want
    BY <1>0, <1>3 DEF Grade, Flight, Towards
  <2>2. Len(MeasurementOf(job[c]).flown) = MeasurementOf(job[c]).want
    BY <2>1 DEF MeasurementOf
  <2> QED
    BY <1>3, <2>2 DEF Grade, ledgerVars, FlightInv, WholeFlightsOnly
<1>4. CASE RecordRun(c) /\ spec # None
  <2> DEFINE row == [kind |-> "run", seq |-> job[c].seq, spec |-> spec,
                     hz |-> LinkHz, hop |-> agentHop, meas |-> MeasurementOf(job[c])]
  <2>1. /\ job[c].op = "run" /\ Len(job[c].flown) = job[c].want /\ ledger \in Exps
        /\ job[c].exp \in Exps /\ job[c].spec \in Specs
    BY <1>0, <1>4 DEF RecordRun, Flight, Fit, Measures, NeedsLedger, DataOK
  <2>2. MeasurementOf(job[c]) \in Measurement
    BY <1>0, <2>1 DEF Job, Measurement, MeasurementOf
  <2>3. LinkHz \in Chans \cup {None}
    BY <1>0, SessionAssumption DEF LinkHz, DataOK
  <2>4. row \in Row
    BY <1>0, <2>2, <2>3 DEF Row, Job, DataOK
  <2>5. Len(row.meas.flown) = row.meas.want
    BY <2>1 DEF MeasurementOf
  <2>6. AppendRow(ledger, row) /\ UNCHANGED last
    BY <1>4 DEF RecordRun, ledgerVars
  <2> HIDE DEF row
  <2> QED
    BY <1>0, <2>1, <2>4, <2>5, <2>6, WholeAppend DEF FlightInv
<1>5. CASE RecordLost(c) /\ spec # None
  <2> DEFINE row == [kind |-> "aborted", seq |-> job[c].seq, spec |-> spec,
                     hz |-> None, hop |-> None, meas |-> None]
  <2>1. job[c].exp \in Exps
    BY <1>0, <1>5 DEF RecordLost, Fit
  <2>2. AppendRow(job[c].exp, row) /\ last' = None
    BY <1>5 DEF RecordLost, ledgerVars
  <2>3. row \in Row /\ row.kind # "run"
    BY <1>0 DEF Row, Job, DataOK
  <2> HIDE DEF row
  <2> QED
    BY <1>0, <2>1, <2>2, <2>3, WholeAppend DEF FlightInv
<1>6. CASE RecordDecision(c)
  <2> DEFINE row == [kind |-> "decision", seq |-> job[c].seq, spec |-> job[c].spec,
                     hz |-> None, hop |-> None, meas |-> None]
  <2>1. job[c].exp \in Exps
    BY <1>0, <1>6 DEF RecordDecision, Fit
  <2>2. AppendRow(job[c].exp, row) /\ UNCHANGED last
    BY <1>6 DEF RecordDecision
  <2>3. row \in Row /\ row.kind # "run"
    BY <1>0 DEF Row, Job
  <2> HIDE DEF row
  <2> QED
    BY <1>0, <2>1, <2>2, <2>3, WholeAppend DEF FlightInv
<1>7. ASSUME NEW n \in NoteSeqs, Annotate(c, n) PROVE WholeFlightsOnly'
  <2> DEFINE row == [kind |-> "annotation", seq |-> n, spec |-> None,
                     hz |-> None, hop |-> None, meas |-> None]
  <2>1. AppendRow(ledger, row) /\ UNCHANGED last /\ ledger \in Exps
    BY <1>0, <1>7 DEF Annotate, DataOK
  <2>2. row \in Row /\ row.kind # "run"
    BY SessionAssumption DEF Row
  <2> HIDE DEF row
  <2> QED
    BY <1>0, <2>1, <2>2, WholeAppend DEF FlightInv
<1>8. ASSUME Choose(c) \/ Steer(c) \/ Measure(c)
      PROVE  UNCHANGED <<log, last>> \/ Reset(c) \/ Grade(c)
  BY <1>8 DEF Choose, Change, Adopt, Steer, Build, Retune, HopOn, HopOff, Sense, Diagnose,
     Measure, StartRun, Apply, Tune, Fly, Hop, Capture, Search, ledgerVars
<1>9. ASSUME Journal(c)
      PROVE  \/ UNCHANGED <<log, last>>
             \/ RecordRun(c) /\ spec # None
             \/ (RecordLost(c) /\ spec # None) \/ RecordDecision(c)
             \/ \E n \in NoteSeqs : Annotate(c, n)
  BY <1>9 DEF Journal, Number, RecordRun, RecordLost, Finish, Outcome, Conclude, ledgerVars
<1> QED
  BY <1>1, <1>2, <1>3, <1>4, <1>5, <1>6, <1>7, <1>8, <1>9

LEMMA FlightStep == TypeInv /\ FlightInv /\ [Next]_vars => FlightInv'
<1> SUFFICES ASSUME TypeInv, FlightInv, [Next]_vars PROVE FlightInv'
  OBVIOUS
<1>1. CASE UNCHANGED vars
  BY <1>1 DEF vars, FlightInv, Flights, WholeFlightsOnly
<1>2. ASSUME NEW c \in Clients, Choose(c) \/ Steer(c) \/ Measure(c) \/ Journal(c)
      PROVE  FlightInv'
  <2>1. Flights'
    BY <1>2, ChooseFlies, SteerFlies, MeasureFlies, JournalFlies DEF FlightInv
  <2> QED
    BY <1>2, <2>1, WholeKept DEF FlightInv
<1> QED
  BY <1>1, <1>2 DEF Next

LEMMA FlightInvariance == Spec => []FlightInv
<1>1. Init => FlightInv
  <2> SUFFICES ASSUME Init PROVE FlightInv
    OBVIOUS
  <2>1. Flights
    BY NoFlight DEF Init, Flights
  <2> QED
    BY <2>1 DEF Init, FlightInv, WholeFlightsOnly
<1> QED
  BY <1>1, FlightStep, TypeInvariance, PTL DEF Spec

(* However requests interleave and whatever fails, a cycle that a fault cut    *)
(* short is never graded, recorded or kept as the last result.                 *)
THEOREM OnlyWholeFlights == Spec => []WholeFlightsOnly
<1>1. FlightInv => WholeFlightsOnly
  BY DEF FlightInv
<1> QED
  BY <1>1, FlightInvariance, PTL

-------------------------------------------------------------------------------
(* From here on for one client at a time.                                      *)
Alone == \A c, d \in Clients : c = d

-------------------------------------------------------------------------------
(* What the one thread holds agrees with the session it read it from.          *)
Steady(c) ==
  /\ Idle(c) => job[c].op = "none"
  /\ Measures(job[c]) => job[c].exp = ledger /\ job[c].spec = spec
  /\ job[c].op = "change" /\ at[c] # "reset" => last = None /\ tuning = None
  /\ at[c] = "record" => job[c].exp = ledger /\ job[c].seq = top[ledger] + 1
  /\ at[c] = "conclude" => job[c].count = Len(log[ledger])

Current == LastResultIsCurrent /\ TuningFitsStructure

(* MAX(seq) bounds every number, so one more than it is a new one.             *)
Rows == \A e \in Exps : \A i \in DOMAIN log[e] : log[e][i].seq <= top[e]

SerialInv == (\A c \in Clients : Steady(c)) /\ Current /\ Rows

-------------------------------------------------------------------------------
LEMMA Moved ==
  ASSUME TypeInv, NEW c \in Clients, NEW p, NEW j, Become(c, p, j)
  PROVE  at'[c] = p /\ job'[c] = j
BY DEF Become, TypeInv, TypeOK, ThreadsOK

LEMMA RowsKept ==
  ASSUME Rows, UNCHANGED <<log, top>>
  PROVE  Rows'
BY DEF Rows

(* The only thread is the one that moved.                                      *)
LEMMA AloneStep ==
  ASSUME Alone, NEW c \in Clients, Steady(c)', Current', Rows'
  PROVE  SerialInv'
<1>1. \A d \in Clients : d = c
  BY DEF Alone
<1> QED
  BY <1>1 DEF SerialInv, Steady, Idle

LEMMA InitSerialInv == Init => SerialInv
<1> SUFFICES ASSUME Init PROVE SerialInv
  OBVIOUS
<1>1. \A c \in Clients : Steady(c)
  BY DEF Init, NoJob, Steady, Idle, Measures
<1>2. Current
  BY DEF Init, Current, LastResultIsCurrent, TuningFitsStructure
<1>3. Rows
  BY DEF Init, Rows
<1> QED
  BY <1>1, <1>2, <1>3 DEF SerialInv

(* Choosing an experiment.                                                     *)
LEMMA ChooseSerial ==
  ASSUME Alone, TypeInv, SerialInv, NEW c \in Clients, Choose(c)
  PROVE  SerialInv'
<1>0. Steady(c) /\ Current /\ Rows
  BY DEF SerialInv
<1>1. ASSUME NEW e \in Exps, Change(c, e) PROVE SerialInv'
  <2>1. at'[c] = "reset" /\ job'[c] = [NoJob EXCEPT !.op = "change", !.exp = e]
    BY <1>1, Moved DEF Change
  <2>2. Steady(c)'
    BY <2>1 DEF Steady, Idle, Measures, NoJob
  <2>3. Current' /\ Rows'
    BY <1>0, <1>1, RowsKept DEF Change, Current, LastResultIsCurrent, TuningFitsStructure
  <2> QED
    BY <2>2, <2>3, AloneStep
<1>2. CASE Reset(c)
  <2>1. /\ job[c] \in Job /\ job[c].op = "change"
        /\ at'[c] \in {"tune", "adopt"} /\ job'[c].op = job[c].op
    <3>1. job[c] \in Job /\ job[c].op = "change"
      BY <1>2, ThreadFacts DEF Reset, Fit
    <3>2. \/ /\ at'[c] = "tune"
             /\ job'[c] = [job[c] EXCEPT !.to = Declared, !.next = "adopt"]
          \/ at'[c] = "adopt" /\ job'[c] = job[c]
      BY <1>2, Moved DEF Reset, Move
    <3> QED
      BY <3>1, <3>2 DEF Job
  <2>2. last' = None /\ tuning' = None
    BY <1>2 DEF Reset
  <2>3. Steady(c)'
    BY <2>1, <2>2 DEF Steady, Idle, Measures
  <2>4. Current' /\ Rows'
    BY <1>0, <1>2, <2>2, RowsKept
       DEF Reset, ledgerVars, Current, LastResultIsCurrent, TuningFitsStructure
  <2> QED
    BY <2>3, <2>4, AloneStep
<1>3. CASE Adopt(c)
  <2>1. job[c].op = "change" /\ last = None /\ tuning = None
    BY <1>0, <1>3, ThreadFacts DEF Adopt, Fit, Steady
  <2>2. at'[c] = "idle" /\ job'[c] = NoJob
    BY <1>3, Moved DEF Adopt, Done
  <2>3. Steady(c)'
    BY <2>2 DEF Steady, Idle, Measures, NoJob
  <2>4. Current' /\ Rows'
    BY <1>0, <1>3, <2>1, RowsKept
       DEF Adopt, ledgerVars, Current, LastResultIsCurrent, TuningFitsStructure
  <2> QED
    BY <2>3, <2>4, AloneStep
<1> QED
  BY <1>1, <1>2, <1>3 DEF Choose

(* The agent's knobs, which a thread turns from rest.                          *)
LEMMA SteerSerial ==
  ASSUME Alone, TypeInv, SerialInv, NEW c \in Clients, Steer(c)
  PROVE  SerialInv'
<1>0. Steady(c) /\ Current /\ Rows /\ Idle(c) /\ job[c].op = "none"
  BY DEF SerialInv, Steer, Build, Retune, HopOn, HopOff, Sense, Diagnose, Steady
<1>1. ASSUME NEW s \in Specs, Build(c, s) PROVE SerialInv'
  <2>1. Steady(c)'
    BY <1>0, <1>1 DEF Build, Steady, Idle, Measures
  <2>2. Current' /\ Rows'
    BY <1>0, <1>1, RowsKept
       DEF Build, ledgerVars, Current, LastResultIsCurrent, TuningFitsStructure
  <2> QED
    BY <2>1, <2>2, AloneStep
<1>2. ASSUME ~ \E s \in Specs : Build(c, s) PROVE SerialInv'
  <2>1. Current' /\ Rows'
    <3>1. UNCHANGED <<ledger, log, top, concluded, report, spec, tuning, last>>
      BY <1>2 DEF Steer, Retune, HopOn, HopOff, Sense, Diagnose, ledgerVars
    <3> QED
      BY <1>0, <3>1, RowsKept DEF Current, LastResultIsCurrent, TuningFitsStructure
  <2>2. \/ at'[c] = "tune" /\ job'[c].op = "decision"
        \/ at'[c] = "number" /\ job'[c].op = "decision"
        \/ at'[c] = "idle" /\ job'[c].op = "none"
    <3>1. ASSUME NEW f \in Chans, Retune(c, f)
          PROVE  at'[c] = "tune" /\ job'[c].op = "decision"
      <4>1. /\ at'[c] = "tune"
            /\ job'[c] = [NoJob EXCEPT !.op = "decision", !.to = f, !.next = "number"]
        BY <3>1, Moved DEF Retune
      <4> QED
        BY <4>1 DEF NoJob
    <3>2. ASSUME Become(c, "number", [NoJob EXCEPT !.op = "decision"])
          PROVE  at'[c] = "number" /\ job'[c].op = "decision"
      BY <3>2, Moved DEF NoJob
    <3>3. ASSUME UNCHANGED <<at, job>>
          PROVE  at'[c] = "idle" /\ job'[c].op = "none"
      BY <1>0, <3>3 DEF Idle
    <3>4. ASSUME Lost(c)
          PROVE  at'[c] = "idle" /\ job'[c].op = "none"
      BY <1>0, <3>4, Moved DEF Lost, Done, NoJob
    <3>5. ASSUME Diagnose(c)
          PROVE  at'[c] = "number" /\ job'[c].op = "decision"
      <4>1. /\ at'[c] = "number"
            /\ job'[c] = [NoJob EXCEPT !.op = "decision", !.spec = spec]
        BY <3>5, Moved DEF Diagnose
      <4> QED
        BY <4>1 DEF NoJob
    <3>6. CASE \E f \in Chans : Retune(c, f)
      BY <3>1, <3>6
    <3>7. CASE \E p \in HopPlans : HopOn(c, p)
      BY <3>2, <3>7 DEF HopOn
    <3>8. CASE HopOff(c)
      BY <3>2, <3>3, <3>8 DEF HopOff
    <3>9. CASE Sense(c)
      BY <3>2, <3>4, <3>9 DEF Sense
    <3> QED
      BY <1>2, <3>5, <3>6, <3>7, <3>8, <3>9 DEF Steer
  <2>3. Steady(c)'
    BY <2>2 DEF Steady, Idle, Measures
  <2> QED
    BY <2>1, <2>3, AloneStep
<1> QED
  BY <1>1, <1>2

(* Measuring: the thread's copies of the experiment and the structure are      *)
(* still the session's, so what it leaves behind is too.                       *)
LEMMA MeasureSerial ==
  ASSUME Alone, TypeInv, SerialInv, NEW c \in Clients, Measure(c)
  PROVE  SerialInv'
<1>0. /\ Steady(c) /\ Current /\ Rows
      /\ job[c] \in Job /\ Fit(at[c], job[c])
  BY ThreadFacts DEF SerialInv
<1>1. Rows' /\ UNCHANGED <<ledger, spec, log, top>>
  <2>1. UNCHANGED <<ledger, spec, log, top, concluded, report>>
    BY DEF Measure, StartRun, Apply, Tune, Fly, Hop, Capture, Grade, Search, ledgerVars
  <2> QED
    BY <1>0, <2>1, RowsKept
<1>2. CASE StartRun(c)
  <2>1. PICK op \in {"run", "bo"} :
          Become(c, "apply", [NoJob EXCEPT !.op = op, !.exp = ledger, !.spec = spec])
    BY <1>2 DEF StartRun
  <2>2. at'[c] = "apply" /\ job'[c] = [NoJob EXCEPT !.op = op, !.exp = ledger, !.spec = spec]
    BY <2>1, Moved
  <2>3. Steady(c)'
    BY <1>1, <2>1, <2>2 DEF Steady, Idle, Measures, NoJob
  <2>4. Current'
    BY <1>0, <1>2 DEF StartRun, Current, LastResultIsCurrent, TuningFitsStructure
  <2> QED
    BY <1>1, <2>3, <2>4, AloneStep
<1>3. CASE Lost(c) /\ UNCHANGED <<last, tuning>>
  <2>1. Current'
    BY <1>0, <1>1, <1>3 DEF Current, LastResultIsCurrent, TuningFitsStructure
  <2>2. Steady(c)'
    <3>1. CASE job[c].op = "run" /\ Become(c, "number", [job[c] EXCEPT !.op = "lost"])
      <4>1. at'[c] = "number" /\ job'[c].op = "lost"
        BY <1>0, <3>1, Moved DEF Job
      <4> QED
        BY <4>1 DEF Steady, Idle, Measures
    <3>2. CASE job[c].op = "change" /\ Move(c, "adopt")
      <4>1. at'[c] = "adopt" /\ job'[c] = job[c]
        BY <3>2, Moved DEF Move
      <4>2. at[c] # "reset"
        BY DEF Measure, StartRun, Apply, Tune, Fly, Hop, Capture, Grade, Search, Idle
      <4> QED
        BY <1>0, <1>3, <3>2, <4>1, <4>2 DEF Steady, Idle, Measures
    <3>3. CASE Done(c)
      <4>1. at'[c] = "idle" /\ job'[c].op = "none"
        BY <3>3, Moved DEF Done, NoJob
      <4> QED
        BY <4>1 DEF Steady, Idle, Measures
    <3> QED
      BY <1>3, <3>1, <3>2, <3>3 DEF Lost
  <2> QED
    BY <1>1, <2>1, <2>2, AloneStep
<1>4. ASSUME /\ at'[c] \notin {"idle", "record", "conclude"}
             /\ job'[c].op = job[c].op
             /\ job'[c].exp = job[c].exp /\ job'[c].spec = job[c].spec
             /\ UNCHANGED <<last, tuning>> /\ at[c] # "reset"
      PROVE  SerialInv'
  <2>1. Steady(c)' /\ Current'
    BY <1>0, <1>1, <1>4
       DEF Steady, Idle, Measures, Current, LastResultIsCurrent, TuningFitsStructure
  <2> QED
    BY <1>1, <2>1, AloneStep
<1>5. CASE Apply(c)
  <2>1. CASE Lost(c)
    BY <1>3, <1>5, <2>1 DEF Apply
  <2>2. CASE Become(c, "tune", [job[c] EXCEPT !.to = agentHz, !.next = "fly"])
    <3>1. at'[c] = "tune" /\ job'[c] = [job[c] EXCEPT !.to = agentHz, !.next = "fly"]
      BY <2>2, Moved
    <3> QED
      BY <1>0, <1>4, <1>5, <3>1 DEF Apply, Job
  <2>3. CASE Move(c, "fly")
    BY <1>4, <1>5, <2>3, Moved DEF Apply, Move
  <2> QED
    BY <1>5, <2>1, <2>2, <2>3 DEF Apply
<1>6. CASE Tune(c)
  <2>1. CASE Lost(c)
    BY <1>3, <1>6, <2>1 DEF Tune
  <2>2. CASE Move(c, job[c].next)
    <3>1. at'[c] = job[c].next /\ job'[c] = job[c]
      BY <2>2, Moved DEF Move
    <3>2. job[c].next \in {"adopt", "number", "fly", "capture", "grade"}
      BY <1>0, <1>6 DEF Tune, Fit
    <3> QED
      BY <1>4, <1>6, <3>1, <3>2 DEF Tune
  <2> QED
    BY <1>6, <2>1, <2>2 DEF Tune
<1>7. CASE Fly(c)
  <2>1. \/ at'[c] = "capture" /\ job'[c] = [job[c] EXCEPT !.want = 1]
        \/ /\ at'[c] = "hop"
           /\ job'[c] = [job[c] EXCEPT !.left = plan, !.want = Len(plan), !.orig = tuned]
    BY <1>7, Moved DEF Fly
  <2>2. /\ job'[c].op = job[c].op /\ job'[c].exp = job[c].exp
        /\ job'[c].spec = job[c].spec
    BY <1>0, <2>1 DEF Job
  <2> QED
    BY <1>4, <1>7, <2>1, <2>2 DEF Fly
<1>8. CASE Hop(c)
  <2>1. /\ at'[c] = "tune"
        /\ job'[c] = [job[c] EXCEPT !.to = Head(job[c].left), !.left = Tail(job[c].left),
                                    !.next = "capture"]
    BY <1>8, Moved DEF Hop
  <2> QED
    BY <1>0, <1>4, <1>8, <2>1 DEF Hop, Job
<1>9. CASE Capture(c)
  <2>0. at[c] = "capture" /\ UNCHANGED <<last, tuning>>
    BY <1>9 DEF Capture
  <2>1. CASE Lost(c)
    BY <1>3, <2>0, <2>1
  <2>2. CASE Done(c)
    <3>1. at'[c] = "idle" /\ job'[c].op = "none"
      BY <2>2, Moved DEF Done, NoJob
    <3>2. Steady(c)'
      BY <3>1 DEF Steady, Idle, Measures
    <3>3. Current'
      BY <1>0, <1>1, <2>0 DEF Current, LastResultIsCurrent, TuningFitsStructure
    <3> QED
      BY <1>1, <3>2, <3>3, AloneStep
  <2> DEFINE j == [job[c] EXCEPT !.flown = Append(@, lo)]
             k == [j EXCEPT !.to = j.orig, !.next = "grade"]
  <2>3. /\ j.op = job[c].op /\ j.exp = job[c].exp /\ j.spec = job[c].spec
        /\ k.op = job[c].op /\ k.exp = job[c].exp /\ k.spec = job[c].spec
    BY <1>0 DEF Job
  <2>4. CASE Become(c, "hop", j) \/ Become(c, "grade", j) \/ Become(c, "tune", k)
    <3>1. /\ at'[c] \in {"hop", "grade", "tune"}
          /\ job'[c] = j \/ job'[c] = k
      BY <2>4, Moved
    <3> HIDE DEF j, k
    <3> QED
      BY <1>4, <2>0, <2>3, <3>1
  <2> QED
    BY <1>9, <2>1, <2>2, <2>4 DEF Capture
<1>10. CASE Grade(c)
  <2>0. at[c] = "grade" /\ UNCHANGED tuning
    BY <1>10 DEF Grade
  <2>1. CASE /\ job[c].op = "run" /\ Move(c, "number")
             /\ last' = MeasurementOf(job[c])
    <3>1. job[c].exp = ledger
      BY <1>0, <2>1 DEF Steady, Measures
    <3>2. at'[c] = "number" /\ job'[c] = job[c]
      BY <2>1, Moved DEF Move
    <3>3. Steady(c)'
      BY <1>0, <1>1, <2>1, <3>2 DEF Steady, Idle, Measures
    <3>4. Current'
      BY <1>0, <1>1, <2>0, <2>1, <3>1
         DEF Current, LastResultIsCurrent, TuningFitsStructure, MeasurementOf
    <3> QED
      BY <1>1, <3>3, <3>4, AloneStep
  <2>2. CASE Move(c, "search") /\ UNCHANGED last
    BY <1>4, <2>0, <2>2, Moved DEF Move
  <2>3. CASE Done(c) /\ UNCHANGED last
    <3>1. at'[c] = "idle" /\ job'[c].op = "none"
      BY <2>3, Moved DEF Done, NoJob
    <3>2. Steady(c)'
      BY <3>1 DEF Steady, Idle, Measures
    <3>3. Current'
      BY <1>0, <1>1, <2>0, <2>3 DEF Current, LastResultIsCurrent, TuningFitsStructure
    <3> QED
      BY <1>1, <3>2, <3>3, AloneStep
  <2> QED
    BY <1>10, <2>1, <2>2, <2>3 DEF Grade
<1>11. CASE Search(c)
  <2>0. /\ job[c].op = "bo" /\ job[c].exp = ledger /\ job[c].spec = spec
        /\ at[c] = "search" /\ UNCHANGED last
    BY <1>0, <1>11 DEF Search, Fit, Steady, Measures
  <2>1. CASE /\ UNCHANGED tuning
             /\ Become(c, "apply", [job[c] EXCEPT !.count = @ + 1, !.flown = <<>>,
                                                  !.orig = None])
    <3>1. /\ at'[c] = "apply"
          /\ job'[c] = [job[c] EXCEPT !.count = @ + 1, !.flown = <<>>, !.orig = None]
      BY <2>1, Moved
    <3> QED
      BY <1>0, <1>4, <2>0, <2>1, <3>1 DEF Job
  <2>2. CASE /\ tuning' = [exp |-> job[c].exp, spec |-> job[c].spec]
             /\ Become(c, "apply", [NoJob EXCEPT !.op = "validate", !.exp = job[c].exp,
                                                 !.spec = job[c].spec])
    <3>1. /\ at'[c] = "apply"
          /\ job'[c] = [NoJob EXCEPT !.op = "validate", !.exp = job[c].exp,
                                     !.spec = job[c].spec]
      BY <2>2, Moved
    <3>2. Steady(c)'
      BY <1>1, <2>0, <3>1 DEF Steady, Idle, Measures, NoJob
    <3>3. Current'
      BY <1>0, <1>1, <2>0, <2>2 DEF Current, LastResultIsCurrent, TuningFitsStructure
    <3> QED
      BY <1>1, <3>2, <3>3, AloneStep
  <2> QED
    BY <1>11, <2>1, <2>2 DEF Search
<1> QED
  BY <1>2, <1>5, <1>6, <1>7, <1>8, <1>9, <1>10, <1>11 DEF Measure

(* A row lands at the end of one log, above every number in it or not.         *)
LEMMA RowWritten ==
  ASSUME DataOK, Rows, NEW e \in Exps, NEW row \in Row, AppendRow(e, row)
  PROVE  Rows'
<1>1. ASSUME NEW d \in Exps, NEW i \in DOMAIN log'[d]
      PROVE  \/ /\ i \in DOMAIN log[d]
                /\ log'[d][i] = log[d][i]
             \/ d = e /\ log'[d][i] = row
  <2>1. log[d] \in Seq(Row)
    BY DEF DataOK
  <2>2. CASE d = e
    <3>1. log'[d] = Append(log[d], row)
      BY <2>2 DEF AppendRow, DataOK
    <3>2. i \in 1 .. Len(log[d]) + 1
      BY <2>1, <3>1
    <3> QED
      BY <2>1, <2>2, <3>1, <3>2
  <2>3. CASE d # e
    <3>1. log'[d] = log[d]
      BY <2>3 DEF AppendRow, DataOK
    <3> QED
      BY <3>1
  <2> QED
    BY <2>2, <2>3
<1> QED
  <2> SUFFICES ASSUME NEW d \in Exps, NEW i \in DOMAIN log'[d]
               PROVE  log'[d][i].seq <= top'[d]
    BY DEF Rows
  <2>1. top[d] \in Nat /\ row.seq \in Nat
    BY DEF DataOK, Row
  <2>2. top'[d] = IF d = e /\ row.seq > top[d] THEN row.seq ELSE top[d]
    BY DEF AppendRow, DataOK
  <2>3. CASE log'[d][i] = row /\ d = e
    BY <2>1, <2>2, <2>3
  <2>4. CASE i \in DOMAIN log[d] /\ log'[d][i] = log[d][i]
    <3>0. log[d] \in Seq(Row) /\ log[d][i] \in Row
      BY <2>4 DEF DataOK
    <3>1. log[d][i].seq <= top[d] /\ log[d][i].seq \in Nat
      BY <2>4, <3>0 DEF Rows, Row
    <3> QED
      BY <2>1, <2>2, <2>4, <3>1
  <2> QED
    BY <1>1, <2>3, <2>4

(* Writing rows: the number read is still the next one, and the experiment and *)
(* the structure read again are still the ones measured.                       *)
LEMMA JournalSerial ==
  ASSUME Alone, TypeInv, SerialInv, NEW c \in Clients, Journal(c)
  PROVE  SerialInv'
<1>0. /\ Steady(c) /\ Current /\ Rows /\ DataOK
      /\ job[c] \in Job /\ Fit(at[c], job[c])
      /\ NeedsLedger(at[c], job[c]) => ledger # None
  BY ThreadFacts DEF SerialInv, TypeInv, TypeOK
<1>1. UNCHANGED <<ledger, spec, tuning>> /\ (last' = last \/ last' = None)
  BY DEF Journal, Number, RecordRun, RecordLost, RecordDecision, Annotate, Finish,
         Outcome, Conclude
<1>2. Current'
  BY <1>0, <1>1 DEF Current, LastResultIsCurrent, TuningFitsStructure
<1>3. ASSUME Done(c), Rows' PROVE SerialInv'
  <2>1. at'[c] = "idle" /\ job'[c].op = "none"
    BY <1>3, Moved DEF Done, NoJob
  <2>2. Steady(c)'
    BY <2>1 DEF Steady, Idle, Measures
  <2> QED
    BY <1>2, <1>3, <2>2, AloneStep
<1>4. CASE Number(c)
  <2>1. CASE Done(c)
    <3>1. Rows'
      BY <1>0, <1>4, RowsKept DEF Number, ledgerVars
    <3> QED
      BY <1>3, <2>1, <3>1
  <2>2. CASE /\ ledger # None
             /\ Become(c, "record", [job[c] EXCEPT !.seq = top[ledger] + 1,
                           !.exp = IF job[c].op = "run" THEN job[c].exp ELSE ledger])
    <3>1. /\ at'[c] = "record"
          /\ job'[c] = [job[c] EXCEPT !.seq = top[ledger] + 1,
                           !.exp = IF job[c].op = "run" THEN job[c].exp ELSE ledger]
      BY <2>2, Moved
    <3>2. /\ job'[c].op = job[c].op /\ job'[c].spec = job[c].spec
          /\ job'[c].exp = ledger /\ job'[c].seq = top[ledger] + 1
      BY <1>0, <3>1 DEF Job, Steady, Measures
    <3>3. UNCHANGED <<top, log>> /\ Rows'
      BY <1>0, <1>4, RowsKept DEF Number, ledgerVars
    <3>4. job[c].op # "change" \/ (last = None /\ tuning = None)
      BY <1>0, <1>4 DEF Number, Steady
    <3>5. UNCHANGED last
      BY <1>4 DEF Number
    <3>6. Steady(c)'
      BY <1>0, <1>1, <3>1, <3>2, <3>3, <3>4, <3>5 DEF Steady, Idle, Measures
    <3> QED
      BY <1>2, <3>3, <3>6, AloneStep
  <2> QED
    BY <1>4, <2>1, <2>2 DEF Number
<1>5. CASE RecordRun(c)
  <2>1. job[c].exp = ledger /\ job[c].spec = spec /\ ledger \in Exps
    BY <1>0, <1>5 DEF RecordRun, Steady, Measures, NeedsLedger, DataOK
  <2>2. CASE spec # None
    <3> DEFINE row == [kind |-> "run", seq |-> job[c].seq, spec |-> spec,
                       hz |-> LinkHz, hop |-> agentHop, meas |-> MeasurementOf(job[c])]
    <3>1. MeasurementOf(job[c]) \in Measurement
      BY <1>0, <2>1, <2>2 DEF Job, Measurement, MeasurementOf, DataOK
    <3>2. LinkHz \in Chans \cup {None}
      BY <1>0, SessionAssumption DEF LinkHz, DataOK
    <3>3. row \in Row
      BY <1>0, <3>1, <3>2 DEF Row, Job, DataOK
    <3>4. AppendRow(ledger, row) /\ Done(c)
      BY <1>5, <2>2 DEF RecordRun
    <3> HIDE DEF row
    <3> QED
      BY <1>0, <1>3, <2>1, <3>3, <3>4, RowWritten
  <2>3. CASE UNCHANGED ledgerVars /\ Done(c)
    BY <1>0, <1>3, <2>3, RowsKept DEF ledgerVars
  <2> QED
    BY <1>5, <2>2, <2>3 DEF RecordRun
<1>6. CASE RecordLost(c)
  <2>1. job[c].exp \in Exps
    BY <1>0, <1>6 DEF RecordLost, Fit
  <2>2. CASE spec # None
    <3> DEFINE row == [kind |-> "aborted", seq |-> job[c].seq, spec |-> spec,
                       hz |-> None, hop |-> None, meas |-> None]
    <3>1. row \in Row
      BY <1>0 DEF Row, Job, DataOK
    <3>2. AppendRow(job[c].exp, row) /\ Done(c)
      BY <1>6, <2>2 DEF RecordLost
    <3> HIDE DEF row
    <3> QED
      BY <1>0, <1>3, <2>1, <3>1, <3>2, RowWritten
  <2>3. CASE UNCHANGED ledgerVars /\ Done(c)
    BY <1>0, <1>3, <2>3, RowsKept DEF ledgerVars
  <2> QED
    BY <1>6, <2>2, <2>3 DEF RecordLost
<1>7. CASE RecordDecision(c)
  <2> DEFINE row == [kind |-> "decision", seq |-> job[c].seq, spec |-> job[c].spec,
                     hz |-> None, hop |-> None, meas |-> None]
  <2>1. row \in Row /\ row.kind # "run" /\ job[c].exp \in Exps
    BY <1>0, <1>7 DEF RecordDecision, Row, Job, Fit
  <2>2. AppendRow(job[c].exp, row)
    BY <1>7 DEF RecordDecision
  <2> HIDE DEF row
  <2>3. Rows'
    BY <1>0, <2>1, <2>2, RowWritten
  <2>4. CASE job[c].op = "finish" /\ Move(c, "outcome")
    <3>1. at'[c] = "outcome" /\ job'[c] = job[c]
      BY <2>4, Moved DEF Move
    <3>2. Steady(c)'
      BY <2>4, <3>1 DEF Steady, Idle, Measures
    <3> QED
      BY <1>2, <2>3, <3>2, AloneStep
  <2>5. CASE Done(c)
    BY <1>3, <2>3, <2>5
  <2> QED
    BY <1>7, <2>4, <2>5 DEF RecordDecision
<1>8. ASSUME NEW n \in NoteSeqs, Annotate(c, n) PROVE SerialInv'
  <2> DEFINE row == [kind |-> "annotation", seq |-> n, spec |-> None,
                     hz |-> None, hop |-> None, meas |-> None]
  <2>1. row \in Row /\ row.kind # "run" /\ ledger \in Exps
    BY <1>0, <1>8, SessionAssumption DEF Annotate, Row, DataOK
  <2>2. AppendRow(ledger, row)
    BY <1>8 DEF Annotate
  <2> HIDE DEF row
  <2>3. Rows'
    BY <1>0, <2>1, <2>2, RowWritten
  <2>4. /\ at'[c] = "idle" /\ at[c] = "idle" /\ job'[c] = job[c]
        /\ job[c].op = "none"
    BY <1>0, <1>8 DEF Annotate, Steady, Idle
  <2>5. Steady(c)'
    BY <2>4 DEF Steady, Idle, Measures
  <2> QED
    BY <1>2, <2>3, <2>5, AloneStep
<1>9. CASE Finish(c)
  <2>1. PICK p \in {"number", "outcome"} :
          Become(c, p, [NoJob EXCEPT !.op = "finish"])
    BY <1>9 DEF Finish
  <2>2. at'[c] = p /\ job'[c] = [NoJob EXCEPT !.op = "finish"]
    BY <2>1, Moved
  <2>3. job'[c].op = "finish"
    BY <2>2 DEF NoJob
  <2>4. Steady(c)' /\ Rows'
    BY <1>0, <1>9, <2>1, <2>2, <2>3, RowsKept
       DEF Finish, ledgerVars, Steady, Idle, Measures
  <2> QED
    BY <1>2, <2>4, AloneStep
<1>10. CASE Outcome(c)
  <2>1. at'[c] = "conclude" /\ job'[c] = [job[c] EXCEPT !.count = Len(log[ledger])]
    BY <1>10, Moved DEF Outcome
  <2>2. job'[c].op = "finish" /\ job'[c].count = Len(log[ledger])
    BY <1>0, <1>10, <2>1 DEF Outcome, Fit, Job
  <2>3. UNCHANGED log /\ Rows'
    BY <1>0, <1>10, RowsKept DEF Outcome, ledgerVars
  <2>4. Steady(c)'
    BY <1>1, <2>1, <2>2, <2>3 DEF Steady, Idle, Measures
  <2> QED
    BY <1>2, <2>3, <2>4, AloneStep
<1>11. CASE Conclude(c)
  <2>1. Rows' /\ Done(c)
    BY <1>0, <1>11 DEF Conclude, Rows
  <2> QED
    BY <1>3, <2>1
<1> QED
  BY <1>4, <1>5, <1>6, <1>7, <1>8, <1>9, <1>10, <1>11 DEF Journal

-------------------------------------------------------------------------------
LEMMA NextSerialInv ==
  ASSUME Alone, TypeInv, SerialInv, [Next]_vars
  PROVE  SerialInv'
<1>1. CASE UNCHANGED vars
  BY <1>1 DEF vars, SerialInv, Steady, Idle, Current, LastResultIsCurrent,
     TuningFitsStructure, Rows
<1>2. CASE Next
  BY <1>2, ChooseSerial, SteerSerial, MeasureSerial, JournalSerial DEF Next
<1> QED
  BY <1>1, <1>2

(* With one request at a time the session, the ledger and the thread between   *)
(* them agree after every step, whichever step a radio fails in.               *)
THEOREM SerialInvariance ==
  ASSUME Alone
  PROVE  Spec => [](TypeInv /\ SerialInv)
<1>1. Init => TypeInv /\ SerialInv
  BY InitTypeInv, InitSerialInv
<1>2. TypeInv /\ SerialInv /\ [Next]_vars => (TypeInv /\ SerialInv)'
  BY NextTypeInv, NextSerialInv
<1> QED
  BY <1>1, <1>2, PTL DEF Spec

(* _reset_session's promise: what get_metrics and diagnose_signal read was     *)
(* measured for the current experiment.                                        *)
THEOREM LastResultStaysCurrent ==
  ASSUME Alone
  PROVE  Spec => []LastResultIsCurrent
<1>1. SerialInv => LastResultIsCurrent
  BY DEF SerialInv, Current
<1> QED
  BY <1>1, SerialInvariance, PTL

(* start_bo_run's tuned knobs only ever meet the structure they were found for *)
(* in the experiment they were found in.                                       *)
THEOREM TuningStaysFitted ==
  ASSUME Alone
  PROVE  Spec => []TuningFitsStructure
<1>1. SerialInv => TuningFitsStructure
  BY DEF SerialInv, Current
<1> QED
  BY <1>1, SerialInvariance, PTL

-------------------------------------------------------------------------------
(* What a step can do to the ledger.                                           *)
Written == \E e \in Exps, row \in Row :
             /\ AppendRow(e, row)
             /\ row.kind = "annotation" \/ row.seq = top[e] + 1

Closed == \E e \in Exps :
            /\ ~concluded[e]
            /\ concluded' = [concluded EXCEPT ![e] = TRUE]
            /\ report' = [report EXCEPT ![e] = Len(log[e])]
            /\ UNCHANGED log

LEMMA LedgerStep ==
  ASSUME Alone, TypeInv, SerialInv, [Next]_vars
  PROVE  UNCHANGED <<log, concluded, report>> \/ Written \/ Closed
<1>0. DataOK
  BY DEF TypeInv, TypeOK
<1>1. CASE UNCHANGED vars
  BY <1>1 DEF vars
<1>2. ASSUME NEW c \in Clients, Choose(c) \/ Steer(c) \/ Measure(c)
      PROVE  UNCHANGED <<log, concluded, report>>
  BY <1>2 DEF Choose, Change, Reset, Adopt, Steer, Build, Retune, HopOn, HopOff,
     Sense, Diagnose, Measure, StartRun, Apply, Tune, Fly, Hop, Capture, Grade,
     Search, ledgerVars
<1>3. ASSUME NEW c \in Clients, Journal(c)
      PROVE  UNCHANGED <<log, concluded, report>> \/ Written \/ Closed
  <2>0. /\ Steady(c) /\ job[c] \in Job /\ Fit(at[c], job[c])
        /\ NeedsLedger(at[c], job[c]) => ledger # None
    BY ThreadFacts DEF SerialInv
  <2>1. CASE Number(c) \/ Finish(c) \/ Outcome(c)
    BY <2>1 DEF Number, Finish, Outcome, ledgerVars
  <2>2. CASE RecordRun(c) /\ ~ UNCHANGED ledgerVars
    <3>0. spec # None /\ ledger \in Exps /\ job[c].exp = ledger
          /\ job[c].seq = top[ledger] + 1 /\ job[c].spec = spec
      BY <1>0, <2>0, <2>2 DEF RecordRun, Steady, NeedsLedger, Measures, DataOK
    <3> DEFINE row == [kind |-> "run", seq |-> job[c].seq, spec |-> spec,
                       hz |-> LinkHz, hop |-> agentHop, meas |-> MeasurementOf(job[c])]
    <3>1. MeasurementOf(job[c]) \in Measurement
      BY <1>0, <2>0, <3>0 DEF Job, Measurement, MeasurementOf, DataOK
    <3>2. LinkHz \in Chans \cup {None}
      BY <1>0, SessionAssumption DEF LinkHz, DataOK
    <3>3. row \in Row /\ row.seq = top[ledger] + 1
      BY <1>0, <2>0, <3>0, <3>1, <3>2 DEF Row, Job, DataOK
    <3>4. AppendRow(ledger, row)
      BY <2>2, <3>0 DEF RecordRun
    <3> HIDE DEF row
    <3> QED
      BY <3>0, <3>3, <3>4 DEF Written
  <2>3. CASE RecordLost(c) /\ ~ UNCHANGED ledgerVars
    <3>0. ledger \in Exps /\ job[c].exp = ledger /\ job[c].seq = top[ledger] + 1
      BY <1>0, <2>0, <2>3 DEF RecordLost, Steady, NeedsLedger, DataOK
    <3> DEFINE row == [kind |-> "aborted", seq |-> job[c].seq, spec |-> spec,
                       hz |-> None, hop |-> None, meas |-> None]
    <3>1. row \in Row /\ row.seq = top[ledger] + 1
      BY <1>0, <2>0, <3>0 DEF Row, Job, DataOK
    <3>2. AppendRow(job[c].exp, row)
      BY <2>3 DEF RecordLost
    <3> HIDE DEF row
    <3> QED
      BY <3>0, <3>1, <3>2 DEF Written
  <2>4. CASE RecordDecision(c)
    <3>0. ledger \in Exps /\ job[c].exp = ledger /\ job[c].seq = top[ledger] + 1
      BY <1>0, <2>0, <2>4 DEF RecordDecision, Steady, NeedsLedger, DataOK
    <3> DEFINE row == [kind |-> "decision", seq |-> job[c].seq, spec |-> job[c].spec,
                       hz |-> None, hop |-> None, meas |-> None]
    <3>1. row \in Row /\ row.seq = top[ledger] + 1
      BY <1>0, <2>0, <3>0 DEF Row, Job, DataOK
    <3>2. AppendRow(job[c].exp, row)
      BY <2>4 DEF RecordDecision
    <3> HIDE DEF row
    <3> QED
      BY <3>0, <3>1, <3>2 DEF Written
  <2>5. ASSUME NEW n \in NoteSeqs, Annotate(c, n) PROVE Written
    <3> DEFINE row == [kind |-> "annotation", seq |-> n, spec |-> None,
                       hz |-> None, hop |-> None, meas |-> None]
    <3>1. row \in Row /\ row.kind = "annotation" /\ ledger \in Exps
      BY <1>0, <2>5, SessionAssumption DEF Annotate, Row, DataOK
    <3>2. AppendRow(ledger, row)
      BY <2>5 DEF Annotate
    <3> HIDE DEF row
    <3> QED
      BY <3>1, <3>2 DEF Written
  <2>6. CASE Conclude(c)
    <3>1. ledger \in Exps /\ job[c].count = Len(log[ledger])
      BY <1>0, <2>0, <2>6 DEF Conclude, Steady, Fit, NeedsLedger, DataOK
    <3> QED
      BY <2>6, <3>1 DEF Conclude, Closed
  <2> QED
    BY <1>3, <2>1, <2>2, <2>3, <2>4, <2>5, <2>6 DEF Journal, ledgerVars
<1> QED
  BY <1>1, <1>2, <1>3 DEF Next

(* Showing a log commutes with writing to it.                                  *)
ShownRow == [kind : {"run", "aborted", "decision", "annotation"}, seq : Nat]

LEMMA ShownType ==
  ASSUME NEW rows \in Seq(Row)
  PROVE  /\ Shown(rows) \in Seq(ShownRow)
         /\ Len(Shown(rows)) = Len(rows)
         /\ DOMAIN Shown(rows) = DOMAIN rows
<1>1. \A r \in Row : [kind |-> r.kind, seq |-> r.seq] \in ShownRow
  BY DEF Row, ShownRow
<1>2. /\ Shown(rows) = [i \in 1 .. Len(rows) |-> [kind |-> rows[i].kind, seq |-> rows[i].seq]]
      /\ Len(rows) \in Nat
      /\ \A i \in 1 .. Len(rows) : rows[i] \in Row
  BY DEF Shown
<1> QED
  BY <1>1, <1>2

LEMMA ShownAppend ==
  ASSUME NEW rows \in Seq(Row), NEW row \in Row
  PROVE  Shown(Append(rows, row))
           = Append(Shown(rows), [kind |-> row.kind, seq |-> row.seq])
<1> DEFINE new == Append(rows, row)
           shown == [kind |-> row.kind, seq |-> row.seq]
<1>1. /\ new \in Seq(Row) /\ Len(new) = Len(rows) + 1
      /\ \A i \in 1 .. Len(rows) : new[i] = rows[i]
      /\ new[Len(rows) + 1] = row
  OBVIOUS
<1>2. Shown(new) = [i \in 1 .. Len(rows) + 1 |-> [kind |-> new[i].kind, seq |-> new[i].seq]]
  BY <1>1 DEF Shown
<1>3. \A i \in 1 .. Len(rows) : Shown(rows)[i] = [kind |-> rows[i].kind, seq |-> rows[i].seq]
  BY DEF Shown
<1>4. Append(Shown(rows), shown)
        = [i \in 1 .. Len(rows) + 1 |-> IF i = Len(rows) + 1 THEN shown ELSE Shown(rows)[i]]
  BY ShownType
<1>5. ASSUME NEW i \in 1 .. Len(rows) + 1
      PROVE  [kind |-> new[i].kind, seq |-> new[i].seq]
               = IF i = Len(rows) + 1 THEN shown ELSE Shown(rows)[i]
  BY <1>1, <1>3
<1> QED
  BY <1>2, <1>4, <1>5

(* The journals a reader sees.                                                 *)
Journals == [e \in Exps |-> Shown(log[e])]

LEMMA WriteRefines ==
  ASSUME TypeInv, SerialInv, Written
  PROVE  Ledger!Next
<1>1. PICK e \in Exps, row \in Row :
        /\ AppendRow(e, row)
        /\ row.kind = "annotation" \/ row.seq = top[e] + 1
  BY DEF Written
<1> DEFINE shown == [kind |-> row.kind, seq |-> row.seq]
<1>2. log \in [Exps -> Seq(Row)] /\ top \in [Exps -> Nat]
  BY DEF TypeInv, TypeOK, DataOK
<1>3. log' = [log EXCEPT ![e] = Append(@, row)]
  BY <1>1 DEF AppendRow
<1>4. /\ Len(Journals[e]) = Len(log[e]) /\ Len(log[e]) \in Nat
      /\ Journals'[e] = Append(Journals[e], shown)
      /\ \A d \in Exps \ {e} : Journals'[d] = Journals[d]
      /\ DOMAIN Journals[e] = DOMAIN log[e]
  BY <1>2, <1>3, ShownType, ShownAppend DEF Journals
<1>5. Journals' = [Journals EXCEPT ![e] = Append(@, shown)]
  BY <1>4 DEF Journals
<1>6. ASSUME NEW i \in DOMAIN Journals[e], row.kind # "annotation"
      PROVE  Journals[e][i].seq < shown.seq
  <2>0. i \in DOMAIN log[e] /\ log[e][i] \in Row
    BY <1>2, <1>4, <1>6
  <2>1. Journals[e][i].seq = log[e][i].seq /\ log[e][i].seq \in Nat
    BY <2>0 DEF Journals, Shown, Row
  <2>2. log[e][i].seq <= top[e]
    BY <2>0 DEF SerialInv, Rows
  <2> QED
    BY <1>1, <1>2, <1>6, <2>1, <2>2
<1>7. Ledger!Follows(shown, Journals[e])
  BY <1>6 DEF Ledger!Follows
<1>8. /\ Len(Journals'[e]) = Len(Journals[e]) + 1
      /\ Journals'[e][Len(Journals[e]) + 1] = shown
  <2>1. Journals[e] \in Seq(ShownRow)
    BY <1>2, ShownType DEF Journals
  <2> QED
    BY <1>4, <2>1
<1>9. concluded' = [concluded EXCEPT ![e] = FALSE] /\ UNCHANGED report
  BY <1>1 DEF AppendRow
<1>10. Ledger!Write(e)
  BY <1>5, <1>7, <1>8, <1>9 DEF Ledger!Write, Journals
<1> QED
  BY <1>10 DEF Ledger!Next

LEMMA CloseRefines ==
  ASSUME TypeInv, Closed
  PROVE  Ledger!Next
<1>1. PICK e \in Exps : /\ ~concluded[e]
                        /\ concluded' = [concluded EXCEPT ![e] = TRUE]
                        /\ report' = [report EXCEPT ![e] = Len(log[e])]
                        /\ UNCHANGED log
  BY DEF Closed
<1>2. Journals' = Journals /\ Len(Journals[e]) = Len(log[e])
  BY <1>1, ShownType DEF Journals, TypeInv, TypeOK, DataOK
<1>3. Ledger!Close(e)
  BY <1>1, <1>2 DEF Ledger!Close, Journals
<1> QED
  BY <1>3 DEF Ledger!Next

(* The session writes the ledger the way RunJournal says a ledger is written:  *)
(* rows only ever added, numbered after those before them, and every report    *)
(* counting the rows it closes.                                                *)
THEOREM SessionIsARunJournal ==
  ASSUME Alone
  PROVE  Spec => IsARunJournal
<1>1. Init => Ledger!Init
  <2>1. Shown(<<>>) = <<>>
    BY DEF Shown
  <2> QED
    BY <2>1 DEF Init, Ledger!Init
<1>2. TypeInv /\ SerialInv /\ [Next]_vars => [Ledger!Next]_(Ledger!journalVars)
  <2> SUFFICES ASSUME TypeInv, SerialInv, [Next]_vars
               PROVE  [Ledger!Next]_(Ledger!journalVars)
    OBVIOUS
  <2>1. CASE UNCHANGED <<log, concluded, report>>
    BY <2>1 DEF Ledger!journalVars
  <2> QED
    BY <2>1, LedgerStep, WriteRefines, CloseRefines
<1> QED
  BY <1>1, <1>2, SerialInvariance, PTL DEF Spec, IsARunJournal, Ledger!Spec

-------------------------------------------------------------------------------
(* The backend follows the agent's hop set, and is tuned where the link is said *)
(* to be once the first experiment has been chosen, however requests overlap.   *)
Planned == plan = agentHop

Switching(c) == job[c].op = "change" /\ at[c] # "reset"

Believed ==
  /\ tuned # None => LinkHz \in {tuned, None}
  /\ agentHz # None => tuned # None
  /\ Declared # None /\ (ledger # None \/ \E c \in Clients : Switching(c)) => tuned # None

(* How a hop cycle stands: the channels flown, the one being flown (one or     *)
(* none) and the ones left make up the plan.                                   *)
Split(flown, one, left, hops) ==
  LET n == Len(flown) IN
  /\ n + one + Len(left) = Len(hops)
  /\ \A i \in 1 .. n : flown[i] = hops[i]
  /\ \A i \in 1 .. Len(left) : left[i] = hops[n + one + i]

Along(c, one) == Split(job[c].flown, one, job[c].left, plan)

Leaving(c) == at[c] = "apply" \/ Towards(at[c], job[c], "fly")

Flown(c) ==
  Towards(at[c], job[c], "grade") \/ (at[c] \in {"number", "record"} /\ job[c].op = "run")

OnCourse(c) ==
  /\ Leaving(c) => job[c].orig = None
  /\ at[c] = "hop" => Hopping /\ Along(c, 0)
  /\ Towards(at[c], job[c], "capture") =>
       \/ ~Hopping /\ at[c] = "capture" /\ job[c].orig = None /\ job[c].want = 1
       \/ /\ Hopping /\ Along(c, 1)
          /\ plan[Len(job[c].flown) + 1] = IF at[c] = "tune" THEN job[c].to ELSE lo
  /\ Flown(c) /\ Hopping => job[c].flown = plan
  /\ Towards(at[c], job[c], "grade") /\ ~Hopping => at[c] = "grade"

(* Where the radios are, as long as they answer without errors.                *)
Away(c) == Hopping /\ (at[c] = "hop" \/ Towards(at[c], job[c], "capture"))

AtHome(c) ==
  /\ Away(c) => job[c].orig = tuned
  /\ at[c] = "tune" /\ ~Away(c) => job[c].to = tuned
  /\ radio = "up" /\ tuned # None /\ at[c] # "tune" /\ ~Away(c) => lo = tuned
  /\ Flown(c) /\ ~Hopping /\ tuned # None => job[c].flown = <<tuned>>

(* The last run or aborted run of an experiment was aborted.                   *)
Aborted(e) ==
  \E i \in DOMAIN log[e] :
    /\ log[e][i].kind = "aborted"
    /\ \A k \in DOMAIN log[e] : log[e][k].kind \in {"run", "aborted"} => k <= i

NothingLeft ==
  ledger # None /\ Aborted(ledger) =>
    \/ last = None
    \/ \E c \in Clients : at[c] \in {"number", "record"} /\ job[c].op = "run"

Course == \A c \in Clients : OnCourse(c)
Home == \A c \in Clients : AtHome(c)

-------------------------------------------------------------------------------
(* A hop cycle, channel by channel.                                            *)
LEMMA SplitStart ==
  ASSUME NEW p \in Seq(Chans)
  PROVE  Split(<<>>, 0, p, p)
<1>1. Len(<<>>) = 0 /\ Len(p) \in Nat
  OBVIOUS
<1> QED
  BY <1>1 DEF Split

LEMMA SplitHop ==
  ASSUME NEW f \in Seq(Chans), NEW l \in Seq(Chans), NEW p \in Seq(Chans),
         l # <<>>, Split(f, 0, l, p)
  PROVE  Split(f, 1, Tail(l), p) /\ p[Len(f) + 1] = Head(l) /\ Tail(l) \in Seq(Chans)
<1>1. /\ Len(l) \in Nat /\ Len(l) >= 1 /\ Len(f) \in Nat /\ Len(p) \in Nat
      /\ Head(l) = l[1] /\ Tail(l) \in Seq(Chans)
      /\ Len(Tail(l)) = Len(l) - 1
  OBVIOUS
<1>2. \A i \in 1 .. Len(Tail(l)) : Tail(l)[i] = l[i + 1]
  BY <1>1
<1>3. Len(f) + 1 + Len(Tail(l)) = Len(p)
  BY <1>1 DEF Split
<1>4. ASSUME NEW i \in 1 .. Len(Tail(l)) PROVE Tail(l)[i] = p[Len(f) + 1 + i]
  <2>1. i + 1 \in 1 .. Len(l) /\ Len(f) + 0 + (i + 1) = Len(f) + 1 + i
    BY <1>1
  <2>2. l[i + 1] = p[Len(f) + 0 + (i + 1)]
    BY <2>1 DEF Split
  <2> QED
    BY <1>2, <2>1, <2>2
<1>5. p[Len(f) + 1] = Head(l)
  <2>1. 1 \in 1 .. Len(l) /\ Len(f) + 0 + 1 = Len(f) + 1
    BY <1>1
  <2> QED
    BY <1>1, <2>1 DEF Split
<1> QED
  BY <1>1, <1>3, <1>4, <1>5 DEF Split

LEMMA SplitCapture ==
  ASSUME NEW f \in Seq(Chans), NEW l \in Seq(Chans), NEW p \in Seq(Chans), NEW x \in Chans,
         Split(f, 1, l, p), x = p[Len(f) + 1]
  PROVE  Split(Append(f, x), 0, l, p) /\ Append(f, x) \in Seq(Chans)
<1> DEFINE g == Append(f, x)
<1>1. /\ Len(l) \in Nat /\ Len(f) \in Nat /\ Len(p) \in Nat
      /\ g \in Seq(Chans) /\ Len(g) = Len(f) + 1
      /\ g[Len(f) + 1] = x
  OBVIOUS
<1>2. \A i \in 1 .. Len(f) : g[i] = f[i]
  OBVIOUS
<1> HIDE DEF g
<1>3. Len(g) + 0 + Len(l) = Len(p)
  BY <1>1 DEF Split
<1>4. ASSUME NEW i \in 1 .. Len(g) PROVE g[i] = p[i]
  <2>1. i = Len(f) + 1 \/ i \in 1 .. Len(f)
    BY <1>1
  <2> QED
    BY <1>1, <1>2, <2>1 DEF Split
<1>5. ASSUME NEW i \in 1 .. Len(l) PROVE l[i] = p[Len(g) + 0 + i]
  <2>1. Len(g) + 0 + i = Len(f) + 1 + i
    BY <1>1
  <2> QED
    BY <2>1 DEF Split
<1> QED
  BY <1>1, <1>3, <1>4, <1>5 DEF Split, g

LEMMA SplitEnd ==
  ASSUME NEW f \in Seq(Chans), NEW p \in Seq(Chans), Split(f, 0, <<>>, p)
  PROVE  f = p
<1>1. Len(<<>>) = 0 /\ Len(f) \in Nat /\ Len(p) \in Nat
  OBVIOUS
<1>2. Len(f) = Len(p)
  BY <1>1 DEF Split
<1>3. \A i \in 1 .. Len(f) : f[i] = p[i]
  BY DEF Split
<1> QED
  BY <1>2, <1>3, SeqEqual

-------------------------------------------------------------------------------
(* A thread that carries no flight.                                            *)
Grounded(c) ==
  \/ at[c] \in {"idle", "reset", "adopt", "search", "outcome", "conclude"}
  \/ at[c] \in {"number", "record"} /\ job[c].op # "run"
  \/ at[c] = "tune" /\ job[c].next \in {"adopt", "number"}

LEMMA GroundedOnCourse ==
  ASSUME NEW c, Grounded(c)'
  PROVE  OnCourse(c)'
BY DEF Grounded, OnCourse, Leaving, Flown, Towards

LEMMA AloneOnCourse ==
  ASSUME Alone, NEW c \in Clients, OnCourse(c)'
  PROVE  Course'
BY DEF Alone, Course

LEMMA DoneGrounds ==
  ASSUME TypeInv, NEW c \in Clients, Done(c)
  PROVE  Grounded(c)' /\ at'[c] = "idle" /\ job'[c] = NoJob
BY Moved DEF Done, Grounded

LEMMA LostGrounds ==
  ASSUME TypeInv, NEW c \in Clients, Lost(c)
  PROVE  Grounded(c)'
<1>0. job[c] \in Job
  BY ThreadFacts
<1>1. CASE Become(c, "number", [job[c] EXCEPT !.op = "lost"])
  <2>1. at'[c] = "number" /\ job'[c] = [job[c] EXCEPT !.op = "lost"]
    BY <1>1, Moved
  <2> QED
    BY <1>0, <2>1 DEF Grounded, Job
<1>2. CASE Move(c, "adopt")
  BY <1>2, Moved DEF Move, Grounded
<1> QED
  BY <1>1, <1>2, DoneGrounds DEF Lost

LEMMA ChooseGrounds ==
  ASSUME TypeInv, NEW c \in Clients, Choose(c)
  PROVE  Grounded(c)'
<1>0. job[c] \in Job
  BY ThreadFacts
<1>1. ASSUME NEW e \in Exps, Change(c, e) PROVE Grounded(c)'
  BY <1>1, Moved DEF Change, Grounded
<1>2. CASE Reset(c)
  <2>1. CASE Become(c, "tune", [job[c] EXCEPT !.to = Declared, !.next = "adopt"])
    <3>1. at'[c] = "tune" /\ job'[c] = [job[c] EXCEPT !.to = Declared, !.next = "adopt"]
      BY <2>1, Moved
    <3> QED
      BY <1>0, <3>1 DEF Grounded, Job
  <2>2. CASE Move(c, "adopt")
    BY <2>2, Moved DEF Move, Grounded
  <2> QED
    BY <1>2, <2>1, <2>2 DEF Reset
<1>3. CASE Adopt(c)
  BY <1>3, DoneGrounds DEF Adopt
<1> QED
  BY <1>1, <1>2, <1>3 DEF Choose

(* Where the agent's knobs leave its thread.                                   *)
LEMMA SteerGrounds ==
  ASSUME TypeInv, NEW c \in Clients, Steer(c)
  PROVE  Grounded(c)'
<1>1. CASE UNCHANGED <<at, job>> /\ Idle(c)
  BY <1>1 DEF Idle, Grounded
<1>2. ASSUME NEW f \in Chans, Retune(c, f) PROVE Grounded(c)'
  <2>1. /\ at'[c] = "tune"
        /\ job'[c] = [NoJob EXCEPT !.op = "decision", !.to = f, !.next = "number"]
    BY <1>2, Moved DEF Retune
  <2> QED
    BY <2>1 DEF Grounded, NoJob
<1>3. ASSUME NEW s, Become(c, "number", [NoJob EXCEPT !.op = "decision", !.spec = s])
      PROVE  Grounded(c)'
  <2>1. at'[c] = "number" /\ job'[c] = [NoJob EXCEPT !.op = "decision", !.spec = s]
    BY <1>3, Moved
  <2> QED
    BY <2>1 DEF Grounded, NoJob
<1>4. CASE Become(c, "number", [NoJob EXCEPT !.op = "decision"])
  <2>1. at'[c] = "number" /\ job'[c] = [NoJob EXCEPT !.op = "decision"]
    BY <1>4, Moved
  <2> QED
    BY <2>1 DEF Grounded, NoJob
<1> QED
  BY <1>1, <1>2, <1>3, <1>4, LostGrounds DEF Steer, Build, HopOn, HopOff, Sense, Diagnose
LEMMA PlannedStep ==
  ASSUME Planned, NEW c \in Clients, Choose(c) \/ Steer(c) \/ Measure(c) \/ Journal(c)
  PROVE  Planned'
<1>1. CASE Choose(c) \/ Steer(c)
  <2>1. UNCHANGED <<plan, agentHop>> \/ plan' = agentHop'
    <3>1. Choose(c) => UNCHANGED <<plan, agentHop>> \/ plan' = agentHop'
      BY DEF Choose, Change, Reset, Adopt, rfVars, linkVars
    <3>2. Steer(c) => UNCHANGED <<plan, agentHop>> \/ plan' = agentHop'
      <4>1. ASSUME NEW s \in Specs, Build(c, s) PROVE UNCHANGED <<plan, agentHop>>
        BY <4>1 DEF Build, rfVars, linkVars
      <4>2. ASSUME NEW f \in Chans, Retune(c, f) PROVE UNCHANGED <<plan, agentHop>>
        BY <4>2 DEF Retune
      <4>3. ASSUME NEW p \in HopPlans, HopOn(c, p) PROVE plan' = agentHop'
        BY <4>3 DEF HopOn
      <4>4. HopOff(c) => plan' = agentHop'
        BY DEF HopOff
      <4>5. Sense(c) \/ Diagnose(c) => UNCHANGED <<plan, agentHop>>
        BY DEF Sense, Diagnose, rfVars, linkVars
      <4> QED
        BY <4>1, <4>2, <4>3, <4>4, <4>5 DEF Steer
    <3> QED
      BY <1>1, <3>1, <3>2
  <2> QED
    BY <2>1 DEF Planned
<1>2. CASE Measure(c) \/ Journal(c)
  <2>1. CASE Apply(c)
    <3>1. agentHop' = agentHop /\ (plan' = plan \/ plan' = agentHop)
      BY <2>1 DEF Apply, rfVars
    <3> QED
      BY <3>1 DEF Planned
  <2>2. CASE ~Apply(c)
    BY <1>2, <2>2 DEF Planned, Measure, StartRun, Tune, Fly, Hop, Capture, Grade, Search,
       Journal, Number, RecordRun, RecordLost, RecordDecision, Annotate, Finish, Outcome,
       Conclude, rfVars, linkVars
  <2> QED
    BY <2>1, <2>2
<1> QED
  BY <1>1, <1>2

(* What a measuring thread finds and what it may not disturb.                  *)
LEMMA MeasureFacts ==
  ASSUME TypeInv, Flights, Planned, Course, NEW c \in Clients, Measure(c)
  PROVE  /\ job[c] \in Job /\ Fit(at[c], job[c]) /\ Flight(at[c], job[c]) /\ OnCourse(c)
         /\ plan \in HopPlans \cup {None} /\ lo \in Chans /\ tuned \in Chans \cup {None}
         /\ plan' = plan /\ agentHop' = agentHop
<1>1. plan' = plan /\ agentHop' = agentHop
  BY DEF Planned, Measure, StartRun, Apply, Tune, Fly, Hop, Capture, Grade, Search,
     rfVars, linkVars
<1> QED
  BY <1>1, ThreadFacts DEF Flights, Course, TypeInv, TypeOK, DataOK

LEMMA HoppingPlan ==
  ASSUME plan \in HopPlans \cup {None}, Hopping
  PROVE  plan \in Seq(Chans)
BY SessionAssumption DEF Hopping

LEMMA OnlyOne ==
  ASSUME NEW a \in Nat, NEW b \in Nat, a + b + 1 = 1
  PROVE  a = 0 /\ b = 0
OBVIOUS

LEMMA MeasureOnCourse ==
  ASSUME TypeInv, Flights, Planned, Course, NEW c \in Clients, Measure(c)
  PROVE  OnCourse(c)'
<1>0. /\ job[c] \in Job /\ Fit(at[c], job[c]) /\ Flight(at[c], job[c]) /\ OnCourse(c)
      /\ plan \in HopPlans \cup {None} /\ lo \in Chans /\ tuned \in Chans \cup {None}
      /\ plan' = plan
  BY MeasureFacts
<1>1. Hopping' <=> Hopping
  BY <1>0 DEF Hopping
<1>2. CASE StartRun(c)
  <2>1. PICK op \in {"run", "bo"} :
          Become(c, "apply", [NoJob EXCEPT !.op = op, !.exp = ledger, !.spec = spec])
    BY <1>2 DEF StartRun
  <2>2. at'[c] = "apply" /\ job'[c] = [NoJob EXCEPT !.op = op, !.exp = ledger, !.spec = spec]
    BY <2>1, Moved
  <2> QED
    BY <2>2 DEF OnCourse, Leaving, Flown, Towards, NoJob
<1>3. CASE Lost(c) \/ Done(c)
  BY <1>3, LostGrounds, DoneGrounds, GroundedOnCourse
<1>4. CASE Apply(c)
  <2>1. CASE Become(c, "tune", [job[c] EXCEPT !.to = agentHz, !.next = "fly"])
    <3>1. at'[c] = "tune" /\ job'[c] = [job[c] EXCEPT !.to = agentHz, !.next = "fly"]
      BY <2>1, Moved
    <3> QED
      BY <1>0, <1>4, <3>1 DEF Apply, OnCourse, Leaving, Flown, Towards, Job
  <2>2. CASE Move(c, "fly")
    BY <1>0, <1>4, <2>2, Moved DEF Move, Apply, OnCourse, Leaving, Flown, Towards
  <2> QED
    BY <1>3, <1>4, <2>1, <2>2 DEF Apply
<1>5. CASE Tune(c) /\ Move(c, job[c].next)
  <2>1. at[c] = "tune" /\ at'[c] = job[c].next /\ job'[c] = job[c]
    BY <1>5, Moved DEF Move, Tune
  <2>2. CASE job[c].next = "adopt" \/ job[c].next = "number"
    <3>1. job[c].next = "number" => job[c].op # "run"
      BY <1>0, <2>1 DEF Flight
    <3>2. Grounded(c)'
      BY <2>1, <2>2, <3>1 DEF Grounded
    <3> QED
      BY <3>2, GroundedOnCourse
  <2>3. CASE job[c].next = "fly"
    BY <1>0, <2>1, <2>3 DEF OnCourse, Leaving, Flown, Towards
  <2>4. CASE job[c].next = "capture"
    <3>1. Hopping /\ Along(c, 1) /\ plan[Len(job[c].flown) + 1] = job[c].to
      BY <1>0, <2>1, <2>4 DEF OnCourse, Towards
    <3>2. lo' = job[c].to
      <4>1. CASE radio = "up" /\ lo' = job[c].to
        BY <4>1
      <4>2. CASE Lost(c)
        <5>1. Grounded(c)'
          BY <4>2, LostGrounds
        <5> QED
          BY <2>1, <2>4, <5>1 DEF Grounded
      <4> QED
        BY <1>5, <4>1, <4>2 DEF Tune
    <3>3. Hopping' /\ Along(c, 1)' /\ (plan[Len(job[c].flown) + 1] = lo)'
      BY <1>0, <1>1, <2>1, <3>1, <3>2 DEF Along
    <3> QED
      BY <2>1, <2>4, <3>3 DEF OnCourse, Leaving, Flown, Towards
  <2>5. CASE job[c].next = "grade"
    BY <1>0, <1>1, <2>1, <2>5 DEF OnCourse, Leaving, Flown, Towards
  <2> QED
    BY <1>0, <2>1, <2>2, <2>3, <2>4, <2>5 DEF Fit
<1>6. CASE Fly(c)
  <2>1. Leaving(c) /\ job[c].orig = None /\ job[c].flown = <<>> /\ job[c].left = <<>>
    BY <1>0, <1>6 DEF Fly, OnCourse, Leaving, Flight, Towards
  <2>2. CASE ~Hopping
    <3>1. at'[c] = "capture" /\ job'[c] = [job[c] EXCEPT !.want = 1]
      BY <1>6, <2>2, Moved DEF Fly
    <3>2. job'[c].orig = None /\ job'[c].want = 1
      BY <1>0, <2>1, <3>1 DEF Job
    <3> QED
      BY <1>1, <2>2, <3>1, <3>2 DEF OnCourse, Leaving, Flown, Towards
  <2>3. CASE Hopping
    <3>1. /\ at'[c] = "hop"
          /\ job'[c] = [job[c] EXCEPT !.left = plan, !.want = Len(plan), !.orig = tuned]
      BY <1>6, <2>3, Moved DEF Fly
    <3>2. job'[c].left = plan /\ job'[c].flown = <<>>
      BY <1>0, <2>1, <3>1 DEF Job
    <3>3. Split(<<>>, 0, plan, plan)
      BY <1>0, <2>3, HoppingPlan, SplitStart
    <3>4. Along(c, 0)'
      BY <1>0, <3>2, <3>3 DEF Along
    <3> QED
      BY <1>1, <2>3, <3>1, <3>4 DEF OnCourse, Leaving, Flown, Towards
  <2> QED
    BY <2>2, <2>3
<1>7. CASE Hop(c)
  <2>1. /\ at[c] = "hop" /\ at'[c] = "tune"
        /\ job'[c] = [job[c] EXCEPT !.to = Head(job[c].left), !.left = Tail(job[c].left),
                                    !.next = "capture"]
    BY <1>7, Moved DEF Hop
  <2>2. /\ job'[c].to = Head(job[c].left) /\ job'[c].left = Tail(job[c].left)
        /\ job'[c].next = "capture" /\ job'[c].flown = job[c].flown
    BY <1>0, <2>1 DEF Job
  <2>3. Hopping /\ Split(job[c].flown, 0, job[c].left, plan) /\ job[c].left # <<>>
    BY <1>0, <2>1 DEF OnCourse, Along, Fit
  <2>4. /\ Split(job[c].flown, 1, Tail(job[c].left), plan)
        /\ plan[Len(job[c].flown) + 1] = Head(job[c].left)
    BY <1>0, <2>3, HoppingPlan, SplitHop DEF Job
  <2>5. Along(c, 1)' /\ (plan[Len(job[c].flown) + 1] = job[c].to)'
    BY <1>0, <2>2, <2>4 DEF Along
  <2> QED
    BY <1>1, <2>1, <2>2, <2>3, <2>5 DEF OnCourse, Leaving, Flown, Towards
<1>8. CASE Capture(c) /\ ~(Lost(c) \/ Done(c))
  <2> DEFINE j == [job[c] EXCEPT !.flown = Append(job[c].flown, lo)]
             k == [j EXCEPT !.to = j.orig, !.next = "grade"]
  <2>0. /\ j.flown = Append(job[c].flown, lo) /\ k.flown = Append(job[c].flown, lo)
        /\ j.left = job[c].left /\ k.left = job[c].left
        /\ j.orig = job[c].orig /\ k.next = "grade"
    BY <1>0 DEF Job
  <2>1. at[c] = "capture"
    BY <1>8 DEF Capture
  <2>2. \/ job[c].left # <<>> /\ at'[c] = "hop" /\ job'[c] = j
        \/ /\ job[c].left = <<>> /\ job[c].orig # None
           /\ at'[c] = "tune" /\ job'[c] = k
        \/ job[c].left = <<>> /\ at'[c] = "grade" /\ job'[c] = j
    BY <1>8, <2>0, Moved DEF Capture
  <2> HIDE DEF j, k
  <2>3. CASE Hopping
    <3>1. Split(job[c].flown, 1, job[c].left, plan) /\ lo = plan[Len(job[c].flown) + 1]
      BY <1>0, <2>1, <2>3 DEF OnCourse, Towards, Along
    <3>2. /\ job[c].flown \in Seq(Chans) /\ job[c].left \in Seq(Chans) /\ plan \in Seq(Chans)
      BY <1>0, <2>3, HoppingPlan DEF Job
    <3>3. /\ Split(Append(job[c].flown, lo), 0, job[c].left, plan)
          /\ Append(job[c].flown, lo) \in Seq(Chans)
      BY <1>0, <3>1, <3>2, SplitCapture
    <3>4. job[c].left = <<>> => Append(job[c].flown, lo) = plan
      BY <3>2, <3>3, SplitEnd
    <3>5. CASE job[c].left # <<>>
      <4>1. at'[c] = "hop" /\ job'[c] = j
        BY <2>2, <3>5
      <4>2. Along(c, 0)'
        BY <1>0, <2>0, <3>3, <4>1 DEF Along
      <4> QED
        BY <1>1, <2>3, <4>1, <4>2 DEF OnCourse, Leaving, Flown, Towards
    <3>6. CASE job[c].left = <<>>
      <4>1. \/ at'[c] = "tune" /\ job'[c] = k
            \/ at'[c] = "grade" /\ job'[c] = j
        BY <2>2, <3>6
      <4>2. job'[c].flown = plan' /\ (at'[c] = "tune" => job'[c].next = "grade")
        BY <1>0, <2>0, <3>4, <3>6, <4>1
      <4> QED
        BY <1>1, <2>3, <4>1, <4>2 DEF OnCourse, Leaving, Flown, Towards
    <3> QED
      BY <3>5, <3>6
  <2>4. CASE ~Hopping
    <3>1. /\ job[c].orig = None /\ job[c].want = 1
          /\ Len(job[c].flown) + Len(job[c].left) + 1 = job[c].want
      BY <1>0, <2>1, <2>4 DEF OnCourse, Towards, Flight
    <3>2. Len(job[c].flown) \in Nat /\ Len(job[c].left) \in Nat
      BY <1>0 DEF Job
    <3>3. Len(job[c].flown) + Len(job[c].left) + 1 = 1
      BY <3>1
    <3>3a. Len(job[c].left) = 0
      BY <3>2, <3>3, OnlyOne
    <3>4. job[c].left = <<>>
      BY <1>0, <3>3a, EmptySeq DEF Job
    <3>5. at'[c] = "grade"
      BY <2>2, <3>1, <3>4
    <3> QED
      BY <1>1, <2>4, <3>5 DEF OnCourse, Leaving, Flown, Towards
  <2> QED
    BY <2>3, <2>4
<1>9. CASE Grade(c)
  <2>1. at[c] = "grade"
    BY <1>9 DEF Grade
  <2>2. CASE job[c].op = "run" /\ Move(c, "number")
    BY <1>0, <1>1, <2>1, <2>2, Moved DEF Move, OnCourse, Leaving, Flown, Towards
  <2>3. CASE Move(c, "search")
    <3>1. Grounded(c)'
      BY <2>3, Moved DEF Move, Grounded
    <3> QED
      BY <3>1, GroundedOnCourse
  <2> QED
    BY <1>3, <1>9, <2>2, <2>3 DEF Grade
<1>10. CASE Search(c)
  <2>1. at'[c] = "apply" /\ job'[c].orig = None
    <3>1. CASE Become(c, "apply", [job[c] EXCEPT !.count = @ + 1, !.flown = <<>>, !.orig = None])
      <4>1. /\ at'[c] = "apply"
            /\ job'[c] = [job[c] EXCEPT !.count = @ + 1, !.flown = <<>>, !.orig = None]
        BY <3>1, Moved
      <4> QED
        BY <1>0, <4>1 DEF Job
    <3>2. CASE Become(c, "apply", [NoJob EXCEPT !.op = "validate", !.exp = job[c].exp,
                                                !.spec = job[c].spec])
      <4>1. /\ at'[c] = "apply"
            /\ job'[c] = [NoJob EXCEPT !.op = "validate", !.exp = job[c].exp,
                                       !.spec = job[c].spec]
        BY <3>2, Moved
      <4> QED
        BY <4>1 DEF NoJob
    <3> QED
      BY <1>10, <3>1, <3>2 DEF Search
  <2> QED
    BY <2>1 DEF OnCourse, Leaving, Flown, Towards
<1>11. Tune(c) => Move(c, job[c].next) \/ Lost(c)
  BY DEF Tune
<1> QED
  BY <1>2, <1>3, <1>4, <1>5, <1>6, <1>7, <1>8, <1>9, <1>10, <1>11 DEF Measure
LEMMA JournalOnCourse ==
  ASSUME TypeInv, Planned, Course, NEW c \in Clients, Journal(c)
  PROVE  OnCourse(c)'
<1>0. job[c] \in Job /\ Fit(at[c], job[c]) /\ OnCourse(c)
  BY ThreadFacts DEF Course
<1>1. CASE Done(c)
  BY <1>1, DoneGrounds, GroundedOnCourse
<1>2. CASE Number(c) /\ ledger # None
  <2>1. /\ at[c] = "number" /\ at'[c] = "record"
        /\ job'[c] = [job[c] EXCEPT !.seq = top[ledger] + 1,
                         !.exp = IF job[c].op = "run" THEN job[c].exp ELSE ledger]
    BY <1>2, Moved DEF Number
  <2>2. job'[c].op = job[c].op /\ job'[c].flown = job[c].flown
    BY <1>0, <2>1 DEF Job
  <2>3. plan' = plan
    BY <1>2 DEF Number, linkVars
  <2> QED
    BY <1>0, <2>1, <2>2, <2>3 DEF OnCourse, Leaving, Flown, Towards, Hopping
<1>3. CASE RecordDecision(c) \/ Outcome(c)
  <2>1. at'[c] \in {"outcome", "conclude", "idle"}
    BY <1>3, Moved DEF RecordDecision, Outcome, Move, Done
  <2>2. Grounded(c)'
    BY <2>1 DEF Grounded
  <2> QED
    BY <2>2, GroundedOnCourse
<1>4. CASE Finish(c)
  <2>1. PICK p \in {"number", "outcome"} : Become(c, p, [NoJob EXCEPT !.op = "finish"])
    BY <1>4 DEF Finish
  <2>2. at'[c] = p /\ job'[c] = [NoJob EXCEPT !.op = "finish"]
    BY <2>1, Moved
  <2>3. Grounded(c)'
    BY <2>2 DEF Grounded, NoJob
  <2> QED
    BY <2>3, GroundedOnCourse
<1>5. ASSUME NEW n \in NoteSeqs, Annotate(c, n) PROVE OnCourse(c)'
  <2>1. Grounded(c)'
    BY <1>5 DEF Annotate, Idle, Grounded
  <2> QED
    BY <2>1, GroundedOnCourse
<1>6. Number(c) => ledger # None \/ Done(c)
  BY DEF Number
<1>7. RecordRun(c) \/ RecordLost(c) \/ Conclude(c) => Done(c)
  BY DEF RecordRun, RecordLost, Conclude
<1> QED
  BY <1>1, <1>2, <1>3, <1>4, <1>5, <1>6, <1>7 DEF Journal

LEMMA CourseStep ==
  ASSUME Alone, TypeInv, Flights, Planned, Course, [Next]_vars
  PROVE  Planned' /\ Course'
<1>1. CASE UNCHANGED vars
  BY <1>1 DEF vars, Planned, Course, OnCourse, Leaving, Flown, Towards, Hopping, Along
<1>2. ASSUME NEW c \in Clients, Choose(c) \/ Steer(c) \/ Measure(c) \/ Journal(c)
      PROVE  Planned' /\ Course'
  <2>1. OnCourse(c)'
    BY <1>2, ChooseGrounds, SteerGrounds, GroundedOnCourse, MeasureOnCourse, JournalOnCourse
  <2> QED
    BY <1>2, <2>1, AloneOnCourse, PlannedStep
<1> QED
  BY <1>1, <1>2 DEF Next

LEMMA CourseStarts == Init => Planned /\ Course
<1> SUFFICES ASSUME Init PROVE Planned /\ Course
  OBVIOUS
<1>1. \A c \in Clients : at[c] = "idle"
  BY DEF Init
<1> QED
  BY <1>1 DEF Init, Planned, Course, OnCourse, Leaving, Flown, Towards

LEMMA FlightsHold == Spec => []Flights
<1>1. FlightInv => Flights
  BY DEF FlightInv
<1> QED
  BY <1>1, FlightInvariance, PTL

-------------------------------------------------------------------------------
(* A graded row that was not there before is the one a run writes now.         *)
LEMMA AppendedRow ==
  ASSUME DataOK, NEW e \in Exps, NEW row \in Row, AppendRow(e, row),
         NEW d \in Exps, NEW i \in DOMAIN log'[d]
  PROVE  (i \in DOMAIN log[d] /\ log'[d][i] = log[d][i]) \/ log'[d][i] = row
<1>1. log[d] \in Seq(Row) /\ log'[d] = IF d = e THEN Append(log[d], row) ELSE log[d]
  BY DEF AppendRow, DataOK
<1>2. CASE d = e
  <2>1. log'[d] = Append(log[d], row)
    BY <1>1, <1>2
  <2> QED
    BY <1>1, <2>1
<1>3. CASE d # e
  BY <1>1, <1>3
<1> QED
  BY <1>2, <1>3

NewRun(c, row) ==
  /\ at[c] = "record" /\ job[c].op = "run" /\ ledger # None
  /\ row.hz = LinkHz /\ row.hop = agentHop /\ row.meas = MeasurementOf(job[c])

LEMMA GradedRow ==
  ASSUME TypeInv, [Next]_vars, NEW e \in Exps, NEW i \in DOMAIN log'[e],
         log'[e][i].kind = "run"
  PROVE  \/ i \in DOMAIN log[e] /\ log'[e][i] = log[e][i]
         \/ \E c \in Clients : NewRun(c, log'[e][i])
<1>0. DataOK
  BY DEF TypeInv, TypeOK
<1>1. CASE UNCHANGED log
  BY <1>1
<1>2. ASSUME NEW c \in Clients, Choose(c) \/ Steer(c) \/ Measure(c) PROVE UNCHANGED log
  BY <1>2 DEF Choose, Change, Reset, Adopt, Steer, Build, Retune, HopOn, HopOff, Sense,
     Diagnose, Measure, StartRun, Apply, Tune, Fly, Hop, Capture, Grade, Search, ledgerVars
<1>3. ASSUME NEW c \in Clients, Journal(c), ~ UNCHANGED log
      PROVE  \/ i \in DOMAIN log[e] /\ log'[e][i] = log[e][i]
             \/ NewRun(c, log'[e][i])
  <2>0. /\ job[c] \in Job /\ Fit(at[c], job[c])
        /\ NeedsLedger(at[c], job[c]) => ledger # None
    BY ThreadFacts
  <2>1. CASE RecordRun(c)
    <3> DEFINE row == [kind |-> "run", seq |-> job[c].seq, spec |-> spec,
                       hz |-> LinkHz, hop |-> agentHop, meas |-> MeasurementOf(job[c])]
    <3>1. AppendRow(ledger, row) /\ at[c] = "record" /\ job[c].op = "run" /\ spec # None
      BY <1>3, <2>1 DEF RecordRun, ledgerVars
    <3>2. ledger \in Exps /\ job[c].exp \in Exps /\ job[c].spec \in Specs
      BY <1>0, <2>0, <3>1 DEF NeedsLedger, Fit, Measures, DataOK
    <3>3. MeasurementOf(job[c]) \in Measurement
      BY <2>0, <3>2 DEF Job, Measurement, MeasurementOf
    <3>4. LinkHz \in Chans \cup {None}
      BY <1>0, SessionAssumption DEF LinkHz, DataOK
    <3>5. row \in Row
      BY <1>0, <2>0, <3>3, <3>4 DEF Row, Job, DataOK
    <3>6. row.hz = LinkHz /\ row.hop = agentHop /\ row.meas = MeasurementOf(job[c])
      OBVIOUS
    <3> HIDE DEF row
    <3>7. (i \in DOMAIN log[e] /\ log'[e][i] = log[e][i]) \/ log'[e][i] = row
      BY <1>0, <3>1, <3>2, <3>5, AppendedRow
    <3> QED
      BY <1>0, <3>1, <3>2, <3>6, <3>7, SessionAssumption DEF NewRun
  <2>2. ASSUME NEW d \in Exps, NEW row \in Row, AppendRow(d, row), row.kind # "run"
        PROVE  i \in DOMAIN log[e] /\ log'[e][i] = log[e][i]
    BY <1>0, <2>2, AppendedRow
  <2>3. CASE RecordLost(c)
    <3> DEFINE row == [kind |-> "aborted", seq |-> job[c].seq, spec |-> spec,
                       hz |-> None, hop |-> None, meas |-> None]
    <3>1. job[c].exp \in Exps /\ AppendRow(job[c].exp, row)
      BY <1>3, <2>0, <2>3 DEF RecordLost, Fit, ledgerVars
    <3>2. row \in Row /\ row.kind # "run"
      BY <1>0, <2>0 DEF Row, Job, DataOK
    <3> HIDE DEF row
    <3> QED
      BY <2>2, <3>1, <3>2
  <2>4. CASE RecordDecision(c)
    <3> DEFINE row == [kind |-> "decision", seq |-> job[c].seq, spec |-> job[c].spec,
                       hz |-> None, hop |-> None, meas |-> None]
    <3>1. job[c].exp \in Exps /\ AppendRow(job[c].exp, row)
      BY <2>0, <2>4 DEF RecordDecision, Fit
    <3>2. row \in Row /\ row.kind # "run"
      BY <2>0 DEF Row, Job
    <3> HIDE DEF row
    <3> QED
      BY <2>2, <3>1, <3>2
  <2>5. ASSUME NEW n \in NoteSeqs, Annotate(c, n)
        PROVE  i \in DOMAIN log[e] /\ log'[e][i] = log[e][i]
    <3> DEFINE row == [kind |-> "annotation", seq |-> n, spec |-> None,
                       hz |-> None, hop |-> None, meas |-> None]
    <3>1. ledger \in Exps /\ AppendRow(ledger, row)
      BY <1>0, <2>5 DEF Annotate, DataOK
    <3>2. row \in Row /\ row.kind # "run"
      BY SessionAssumption DEF Row
    <3> HIDE DEF row
    <3> QED
      BY <2>2, <3>1, <3>2
  <2>6. \/ RecordRun(c) \/ RecordLost(c) \/ RecordDecision(c)
        \/ \E n \in NoteSeqs : Annotate(c, n)
    BY <1>3 DEF Journal, Number, Finish, Outcome, Conclude, ledgerVars
  <2> QED
    BY <2>1, <2>3, <2>4, <2>5, <2>6
<1>4. CASE UNCHANGED vars
  BY <1>1, <1>4 DEF vars
<1> QED
  BY <1>1, <1>2, <1>3, <1>4 DEF Next

(* Who measures alone and says that the link was hopping has flown the hop set *)
(* channel by channel, whichever radio request failed on the way.              *)
THEOREM HopsFlewTheirPlan ==
  ASSUME Alone
  PROVE  Spec => []RealHopsFlewTheirPlan
<1> DEFINE Inv == TypeInv /\ Flights /\ Planned /\ Course
<1>1. Init => RealHopsFlewTheirPlan
  <2> SUFFICES ASSUME Init PROVE RealHopsFlewTheirPlan
    OBVIOUS
  <2>1. \A e \in Exps : DOMAIN log[e] = {}
    BY DEF Init
  <2> QED
    BY <2>1 DEF RealHopsFlewTheirPlan
<1>2. ASSUME Inv, RealHopsFlewTheirPlan, [Next]_vars PROVE RealHopsFlewTheirPlan'
  <2> SUFFICES ASSUME NEW e \in Exps, NEW i \in DOMAIN log'[e],
                      log'[e][i].kind = "run", log'[e][i].hop # None, Len(log'[e][i].hop) > 1
               PROVE  log'[e][i].meas.flown = log'[e][i].hop
    BY DEF RealHopsFlewTheirPlan
  <2>1. CASE i \in DOMAIN log[e] /\ log'[e][i] = log[e][i]
    BY <1>2, <2>1 DEF RealHopsFlewTheirPlan
  <2>2. ASSUME NEW c \in Clients, NewRun(c, log'[e][i])
        PROVE  log'[e][i].meas.flown = log'[e][i].hop
    <3>1. Hopping /\ Flown(c)
      BY <1>2, <2>2 DEF NewRun, Planned, Hopping, Flown
    <3> QED
      BY <1>2, <2>2, <3>1 DEF NewRun, Course, OnCourse, Planned, MeasurementOf
  <2> QED
    BY <1>2, <2>1, <2>2, GradedRow
<1>3. Init => Planned /\ Course
  BY CourseStarts
<1>4. ASSUME TypeInv, Flights, Planned, Course, [Next]_vars PROVE Planned' /\ Course'
  BY <1>4, CourseStep
<1> QED
  BY <1>1, <1>2, <1>3, <1>4, TypeInvariance, FlightsHold, PTL DEF Spec

-------------------------------------------------------------------------------
(* A thread that neither tunes nor is in the middle of a cycle.                *)
LEMMA StaysHome ==
  ASSUME NEW c \in Clients, AtHome(c), at[c] # "tune", ~Away(c),
         UNCHANGED <<lo, tuned>>, radio' = "up" => radio = "up",
         at'[c] # "tune", ~Away(c)',
         Flown(c)' /\ ~Hopping' => Flown(c) /\ ~Hopping /\ job'[c].flown = job[c].flown
  PROVE  AtHome(c)'
BY DEF AtHome

LEMMA GroundedStays ==
  ASSUME NEW c \in Clients, AtHome(c), Grounded(c), at[c] # "tune",
         UNCHANGED <<lo, tuned>>, radio' = "up" => radio = "up",
         at'[c] # "tune", Grounded(c)'
  PROVE  AtHome(c)'
<1>1. ~Away(c) /\ ~Away(c)' /\ ~Flown(c)'
  BY DEF Grounded, Away, Flown, Towards
<1> QED
  BY <1>1, StaysHome

LEMMA LostHome ==
  ASSUME TypeInv, NEW c \in Clients, Lost(c)
  PROVE  AtHome(c)'
<1>1. Grounded(c)' /\ radio' = "gone"
  BY LostGrounds DEF Lost
<1>2. at'[c] # "tune"
  BY Moved DEF Lost, Move, Done
<1>3. ~Away(c)' /\ ~Flown(c)'
  BY <1>1 DEF Grounded, Away, Flown, Towards
<1> QED
  BY <1>1, <1>2, <1>3 DEF AtHome

LEMMA IdleGrounds ==
  ASSUME NEW c, Idle(c)
  PROVE  Grounded(c) /\ at[c] # "tune"
BY DEF Idle, Grounded

LEMMA ChooseHome ==
  ASSUME TypeInv, Home, NEW c \in Clients, Choose(c)
  PROVE  AtHome(c)'
<1>0. AtHome(c) /\ job[c] \in Job /\ Grounded(c)'
  BY ThreadFacts, ChooseGrounds DEF Home
<1>1. ASSUME NEW e \in Exps, Change(c, e) PROVE AtHome(c)'
  <2>1. at'[c] = "reset" /\ UNCHANGED <<lo, tuned, radio>> /\ Idle(c)
    BY <1>1, Moved DEF Change, linkVars
  <2> QED
    BY <1>0, <2>1, IdleGrounds, GroundedStays
<1>2. CASE Reset(c) /\ Declared # None
  <2>1. Become(c, "tune", [job[c] EXCEPT !.to = Declared, !.next = "adopt"])
    BY <1>2 DEF Reset
  <2>2. at'[c] = "tune" /\ job'[c] = [job[c] EXCEPT !.to = Declared, !.next = "adopt"]
    BY <2>1, Moved
  <2>3. job'[c].to = Declared /\ job'[c].next = "adopt"
    BY <1>0, <2>2 DEF Job
  <2>4. tuned' = Declared
    BY <1>2 DEF Reset
  <2> QED
    BY <2>2, <2>3, <2>4 DEF AtHome, Away, Flown, Towards
<1>3. CASE Reset(c) /\ Declared = None
  <2>1. at'[c] = "adopt" /\ at[c] = "reset" /\ UNCHANGED <<lo, tuned, radio>>
    BY <1>3, Moved DEF Reset, Move
  <2> QED
    BY <1>0, <2>1, GroundedStays DEF Grounded
<1>4. CASE Adopt(c)
  <2>1. at'[c] = "idle" /\ at[c] = "adopt" /\ UNCHANGED <<lo, tuned, radio>>
    BY <1>4, DoneGrounds DEF Adopt, linkVars
  <2> QED
    BY <1>0, <2>1, GroundedStays DEF Grounded
<1> QED
  BY <1>1, <1>2, <1>3, <1>4 DEF Choose

LEMMA SteerHome ==
  ASSUME TypeInv, Home, NEW c \in Clients, Steer(c)
  PROVE  AtHome(c)'
<1>0. AtHome(c) /\ Grounded(c)' /\ Idle(c)
  BY SteerGrounds DEF Home, Steer, Build, Retune, HopOn, HopOff, Sense, Diagnose
<1>1. ASSUME UNCHANGED <<lo, tuned>>, radio' = "up" => radio = "up", at'[c] # "tune"
      PROVE  AtHome(c)'
  BY <1>0, <1>1, IdleGrounds, GroundedStays
<1>2. ASSUME NEW f \in Chans, Retune(c, f) PROVE AtHome(c)'
  <2>1. /\ at'[c] = "tune" /\ tuned' = f
        /\ job'[c] = [NoJob EXCEPT !.op = "decision", !.to = f, !.next = "number"]
    BY <1>2, Moved DEF Retune
  <2>2. job'[c].to = f /\ job'[c].next = "number"
    BY <2>1 DEF NoJob
  <2> QED
    BY <2>1, <2>2 DEF AtHome, Away, Flown, Towards
<1>3. ASSUME NEW s \in Specs, Build(c, s) PROVE AtHome(c)'
  BY <1>0, <1>1, <1>3 DEF Build, Idle, linkVars
<1>4. CASE HopOff(c) \/ \E p \in HopPlans : HopOn(c, p)
  <2>1. UNCHANGED <<lo, tuned, radio>> /\ at'[c] # "tune"
    BY <1>0, <1>4, Moved DEF HopOff, HopOn, Idle
  <2> QED
    BY <1>1, <2>1
<1>5. CASE Sense(c)
  <2>1. CASE Lost(c)
    BY <2>1, LostHome
  <2>2. CASE UNCHANGED radio /\ Become(c, "number", [NoJob EXCEPT !.op = "decision"])
    BY <1>1, <1>5, <2>2, Moved DEF Sense
  <2> QED
    BY <1>5, <2>1, <2>2 DEF Sense
<1>6. CASE Diagnose(c)
  BY <1>1, <1>6, Moved DEF Diagnose, linkVars
<1> QED
  BY <1>2, <1>3, <1>4, <1>5, <1>6 DEF Steer
(* Measuring. A cycle begins and ends on the channel the backend is tuned to,  *)
(* unless nothing ever tuned it; a capture that reports an error would leave   *)
(* the radios on the way.                                                      *)
LEMMA MeasureHome ==
  ASSUME "error" \notin Faults, TypeInv, Flights, Planned, Course, Home,
         NEW c \in Clients, Measure(c)
  PROVE  AtHome(c)'
<1>0. /\ job[c] \in Job /\ Fit(at[c], job[c]) /\ Flight(at[c], job[c]) /\ OnCourse(c)
      /\ plan \in HopPlans \cup {None} /\ lo \in Chans /\ tuned \in Chans \cup {None}
      /\ plan' = plan /\ AtHome(c)
  BY MeasureFacts DEF Home
<1>1. Hopping' <=> Hopping
  BY <1>0 DEF Hopping
<1>2. CASE StartRun(c)
  <2>1. at'[c] = "apply" /\ UNCHANGED <<lo, tuned, radio>> /\ Idle(c)
    BY <1>2, Moved DEF StartRun, linkVars
  <2>2. ~Away(c) /\ at[c] # "tune" /\ ~Away(c)' /\ ~Flown(c)'
    BY <2>1 DEF Idle, Away, Flown, Towards
  <2> QED
    BY <1>0, <2>1, <2>2, StaysHome
<1>3. CASE Lost(c)
  BY <1>3, LostHome
<1>4. CASE Apply(c) /\ ~Lost(c)
  <2>0. at[c] = "apply" /\ UNCHANGED <<lo, radio>>
    BY <1>4 DEF Apply
  <2>1. CASE tuned' = agentHz /\ Become(c, "tune", [job[c] EXCEPT !.to = agentHz, !.next = "fly"])
    <3>1. at'[c] = "tune" /\ job'[c] = [job[c] EXCEPT !.to = agentHz, !.next = "fly"]
      BY <2>1, Moved
    <3>2. job'[c].to = tuned' /\ job'[c].next = "fly"
      BY <1>0, <2>1, <3>1 DEF Job
    <3> QED
      BY <3>1, <3>2 DEF AtHome, Away, Flown, Towards
  <2>2. CASE UNCHANGED tuned /\ Move(c, "fly")
    <3>1. at'[c] = "fly"
      BY <2>2, Moved DEF Move
    <3>2. ~Away(c) /\ ~Away(c)' /\ ~Flown(c)'
      BY <2>0, <3>1 DEF Away, Flown, Towards
    <3> QED
      BY <1>0, <2>0, <2>2, <3>1, <3>2, StaysHome
  <2> QED
    BY <1>4, <2>1, <2>2 DEF Apply
<1>5. CASE Tune(c) /\ ~Lost(c)
  <2>1. /\ at[c] = "tune" /\ at'[c] = job[c].next /\ job'[c] = job[c]
        /\ lo' = job[c].to /\ tuned' = tuned
    BY <1>5, Moved DEF Move, Tune
  <2>2. job[c].next \in {"adopt", "number", "fly", "capture", "grade"}
    BY <1>0, <2>1 DEF Fit
  <2>3. CASE job[c].next = "capture"
    <3>1. Hopping /\ Away(c)
      BY <1>0, <2>1, <2>3 DEF OnCourse, Away, Towards
    <3>2. Away(c)' /\ job'[c].orig = tuned'
      BY <1>0, <1>1, <2>1, <2>3, <3>1 DEF AtHome, Away, Towards
    <3> QED
      BY <2>1, <2>3, <3>2 DEF AtHome, Flown, Towards
  <2>4. CASE job[c].next # "capture"
    <3>1. ~Away(c) /\ lo' = tuned'
      BY <1>0, <2>1, <2>4 DEF AtHome, Away, Towards
    <3>2. at'[c] # "tune" /\ ~Away(c)'
      BY <2>1, <2>2, <2>4 DEF Away, Towards
    <3>3. Flown(c)' => Flown(c)
      BY <1>0, <2>1, <2>2 DEF Flown, Flight, Towards
    <3> QED
      BY <1>0, <1>1, <2>1, <3>1, <3>2, <3>3 DEF AtHome
  <2> QED
    BY <2>3, <2>4
<1>6. CASE Fly(c)
  <2>0. at[c] = "fly" /\ UNCHANGED <<lo, tuned, radio>> /\ ~Away(c)
    BY <1>6 DEF Fly, linkVars, Away, Towards
  <2>1. CASE ~Hopping
    <3>1. at'[c] = "capture"
      BY <1>6, <2>1, Moved DEF Fly
    <3>2. ~Away(c)' /\ ~Flown(c)'
      BY <1>1, <2>1, <3>1 DEF Away, Flown, Towards
    <3> QED
      BY <1>0, <2>0, <3>1, <3>2, StaysHome
  <2>2. CASE Hopping
    <3>1. /\ at'[c] = "hop"
          /\ job'[c] = [job[c] EXCEPT !.left = plan, !.want = Len(plan), !.orig = tuned]
      BY <1>6, <2>2, Moved DEF Fly
    <3>2. job'[c].orig = tuned'
      BY <1>0, <2>0, <3>1 DEF Job
    <3> QED
      BY <1>1, <2>2, <3>1, <3>2 DEF AtHome, Away, Flown, Towards
  <2> QED
    BY <2>1, <2>2
<1>7. CASE Hop(c)
  <2>1. /\ at[c] = "hop" /\ at'[c] = "tune" /\ UNCHANGED <<lo, tuned, radio>>
        /\ job'[c] = [job[c] EXCEPT !.to = Head(job[c].left), !.left = Tail(job[c].left),
                                    !.next = "capture"]
    BY <1>7, Moved DEF Hop
  <2>2. job'[c].next = "capture" /\ job'[c].orig = job[c].orig
    BY <1>0, <2>1 DEF Job
  <2>3. Hopping /\ Away(c) /\ Away(c)'
    BY <1>0, <1>1, <2>1, <2>2 DEF OnCourse, Away, Towards
  <2> QED
    BY <1>0, <2>1, <2>2, <2>3 DEF AtHome, Flown, Towards
<1>8. CASE Capture(c) /\ ~Lost(c)
  <2> DEFINE j == [job[c] EXCEPT !.flown = Append(job[c].flown, lo)]
             k == [j EXCEPT !.to = j.orig, !.next = "grade"]
  <2>0. /\ j.flown = Append(job[c].flown, lo) /\ j.orig = job[c].orig
        /\ k.next = "grade" /\ k.to = job[c].orig /\ k.orig = job[c].orig
    BY <1>0 DEF Job
  <2>1. at[c] = "capture" /\ UNCHANGED <<lo, tuned, radio>> /\ radio = "up"
    BY <1>8 DEF Capture
  <2>2. \/ job[c].left # <<>> /\ at'[c] = "hop" /\ job'[c] = j
        \/ /\ job[c].left = <<>> /\ job[c].orig # None
           /\ at'[c] = "tune" /\ job'[c] = k
        \/ job[c].left = <<>> /\ job[c].orig = None /\ at'[c] = "grade" /\ job'[c] = j
    BY <1>8, <2>0, Moved DEF Capture
  <2> HIDE DEF j, k
  <2>3. CASE Hopping
    <3>1. Away(c) /\ job[c].orig = tuned
      BY <1>0, <2>1, <2>3 DEF AtHome, Away, Towards
    <3>2. CASE at'[c] = "hop" /\ job'[c] = j
      <4>1. ~Flown(c)'
        BY <3>2 DEF Flown, Towards
      <4>2. Away(c)'
        BY <1>1, <2>3, <3>2 DEF Away
      <4> QED
        BY <2>0, <2>1, <3>1, <3>2, <4>1, <4>2 DEF AtHome
    <3>3. CASE at'[c] = "tune" /\ job'[c] = k
      BY <1>1, <2>0, <2>1, <2>3, <3>1, <3>3 DEF AtHome, Away, Towards
    <3>4. CASE job[c].orig = None /\ at'[c] = "grade"
      <4>1. tuned' = None /\ ~Away(c)'
        BY <2>1, <3>1, <3>4 DEF Away, Towards
      <4> QED
        BY <3>4, <4>1 DEF AtHome
    <3> QED
      BY <2>2, <3>2, <3>3, <3>4
  <2>4. CASE ~Hopping
    <3>1. /\ job[c].orig = None /\ job[c].want = 1
          /\ Len(job[c].flown) + Len(job[c].left) + 1 = job[c].want
      BY <1>0, <2>1, <2>4 DEF OnCourse, Towards, Flight
    <3>2. Len(job[c].flown) \in Nat /\ Len(job[c].left) \in Nat
      BY <1>0 DEF Job
    <3>3. Len(job[c].flown) + Len(job[c].left) + 1 = 1
      BY <3>1
    <3>4. Len(job[c].flown) = 0 /\ Len(job[c].left) = 0
      BY <3>2, <3>3, OnlyOne
    <3>5. job[c].flown = <<>>
      BY <1>0, <3>4, EmptySeq DEF Job
    <3>8. job[c].left = <<>>
      BY <1>0, <3>4, EmptySeq DEF Job
    <3>9. at'[c] = "grade" /\ job'[c] = j /\ j.flown = <<lo>>
      BY <2>0, <2>2, <3>1, <3>5, <3>8
    <3>10. ~Away(c) /\ ~Away(c)'
      BY <1>1, <2>4 DEF Away
    <3>11. tuned # None => lo = tuned
      BY <1>0, <2>1, <3>10 DEF AtHome
    <3> QED
      BY <2>1, <3>9, <3>10, <3>11 DEF AtHome
  <2> QED
    BY <2>3, <2>4
<1>9. CASE Grade(c)
  <2>1. at[c] = "grade" /\ UNCHANGED <<lo, tuned, radio>>
    BY <1>9 DEF Grade
  <2>2. /\ at'[c] \in {"number", "search", "idle"}
        /\ at'[c] = "number" => job'[c] = job[c]
    BY <1>9, Moved DEF Grade, Move, Done
  <2>3. ~Away(c) /\ ~Away(c)' /\ at'[c] # "tune"
    BY <2>1, <2>2 DEF Away, Towards
  <2>4. Flown(c) /\ (Flown(c)' => at'[c] = "number")
    BY <2>1, <2>2 DEF Flown, Towards
  <2> QED
    BY <1>0, <1>1, <2>1, <2>2, <2>3, <2>4, StaysHome
<1>10. CASE Search(c)
  <2>1. at[c] = "search" /\ at'[c] = "apply" /\ UNCHANGED <<lo, tuned, radio>>
    BY <1>10, Moved DEF Search, linkVars
  <2>2. ~Away(c) /\ ~Away(c)' /\ ~Flown(c)'
    BY <2>1 DEF Away, Flown, Towards
  <2> QED
    BY <1>0, <2>1, <2>2, StaysHome
<1> QED
  BY <1>2, <1>3, <1>4, <1>5, <1>6, <1>7, <1>8, <1>9, <1>10 DEF Measure

LEMMA JournalHome ==
  ASSUME TypeInv, Home, NEW c \in Clients, Journal(c)
  PROVE  AtHome(c)'
<1>0. job[c] \in Job /\ AtHome(c) /\ UNCHANGED <<lo, tuned, radio, plan>>
  BY ThreadFacts DEF Home, Journal, Number, RecordRun, RecordLost, RecordDecision, Annotate,
     Finish, Outcome, Conclude, linkVars
<1>1. at[c] \in {"idle", "number", "record", "outcome", "conclude"}
  BY DEF Journal, Number, RecordRun, RecordLost, RecordDecision, Annotate, Finish, Outcome,
     Conclude, Idle
<1>2. /\ at'[c] \in {"idle", "number", "record", "outcome", "conclude"}
      /\ at'[c] \in {"number", "record"} /\ job'[c].op = "run" =>
           at[c] \in {"number", "record"} /\ job[c].op = "run" /\ job'[c].flown = job[c].flown
  <2>1. CASE Done(c)
    BY <2>1, DoneGrounds
  <2>2. CASE Number(c) /\ ledger # None
    <3>1. /\ at[c] = "number" /\ at'[c] = "record"
          /\ job'[c] = [job[c] EXCEPT !.seq = top[ledger] + 1,
                           !.exp = IF job[c].op = "run" THEN job[c].exp ELSE ledger]
      BY <2>2, Moved DEF Number
    <3>2. job'[c].op = job[c].op /\ job'[c].flown = job[c].flown
      BY <1>0, <3>1 DEF Job
    <3> QED
      BY <3>1, <3>2
  <2>3. CASE RecordDecision(c) \/ Outcome(c)
    BY <2>3, Moved DEF RecordDecision, Outcome, Move, Done
  <2>4. CASE Finish(c)
    <3>1. PICK p \in {"number", "outcome"} : Become(c, p, [NoJob EXCEPT !.op = "finish"])
      BY <2>4 DEF Finish
    <3>2. at'[c] = p /\ job'[c] = [NoJob EXCEPT !.op = "finish"]
      BY <3>1, Moved
    <3> QED
      BY <3>2 DEF NoJob
  <2>5. ASSUME NEW n \in NoteSeqs, Annotate(c, n)
        PROVE  at'[c] = "idle"
    BY <2>5 DEF Annotate, Idle
  <2>6. Number(c) => ledger # None \/ Done(c)
    BY DEF Number
  <2>7. RecordRun(c) \/ RecordLost(c) \/ Conclude(c) => Done(c)
    BY DEF RecordRun, RecordLost, Conclude
  <2> QED
    BY <2>1, <2>2, <2>3, <2>4, <2>5, <2>6, <2>7 DEF Journal
<1>3. ~Away(c) /\ ~Away(c)' /\ at[c] # "tune" /\ at'[c] # "tune"
  BY <1>1, <1>2 DEF Away, Towards
<1>4. Flown(c)' => Flown(c) /\ job'[c].flown = job[c].flown
  BY <1>2 DEF Flown, Towards
<1> QED
  BY <1>0, <1>3, <1>4, StaysHome DEF Hopping

-------------------------------------------------------------------------------
(* Only a reset moves a thread on from there, and only Change makes one.       *)
LEMMA SwitchingKept ==
  ASSUME TypeInv, NEW c \in Clients, Choose(c) \/ Steer(c) \/ Measure(c) \/ Journal(c),
         ~Reset(c), NEW d \in Clients, Switching(d)'
  PROVE  Switching(d)
<1>0. job[c] \in Job
  BY ThreadFacts
<1>1. CASE UNCHANGED <<at, job>>
  BY <1>1 DEF Switching
<1>2. ASSUME NEW p, NEW j, Become(c, p, j), at[c] # "reset",
             j.op = "change" => job[c].op = "change" \/ p = "reset"
      PROVE  Switching(d)
  <2>1. CASE d = c
    BY <1>2, <2>1, Moved DEF Switching
  <2>2. CASE d # c
    <3>1. at'[d] = at[d] /\ job'[d] = job[d]
      BY <1>2, <2>2 DEF Become, TypeInv, TypeOK, ThreadsOK
    <3> QED
      BY <3>1 DEF Switching
  <2> QED
    BY <2>1, <2>2
<1>3. ASSUME NEW p, Move(c, p), at[c] # "reset" PROVE Switching(d)
  BY <1>2, <1>3 DEF Move
<1>4. CASE Done(c) /\ at[c] # "reset"
  <2>1. NoJob.op # "change"
    BY DEF NoJob
  <2> QED
    BY <1>2, <1>4, <2>1 DEF Done
<1>5. CASE Lost(c) /\ at[c] # "reset"
  <2>1. [job[c] EXCEPT !.op = "lost"].op = "lost"
    BY <1>0 DEF Job
  <2> QED
    BY <1>2, <1>3, <1>4, <1>5, <2>1 DEF Lost
<1>6. CASE Choose(c)
  <2>1. ASSUME NEW e \in Exps, Change(c, e) PROVE Switching(d)
    BY <1>2, <2>1 DEF Change, Idle
  <2>2. CASE Adopt(c)
    BY <1>4, <2>2 DEF Adopt
  <2> QED
    BY <1>6, <2>1, <2>2 DEF Choose
<1>7. CASE Steer(c)
  <2>0. /\ at[c] = "idle"
        /\ [NoJob EXCEPT !.op = "decision"].op = "decision"
        /\ [NoJob EXCEPT !.op = "decision", !.spec = spec].op = "decision"
        /\ \A f \in Chans :
             [NoJob EXCEPT !.op = "decision", !.to = f, !.next = "number"].op = "decision"
    BY <1>7 DEF Steer, Build, Retune, HopOn, HopOff, Sense, Diagnose, Idle, NoJob
  <2>1. ASSUME NEW f \in Chans, Retune(c, f) PROVE Switching(d)
    BY <1>2, <2>0, <2>1 DEF Retune
  <2>2. CASE Become(c, "number", [NoJob EXCEPT !.op = "decision"])
    BY <1>2, <2>0, <2>2
  <2>3. CASE Diagnose(c)
    BY <1>2, <2>0, <2>3 DEF Diagnose
  <2>4. \/ \E f \in Chans : Retune(c, f)
        \/ Become(c, "number", [NoJob EXCEPT !.op = "decision"])
        \/ Diagnose(c) \/ Lost(c) \/ UNCHANGED <<at, job>>
    BY <1>7 DEF Steer, Build, HopOn, HopOff, Sense
  <2> QED
    BY <1>1, <1>5, <2>0, <2>1, <2>2, <2>3, <2>4
<1>8. CASE Measure(c)
  <2>0. at[c] # "reset"
    BY <1>8 DEF Measure, StartRun, Apply, Tune, Fly, Hop, Capture, Grade, Search, Idle
  <2>1. CASE StartRun(c)
    <3>1. PICK op \in {"run", "bo"} :
            Become(c, "apply", [NoJob EXCEPT !.op = op, !.exp = ledger, !.spec = spec])
      BY <2>1 DEF StartRun
    <3>2. [NoJob EXCEPT !.op = op, !.exp = ledger, !.spec = spec].op = op
      BY DEF NoJob
    <3> QED
      BY <1>2, <2>0, <3>1, <3>2
  <2>2. CASE Apply(c)
    <3>1. [job[c] EXCEPT !.to = agentHz, !.next = "fly"].op = job[c].op
      BY <1>0 DEF Job
    <3> QED
      BY <1>2, <1>3, <1>5, <2>0, <2>2, <3>1 DEF Apply
  <2>3. CASE Tune(c)
    BY <1>3, <1>5, <2>0, <2>3 DEF Tune
  <2>4. CASE Fly(c)
    <3>1. /\ [job[c] EXCEPT !.want = 1].op = job[c].op
          /\ [job[c] EXCEPT !.left = plan, !.want = Len(plan), !.orig = tuned].op = job[c].op
      BY <1>0 DEF Job
    <3> QED
      BY <1>2, <2>0, <2>4, <3>1 DEF Fly
  <2>5. CASE Hop(c)
    <3>1. [job[c] EXCEPT !.to = Head(job[c].left), !.left = Tail(@),
                         !.next = "capture"].op = job[c].op
      BY <1>0 DEF Job
    <3> QED
      BY <1>2, <2>0, <2>5, <3>1 DEF Hop
  <2>6. CASE Capture(c)
    <3> DEFINE j == [job[c] EXCEPT !.flown = Append(@, lo)]
               k == [j EXCEPT !.to = j.orig, !.next = "grade"]
    <3>1. j.op = job[c].op /\ k.op = job[c].op
      BY <1>0 DEF Job
    <3>2. \/ Become(c, "hop", j) \/ Become(c, "tune", k) \/ Become(c, "grade", j)
          \/ Done(c) \/ Lost(c)
      BY <2>6 DEF Capture
    <3> HIDE DEF j, k
    <3> QED
      BY <1>2, <1>4, <1>5, <2>0, <3>1, <3>2
  <2>7. CASE Grade(c)
    BY <1>3, <1>4, <2>0, <2>7 DEF Grade
  <2>8. CASE Search(c)
    <3>1. /\ [job[c] EXCEPT !.count = @ + 1, !.flown = <<>>, !.orig = None].op = job[c].op
          /\ [NoJob EXCEPT !.op = "validate", !.exp = job[c].exp,
                           !.spec = job[c].spec].op = "validate"
      BY <1>0 DEF Job, NoJob
    <3> QED
      BY <1>2, <2>0, <2>8, <3>1 DEF Search
  <2> QED
    BY <1>8, <2>1, <2>2, <2>3, <2>4, <2>5, <2>6, <2>7, <2>8 DEF Measure
<1>9. CASE Journal(c)
  <2>0. at[c] # "reset"
    BY <1>9 DEF Journal, Number, RecordRun, RecordLost, RecordDecision, Annotate, Finish,
       Outcome, Conclude, Idle
  <2>1. CASE Number(c)
    <3> DEFINE j == [job[c] EXCEPT !.seq = top[ledger] + 1,
                                   !.exp = IF job[c].op = "run" THEN @ ELSE ledger]
    <3>1. j.op = job[c].op
      BY <1>0 DEF Job
    <3>2. Become(c, "record", j) \/ Done(c)
      BY <2>1 DEF Number
    <3> HIDE DEF j
    <3> QED
      BY <1>2, <1>4, <2>0, <3>1, <3>2
  <2>2. CASE RecordDecision(c)
    BY <1>3, <1>4, <2>0, <2>2 DEF RecordDecision
  <2>3. CASE Finish(c)
    <3>1. [NoJob EXCEPT !.op = "finish"].op = "finish"
      BY DEF NoJob
    <3> QED
      BY <1>2, <2>0, <2>3, <3>1 DEF Finish
  <2>4. CASE Outcome(c)
    <3>1. [job[c] EXCEPT !.count = Len(log[ledger])].op = job[c].op
      BY <1>0 DEF Job
    <3> QED
      BY <1>2, <2>0, <2>4, <3>1 DEF Outcome
  <2>5. ASSUME NEW n \in NoteSeqs, Annotate(c, n) PROVE Switching(d)
    BY <1>1, <2>5 DEF Annotate
  <2>6. RecordRun(c) \/ RecordLost(c) \/ Conclude(c) => Done(c)
    BY DEF RecordRun, RecordLost, Conclude
  <2> QED
    BY <1>4, <1>9, <2>0, <2>1, <2>2, <2>3, <2>4, <2>5, <2>6 DEF Journal
<1> QED
  BY <1>6, <1>7, <1>8, <1>9

LEMMA BelievedStep ==
  ASSUME TypeInv, Believed, [Next]_vars
  PROVE  Believed'
<1>0. /\ agentHz \in Chans \cup {None} /\ Declared \in Chans \cup {None} /\ None \notin Chans
      /\ tuned \in Chans \cup {None} /\ ledger \in Exps \cup {None}
  BY SessionAssumption DEF TypeInv, TypeOK, DataOK
<1>1. CASE UNCHANGED vars
  BY <1>1 DEF vars, Believed, Switching, LinkHz
<1>2. ASSUME NEW c \in Clients, Choose(c) \/ Steer(c) \/ Measure(c) \/ Journal(c)
      PROVE  Believed'
  <2>1. CASE Reset(c)
    <3>1. /\ agentHz' = None /\ ledger' = ledger
          /\ Declared # None => tuned' = Declared
          /\ Declared = None => tuned' = tuned
      BY <2>1 DEF Reset
    <3> QED
      BY <3>1 DEF Believed, LinkHz
  <2>2. ASSUME ~Reset(c), UNCHANGED ledger,
               \/ UNCHANGED <<agentHz, tuned>>
               \/ tuned' # None /\ agentHz' = tuned'
        PROVE  Believed'
    <3>1. (\E d \in Clients : Switching(d)') => \E d \in Clients : Switching(d)
      BY <1>2, <2>2, SwitchingKept
    <3> QED
      BY <2>2, <3>1 DEF Believed, LinkHz
  <2>3. CASE Adopt(c)
    <3>1. ~Reset(c) /\ UNCHANGED <<agentHz, tuned>>
      BY <2>3 DEF Adopt, Reset, rfVars, linkVars
    <3>2. Switching(c)
      BY <2>3, ThreadFacts DEF Adopt, Switching, Fit
    <3>3. (\E d \in Clients : Switching(d)') => \E d \in Clients : Switching(d)
      BY <1>2, <3>1, SwitchingKept
    <3> QED
      BY <3>1, <3>2, <3>3 DEF Believed, LinkHz
  <2>4. ASSUME NEW e \in Exps, Change(c, e) PROVE Believed'
    BY <2>2, <2>4 DEF Change, Reset, Idle, rfVars, linkVars
  <2>5. CASE Steer(c)
    <3>1. ~Reset(c) /\ UNCHANGED ledger
      BY <2>5 DEF Steer, Build, Retune, HopOn, HopOff, Sense, Diagnose, Reset, Idle
    <3>2. ASSUME NEW f \in Chans, Retune(c, f) PROVE tuned' # None /\ agentHz' = tuned'
      BY <1>0, <3>2 DEF Retune
    <3>3. UNCHANGED <<agentHz, tuned>> \/ \E f \in Chans : Retune(c, f)
      BY <2>5 DEF Steer, Build, HopOn, HopOff, Sense, Diagnose, rfVars, linkVars
    <3> QED
      BY <2>2, <3>1, <3>2, <3>3
  <2>6. CASE Measure(c)
    <3>1. ~Reset(c) /\ UNCHANGED <<ledger, agentHz>>
      BY <2>6 DEF Measure, StartRun, Apply, Tune, Fly, Hop, Capture, Grade, Search, Reset,
         Idle, rfVars
    <3>2. UNCHANGED tuned \/ (agentHz # None /\ tuned' = agentHz)
      BY <2>6 DEF Measure, StartRun, Apply, Tune, Fly, Hop, Capture, Grade, Search, linkVars
    <3> QED
      BY <2>2, <3>1, <3>2
  <2>7. CASE Journal(c)
    <3>1. ~Reset(c) /\ UNCHANGED <<ledger, agentHz, tuned>>
      BY <2>7 DEF Journal, Number, RecordRun, RecordLost, RecordDecision, Annotate, Finish,
         Outcome, Conclude, Reset, Idle, rfVars, linkVars
    <3> QED
      BY <2>2, <3>1
  <2> QED
    BY <1>2, <2>1, <2>3, <2>4, <2>5, <2>6, <2>7 DEF Choose
<1> QED
  BY <1>1, <1>2 DEF Next
LEMMA HomeStep ==
  ASSUME Alone, "error" \notin Faults, TypeInv, Flights, Planned, Course, Home, [Next]_vars
  PROVE  Home'
<1>1. CASE UNCHANGED vars
  BY <1>1 DEF vars, Home, AtHome, Away, Flown, Towards, Hopping
<1>2. ASSUME NEW c \in Clients, Choose(c) \/ Steer(c) \/ Measure(c) \/ Journal(c)
      PROVE  Home'
  <2>1. AtHome(c)'
    BY <1>2, ChooseHome, SteerHome, MeasureHome, JournalHome
  <2> QED
    BY <2>1 DEF Alone, Home
<1> QED
  BY <1>1, <1>2 DEF Next

LEMMA HomeStarts == Init => Home
BY DEF Init, Home, AtHome, Away, Flown, Towards

LEMMA BelievedStarts ==
  ASSUME StartupExp = None \/ Declared = None
  PROVE  Init => Believed
BY DEF Init, Believed, LinkHz, Switching, NoJob

(* Who measures alone, with radios that answer without errors, reads in a row  *)
(* that was not hopping the channel its bits were captured on. A daemon that   *)
(* starts in an experiment has tuned nothing yet, so the topology may then     *)
(* declare no channel.                                                         *)
THEOREM CentreWasMeasured ==
  ASSUME Alone, "error" \notin Faults, StartupExp = None \/ Declared = None
  PROVE  Spec => []CentreIsMeasured
<1>1. Init => CentreIsMeasured
  <2> SUFFICES ASSUME Init PROVE CentreIsMeasured
    OBVIOUS
  <2>1. \A e \in Exps : DOMAIN log[e] = {}
    BY DEF Init
  <2> QED
    BY <2>1 DEF CentreIsMeasured
<1>2. ASSUME TypeInv, Planned, Course, Home, Believed, CentreIsMeasured, [Next]_vars
      PROVE  CentreIsMeasured'
  <2> SUFFICES ASSUME NEW e \in Exps, NEW i \in DOMAIN log'[e],
                      log'[e][i].kind = "run", log'[e][i].hop = None, log'[e][i].hz # None
               PROVE  log'[e][i].meas.flown = <<log'[e][i].hz>>
    BY DEF CentreIsMeasured
  <2>1. CASE i \in DOMAIN log[e] /\ log'[e][i] = log[e][i]
    BY <1>2, <2>1 DEF CentreIsMeasured
  <2>2. ASSUME NEW c \in Clients, NewRun(c, log'[e][i])
        PROVE  log'[e][i].meas.flown = <<log'[e][i].hz>>
    <3>1. ~Hopping /\ Flown(c) /\ log'[e][i].hz = LinkHz /\ LinkHz # None
      BY <1>2, <2>2 DEF NewRun, Planned, Hopping, Flown
    <3>2. tuned # None /\ tuned = LinkHz
      BY <1>2, <2>2, <3>1 DEF NewRun, Believed, LinkHz
    <3>3. job[c].flown = <<tuned>>
      BY <1>2, <3>1, <3>2 DEF Home, AtHome
    <3> QED
      BY <2>2, <3>1, <3>2, <3>3 DEF NewRun, MeasurementOf
  <2> QED
    BY <1>2, <2>1, <2>2, GradedRow
<1>3. ASSUME TypeInv, Flights, Planned, Course, Home, [Next]_vars
      PROVE  Planned' /\ Course' /\ Home'
  BY <1>3, CourseStep, HomeStep
<1>4. ASSUME TypeInv, Believed, [Next]_vars PROVE Believed'
  BY <1>4, BelievedStep
<1>5. Init => Believed
  BY BelievedStarts
<1> QED
  BY <1>1, <1>2, <1>3, <1>4, <1>5, CourseStarts, HomeStarts, TypeInvariance, FlightsHold,
     PTL DEF Spec

(* Who measures alone with radios that answer finds them, whenever nothing is  *)
(* under way, where the backend last tuned them: a hop cycle goes back.        *)
THEOREM LinkComesHome ==
  ASSUME Alone, Clients # {}, Faults = {}
  PROVE  Spec => []LinkReturnsHome
<1> DEFINE Up == radio = "up"
<1>1. Init => Up
  BY DEF Init
<1>2. ASSUME Up, [Next]_vars PROVE Up'
  <2>1. ASSUME NEW c \in Clients PROVE ~Lost(c)
    BY <1>2 DEF Lost
  <2>2. ASSUME NEW c \in Clients, Choose(c) \/ Steer(c) PROVE Up'
    BY <1>2, <2>1, <2>2 DEF Choose, Change, Reset, Adopt, Steer, Build, Retune, HopOn, HopOff,
       Sense, Diagnose, linkVars
  <2>3. ASSUME NEW c \in Clients, Measure(c) \/ Journal(c) PROVE Up'
    BY <1>2, <2>1, <2>3 DEF Measure, StartRun, Apply, Tune, Fly, Hop, Capture, Grade, Search,
       Journal, Number, RecordRun, RecordLost, RecordDecision, Annotate, Finish, Outcome,
       Conclude, linkVars
  <2> QED
    BY <1>2, <2>2, <2>3 DEF Next, vars
<1>3. ASSUME TypeInv, Flights, Planned, Course, Home, [Next]_vars
      PROVE  Planned' /\ Course' /\ Home'
  BY <1>3, CourseStep, HomeStep
<1>4. Home /\ Up => LinkReturnsHome
  <2> SUFFICES ASSUME Home, Up, NEW c \in Clients, Idle(c), tuned # None PROVE lo = tuned
    BY DEF LinkReturnsHome
  <2>1. at[c] # "tune" /\ ~Away(c)
    BY IdleGrounds DEF Idle, Away, Towards
  <2> QED
    BY <2>1 DEF Home, AtHome
<1> QED
  BY <1>1, <1>2, <1>3, <1>4, CourseStarts, HomeStarts, TypeInvariance, FlightsHold, PTL DEF Spec

-------------------------------------------------------------------------------
(* What a new row says of the last run: a graded one was not aborted, and one  *)
(* of another kind says nothing.                                               *)
LEMMA AbortedAppend ==
  ASSUME DataOK, NEW e \in Exps, NEW row \in Row, AppendRow(e, row), NEW d \in Exps, Aborted(d)'
  PROVE  /\ row.kind \in {"decision", "annotation"} => Aborted(d)
         /\ d # e => Aborted(d)
         /\ row.kind = "run" => d # e
<1>1. /\ log[d] \in Seq(Row) /\ Len(log[d]) \in Nat
      /\ log'[d] = IF d = e THEN Append(log[d], row) ELSE log[d]
  BY DEF AppendRow, DataOK
<1>2. CASE d # e
  BY <1>1, <1>2 DEF Aborted
<1>3. CASE d = e
  <2> DEFINE new == Append(log[d], row)
             n == Len(log[d])
  <2>1. /\ DOMAIN new = 1 .. n + 1 /\ DOMAIN log[d] = 1 .. n
        /\ new[n + 1] = row
    BY <1>1
  <2>1a. \A i \in 1 .. n : new[i] = log[d][i]
    BY <1>1
  <2>1b. log'[d] = new /\ n \in Nat
    BY <1>1, <1>3
  <2> HIDE DEF new, n
  <2>2. PICK i \in 1 .. n + 1 :
          /\ new[i].kind = "aborted"
          /\ \A k \in 1 .. n + 1 : new[k].kind \in {"run", "aborted"} => k <= i
    BY <2>1, <2>1b DEF Aborted
  <2>3. row.kind # "run"
    <3>1. SUFFICES ASSUME row.kind = "run" PROVE FALSE
      OBVIOUS
    <3>2. n + 1 <= i
      BY <2>1, <2>1b, <2>2, <3>1
    <3>3. i = n + 1
      BY <2>1b, <3>2
    <3> QED
      BY <2>1, <2>2, <3>1, <3>3
  <2>4. ASSUME row.kind \in {"decision", "annotation"} PROVE Aborted(d)
    <3>1. i \in 1 .. n
      <4>1. i # n + 1
        BY <2>1, <2>2, <2>4
      <4> QED
        BY <2>1b, <4>1
    <3>2. log[d][i].kind = "aborted"
      BY <2>1a, <2>2, <3>1
    <3>3. ASSUME NEW k \in 1 .. n, log[d][k].kind \in {"run", "aborted"} PROVE k <= i
      <4>1. k \in 1 .. n + 1 /\ new[k] = log[d][k]
        BY <2>1a, <2>1b
      <4> QED
        BY <2>2, <3>3, <4>1
    <3> QED
      BY <2>1, <3>1, <3>2, <3>3 DEF Aborted
  <2> QED
    BY <1>3, <2>3, <2>4
<1> QED
  BY <1>2, <1>3

Grading(c) == at[c] \in {"number", "record"} /\ job[c].op = "run"

LEMMA NothingLeftStep ==
  ASSUME Alone, TypeInv, SerialInv, NothingLeft, [Next]_vars
  PROVE  NothingLeft'
<1>0. DataOK
  BY DEF TypeInv, TypeOK
<1>1. CASE UNCHANGED vars
  BY <1>1 DEF vars, NothingLeft, Aborted
<1>2. ASSUME NEW c \in Clients, Choose(c) \/ Steer(c) \/ Measure(c) \/ Journal(c)
      PROVE  NothingLeft'
  <2>0. /\ job[c] \in Job /\ Fit(at[c], job[c]) /\ Steady(c)
        /\ NeedsLedger(at[c], job[c]) => ledger # None
        /\ \A d \in Clients : d = c
    BY ThreadFacts DEF SerialInv, Alone
  <2>1. CASE last' = None \/ Grading(c)'
    BY <2>1 DEF NothingLeft, Grading
  <2>2. ASSUME ~Grading(c), UNCHANGED last, ledger' # None /\ Aborted(ledger)' =>
                 ledger # None /\ Aborted(ledger)
        PROVE  NothingLeft'
    BY <2>0, <2>2 DEF NothingLeft, Grading
  <2>3. CASE Choose(c)
    <3>1. CASE Adopt(c)
      <4>1. last' = None
        BY <2>0, <3>1 DEF Adopt, Fit, Steady
      <4> QED
        BY <2>1, <4>1
    <3>2. CASE Reset(c)
      BY <2>1, <3>2 DEF Reset
    <3>3. ASSUME NEW e \in Exps, Change(c, e) PROVE NothingLeft'
      <4>1. UNCHANGED <<ledger, log, last>> /\ ~Grading(c)
        BY <3>3 DEF Change, Idle, Grading
      <4>2. Aborted(ledger)' => Aborted(ledger)
        BY <4>1 DEF Aborted
      <4> QED
        BY <2>2, <4>1, <4>2
    <3> QED
      BY <2>3, <3>1, <3>2, <3>3 DEF Choose
  <2>4. CASE Steer(c) \/ (Measure(c) /\ ~Grade(c))
    <3>1. CASE Steer(c)
      <4>1. UNCHANGED <<ledger, log, last>> /\ ~Grading(c)
        BY <3>1 DEF Steer, Build, Retune, HopOn, HopOff, Sense, Diagnose, ledgerVars, Idle,
           Grading
      <4>2. Aborted(ledger)' => Aborted(ledger)
        BY <4>1 DEF Aborted
      <4> QED
        BY <2>2, <4>1, <4>2
    <3>2. CASE Measure(c) /\ ~Grade(c)
      <4>1. UNCHANGED <<ledger, log, last>> /\ ~Grading(c)
        BY <3>2 DEF Measure, StartRun, Apply, Tune, Fly, Hop, Capture, Search, ledgerVars, Idle,
           Grading
      <4>2. Aborted(ledger)' => Aborted(ledger)
        BY <4>1 DEF Aborted
      <4> QED
        BY <2>2, <4>1, <4>2
    <3> QED
      BY <2>4, <3>1, <3>2
  <2>5. CASE Grade(c)
    <3>1. CASE job[c].op = "run" /\ Move(c, "number")
      <4>1. Grading(c)'
        BY <3>1, Moved DEF Move, Grading
      <4> QED
        BY <2>1, <4>1
    <3>2. CASE UNCHANGED last
      <4>1. UNCHANGED <<ledger, log>> /\ ~Grading(c)
        BY <2>5 DEF Grade, ledgerVars, Grading
      <4>2. Aborted(ledger)' => Aborted(ledger)
        BY <4>1 DEF Aborted
      <4> QED
        BY <2>2, <3>2, <4>1, <4>2
    <3> QED
      BY <2>5, <3>1, <3>2 DEF Grade
  <2>6. CASE Number(c)
    <3>1. CASE job[c].op = "run"
      <4>1. ledger # None
        BY <2>0, <3>1 DEF NeedsLedger
      <4>2. /\ at'[c] = "record"
            /\ job'[c] = [job[c] EXCEPT !.seq = top[ledger] + 1,
                             !.exp = IF job[c].op = "run" THEN job[c].exp ELSE ledger]
        BY <2>6, <4>1, Moved DEF Number
      <4>3. Grading(c)'
        BY <2>0, <3>1, <4>2 DEF Grading, Job
      <4> QED
        BY <2>1, <4>3
    <3>2. CASE job[c].op # "run"
      <4>1. UNCHANGED <<ledger, log, last>> /\ ~Grading(c)
        BY <2>6, <3>2 DEF Number, ledgerVars, Grading
      <4>2. Aborted(ledger)' => Aborted(ledger)
        BY <4>1 DEF Aborted
      <4> QED
        BY <2>2, <4>1, <4>2
    <3> QED
      BY <3>1, <3>2
  <2>7. CASE RecordRun(c)
    <3> DEFINE row == [kind |-> "run", seq |-> job[c].seq, spec |-> spec,
                       hz |-> LinkHz, hop |-> agentHop, meas |-> MeasurementOf(job[c])]
    <3>1. /\ job[c].spec = spec /\ job[c].spec \in Specs /\ job[c].exp \in Exps
          /\ ledger \in Exps /\ spec # None
      BY <1>0, <2>0, <2>7, SessionAssumption
         DEF RecordRun, Steady, Measures, Fit, NeedsLedger, DataOK
    <3>2. MeasurementOf(job[c]) \in Measurement
      BY <2>0, <3>1 DEF Job, Measurement, MeasurementOf
    <3>3. LinkHz \in Chans \cup {None}
      BY <1>0, SessionAssumption DEF LinkHz, DataOK
    <3>4. row \in Row /\ row.kind = "run"
      BY <1>0, <2>0, <3>2, <3>3 DEF Row, Job, DataOK
    <3>5. AppendRow(ledger, row) /\ UNCHANGED ledger
      BY <2>7, <3>1 DEF RecordRun, ledgerVars
    <3> HIDE DEF row
    <3>6. ~Aborted(ledger)'
      BY <1>0, <3>1, <3>4, <3>5, AbortedAppend DEF Aborted
    <3> QED
      BY <3>6 DEF NothingLeft
  <2>8. CASE RecordLost(c)
    <3>1. CASE last' = None
      BY <2>1, <3>1
    <3>2. CASE UNCHANGED <<last, log>>
      <4>1. UNCHANGED ledger /\ ~Grading(c)
        BY <2>8 DEF RecordLost, Grading
      <4>2. Aborted(ledger)' => Aborted(ledger)
        BY <3>2, <4>1 DEF Aborted
      <4> QED
        BY <2>2, <3>2, <4>1, <4>2
    <3> QED
      BY <2>8, <3>1, <3>2 DEF RecordLost, ledgerVars
  <2>9. ASSUME NEW e \in Exps, NEW row \in Row, AppendRow(e, row), UNCHANGED <<ledger, last>>,
               row.kind \in {"decision", "annotation"}, ~Grading(c)
        PROVE  NothingLeft'
    <3>1. ledger' # None /\ Aborted(ledger)' => ledger # None /\ Aborted(ledger)
      <4>1. SUFFICES ASSUME ledger # None, Aborted(ledger)' PROVE Aborted(ledger)
        BY <2>9
      <4>2. ledger \in Exps
        BY <1>0, <4>1 DEF DataOK
      <4>3. \A d \in Exps : d = ledger => Aborted(d)'
        BY <2>9, <4>1 DEF Aborted
      <4> QED
        BY <1>0, <2>9, <4>2, <4>3, AbortedAppend
    <3> QED
      BY <2>2, <2>9, <3>1
  <2>10. CASE RecordDecision(c)
    <3> DEFINE row == [kind |-> "decision", seq |-> job[c].seq, spec |-> job[c].spec,
                       hz |-> None, hop |-> None, meas |-> None]
    <3>1. /\ job[c].exp \in Exps /\ AppendRow(job[c].exp, row) /\ UNCHANGED <<ledger, last>>
          /\ ~Grading(c)
      BY <2>0, <2>10 DEF RecordDecision, Fit, Grading
    <3>2. row \in Row /\ row.kind = "decision"
      BY <2>0 DEF Row, Job
    <3> HIDE DEF row
    <3> QED
      BY <2>9, <3>1, <3>2
  <2>11. ASSUME NEW n \in NoteSeqs, Annotate(c, n) PROVE NothingLeft'
    <3> DEFINE row == [kind |-> "annotation", seq |-> n, spec |-> None,
                       hz |-> None, hop |-> None, meas |-> None]
    <3>1. /\ ledger \in Exps /\ AppendRow(ledger, row) /\ UNCHANGED <<ledger, last>>
          /\ ~Grading(c)
      BY <1>0, <2>11 DEF Annotate, DataOK, Idle, Grading
    <3>2. row \in Row /\ row.kind = "annotation"
      BY SessionAssumption DEF Row
    <3> HIDE DEF row
    <3> QED
      BY <2>9, <3>1, <3>2
  <2>12. CASE Finish(c) \/ Outcome(c) \/ Conclude(c)
    <3>1. UNCHANGED <<ledger, log, last>> /\ ~Grading(c)
      BY <2>12 DEF Finish, Outcome, Conclude, ledgerVars, Idle, Grading
    <3>2. Aborted(ledger)' => Aborted(ledger)
      BY <3>1 DEF Aborted
    <3> QED
      BY <2>2, <3>1, <3>2
  <2> QED
    BY <1>2, <2>3, <2>4, <2>5, <2>6, <2>7, <2>8, <2>10, <2>11, <2>12 DEF Measure, Journal
<1> QED
  BY <1>1, <1>2 DEF Next

(* Who measures alone finds no result after a run that was aborted, until      *)
(* another one is graded, whatever was decided, annotated or switched between. *)
THEOREM AbortsLeaveNothing ==
  ASSUME Alone
  PROVE  Spec => []AbortLeavesNoResult
<1>1. Init => NothingLeft
  BY DEF Init, NothingLeft
<1>2. ASSUME TypeInv, SerialInv, NothingLeft, [Next]_vars PROVE NothingLeft'
  BY <1>2, NothingLeftStep
<1>3. NothingLeft => AbortLeavesNoResult
  BY DEF NothingLeft, AbortLeavesNoResult, Aborted, Idle
<1> QED
  BY <1>1, <1>2, <1>3, TypeInvariance, SerialInvariance, PTL DEF Spec
===============================================================================
