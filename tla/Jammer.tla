-------------------------------- MODULE Jammer --------------------------------
(* The operator's jammer: JammerInstrument, its owner thread and follower, the *)
(* transmitter processes it launches, OperatorControl in front of it, and the  *)
(* two callers that reach it without an operator: the experiment's reset hook  *)
(* and the daemon's shutdown. One lock serialises commands; every start and    *)
(* stop of a transmitter is queued to the one thread that owns them.           *)
EXTENDS Naturals, Sequences, FiniteSets

CONSTANTS Callers,    \* HTTP threads: operator commands, polls, experiment resets
          Main,       \* the thread that runs the exit and signal handlers
          Followers,  \* follower threads there may be at once
          Units,      \* interferer objects there may be at once
          Chans,      \* centre frequencies in the HackRF's range
          DefaultHz,  \* the frequency _cfg starts with
          Commands,   \* operator commands
          Enabled,    \* the daemon was started with a jammer it may arm
          Backlog,    \* bound on commands whose callers gave up
          Faults,     \* "dies", "refuses" to launch, "slow" owner
          None

ASSUME JammerAssumption ==
  /\ None \notin Followers \cup Units \cup Chans \cup Callers \cup {Main}
  /\ None \notin {"died", "start", "retune"}
  /\ Main \notin Callers \cup Followers /\ Callers \cap Followers = {}
  /\ Commands \subseteq [on : {"on", "off", "same"}, hz : Chans \cup {None, "beyond"},
                         follow : {"on", "off", "same"}]
  /\ Enabled \in BOOLEAN
  /\ Faults \subseteq {"dies", "refuses", "slow"}
  /\ Backlog \in Nat
  /\ DefaultHz \in Chans /\ "beyond" \notin Chans

VARIABLES asked,     \* ControlState's jammer flag
          lock,      \* the thread that holds _lock
          itf,       \* _itf
          cfg,       \* _cfg
          intended,  \* _intended
          error,     \* _error
          follower,  \* _follow_thread
          halted,    \* _follow_stop is set
          queue,     \* _cmds, the item being run at its head
          retired,   \* the owner thread has returned
          proc,      \* unit -> its transmitter process
          parked,    \* unit -> its centre_freq_hz
          chases,    \* unit -> is it a FollowerJammer
          link,      \* the channel the link is on
          at,        \* thread -> where it waits
          job,       \* thread -> its locals
          slot       \* thread -> what became of its queued command

vars == <<asked, lock, itf, cfg, intended, error, follower, halted, queue, retired,
          proc, parked, chases, link, at, job, slot>>

settings == <<cfg, intended>>
pursuit == <<follower, halted>>
work == <<queue, slot>>
unitVars == <<proc, parked, chases>>
threads == <<at, job>>
outside == <<asked, link, retired>>

Threads == Callers \cup Followers \cup {Main}

NoJob == [cmd |-> None, want |-> FALSE, again |-> FALSE, unit |-> None,
          seen |-> None, reset |-> FALSE]

Init ==
  /\ asked = FALSE
  /\ lock = None
  /\ itf = None
  /\ cfg = [hz |-> DefaultHz, follow |-> FALSE]
  /\ intended = FALSE
  /\ error = None
  /\ follower = None
  /\ halted = FALSE
  /\ queue = <<>>
  /\ retired = FALSE
  /\ proc = [u \in Units |-> "none"]
  /\ parked = [u \in Units |-> None]
  /\ chases = [u \in Units |-> FALSE]
  /\ link = None
  /\ at = [t \in Threads |-> IF t \in Followers THEN "off" ELSE "idle"]
  /\ job = [t \in Threads |-> NoJob]
  /\ slot = [t \in Threads |-> "none"]

-------------------------------------------------------------------------------
On(u) == proc[u] = "on"

(* is_armed, which takes no lock.                                              *)
Armed == itf # None /\ On(itf)

(* status: a jammer that was wanted and is not there is an error, once.        *)
Noticed == IF intended /\ ~Armed /\ error = None THEN "died" ELSE error

Become(t, place, j) ==
  /\ at' = [at EXCEPT ![t] = place]
  /\ job' = [job EXCEPT ![t] = j]

Goto(t, place) == Become(t, place, job[t])

Free == lock = None

(* Nobody reads the queue once the owner is gone, and the model does not keep  *)
(* it.                                                                         *)
Queued(q, op, u, f, t) ==
  IF retired THEN <<>> ELSE Append(q, [op |-> op, unit |-> u, hz |-> f, by |-> t])

(* _submit: queue a command for the owner and wait for its slot.               *)
Submit(t, op, u, f) ==
  /\ queue' = Queued(queue, op, u, f, t)
  /\ slot' = [slot EXCEPT ![t] = "waiting"]

Answered(t) == slot[t] \in {"ok", "failed"}

(* The wait runs out; the command stays in the queue, and nobody hears of it.  *)
(* Bound: that many commands are left behind at a time.                        *)
Late ==
  \/ retired
  \/ /\ "slow" \in Faults
     /\ Cardinality({i \in DOMAIN queue : queue[i].by = None}) < Backlog

Disowned(t) ==
  [i \in DOMAIN queue |-> IF queue[i].by = t THEN [queue[i] EXCEPT !.by = None] ELSE queue[i]]

(* Mutant: giving up also takes the command back.                              *)
GiveUpCancelled(t) ==
  /\ slot[t] = "waiting" /\ Late
  /\ queue' = SelectSeq(queue, LAMBDA item : item.by # t)
  /\ slot' = [slot EXCEPT ![t] = "none"]

GiveUp(t) ==
  /\ slot[t] = "waiting" /\ Late
  /\ queue' = Disowned(t)
  /\ slot' = [slot EXCEPT ![t] = "none"]

Collect(t) ==
  /\ slot' = [slot EXCEPT ![t] = "none"]
  /\ UNCHANGED queue

(* A unit nothing refers to any more, or a new one.                            *)
Fresh(u) ==
  /\ itf # u /\ ~On(u)
  /\ \A i \in DOMAIN queue : queue[i].unit # u
  /\ \A t \in Threads : job[t].unit # u

-------------------------------------------------------------------------------
(* Bound: a command may leave a follower behind, so none starts without one to *)
(* spare for every command being served.                                       *)
Spare ==
  Cardinality({f \in Followers : at[f] # "off"})
    + Cardinality({c \in Callers : at[c] \notin {"idle", "fresh"}}) < Cardinality(Followers)

(* An operator command: the control state takes it, and reports once, before   *)
(* the instrument sees it.                                                     *)
Post(c, cmd) ==
  /\ at[c] \in {"idle", "fresh"} /\ Spare
  /\ asked' = IF cmd.on = "same" THEN asked ELSE cmd.on = "on"
  /\ Become(c, "post", [NoJob EXCEPT !.cmd = cmd])
  /\ UNCHANGED <<lock, itf, settings, error, pursuit, work, unitVars, link, retired>>

Off == [on |-> "off", hz |-> None, follow |-> "same"]

(* _on_reset: looks without the lock, and switches off what it sees.           *)
Reset(c) ==
  /\ at[c] \in {"idle", "fresh"}
  /\ \/ ~Armed /\ Become(c, "fresh", NoJob) /\ UNCHANGED asked
     \/ /\ Armed
        /\ asked' = FALSE
        /\ Become(c, "post", [NoJob EXCEPT !.cmd = Off, !.reset = TRUE])
  /\ UNCHANGED <<lock, itf, settings, error, pursuit, work, unitVars, link, retired>>

(* status, polled or on the way to a command.                                  *)
Poll(c) ==
  /\ at[c] \in {"idle", "post"} /\ Free
  /\ error' = Noticed
  /\ Goto(c, IF at[c] = "post" THEN "enter" ELSE "idle")
  /\ UNCHANGED <<lock, itf, settings, pursuit, work, unitVars, outside>>

Shutdown ==
  /\ at[Main] = "idle"
  /\ Goto(Main, "enter")
  /\ UNCHANGED <<lock, itf, settings, error, pursuit, work, unitVars, outside>>

(* The lock is taken; an apply works out what it is asked for from is_armed.   *)
Enter(c) ==
  /\ at[c] = "enter" /\ Free
  /\ lock' = c
  /\ \/ c = Main /\ intended' = FALSE /\ Goto(c, "halt")
     \/ /\ c # Main /\ UNCHANGED intended
        /\ Become(c, "decide", [job[c] EXCEPT !.want =
             IF job[c].cmd.on = "same" THEN Armed ELSE job[c].cmd.on = "on"])
  /\ UNCHANGED <<itf, cfg, error, pursuit, work, unitVars, outside>>

Told(c) ==
  [hz |-> IF job[c].cmd.hz = None THEN cfg.hz ELSE job[c].cmd.hz,
   follow |-> IF job[c].cmd.follow = "same" THEN cfg.follow ELSE job[c].cmd.follow = "on"]

Refused(c) == job[c].cmd.hz = "beyond" \/ (job[c].want /\ ~Enabled)

(* Back to the HTTP thread, with a status or with an exception.                *)
Return(c) ==
  /\ lock' = None
  /\ Become(c, IF c = Main THEN "retire" ELSE IF job[c].reset THEN "fresh" ELSE "idle", NoJob)

(* Refuse, or store the parameters and the intention and go on to disarm, arm, *)
(* restart or leave the transmitter alone. is_armed is asked again.            *)
Decide(c) ==
  /\ at[c] = "decide"
  /\ \/ Refused(c) /\ Return(c) /\ UNCHANGED settings
     \/ /\ ~Refused(c)
        /\ cfg' = Told(c) /\ intended' = job[c].want
        /\ \/ ~job[c].want /\ Goto(c, "halt")
           \/ job[c].want /\ ~Armed /\ Goto(c, "arm")
           \/ /\ job[c].want /\ Armed /\ Told(c) # cfg
              /\ Become(c, "halt", [job[c] EXCEPT !.again = TRUE])
           \/ job[c].want /\ Armed /\ Told(c) = cfg /\ Goto(c, "leave")
        /\ UNCHANGED lock
  /\ UNCHANGED <<itf, error, pursuit, work, unitVars, outside>>

Leave(c) ==
  /\ at[c] = "leave"
  /\ error' = IF c = Main THEN error ELSE Noticed
  /\ Return(c)
  /\ UNCHANGED <<itf, settings, pursuit, work, unitVars, outside>>

-------------------------------------------------------------------------------
(* _disarm: stop the follower, wait for it a while, then close the interferer. *)
Halt(c) ==
  /\ at[c] = "halt"
  /\ halted' = TRUE /\ follower' = None
  /\ \/ follower = None /\ Goto(c, "close")
     \/ follower # None /\ Become(c, "join", [job[c] EXCEPT !.seen = follower])
  /\ UNCHANGED <<lock, itf, settings, error, work, unitVars, outside>>

(* Mutant: the join has no timeout.                                            *)
JoinForever(c) ==
  /\ at[c] = "join"
  /\ at[job[c].seen] = "off"
  /\ Goto(c, "close")
  /\ UNCHANGED <<lock, itf, settings, error, pursuit, work, unitVars, outside>>

(* The follower it waits for may be waiting for the lock: then only the three  *)
(* seconds end the wait.                                                       *)
Join(c) ==
  /\ at[c] = "join"
  /\ at[job[c].seen] \in {"off", "enter"}
  /\ Goto(c, "close")
  /\ UNCHANGED <<lock, itf, settings, error, pursuit, work, unitVars, outside>>

AfterDisarm(c) == IF job[c].again THEN "arm" ELSE "leave"

(* Mutant: the interferer is dropped, its close never sent to the owner.       *)
CloseUnsent(c) ==
  /\ at[c] = "close"
  /\ itf' = None
  /\ Goto(c, AfterDisarm(c))
  /\ UNCHANGED <<lock, settings, error, pursuit, work, unitVars, outside>>

Close(c) ==
  /\ at[c] = "close"
  /\ \/ /\ itf = None
        /\ Goto(c, AfterDisarm(c))
        /\ UNCHANGED <<itf, work>>
     \/ /\ itf # None
        /\ itf' = None
        /\ Submit(c, "close", itf, None)
        /\ Goto(c, "closing")
  /\ UNCHANGED <<lock, settings, error, pursuit, unitVars, outside>>

Closing(c) ==
  /\ at[c] = "closing"
  /\ \/ Answered(c) /\ Collect(c) /\ Goto(c, AfterDisarm(c)) /\ UNCHANGED lock
     \/ GiveUp(c) /\ Return(c)
  /\ UNCHANGED <<itf, settings, error, pursuit, unitVars, outside>>

(* _arm: a new interferer from the stored parameters, launched by the owner.   *)
Arm(c) ==
  /\ at[c] = "arm"
  /\ error' = None
  /\ \/ \E u \in Units :
          /\ Fresh(u)
          /\ proc' = [proc EXCEPT ![u] = "none"]
          /\ parked' = [parked EXCEPT ![u] = cfg.hz]
          /\ chases' = [chases EXCEPT ![u] = cfg.follow]
          /\ Submit(c, "start", u, None)
          /\ Become(c, "starting", [job[c] EXCEPT !.unit = u])
          /\ UNCHANGED lock
     \/ /\ Late
        /\ Return(c)
        /\ UNCHANGED <<work, unitVars>>
  /\ UNCHANGED <<itf, settings, pursuit, outside>>

(* It runs: it becomes the interferer, and a follower is started for it unless *)
(* there is one. It does not, or does not in time: close it and say so.        *)
Starting(c) ==
  /\ at[c] = "starting"
  /\ \/ /\ slot[c] = "ok" /\ Collect(c)
        /\ itf' = job[c].unit
        /\ UNCHANGED error
        /\ \/ /\ cfg.follow /\ follower = None
              /\ \E f \in Followers :
                   /\ at[f] = "off"
                   /\ follower' = f /\ halted' = FALSE
                   /\ at' = [at EXCEPT ![c] = "leave", ![f] = "wait"]
                   /\ UNCHANGED job
           \/ /\ ~cfg.follow \/ follower # None
              /\ Goto(c, "leave")
              /\ UNCHANGED pursuit
     \/ /\ slot[c] = "failed" \/ (slot[c] = "waiting" /\ Late)
        /\ error' = "start"
        /\ queue' = Queued(Disowned(c), "close", job[c].unit, None, c)
        /\ slot' = [slot EXCEPT ![c] = "waiting"]
        /\ Goto(c, "undo")
        /\ UNCHANGED <<itf, pursuit>>
  /\ UNCHANGED <<lock, settings, unitVars, outside>>

Undo(c) ==
  /\ at[c] = "undo"
  /\ \/ Answered(c) /\ Collect(c)
     \/ GiveUp(c)
  /\ Return(c)
  /\ UNCHANGED <<itf, settings, error, pursuit, unitVars, outside>>

(* shutdown retires the owner last, after whatever is still queued.            *)
Retire ==
  /\ at[Main] = "retire"
  /\ queue' = Queued(queue, "retire", None, None, None)
  /\ Goto(Main, "done")
  /\ UNCHANGED <<lock, itf, settings, error, pursuit, slot, unitVars, outside>>

-------------------------------------------------------------------------------
(* The follower: it looks at the link without the lock, takes the lock to      *)
(* chase it, and records the move only when the move worked.                   *)
Look(f) ==
  /\ at[f] = "wait"
  /\ \/ halted /\ Become(f, "off", NoJob)
     \/ ~halted /\ link # None /\ Become(f, "enter", [NoJob EXCEPT !.seen = link])
  /\ UNCHANGED <<lock, itf, settings, error, pursuit, work, unitVars, outside>>

Behind(f) == itf # None /\ chases[itf] /\ parked[itf] # job[f].seen

Chase(f) ==
  /\ at[f] = "enter" /\ Free
  /\ \/ /\ ~Behind(f)
        /\ Goto(f, "wait")
        /\ UNCHANGED <<lock, work>>
     \/ /\ Behind(f)
        /\ lock' = f
        /\ Submit(f, "retune", itf, job[f].seen)
        /\ Goto(f, "retuning")
  /\ UNCHANGED <<itf, settings, error, pursuit, unitVars, outside>>

(* Mutant: the retune moves the interferer and leaves _cfg as it was.          *)
ChasedQuietly(f) ==
  /\ at[f] = "retuning"
  /\ (Answered(f) /\ Collect(f)) \/ GiveUp(f)
  /\ lock' = None
  /\ Goto(f, "wait")
  /\ UNCHANGED <<itf, settings, error, pursuit, unitVars, outside>>

Chased(f) ==
  /\ at[f] = "retuning"
  /\ \/ /\ slot[f] = "ok" /\ Collect(f)
        /\ cfg' = [cfg EXCEPT !.hz = job[f].seen]
        /\ UNCHANGED error
     \/ /\ (slot[f] = "failed" /\ Collect(f)) \/ GiveUp(f)
        /\ error' = "retune"
        /\ UNCHANGED cfg
  /\ lock' = None
  /\ Goto(f, "wait")
  /\ UNCHANGED <<itf, intended, pursuit, unitVars, outside>>

-------------------------------------------------------------------------------
(* The owner runs what is queued, in order. A retune stops the transmitter,    *)
(* and goes on with a start.                                                   *)
Finish(result) ==
  LET by == Head(queue).by
  IN  /\ queue' = Tail(queue)
      /\ slot' = IF by = None THEN slot ELSE [slot EXCEPT ![by] = result]

Heads(op) == ~retired /\ queue # <<>> /\ Head(queue).op = op

(* One HackRF: hackrf_transfer exits at once when another process has claimed  *)
(* it, or when it is unplugged.                                                *)
Claimed(u) == \E v \in Units \ {u} : On(v)

RunStart ==
  /\ Heads("start")
  /\ LET u == Head(queue).unit
     IN  \/ proc[u] # "none" /\ Finish("ok") /\ UNCHANGED proc
         \/ /\ proc[u] = "none" /\ ~Claimed(u)
            /\ Finish("ok") /\ proc' = [proc EXCEPT ![u] = "on"]
         \/ /\ proc[u] = "none" /\ (Claimed(u) \/ "refuses" \in Faults)
            /\ Finish("failed") /\ UNCHANGED proc
  /\ UNCHANGED <<lock, itf, settings, error, pursuit, parked, chases, threads, outside>>

(* Mutant: close drops the wave directory and does not stop the transmitter.   *)
RunCloseLeaving ==
  /\ Heads("close")
  /\ Finish("ok")
  /\ UNCHANGED <<lock, itf, settings, error, pursuit, unitVars, threads, outside>>

RunClose ==
  /\ Heads("close")
  /\ Finish("ok")
  /\ LET u == Head(queue).unit
     IN  /\ proc' = [proc EXCEPT ![u] = "none"]
         /\ parked' = [parked EXCEPT ![u] = None]
         /\ chases' = [chases EXCEPT ![u] = FALSE]
  /\ UNCHANGED <<lock, itf, settings, error, pursuit, threads, outside>>

RunRetune ==
  /\ Heads("retune")
  /\ LET u == Head(queue).unit
         f == Head(queue).hz
     IN  \/ /\ parked[u] = f /\ On(u)
            /\ Finish("ok") /\ UNCHANGED <<proc, parked>>
         \/ /\ ~(parked[u] = f /\ On(u))
            /\ proc' = [proc EXCEPT ![u] = "none"]
            /\ parked' = [parked EXCEPT ![u] = f]
            /\ queue' = [queue EXCEPT ![1].op = "start"]
            /\ UNCHANGED slot
  /\ UNCHANGED <<lock, itf, settings, error, pursuit, chases, threads, outside>>

(* Mutant: the transmitters are launched without PR_SET_PDEATHSIG.             *)
RunRetireAlone ==
  /\ Heads("retire")
  /\ retired' = TRUE
  /\ queue' = <<>>
  /\ UNCHANGED <<lock, itf, settings, error, pursuit, slot, unitVars, threads, asked, link>>

(* When the owner thread ends, the kernel ends every transmitter it launched.  *)
RunRetire ==
  /\ Heads("retire")
  /\ retired' = TRUE
  /\ queue' = <<>>
  /\ proc' = [u \in Units |-> IF On(u) THEN "dead" ELSE proc[u]]
  /\ UNCHANGED <<lock, itf, settings, error, pursuit, slot, parked, chases, threads, asked, link>>

-------------------------------------------------------------------------------
Die(u) ==
  /\ On(u) /\ "dies" \in Faults
  /\ proc' = [proc EXCEPT ![u] = "dead"]
  /\ UNCHANGED <<lock, itf, settings, error, pursuit, work, parked, chases, threads, outside>>

(* The link is retuned or hops: current_link_freq is another channel.          *)
MoveLink ==
  /\ link' \in Chans
  /\ UNCHANGED <<lock, itf, settings, error, pursuit, work, unitVars, threads, asked, retired>>

-------------------------------------------------------------------------------
Take(c) == (at[c] = "post" /\ Poll(c)) \/ Enter(c)

Serve(c) ==
  \/ Decide(c) \/ Leave(c) \/ Halt(c) \/ Join(c) \/ Close(c) \/ Closing(c)
  \/ Arm(c) \/ Starting(c) \/ Undo(c)

Operate(c) == (\E cmd \in Commands : Post(c, cmd)) \/ Reset(c) \/ Poll(c)

Follow(f) == Look(f) \/ Chase(f) \/ Chased(f)

Own == RunStart \/ RunClose \/ RunRetune \/ RunRetire

Next ==
  \/ \E c \in Callers : Operate(c)
  \/ \E c \in Callers \cup {Main} : Take(c) \/ Serve(c)
  \/ Shutdown \/ Retire
  \/ \E f \in Followers : Follow(f)
  \/ Own
  \/ \E u \in Units : Die(u)
  \/ MoveLink

Spec == Init /\ [][Next]_vars

(* Threads keep running, a thread that wants the lock gets it in the end (its  *)
(* holders let go of it again and again), the owner serves its queue. Nobody   *)
(* has to send a command, and the link need not move.                          *)
FairSpec ==
  /\ Spec
  /\ \A c \in Callers \cup {Main} : SF_vars(Take(c)) /\ WF_vars(Serve(c))
  /\ WF_vars(Retire)
  /\ \A f \in Followers : WF_vars(Follow(f))
  /\ WF_vars(Own)

-------------------------------------------------------------------------------
TypeOK ==
  /\ asked \in BOOLEAN /\ intended \in BOOLEAN /\ halted \in BOOLEAN /\ retired \in BOOLEAN
  /\ lock \in Threads \cup {None}
  /\ itf \in Units \cup {None}
  /\ cfg \in [hz : Chans, follow : BOOLEAN]
  /\ error \in {None, "died", "start", "retune"}
  /\ follower \in Followers \cup {None}
  /\ queue \in Seq([op : {"start", "close", "retune", "retire"}, unit : Units \cup {None},
                    hz : Chans \cup {None}, by : Threads \cup {None}])
  /\ proc \in [Units -> {"none", "on", "dead"}]
  /\ parked \in [Units -> Chans \cup {None}]
  /\ chases \in [Units -> BOOLEAN]
  /\ link \in Chans \cup {None}
  /\ slot \in [Threads -> {"none", "waiting", "ok", "failed"}]
  /\ at \in [Threads -> {"idle", "fresh", "post", "enter", "decide", "leave", "halt",
                         "join", "close", "closing", "arm", "starting", "undo", "retire",
                         "done", "off", "wait", "retuning"}]

(* No transmitter is launched while another one of the daemon's holds the      *)
(* HackRF: however commands, followers and deaths interleave, a start that     *)
(* fails has failed for a reason outside the daemon.                           *)
NeverContends ==
  Heads("start") /\ proc[Head(queue).unit] = "none" => ~Claimed(Head(queue).unit)

(* A keyed transmitter is the instrument's, about to become so, or already     *)
(* has its close in the queue.                                                 *)
NoOrphanTransmitter ==
  \A u \in Units : On(u) =>
    \/ itf = u
    \/ \E t \in Threads : at[t] = "starting" /\ job[t].unit = u
    \/ \E i \in DOMAIN queue : queue[i].op = "close" /\ queue[i].unit = u

(* Between commands nothing is keyed that the operator does not want keyed,    *)
(* except what the owner has yet to close.                                     *)
DisarmedIsSilent ==
  Free /\ ~intended => \A u \in Units : On(u) =>
    \E i \in DOMAIN queue : queue[i].op = "close" /\ queue[i].unit = u

(* Between commands a jammer reported as armed, with no error, is where the    *)
(* report says, chasing the link or not as it says: an operator command        *)
(* outside the range is refused rather than clamped for the same reason.       *)
ParkedWhereTold ==
  Free /\ Armed /\ error = None =>
    parked[itf] = cfg.hz /\ chases[itf] = cfg.follow

(* Every command returns to its caller, though it may wait for the follower    *)
(* with the lock the follower waits for.                                       *)
CommandsReturn ==
  \A c \in Callers : at[c] \notin {"idle", "fresh"} ~> at[c] \in {"idle", "fresh"}

(* A process that holds a keyed transmitter does not leave it transmitting.    *)
ShutdownSilences == at[Main] = "enter" ~> [](\A u \in Units : ~On(u))
===============================================================================
