----------------------------- MODULE RadioWorker ------------------------------
(* RadioWorker and WorkerBackend: the daemon's end of a pipe to the process    *)
(* that owns the radios, that process, and what its death, its silence and the *)
(* daemon's exit do to the requests of several HTTP threads. The backend in    *)
(* the child is Pluto. A worker is started once and never again; a reader      *)
(* thread left behind by a timeout reads from a worker that is being stopped.  *)
EXTENDS Pluto, FiniteSets

CONSTANTS Clients,    \* HTTP threads
          Main,       \* the daemon's main thread
          Roles,      \* the radios: transmitter and receiver
          Requests,   \* client -> what it asks, [kind, freqs]
          Faults,     \* "unplug", "slow" (past a timeout), "wedge" (never answers), "exit"
          None

Kinds == {"run", "misrun", "tune", "sense", "health", "alien", "nan"}

ASSUME WorkerAssumption ==
  /\ Main \notin Clients /\ None \notin Clients
  /\ \A c \in Clients : \A r \in Requests[c] :
       /\ r \in [kind : Kinds, freqs : Seq(Chans)]
       /\ r.kind = "tune" => Len(r.freqs) = 1
  /\ Faults \subseteq {"unplug", "slow", "wedge", "exit"}

VARIABLES main,     \* where the main thread is
          child,    \* the worker process
          held,     \* _proc is not None
          status,   \* _status, its reason
          lock,     \* the client that holds _lock
          inq,      \* request lines the child has not read
          outq,     \* reply lines the daemon has not read
          cur,      \* the request the child is handling
          gone,     \* radios that have been unplugged
          devices,  \* _status.devices: roles reported as not alive
          at,       \* client -> where it is
          job       \* client -> its request, its number, its outcome

superVars == <<held, status, devices>>
pipes == <<inq, outq>>
clients == <<at, job>>
childVars == <<child, cur>>
vars == <<main, childVars, superVars, lock, pipes, gone, clients, plutoVars>>

Close == [kind |-> "close", freqs |-> <<>>]
Health == [kind |-> "health", freqs |-> <<>>]

NoJob == [req |-> Health, got |-> "none", known |-> {}]

Line(c) == [by |-> c, req |-> job[c].req]

Init ==
  /\ PlutoInit
  /\ main = "boot" /\ child = "none" /\ cur = None
  /\ held = FALSE /\ status = "not started" /\ devices = {}
  /\ lock = None /\ inq = <<>> /\ outq = <<>>
  /\ gone = {}
  /\ at = [c \in Clients |-> "idle"]
  /\ job = [c \in Clients |-> NoJob]

-------------------------------------------------------------------------------
Dead == child = "dead"

(* is_running, which records a death it finds.                                 *)
Running == held /\ ~Dead
Found == IF held /\ Dead /\ status = "ready" THEN "died" ELSE status

Goto(c, place) == at' = [at EXCEPT ![c] = place] /\ UNCHANGED job

Back(c, outcome) ==
  /\ at' = [at EXCEPT ![c] = "back"]
  /\ job' = [job EXCEPT ![c].got = outcome]

Start ==
  /\ main = "boot"
  /\ main' = "starting" /\ child' = "starting" /\ held' = TRUE
  /\ UNCHANGED <<cur, status, devices, lock, pipes, gone, clients, plutoVars>>

(* The child's own check that both radios answer, before it says it is ready.  *)
Greet ==
  /\ child = "starting"
  /\ child' = IF gone = {} THEN "ready" ELSE "dead"
  /\ UNCHANGED <<main, cur, superVars, lock, pipes, gone, clients, plutoVars>>

(* start reads the greeting. Without one the daemon goes on without radios.    *)
Started ==
  /\ main = "starting"
  /\ \/ child = "ready" /\ status' = "ready" /\ main' = "serving"
     \/ /\ Dead \/ (child = "starting" /\ "slow" \in Faults)
        /\ status' = "died" /\ main' = "without"
  /\ UNCHANGED <<childVars, held, devices, lock, pipes, gone, clients, plutoVars>>

-------------------------------------------------------------------------------
(* A request, or a health poll that finds the worker running.                  *)
Ask(c, r) ==
  /\ main = "serving" /\ at[c] = "idle"
  /\ r.kind = "health" => Running
  /\ at' = [at EXCEPT ![c] = "enter"]
  /\ job' = [job EXCEPT ![c] = [req |-> r, got |-> "none", known |-> {}]]
  /\ UNCHANGED <<main, childVars, superVars, lock, pipes, gone, plutoVars>>

(* poll_devices once the worker is dead: each radio is probed from here.       *)
Probe(c) ==
  /\ main = "serving" /\ at[c] = "idle" /\ ~Running
  /\ status' = Found /\ devices' = gone
  /\ UNCHANGED <<main, childVars, held, lock, pipes, gone, clients, plutoVars>>

(* Mutant: request without the lock.                                           *)
EnterUnlocked(c) ==
  /\ at[c] = "enter"
  /\ \/ ~Running /\ Back(c, "lost")
     \/ Running /\ Goto(c, "write")
  /\ status' = Found
  /\ UNCHANGED <<main, childVars, held, devices, lock, pipes, gone, plutoVars>>

Enter(c) ==
  /\ at[c] = "enter" /\ lock = None
  /\ \/ ~Running /\ Back(c, "lost") /\ UNCHANGED lock
     \/ Running /\ lock' = c /\ Goto(c, "write")
  /\ status' = Found
  /\ UNCHANGED <<main, childVars, held, devices, pipes, gone, plutoVars>>

Unlock(c) == lock' = IF lock = c THEN None ELSE lock

(* The line is encoded and written. An object the protocol cannot carry is a   *)
(* TypeError and goes to the caller; a number JSON cannot carry is a           *)
(* ValueError, taken for a broken pipe; a pipe without a reader is one.        *)
Write(c) ==
  /\ at[c] = "write"
  /\ \/ /\ job[c].req.kind = "alien" \/ ~held
        /\ Back(c, "failed") /\ Unlock(c) /\ UNCHANGED inq
     \/ /\ held /\ job[c].req.kind # "alien" /\ (job[c].req.kind = "nan" \/ Dead)
        /\ Goto(c, "collect") /\ UNCHANGED <<inq, lock>>
     \/ /\ held /\ job[c].req.kind \notin {"alien", "nan"} /\ ~Dead
        /\ inq' = Append(inq, Line(c))
        /\ Goto(c, "read") /\ UNCHANGED lock
  /\ UNCHANGED <<main, childVars, superVars, outq, gone, plutoVars>>

(* _collect_death reads the worker's stderr to its end before anything else.   *)
Collect(c) ==
  /\ at[c] = "collect" /\ Dead
  /\ status' = Found
  /\ Back(c, "lost") /\ Unlock(c)
  /\ UNCHANGED <<main, childVars, held, devices, pipes, gone, plutoVars>>

(* Mutant: readline without a timeout.                                         *)
ReadPatiently(c) ==
  /\ at[c] = "read"
  /\ \/ /\ outq # <<>>
        /\ outq' = Tail(outq)
        /\ Back(c, Head(outq).is)
     \/ /\ outq = <<>> /\ (Dead \/ ~held)
        /\ Back(c, "lost") /\ UNCHANGED outq
  /\ Unlock(c)
  /\ UNCHANGED <<main, childVars, superVars, inq, gone, plutoVars>>

(* A reply line, the end of the pipe, or neither before the timeout: then the  *)
(* worker is marked dead and stopped.                                          *)
Read(c) ==
  /\ at[c] = "read"
  /\ \/ /\ outq # <<>>
        /\ outq' = Tail(outq)
        /\ at' = [at EXCEPT ![c] = "back"]
        /\ job' = [job EXCEPT ![c].got =
             IF Head(outq).by # c THEN "alien" ELSE Head(outq).is]
        /\ Unlock(c) /\ UNCHANGED status
     \/ /\ outq = <<>> /\ (Dead \/ ~held)
        /\ status' = Found
        /\ Back(c, "lost") /\ Unlock(c) /\ UNCHANGED outq
     \/ /\ outq = <<>> /\ Running /\ (child = "wedged" \/ "slow" \in Faults)
        /\ status' = "silent"
        /\ Goto(c, "stop") /\ UNCHANGED <<outq, lock>>
  /\ UNCHANGED <<main, childVars, held, devices, inq, gone, plutoVars>>

(* Mutant: a worker that did not answer in time is kept.                       *)
StopKeeping(c) ==
  /\ at[c] = "stop"
  /\ Back(c, "lost") /\ Unlock(c)
  /\ UNCHANGED <<main, childVars, superVars, pipes, gone, plutoVars>>

(* stop: ask the worker to close, wait for it, kill it.                        *)
Reap == child \in {"busy", "wedged", "dead"}

Stopped ==
  \/ ~held /\ UNCHANGED <<childVars, superVars>>
  \/ /\ held /\ Reap
     /\ child' = "dead" /\ cur' = None
     /\ held' = FALSE /\ status' = "stopped" /\ devices' = {}

AskToClose(c) ==
  /\ at[c] = "stop"
  /\ inq' = Append(inq, [by |-> None, req |-> Close])
  /\ Goto(c, "stopping")
  /\ UNCHANGED <<main, childVars, superVars, lock, outq, gone, plutoVars>>

StopWorker(c) ==
  /\ at[c] = "stopping"
  /\ Stopped
  /\ Back(c, "lost") /\ Unlock(c)
  /\ UNCHANGED <<main, pipes, gone, plutoVars>>

(* poll_devices reports what the child said of its radios, or both as gone.    *)
Return(c) ==
  /\ at[c] = "back"
  /\ devices' = IF job[c].req.kind # "health" THEN devices
                ELSE CASE job[c].got = "lost" -> Roles
                       [] job[c].got = "ok" -> job[c].known
                       [] OTHER -> devices
  /\ at' = [at EXCEPT ![c] = "idle"] /\ job' = [job EXCEPT ![c] = NoJob]
  /\ UNCHANGED <<main, childVars, held, status, lock, pipes, gone, plutoVars>>

(* The daemon exits: stop, without the lock.                                   *)
Quit ==
  /\ main = "serving" /\ "exit" \in Faults
  /\ main' = "closing"
  /\ inq' = IF Running THEN Append(inq, [by |-> None, req |-> Close]) ELSE inq
  /\ UNCHANGED <<childVars, superVars, lock, outq, gone, clients, plutoVars>>

Quitted ==
  /\ main = "closing"
  /\ Stopped
  /\ main' = "closed"
  /\ UNCHANGED <<lock, pipes, gone, clients, plutoVars>>

-------------------------------------------------------------------------------
(* The child: one line at a time.                                              *)
Receive ==
  /\ child = "ready" /\ inq # <<>>
  /\ inq' = Tail(inq)
  /\ IF Head(inq).req.kind = "close"
       THEN child' = "dead" /\ UNCHANGED cur
       ELSE child' = "busy" /\ cur' = Head(inq)
  /\ UNCHANGED <<main, superVars, lock, outq, gone, clients, plutoVars>>

Present == gone = {}

(* A trial, a condition, a sweep; an oversampling that is odd, and a sweep of  *)
(* one candidate, which would be its own reference, are refused.               *)
Begin ==
  /\ child = "busy"
  /\ CASE cur.req.kind = "run" -> Transmit(Present)
       [] cur.req.kind = "tune" -> SetCondition(cur.req.freqs[1])
       [] cur.req.kind = "sense" /\ Len(cur.req.freqs) > 1 -> Sweep(cur.req.freqs)
       [] cur.req.kind = "health" -> FALSE
       [] OTHER -> Refuse
  /\ UNCHANGED <<main, childVars, superVars, lock, pipes, gone, clients>>

Work ==
  /\ child = "busy"
  /\ PlutoStep(Present)
  /\ UNCHANGED <<main, childVars, superVars, lock, pipes, gone, clients>>

Hear ==
  /\ ~Dead
  /\ Present /\ Sample
  /\ UNCHANGED <<main, childVars, superVars, lock, pipes, gone, clients>>

(* handle's reply; whatever it raised is an error reply. A health request asks *)
(* each radio.                                                                 *)
Reply ==
  /\ child = "busy"
  /\ cur.req.kind = "health" \/ stage \in {"done", "failed"}
  /\ outq' = Append(outq, [by |-> cur.by, is |-> IF stage = "failed" THEN "failed" ELSE "ok"])
  /\ job' = IF cur.req.kind = "health" THEN [job EXCEPT ![cur.by].known = gone] ELSE job
  /\ child' = "ready" /\ cur' = None
  /\ IF cur.req.kind = "health" THEN UNCHANGED plutoVars ELSE Rest
  /\ UNCHANGED <<main, superVars, lock, inq, gone, at>>

-------------------------------------------------------------------------------
Unplug(r) ==
  /\ "unplug" \in Faults /\ r \notin gone
  /\ gone' = gone \cup {r}
  /\ UNCHANGED <<main, childVars, superVars, lock, pipes, clients, plutoVars>>

(* The input and output library ends the process when a radio goes silent.     *)
Abort ==
  /\ child \in {"ready", "busy"} /\ graph /\ gone # {}
  /\ child' = "dead" /\ cur' = None
  /\ UNCHANGED <<main, superVars, lock, pipes, gone, clients, plutoVars>>

(* A full stderr pipe, or a driver call that does not return.                  *)
Wedge ==
  /\ "wedge" \in Faults /\ child = "busy"
  /\ child' = "wedged"
  /\ UNCHANGED <<main, cur, superVars, lock, pipes, gone, clients, plutoVars>>

-------------------------------------------------------------------------------
Serve(c) == Write(c) \/ Collect(c) \/ Read(c) \/ AskToClose(c) \/ StopWorker(c) \/ Return(c)

Child == Receive \/ Begin \/ Work \/ Reply

Next ==
  \/ Start \/ Greet \/ Started \/ Quit \/ Quitted
  \/ \E c \in Clients : (\E r \in Requests[c] : Ask(c, r)) \/ Probe(c) \/ Enter(c) \/ Serve(c)
  \/ Child \/ Hear \/ Abort \/ Wedge
  \/ \E r \in Roles : Unplug(r)

Spec == Init /\ [][Next]_vars

(* Threads and the child keep running, and the lock is handed on. Nobody has   *)
(* to ask anything, and no radio has to fail.                                  *)
FairSpec ==
  /\ Spec
  /\ \A c \in Clients : WF_vars(Serve(c)) /\ SF_vars(Enter(c))
  /\ WF_vars(Child)

-------------------------------------------------------------------------------
TypeOK ==
  /\ PlutoTypeOK
  /\ main \in {"boot", "starting", "serving", "without", "closing", "closed"}
  /\ child \in {"none", "starting", "ready", "busy", "wedged", "dead"}
  /\ held \in BOOLEAN /\ lock \in Clients \cup {None}
  /\ status \in {"not started", "ready", "died", "silent", "stopped"}
  /\ devices \subseteq Roles /\ gone \subseteq Roles
  /\ at \in [Clients -> {"idle", "enter", "write", "collect", "read", "stop", "stopping", "back"}]
  /\ \A c \in Clients : job[c].got \in {"none", "ok", "failed", "lost", "alien"}

(* A reply answers the request of the thread that reads it, though the pipe    *)
(* carries nothing to tell them apart.                                         *)
RepliesMatch == \A c \in Clients : job[c].got # "alien"

(* The worker is the radio the session assumes: nothing is measured once a     *)
(* request was told that the device is gone, by whichever thread, and a late   *)
(* answer reaches nobody.                                                      *)
AbstractReply ==
  [c \in Clients |->
     CASE at[c] = "idle" -> "none"
       [] at[c] = "back" -> IF job[c].got = "ok" THEN "ok" ELSE "failed"
       [] at[c] = "read" /\ outq # <<>> -> Head(outq).is
       [] OTHER -> "pending"]

Radio == INSTANCE RadioLink WITH lost <- Dead \/ status \in {"died", "silent", "stopped"},
                                 reply <- AbstractReply

ImplementsRadioLink == Radio!LinkSpec

(* Every request returns: a read never waits for ever, nor does a request      *)
(* behind it.                                                                  *)
RequestsReturn == \A c \in Clients : at[c] # "idle" ~> at[c] = "idle"
===============================================================================
