----------------------------- MODULE WorkerProofs -----------------------------
(* What holds of the radio worker for any number of HTTP threads, whatever     *)
(* they ask and whatever fails. The argument has three parts: the backend in   *)
(* the child keeps its flowgraph fit for the next call; the pipe, which names  *)
(* nobody, carries at most one request and its answer at a time, and they are  *)
(* the lock holder's; and a worker that is dead, silent or stopped stays so.   *)
EXTENDS RadioWorker, TLAPS, SequenceTheorems

-------------------------------------------------------------------------------
(* What travels.                                                               *)
Sent == {r \in [kind : Kinds, freqs : Seq(Chans)] : r.kind = "tune" => Len(r.freqs) = 1}
Asks == [by : Clients, req : Sent]
Closes == [by : {None}, req : {Close}]
Answers == [by : Clients, is : {"ok", "failed"}]
Jobs == [req : Sent, got : {"none", "ok", "failed", "lost", "alien"}, known : SUBSET Roles]

Handling == child \in {"busy", "wedged"}

Data ==
  /\ TypeOK
  /\ inq \in Seq(Asks \cup Closes) /\ outq \in Seq(Answers)
  /\ Handling => cur \in Asks
  /\ job \in [Clients -> Jobs]

(* The flowgraph: candidates remain only while a sweep is under way, a capture *)
(* is set up before it is armed, and the gate is open during one only.         *)
PlutoInv ==
  /\ Sensing => stage \in {"scan", "armed", "open"}
  /\ stage \in {"armed", "open"} /\ ~Sensing => lo = cond /\ wave = "frame"
  /\ stage \in {"armed", "open"} /\ Sensing => lo = Head(todo) /\ wave = "silent"
  /\ stage # "open" => ~gate /\ sink = 0

(* The lock is its holder's from the line to be written to the last word read. *)
Inside == {"write", "collect", "read", "stop", "stopping"}
Owners == \A c \in Clients : at[c] \in Inside <=> lock = c

(* Who is still owed what the pipe carries.                                    *)
Owed == {"read", "stop", "stopping"}

Ours(c) ==
  /\ \A i \in 1 .. Len(outq) : outq[i].by = c
  /\ \A i \in 1 .. Len(inq) : inq[i].req.kind # "close" => inq[i].by = c
  /\ Handling => cur.by = c

Waiting == \E c \in Clients : at[c] \in Owed

NoAsk == \A i \in 1 .. Len(inq) : inq[i].req.kind = "close"
Clean == outq = <<>> /\ NoAsk /\ ~Handling

(* One exchange at a time.                                                     *)
OneAsk ==
  /\ Handling => outq = <<>> /\ NoAsk
  /\ outq # <<>> => Len(outq) = 1 /\ NoAsk
  /\ \A i, j \in 1 .. Len(inq) :
       inq[i].req.kind # "close" /\ inq[j].req.kind # "close" => i = j

Wire ==
  /\ OneAsk
  /\ \A c \in Clients : at[c] \in Owed => Ours(c)
  /\ ~Dead => Waiting \/ Clean
  /\ RepliesMatch

(* The daemon's view of the worker.                                            *)
Lost == Dead \/ status \in {"died", "silent", "stopped"}
Stopping == \E c \in Clients : at[c] \in {"stop", "stopping"}

Books ==
  /\ main = "boot" <=> child = "none"
  /\ main \in {"boot", "starting"} => status = "not started"
  /\ main \in {"boot", "starting", "without"} => \A c \in Clients : at[c] = "idle"
  /\ ~held /\ main # "boot" => Dead
  /\ main \in {"serving", "closing", "closed"} /\ ~Dead =>
       status = "ready" \/ (status = "silent" /\ Stopping)
  /\ Stopping => Lost

WorkerInv == Data /\ PlutoInv /\ Owners /\ Wire /\ Books

-------------------------------------------------------------------------------
(* The flowgraph in the child.                                                 *)
LEMMA Refusing ==
  ASSUME PlutoTypeOK, PlutoInv, Refuse
  PROVE  PlutoTypeOK' /\ PlutoInv'
BY DEF Refuse, PlutoTypeOK, PlutoInv, Sensing, tuning, capture

LEMMA Tuning ==
  ASSUME PlutoTypeOK, PlutoInv, NEW f \in Chans, SetCondition(f)
  PROVE  PlutoTypeOK' /\ PlutoInv'
BY DEF SetCondition, PlutoTypeOK, PlutoInv, Sensing, tuning, capture

LEMMA Transmitting ==
  ASSUME PlutoTypeOK, PlutoInv, NEW present \in BOOLEAN, Transmit(present)
  PROVE  PlutoTypeOK' /\ PlutoInv'
BY DEF Transmit, PlutoTypeOK, PlutoInv, Sensing, tuning, capture

LEMMA Sweeping ==
  ASSUME PlutoTypeOK, PlutoInv, NEW freqs \in Seq(Chans), Sweep(freqs)
  PROVE  PlutoTypeOK' /\ PlutoInv'
BY DEF Sweep, PlutoTypeOK, PlutoInv, Sensing, tuning, capture

LEMMA Stepping ==
  ASSUME PlutoTypeOK, PlutoInv, NEW present \in BOOLEAN, PlutoStep(present)
  PROVE  PlutoTypeOK' /\ PlutoInv'
<1>1. CASE Listen(present)
  <2>1. Head(todo) \in Chans
    BY <1>1 DEF Listen, PlutoTypeOK, Sensing
  <2>2. PlutoTypeOK'
    <3>1. CASE ~graph /\ ~present
      <4>1. todo' = <<>> /\ <<>> \in Seq(Chans)
        BY <1>1, <3>1 DEF Listen
      <4> QED
        BY <1>1, <3>1, <4>1 DEF Listen, PlutoTypeOK, tuning, capture
    <3>2. CASE graph \/ present
      BY <1>1, <2>1, <3>2 DEF Listen, PlutoTypeOK, tuning, capture
    <3> QED
      BY <3>1, <3>2
  <2>3. PlutoInv'
    BY <1>1 DEF Listen, PlutoTypeOK, PlutoInv, Sensing, tuning, capture
  <2> QED
    BY <2>2, <2>3
<1>2. CASE Judge
  BY <1>2 DEF Judge, PlutoTypeOK, PlutoInv, Sensing, tuning, capture
<1>3. CASE Open
  BY <1>3 DEF Open, PlutoTypeOK, PlutoInv, Sensing, tuning, capture
<1>4. CASE Shut
  <2>1. todo' \in Seq(Chans)
    BY <1>4 DEF Shut, AfterCapture, PlutoTypeOK, Sensing
  <2>2. PlutoTypeOK'
    <3>1. stage' \in {"scan", "done", "failed"} /\ 0 \in 0 .. Window + 1
      BY <1>4, PlutoAssumption DEF Shut, AfterCapture
    <3> QED
      BY <1>4, <2>1, <3>1 DEF Shut, PlutoTypeOK, tuning
  <2>3. stage' \notin {"armed", "open"} /\ (Sensing' => stage' = "scan")
    BY <1>4 DEF Shut, AfterCapture, Sensing
  <2>4. ~gate' /\ sink' = 0
    BY <1>4 DEF Shut
  <2>5. PlutoInv'
    BY <2>3, <2>4 DEF PlutoInv
  <2> QED
    BY <2>2, <2>5
<1> QED
  BY <1>1, <1>2, <1>3, <1>4 DEF PlutoStep

LEMMA Sampling ==
  ASSUME PlutoTypeOK, PlutoInv, Sample
  PROVE  PlutoTypeOK' /\ PlutoInv'
<1>1. sink' \in 0 .. Window + 1
  BY PlutoAssumption DEF Sample, PlutoTypeOK
<1> QED
  BY <1>1 DEF Sample, PlutoTypeOK, PlutoInv, Sensing, tuning, capture

LEMMA Resting ==
  ASSUME PlutoTypeOK, PlutoInv, stage \in {"done", "failed"}, Rest
  PROVE  PlutoTypeOK' /\ PlutoInv'
BY DEF Rest, PlutoTypeOK, PlutoInv, Sensing, tuning, capture

LEMMA Idling ==
  ASSUME PlutoTypeOK, PlutoInv, UNCHANGED plutoVars
  PROVE  PlutoTypeOK' /\ PlutoInv'
BY DEF plutoVars, PlutoTypeOK, PlutoInv, Sensing

LEMMA Beginning ==
  ASSUME Data, PlutoInv, Begin
  PROVE  PlutoTypeOK' /\ PlutoInv'
<1>0. PlutoTypeOK /\ Present \in BOOLEAN
  BY DEF Data, TypeOK, Present
<1>1. cur.req \in Sent
  BY DEF Data, Handling, Begin, Asks
<1>2. CASE Transmit(Present)
  BY <1>0, <1>2, Transmitting
<1>3. CASE cur.req.kind = "tune" /\ SetCondition(cur.req.freqs[1])
  <2>1. cur.req.freqs[1] \in Chans
    BY <1>1, <1>3 DEF Sent
  <2> QED
    BY <1>0, <1>3, <2>1, Tuning
<1>4. CASE Sweep(cur.req.freqs)
  <2>1. cur.req.freqs \in Seq(Chans)
    BY <1>1 DEF Sent
  <2> QED
    BY <1>0, <1>4, <2>1, Sweeping
<1>5. CASE Refuse
  BY <1>0, <1>5, Refusing
<1> QED
  BY <1>2, <1>3, <1>4, <1>5 DEF Begin

LEMMA PlutoKept ==
  ASSUME Data, PlutoInv, [Next]_vars
  PROVE  PlutoTypeOK' /\ PlutoInv'
<1>0. PlutoTypeOK /\ Present \in BOOLEAN
  BY DEF Data, TypeOK, Present
<1>1. CASE UNCHANGED plutoVars
  BY <1>0, <1>1, Idling
<1>2. CASE Begin
  BY <1>2, Beginning
<1>3. CASE Work
  BY <1>0, <1>3, Stepping DEF Work
<1>4. CASE Hear
  BY <1>0, <1>4, Sampling DEF Hear
<1>5. CASE Reply
  <2>1. CASE UNCHANGED plutoVars
    BY <1>0, <2>1, Idling
  <2>2. CASE stage \in {"done", "failed"} /\ Rest
    BY <1>0, <2>2, Resting
  <2> QED
    BY <1>5, <2>1, <2>2 DEF Reply
<1> QED
  BY <1>1, <1>2, <1>3, <1>4, <1>5
  DEF Next, vars, Start, Greet, Started, Quit, Quitted, Ask, Probe, Enter, Serve, Write,
      Collect, Read, AskToClose, StopWorker, Return, Child, Receive, Abort, Wedge, Unplug

-------------------------------------------------------------------------------
(* What travels keeps its shape.                                               *)
LEMMA Carried ==
  ASSUME NEW S, NEW s \in Seq(S), NEW x \in S
  PROVE  /\ Append(s, x) \in Seq(S) /\ Len(Append(s, x)) = Len(s) + 1
         /\ \A i \in 1 .. Len(s) : Append(s, x)[i] = s[i]
         /\ Append(s, x)[Len(s) + 1] = x
OBVIOUS

LEMMA Consumed ==
  ASSUME NEW S, NEW s \in Seq(S), s # <<>>
  PROVE  /\ Head(s) \in S /\ Head(s) = s[1] /\ Len(s) \in Nat \ {0}
         /\ Tail(s) \in Seq(S) /\ Len(Tail(s)) = Len(s) - 1
         /\ \A i \in 1 .. Len(s) - 1 : Tail(s)[i] = s[i + 1]
OBVIOUS

LEMMA HealthSent == Health \in Sent /\ NoJob \in Jobs
BY DEF Health, NoJob, Sent, Jobs, Kinds

(* The outcome of a request is a word the daemon knows.                        *)
Words == {"none", "ok", "failed", "lost", "alien"}
Spots == {"idle", "enter", "write", "collect", "read", "stop", "stopping", "back"}

LEMMA BackTyped ==
  ASSUME Data, NEW c \in Clients, NEW w \in Words, Back(c, w)
  PROVE  at' \in [Clients -> Spots] /\ job' \in [Clients -> Jobs]
BY DEF Back, Data, TypeOK, Words, Spots, Jobs

LEMMA GotoTyped ==
  ASSUME Data, NEW c \in Clients, NEW p \in Spots, Goto(c, p)
  PROVE  at' \in [Clients -> Spots] /\ job' \in [Clients -> Jobs]
BY DEF Goto, Data, TypeOK, Spots

(* What Data says beside the flowgraph, named part by part.                    *)
Shapes ==
  /\ main \in {"boot", "starting", "serving", "without", "closing", "closed"}
  /\ child \in {"none", "starting", "ready", "busy", "wedged", "dead"}
  /\ held \in BOOLEAN /\ lock \in Clients \cup {None}
  /\ status \in {"not started", "ready", "died", "silent", "stopped"}
  /\ devices \subseteq Roles /\ gone \subseteq Roles
Places == at \in [Clients -> Spots] /\ job \in [Clients -> Jobs]
Lines == inq \in Seq(Asks \cup Closes) /\ outq \in Seq(Answers)
Current == Handling => cur \in Asks

LEMMA DataParts == Data <=> PlutoTypeOK /\ Shapes /\ Places /\ Lines /\ Current
<1>1. job \in [Clients -> Jobs] =>
        \A c \in Clients : job[c].got \in {"none", "ok", "failed", "lost", "alien"}
  BY DEF Jobs
<1> QED
  BY <1>1 DEF Data, TypeOK, Shapes, Places, Lines, Current, Spots

LEMMA DataFromParts ==
  ASSUME PlutoTypeOK', Shapes', Places', Lines', Current'
  PROVE  Data'
<1>1. (PlutoTypeOK /\ Shapes /\ Places /\ Lines /\ Current => Data)'
  BY DataParts, PTL
<1> QED
  BY <1>1

(* Steps of the main thread, the child and the radios.                         *)
LEMMA TypedQuiet ==
  ASSUME Data, Start \/ Greet \/ Started \/ Begin \/ Work \/ Hear \/ Abort \/ Wedge
  PROVE  Shapes' /\ Places' /\ Lines' /\ Current'
<1>1. CASE Start
  BY <1>1, DataParts DEF Start, Shapes, Places, Lines, Current, Handling, Dead, superVars, pipes, clients, childVars
<1>2. CASE Greet
  BY <1>2, DataParts DEF Greet, Shapes, Places, Lines, Current, Handling, Dead, superVars, pipes, clients, childVars
<1>3. CASE Started
  BY <1>3, DataParts DEF Started, Shapes, Places, Lines, Current, Handling, Dead, superVars, pipes, clients, childVars
<1>4. CASE Begin
  BY <1>4, DataParts DEF Begin, Shapes, Places, Lines, Current, Handling, Dead, superVars, pipes, clients, childVars
<1>5. CASE Work
  BY <1>5, DataParts DEF Work, Shapes, Places, Lines, Current, Handling, Dead, superVars, pipes, clients, childVars
<1>6. CASE Hear
  BY <1>6, DataParts DEF Hear, Shapes, Places, Lines, Current, Handling, Dead, superVars, pipes, clients, childVars
<1>7. CASE Abort
  BY <1>7, DataParts DEF Abort, Shapes, Places, Lines, Current, Handling, Dead, superVars, pipes, clients, childVars
<1>8. CASE Wedge
  BY <1>8, DataParts DEF Wedge, Shapes, Places, Lines, Current, Handling, Dead, superVars, pipes, clients, childVars
<1> QED
  BY <1>1, <1>2, <1>3, <1>4, <1>5, <1>6, <1>7, <1>8

LEMMA TypedUnplug ==
  ASSUME Data, NEW r \in Roles, Unplug(r)
  PROVE  Shapes' /\ Places' /\ Lines' /\ Current'
BY DataParts DEF Unplug, Shapes, Places, Lines, Current, Handling, superVars, pipes, clients, childVars

LEMMA CloseCarried ==
  ASSUME Data, inq' = Append(inq, [by |-> None, req |-> Close])
  PROVE  inq' \in Seq(Asks \cup Closes)
<1>1. [by |-> None, req |-> Close] \in Asks \cup Closes
  BY DEF Closes
<1> QED
  BY <1>1, DataParts, Carried DEF Lines

LEMMA TypedQuit ==
  ASSUME Data, Quit
  PROVE  Shapes' /\ Places' /\ Lines' /\ Current'
<1>1. inq' \in Seq(Asks \cup Closes)
  BY CloseCarried, DataParts DEF Quit, Lines
<1> QED
  BY <1>1, DataParts DEF Quit, Shapes, Places, Lines, Current, Handling, superVars, clients, childVars

LEMMA TypedStopped ==
  ASSUME Data, Stopped
  PROVE  /\ child' \in {"none", "starting", "ready", "busy", "wedged", "dead"}
         /\ held' \in BOOLEAN /\ devices' \subseteq Roles
         /\ status' \in {"not started", "ready", "died", "silent", "stopped"}
         /\ Current'
BY DataParts DEF Stopped, Shapes, Current, Handling, superVars, childVars

LEMMA TypedQuitted ==
  ASSUME Data, Quitted
  PROVE  Shapes' /\ Places' /\ Lines' /\ Current'
BY TypedStopped, DataParts DEF Quitted, Shapes, Places, Lines, pipes, clients

LEMMA TypedReceive ==
  ASSUME Data, Receive
  PROVE  Shapes' /\ Places' /\ Lines' /\ Current'
<1>1. Head(inq) \in Asks \cup Closes /\ Tail(inq) \in Seq(Asks \cup Closes)
  BY DataParts, Consumed DEF Receive, Lines
<1>2. Head(inq).req.kind # "close" => Head(inq) \in Asks
  BY <1>1 DEF Closes, Close
<1> QED
  BY <1>1, <1>2, DataParts
  DEF Receive, Shapes, Places, Lines, Current, Handling, superVars, clients

LEMMA TypedReply ==
  ASSUME Data, Reply
  PROVE  Shapes' /\ Places' /\ Lines' /\ Current'
<1>1. cur.by \in Clients
  BY DataParts DEF Reply, Current, Handling, Asks
<1> DEFINE a == [by |-> cur.by, is |-> IF stage = "failed" THEN "failed" ELSE "ok"]
<1>2. a \in Answers
  BY <1>1 DEF Answers
<1>3. outq' \in Seq(Answers)
  BY <1>2, DataParts, Carried DEF Reply, Lines
<1>4. job' \in [Clients -> Jobs]
  BY <1>1, DataParts DEF Reply, Places, Shapes, Jobs
<1> QED
  BY <1>3, <1>4, DataParts DEF Reply, Shapes, Places, Lines, Current, Handling, superVars

(* Steps of a thread.                                                          *)
LEMMA TypedAsk ==
  ASSUME Data, NEW c \in Clients, NEW r \in Requests[c], Ask(c, r)
  PROVE  Shapes' /\ Places' /\ Lines' /\ Current'
<1>1. r \in Sent
  BY WorkerAssumption DEF Sent
<1>2. Places'
  BY <1>1, DataParts DEF Ask, Places, Spots, Jobs
<1> QED
  BY <1>2, DataParts DEF Ask, Shapes, Lines, Current, Handling, superVars, pipes, childVars

LEMMA TypedProbe ==
  ASSUME Data, NEW c \in Clients, Probe(c)
  PROVE  Shapes' /\ Places' /\ Lines' /\ Current'
BY DataParts DEF Probe, Found, Shapes, Places, Lines, Current, Handling, pipes, clients, childVars

LEMMA TypedEnter ==
  ASSUME Data, NEW c \in Clients, Enter(c)
  PROVE  Shapes' /\ Places' /\ Lines' /\ Current'
<1>1. Places'
  BY BackTyped, GotoTyped DEF Enter, Places, Words, Spots
<1> QED
  BY <1>1, DataParts DEF Enter, Found, Shapes, Lines, Current, Handling, pipes, childVars

LEMMA TypedWrite ==
  ASSUME Data, NEW c \in Clients, Write(c)
  PROVE  Shapes' /\ Places' /\ Lines' /\ Current'
<1>1. Places'
  BY BackTyped, GotoTyped DEF Write, Places, Words, Spots
<1>2. Line(c) \in Asks \cup Closes
  BY DataParts DEF Line, Places, Jobs, Asks
<1>3. inq' \in Seq(Asks \cup Closes)
  BY <1>2, DataParts, Carried DEF Write, Lines
<1> QED
  BY <1>1, <1>3, DataParts DEF Write, Unlock, Shapes, Lines, Current, Handling, superVars, childVars

LEMMA TypedCollect ==
  ASSUME Data, NEW c \in Clients, Collect(c)
  PROVE  Shapes' /\ Places' /\ Lines' /\ Current'
<1>1. Places'
  BY BackTyped DEF Collect, Places, Words
<1> QED
  BY <1>1, DataParts
  DEF Collect, Unlock, Found, Shapes, Lines, Current, Handling, pipes, childVars

LEMMA TypedRead ==
  ASSUME Data, NEW c \in Clients, Read(c)
  PROVE  Shapes' /\ Places' /\ Lines' /\ Current'
<1>1. CASE outq # <<>> /\ outq' = Tail(outq)
  <2>1. Head(outq) \in Answers /\ Tail(outq) \in Seq(Answers)
    BY <1>1, DataParts, Consumed DEF Lines
  <2> DEFINE w == IF Head(outq).by # c THEN "alien" ELSE Head(outq).is
  <2>2. w \in Words
    BY <2>1 DEF Words, Answers
  <2>3. Back(c, w) /\ Unlock(c) /\ UNCHANGED status
    BY <1>1 DEF Read, Back
  <2>4. Places'
    BY <2>2, <2>3, BackTyped DEF Places
  <2> QED
    BY <1>1, <2>1, <2>3, <2>4, DataParts
    DEF Read, Unlock, Shapes, Lines, Current, Handling, childVars
<1>2. CASE outq = <<>> /\ outq' = outq
  <2>1. Places'
    BY <1>2, BackTyped, GotoTyped DEF Read, Places, Words, Spots
  <2> QED
    BY <1>2, <2>1, DataParts DEF Read, Unlock, Found, Shapes, Lines, Current, Handling, childVars
<1> QED
  BY <1>1, <1>2 DEF Read

LEMMA TypedAskToClose ==
  ASSUME Data, NEW c \in Clients, AskToClose(c)
  PROVE  Shapes' /\ Places' /\ Lines' /\ Current'
<1>1. Places'
  BY GotoTyped DEF AskToClose, Places, Spots
<1> QED
  BY <1>1, CloseCarried, DataParts
  DEF AskToClose, Shapes, Lines, Current, Handling, superVars, childVars

LEMMA TypedStopWorker ==
  ASSUME Data, NEW c \in Clients, StopWorker(c)
  PROVE  Shapes' /\ Places' /\ Lines' /\ Current'
<1>1. Places'
  BY BackTyped DEF StopWorker, Places, Words
<1> QED
  BY <1>1, TypedStopped, DataParts DEF StopWorker, Unlock, Shapes, Lines, pipes

LEMMA TypedReturn ==
  ASSUME Data, NEW c \in Clients, Return(c)
  PROVE  Shapes' /\ Places' /\ Lines' /\ Current'
<1>1. Places'
  BY HealthSent, DataParts DEF Return, Places, Spots
<1>2. devices' \subseteq Roles
  BY DataParts DEF Return, Places, Shapes, Jobs
<1> QED
  BY <1>1, <1>2, DataParts DEF Return, Shapes, Lines, Current, Handling, pipes, childVars

LEMMA DataKept ==
  ASSUME Data, PlutoInv, [Next]_vars
  PROVE  Data' /\ PlutoInv'
<1>1. CASE UNCHANGED vars
  <2>1. Shapes' /\ Places' /\ Lines' /\ Current'
    BY <1>1, DataParts
    DEF vars, Shapes, Places, Lines, Current, Handling, superVars, pipes, clients, childVars
  <2> QED
    BY <2>1, PlutoKept, DataFromParts
<1>2. CASE Next
  <2>1. Shapes' /\ Places' /\ Lines' /\ Current'
    BY <1>2, TypedQuiet, TypedUnplug, TypedQuit, TypedQuitted, TypedReceive, TypedReply,
       TypedAsk, TypedProbe, TypedEnter, TypedWrite, TypedCollect, TypedRead,
       TypedAskToClose, TypedStopWorker, TypedReturn
    DEF Next, Serve, Child
  <2> QED
    BY <2>1, PlutoKept, DataFromParts
<1> QED
  BY <1>1, <1>2

-------------------------------------------------------------------------------
(* The lock. A thread moves outside it, takes it, moves with it, or lets go.   *)
LEMMA LockMoves ==
  ASSUME Data, Owners, NEW c \in Clients, NEW p, at' = [at EXCEPT ![c] = p],
         \/ at[c] \notin Inside /\ p \notin Inside /\ UNCHANGED lock
         \/ at[c] \notin Inside /\ p \in Inside /\ lock = None /\ lock' = c
         \/ at[c] \in Inside /\ p \in Inside /\ UNCHANGED lock
         \/ at[c] \in Inside /\ p \notin Inside /\ Unlock(c)
  PROVE  Owners'
<1>1. at \in [Clients -> Spots] /\ None \notin Clients
  BY WorkerAssumption DEF Data, TypeOK, Spots
<1>2. /\ at[c] \in Inside <=> lock = c
      /\ \A d \in Clients \ {c} : (at'[d] = at[d]) /\ (at[d] \in Inside <=> lock = d)
      /\ at'[c] = p
  BY <1>1 DEF Owners
<1> QED
  BY <1>1, <1>2 DEF Owners, Unlock

LEMMA OwnersKept ==
  ASSUME Data, Owners, [Next]_vars
  PROVE  Owners'
<1>1. CASE UNCHANGED <<at, lock>>
  BY <1>1 DEF Owners
<1>2. ASSUME NEW c \in Clients, NEW r \in Requests[c], Ask(c, r)
      PROVE  Owners'
  <2>1. at' = [at EXCEPT ![c] = "enter"] /\ at[c] = "idle" /\ UNCHANGED lock
    BY <1>2 DEF Ask
  <2> QED
    BY <2>1, LockMoves DEF Inside
<1>3. ASSUME NEW c \in Clients, Enter(c)
      PROVE  Owners'
  <2>1. CASE Back(c, "lost") /\ UNCHANGED lock
    BY <1>3, <2>1, LockMoves DEF Enter, Back, Inside
  <2>2. CASE lock' = c /\ Goto(c, "write")
    BY <1>3, <2>2, LockMoves DEF Enter, Goto, Inside
  <2> QED
    BY <1>3, <2>1, <2>2 DEF Enter
<1>4. ASSUME NEW c \in Clients, Write(c)
      PROVE  Owners'
  <2>1. CASE Back(c, "failed") /\ Unlock(c)
    BY <1>4, <2>1, LockMoves DEF Write, Back, Inside
  <2>2. CASE Goto(c, "collect") /\ UNCHANGED lock
    BY <1>4, <2>2, LockMoves DEF Write, Goto, Inside
  <2>3. CASE Goto(c, "read") /\ UNCHANGED lock
    BY <1>4, <2>3, LockMoves DEF Write, Goto, Inside
  <2> QED
    BY <1>4, <2>1, <2>2, <2>3 DEF Write
<1>5. ASSUME NEW c \in Clients, Collect(c)
      PROVE  Owners'
  BY <1>5, LockMoves DEF Collect, Back, Inside
<1>6. ASSUME NEW c \in Clients, Read(c)
      PROVE  Owners'
  <2>1. CASE at' = [at EXCEPT ![c] = "back"] /\ Unlock(c)
    BY <1>6, <2>1, LockMoves DEF Read, Inside
  <2>2. CASE Goto(c, "stop") /\ UNCHANGED lock
    BY <1>6, <2>2, LockMoves DEF Read, Goto, Inside
  <2> QED
    BY <1>6, <2>1, <2>2 DEF Read, Back
<1>7. ASSUME NEW c \in Clients, AskToClose(c)
      PROVE  Owners'
  BY <1>7, LockMoves DEF AskToClose, Goto, Inside
<1>8. ASSUME NEW c \in Clients, StopWorker(c)
      PROVE  Owners'
  BY <1>8, LockMoves DEF StopWorker, Back, Inside
<1>9. ASSUME NEW c \in Clients, Return(c)
      PROVE  Owners'
  <2>1. at' = [at EXCEPT ![c] = "idle"] /\ at[c] = "back" /\ UNCHANGED lock
    BY <1>9 DEF Return
  <2> QED
    BY <2>1, LockMoves DEF Inside
<1> QED
  BY <1>1, <1>2, <1>3, <1>4, <1>5, <1>6, <1>7, <1>8, <1>9
  DEF Next, vars, clients, Serve, Child, Start, Greet, Started, Quit, Quitted, Probe, Receive,
      Begin, Work, Hear, Reply, Abort, Wedge, Unplug

(* A thread that is owed an answer is alone with the pipe.                     *)
LEMMA AloneInside ==
  ASSUME Data, Owners, NEW c \in Clients, at[c] \in Inside
  PROVE  \A d \in Clients \ {c} : at[d] \notin Inside
BY DEF Owners

-------------------------------------------------------------------------------
(* The daemon's view of the worker: nobody asks before it is up, and once it   *)
(* is dead, silent or stopped it stays so.                                     *)
LEMMA Serving ==
  ASSUME Data, Books, NEW c \in Clients, at[c] # "idle"
  PROVE  /\ main \in {"serving", "closing", "closed"}
         /\ child # "none" /\ (~held => Dead) /\ (~Running => Dead)
<1>1. main \notin {"boot", "starting", "without"}
  BY DEF Books
<1> QED
  BY <1>1 DEF Books, Data, TypeOK, Running

(* A step that leaves the threads alone, or moves one that is not stopping.    *)
Still ==
  /\ \A c \in Clients : at'[c] \in {"stop", "stopping"} <=> at[c] \in {"stop", "stopping"}
  /\ main # "serving" => \A c \in Clients : at[c] = "idle" => at'[c] = "idle"

LEMMA BooksStill ==
  ASSUME Data, Books, Still, UNCHANGED <<main, child, held>>,
         status' = status \/ (Dead /\ status = "ready" /\ status' = "died")
  PROVE  Books'
<1>1. Stopping' <=> Stopping
  BY DEF Still, Stopping
<1>2. Lost => Lost'
  BY DEF Lost, Dead
<1>3. main = "boot" => ~Dead
  BY DEF Books, Dead
<1>4. main' \in {"boot", "starting"} => status' = "not started"
  <2>1. CASE status' = status
    BY <2>1 DEF Books
  <2>2. CASE status = "ready"
    BY <2>2 DEF Books
  <2> QED
    BY <2>1, <2>2
<1> QED
  BY <1>1, <1>2, <1>3, <1>4 DEF Books, Dead, Still

LEMMA FoundStill ==
  ASSUME status' = Found
  PROVE  status' = status \/ (Dead /\ status = "ready" /\ status' = "died")
BY DEF Found

LEMMA StillHere ==
  ASSUME Data, NEW c \in Clients, NEW p, at' = [at EXCEPT ![c] = p],
         p \notin {"stop", "stopping"}, at[c] \notin {"stop", "stopping"},
         at[c] = "idle" => main = "serving"
  PROVE  Still
<1>1. at \in [Clients -> Spots]
  BY DEF Data, TypeOK, Spots
<1>2. \A d \in Clients \ {c} : at'[d] = at[d]
  BY <1>1
<1>3. at'[c] = p
  BY <1>1
<1> QED
  BY <1>2, <1>3 DEF Still

LEMMA BooksKept ==
  ASSUME Data, Books, [Next]_vars
  PROVE  Books'
<1>1. CASE UNCHANGED <<main, child, held, at, status>>
  <2>1. Still
    BY <1>1 DEF Still
  <2> QED
    BY <1>1, <2>1, BooksStill
<1>2. CASE Start
  BY <1>2 DEF Start, Books, Stopping, Lost, Dead, clients
<1>3. CASE Greet
  BY <1>3 DEF Greet, Books, Stopping, Lost, Dead, clients, superVars
<1>4. CASE Started
  BY <1>4 DEF Started, Books, Stopping, Lost, Dead, clients, childVars
<1>5. CASE Quit
  BY <1>5 DEF Quit, Books, Stopping, Lost, Dead, clients, superVars, childVars
<1>6. CASE Quitted
  BY <1>6 DEF Quitted, Stopped, Books, Stopping, Lost, Dead, Reap, clients, superVars, childVars
<1>7. CASE Receive
  BY <1>7 DEF Receive, Books, Stopping, Lost, Dead, clients, superVars
<1>8. CASE Reply
  BY <1>8 DEF Reply, Books, Stopping, Lost, Dead, superVars
<1>9. CASE Abort
  BY <1>9 DEF Abort, Books, Stopping, Lost, Dead, clients, superVars
<1>10. CASE Wedge
  BY <1>10 DEF Wedge, Books, Stopping, Lost, Dead, clients, superVars
<1>11. ASSUME NEW c \in Clients, NEW r \in Requests[c], Ask(c, r)
       PROVE  Books'
  <2>1. at' = [at EXCEPT ![c] = "enter"]
    BY <1>11 DEF Ask
  <2>2. Still
    BY <1>11, <2>1, StillHere DEF Ask
  <2> QED
    BY <1>11, <2>2, BooksStill DEF Ask, superVars, childVars
<1>12. ASSUME NEW c \in Clients, Probe(c)
       PROVE  Books'
  <2>1. Still
    BY <1>12 DEF Probe, Still, clients
  <2> QED
    BY <1>12, <2>1, BooksStill, FoundStill DEF Probe, childVars
<1>13. ASSUME NEW c \in Clients, Enter(c)
       PROVE  Books'
  <2>1. Still
    BY <1>13, StillHere DEF Enter, Back, Goto
  <2> QED
    BY <1>13, <2>1, BooksStill, FoundStill DEF Enter, childVars
<1>14. ASSUME NEW c \in Clients, Write(c)
       PROVE  Books'
  <2>1. Still
    BY <1>14, StillHere DEF Write, Back, Goto
  <2> QED
    BY <1>14, <2>1, BooksStill DEF Write, superVars, childVars
<1>15. ASSUME NEW c \in Clients, Collect(c)
       PROVE  Books'
  <2>1. Still
    BY <1>15, StillHere DEF Collect, Back
  <2> QED
    BY <1>15, <2>1, BooksStill, FoundStill DEF Collect, childVars
<1>16. ASSUME NEW c \in Clients, Read(c)
       PROVE  Books'
  <2>1. CASE at' = [at EXCEPT ![c] = "back"] /\ (status' = status \/ status' = Found)
    <3>1. Still
      BY <1>16, <2>1, StillHere DEF Read
    <3> QED
      BY <1>16, <2>1, <3>1, BooksStill, FoundStill DEF Read, childVars
  <2>2. CASE status' = "silent" /\ Goto(c, "stop")
    <3>1. main \in {"serving", "closing", "closed"} /\ child # "none"
      BY <1>16, Serving DEF Read
    <3>2. at'[c] = "stop"
      BY <2>2 DEF Goto, Data, TypeOK
    <3>3. Stopping' /\ Lost' /\ UNCHANGED <<main, child, held>>
      BY <1>16, <2>2, <3>2 DEF Stopping, Lost, Read, childVars
    <3> QED
      BY <2>2, <3>1, <3>3 DEF Books, Dead
  <2> QED
    BY <1>16, <2>1, <2>2 DEF Read, Back
<1>17. ASSUME NEW c \in Clients, AskToClose(c)
       PROVE  Books'
  <2>1. at \in [Clients -> Spots] /\ at[c] = "stop" /\ at' = [at EXCEPT ![c] = "stopping"]
    BY <1>17 DEF AskToClose, Goto, Data, TypeOK, Spots
  <2>2. Still
    BY <2>1 DEF Still
  <2> QED
    BY <1>17, <2>2, BooksStill DEF AskToClose, superVars, childVars
<1>18. ASSUME NEW c \in Clients, StopWorker(c)
       PROVE  Books'
  <2>1. main \in {"serving", "closing", "closed"} /\ child # "none" /\ (~held => Dead)
    BY <1>18, Serving DEF StopWorker
  <2>2. Dead' /\ UNCHANGED main
    BY <1>18, <2>1 DEF StopWorker, Stopped, Dead, childVars
  <2> QED
    BY <2>1, <2>2 DEF Books, Dead, Lost
<1>19. ASSUME NEW c \in Clients, Return(c)
       PROVE  Books'
  <2>1. Still
    BY <1>19, StillHere DEF Return
  <2> QED
    BY <1>19, <2>1, BooksStill DEF Return, childVars
<1> QED
  BY <1>1, <1>2, <1>3, <1>4, <1>5, <1>6, <1>7, <1>8, <1>9, <1>10, <1>11, <1>12, <1>13, <1>14,
     <1>15, <1>16, <1>17, <1>18, <1>19
  DEF Next, vars, superVars, childVars, clients, Serve, Child, Begin, Work, Hear, Unplug

-------------------------------------------------------------------------------
(* The pipe. Most steps leave it alone, or give it the end of the work only.   *)
LEMMA WireLines ==
  ASSUME Data
  PROVE  inq \in Seq(Asks \cup Closes) /\ outq \in Seq(Answers)
BY DataParts DEF Lines

(* What is read next from inq is what was there, or a request to close.        *)
NoNewAsk ==
  \/ inq' = inq
  \/ inq' = Append(inq, [by |-> None, req |-> Close])

LEMMA AsksKept ==
  ASSUME Data, NoNewAsk
  PROVE  \A i \in 1 .. Len(inq') : inq'[i].req.kind # "close" =>
           i \in 1 .. Len(inq) /\ inq'[i] = inq[i]
<1> DEFINE z == [by |-> None, req |-> Close]
<1>1. CASE inq' = inq
  BY <1>1
<1>2. CASE inq' = Append(inq, z)
  <2>1. z \in Asks \cup Closes /\ z.req.kind = "close"
    BY DEF Closes, Close
  <2>2. /\ Len(inq') = Len(inq) + 1 /\ Len(inq) \in Nat
        /\ \A i \in 1 .. Len(inq) : inq'[i] = inq[i]
        /\ inq'[Len(inq) + 1] = z
    BY <1>2, <2>1, WireLines, Carried
  <2> HIDE DEF z
  <2> QED
    BY <2>1, <2>2
<1> QED
  BY <1>1, <1>2 DEF NoNewAsk

LEMMA WireQuiet ==
  ASSUME Data, Wire, NoNewAsk, outq' = outq,
         Handling' => Handling /\ cur' = cur,
         \A d \in Clients : at'[d] \in Owed => at[d] \in Owed,
         ~Dead' => ~Dead /\ (Waiting => Waiting'),
         RepliesMatch'
  PROVE  Wire'
<1>1. \A i \in 1 .. Len(inq') : inq'[i].req.kind # "close" =>
         i \in 1 .. Len(inq) /\ inq'[i] = inq[i]
  BY AsksKept
<1>2. NoAsk => NoAsk'
  BY <1>1 DEF NoAsk
<1>3. OneAsk'
  BY <1>1, <1>2 DEF Wire, OneAsk
<1>4. ASSUME NEW c \in Clients, Ours(c)
      PROVE  Ours(c)'
  BY <1>1, <1>4 DEF Ours
<1>5. ~Dead' => Waiting' \/ Clean'
  BY <1>2 DEF Wire, Clean
<1> QED
  BY <1>3, <1>4, <1>5 DEF Wire

(* A thread whose outcome is not another thread's answer.                      *)
LEMMA MatchMoves ==
  ASSUME Data, Wire, NEW c \in Clients, NEW w, w # "alien",
         UNCHANGED job \/ job' = [job EXCEPT ![c].got = w]
  PROVE  RepliesMatch'
<1>1. job \in [Clients -> Jobs]
  BY DEF Data
<1> QED
  BY <1>1 DEF Wire, RepliesMatch, Jobs

LEMMA OwedMoves ==
  ASSUME Data, NEW c \in Clients, NEW p, at' = [at EXCEPT ![c] = p]
  PROVE  /\ (p \in Owed => at[c] \in Owed) =>
              (\A d \in Clients : at'[d] \in Owed => at[d] \in Owed)
         /\ p \in Owed \/ at[c] \notin Owed => (Waiting => Waiting')
BY DEF Data, TypeOK, Waiting

(* The line goes out into a pipe that carries nobody's work.                   *)
LEMMA WireWrite ==
  ASSUME Data, Owners, Wire, NEW c \in Clients, at[c] = "write", ~Dead,
         inq' = Append(inq, Line(c)), Goto(c, "read"), UNCHANGED <<childVars, outq>>
  PROVE  Wire'
<1>1. \A d \in Clients : at[d] \notin Owed
  BY AloneInside DEF Inside, Owed
<1>2. Clean
  BY <1>1 DEF Wire, Waiting
<1>3. Line(c) \in Asks \cup Closes /\ Line(c).by = c
  BY DEF Data, Line, Jobs, Asks
<1>4. /\ inq \in Seq(Asks \cup Closes) /\ Len(inq') = Len(inq) + 1 /\ Len(inq) \in Nat
      /\ \A i \in 1 .. Len(inq) : inq'[i] = inq[i] /\ inq[i].req.kind = "close"
      /\ inq'[Len(inq) + 1] = Line(c)
  BY <1>2, <1>3, WireLines, Carried DEF Clean, NoAsk
<1>5. \A i \in 1 .. Len(inq') : inq'[i].req.kind # "close" => i = Len(inq) + 1
  BY <1>4
<1>6. outq' = <<>> /\ ~Handling'
  BY <1>2 DEF Clean, Handling, childVars
<1>7. OneAsk'
  BY <1>5, <1>6 DEF OneAsk
<1>8. Ours(c)'
  BY <1>3, <1>4, <1>5, <1>6 DEF Ours
<1>9. at'[c] = "read" /\ \A d \in Clients : at'[d] \in Owed => d = c
  BY <1>1 DEF Goto, Data, TypeOK
<1>10. RepliesMatch'
  BY DEF Wire, RepliesMatch, Goto
<1> QED
  BY <1>7, <1>8, <1>9, <1>10 DEF Wire, Waiting, Owed

(* The child takes the next line: it is the end of its work, or the request of *)
(* the thread that waits.                                                      *)
LEMMA WireReceive ==
  ASSUME Data, Wire, Receive
  PROVE  Wire'
<1>1. /\ inq # <<>> /\ inq' = Tail(inq) /\ ~Handling /\ ~Dead
      /\ UNCHANGED <<outq, at, job>>
  BY DEF Receive, Handling, Dead, clients
<1>2. /\ Head(inq) = inq[1] /\ 1 \in 1 .. Len(inq)
      /\ Len(inq) \in Nat \ {0} /\ Len(inq') = Len(inq) - 1
      /\ \A i \in 1 .. Len(inq') : inq'[i] = inq[i + 1] /\ i + 1 \in 1 .. Len(inq) /\ i + 1 # 1
  BY <1>1, WireLines, Consumed
<1>3. (\A d \in Clients : at'[d] = at[d]) /\ (Waiting <=> Waiting') /\ RepliesMatch'
  BY <1>1 DEF Wire, Waiting, RepliesMatch
<1>4. /\ NoAsk => NoAsk'
      /\ \A i, j \in 1 .. Len(inq') :
           inq'[i].req.kind # "close" /\ inq'[j].req.kind # "close" => i = j
  BY <1>2 DEF Wire, OneAsk, NoAsk
<1>5. CASE inq[1].req.kind = "close"
  <2>1. Dead' /\ ~Handling'
    BY <1>2, <1>5 DEF Receive, Dead, Handling
  <2>2. OneAsk'
    BY <1>1, <1>4, <2>1 DEF Wire, OneAsk
  <2>3. ASSUME NEW c \in Clients, Ours(c)
        PROVE  Ours(c)'
    BY <1>1, <1>2, <2>1, <2>3 DEF Ours
  <2> QED
    BY <1>3, <2>1, <2>2, <2>3 DEF Wire
<1>6. CASE inq[1].req.kind # "close"
  <2>1. Handling' /\ ~Dead' /\ cur' = inq[1]
    BY <1>2, <1>6 DEF Receive, Dead, Handling
  <2>2. ~NoAsk
    BY <1>2, <1>6 DEF NoAsk
  <2>3. NoAsk'
    BY <1>2, <1>6 DEF Wire, OneAsk, NoAsk
  <2>4. outq' = <<>> /\ Waiting'
    BY <1>1, <1>3, <2>2 DEF Wire, OneAsk, Clean
  <2>5. OneAsk'
    BY <1>4, <2>3, <2>4 DEF OneAsk
  <2>6. ASSUME NEW c \in Clients, Ours(c)
        PROVE  Ours(c)'
    <3>1. cur'.by = c
      BY <1>2, <1>6, <2>1, <2>6 DEF Ours
    <3>2. \A i \in 1 .. Len(outq') : outq'[i].by = c
      BY <2>4
    <3> QED
      BY <2>3, <3>1, <3>2 DEF Ours, NoAsk
  <2> QED
    BY <1>3, <2>1, <2>4, <2>5, <2>6 DEF Wire
<1> QED
  BY <1>5, <1>6

(* The answer goes to whoever the request was taken from.                      *)
LEMMA WireReply ==
  ASSUME Data, Wire, Reply
  PROVE  Wire'
<1> DEFINE a == [by |-> cur.by, is |-> IF stage = "failed" THEN "failed" ELSE "ok"]
<1>1. Handling /\ ~Dead /\ ~Handling' /\ outq = <<>> /\ NoAsk /\ UNCHANGED <<inq, at>>
  BY DEF Reply, Handling, Dead, Wire, OneAsk
<1>2. a \in Answers
  BY <1>1 DEF Answers, Data, Asks
<1>3. Len(outq') = 1 /\ outq'[1].by = cur.by
  <2> HIDE DEF a
  <2>1. outq' = Append(outq, a) /\ Len(outq) = 0
    BY <1>1 DEF Reply, a
  <2>2. Len(outq') = 1 /\ outq'[1] = a
    BY <1>2, <2>1, WireLines, Carried
  <2> QED
    BY <2>2 DEF a
<1> HIDE DEF a
<1>4. NoAsk' /\ OneAsk'
  <2>1. NoAsk'
    BY <1>1 DEF NoAsk
  <2> QED
    BY <1>1, <1>3, <2>1 DEF OneAsk, NoAsk
<1>5. Waiting' /\ \A c \in Clients : at'[c] \in Owed => at[c] \in Owed
  BY <1>1 DEF Wire, Clean, Waiting
<1>6. ASSUME NEW c \in Clients, Ours(c)
      PROVE  Ours(c)'
  <2>1. \A i \in 1 .. Len(outq') : outq'[i].by = c
    BY <1>1, <1>3, <1>6 DEF Ours
  <2> QED
    BY <1>1, <1>4, <2>1 DEF Ours, NoAsk
<1>7. RepliesMatch'
  BY DEF Reply, Data, Jobs, Wire, RepliesMatch
<1> QED
  BY <1>4, <1>5, <1>6, <1>7 DEF Wire

(* The one answer in the pipe is read by the thread it is for.                 *)
LEMMA WireRead ==
  ASSUME Data, Owners, Wire, NEW c \in Clients, Read(c), outq # <<>>
  PROVE  Wire' /\ Head(outq).by = c /\ Back(c, Head(outq).is) /\ outq' = <<>>
<1>1. /\ at[c] = "read" /\ outq' = Tail(outq) /\ UNCHANGED <<childVars, inq>>
      /\ at' = [at EXCEPT ![c] = "back"]
      /\ job' = [job EXCEPT ![c].got = IF Head(outq).by # c THEN "alien" ELSE Head(outq).is]
  BY DEF Read
<1>2. Len(outq) = 1 /\ NoAsk /\ ~Handling
  BY DEF Wire, OneAsk
<1>3. /\ Head(outq) = outq[1] /\ Head(outq) \in Answers
      /\ Tail(outq) \in Seq(Answers) /\ Len(Tail(outq)) = 0
  BY <1>2, WireLines, Consumed
<1>4. outq' = <<>>
  BY <1>1, <1>3
<1>5. Head(outq).by = c
  BY <1>1, <1>2, <1>3 DEF Wire, Owed, Ours
<1>6. Back(c, Head(outq).is)
  BY <1>1, <1>5 DEF Back
<1>7. NoAsk' /\ ~Handling'
  BY <1>1, <1>2 DEF NoAsk, Handling, childVars
<1>8. OneAsk' /\ Clean'
  BY <1>1, <1>4, <1>7 DEF Wire, OneAsk, Clean
<1>9. \A d \in Clients : at'[d] \notin Owed
  <2>1. \A d \in Clients \ {c} : at[d] \notin Inside
    BY <1>1, AloneInside DEF Inside
  <2> QED
    BY <1>1, <2>1 DEF Data, TypeOK, Inside, Owed
<1>10. RepliesMatch'
  <2> DEFINE w == Head(outq).is
  <2>1. w # "alien" /\ job' = [job EXCEPT ![c].got = w]
    BY <1>3, <1>6 DEF Answers, Back
  <2> HIDE DEF w
  <2> QED
    BY <2>1, MatchMoves
<1> QED
  BY <1>4, <1>5, <1>6, <1>8, <1>9, <1>10 DEF Wire

LEMMA WireKept ==
  ASSUME Data, Owners, Books, Wire, [Next]_vars
  PROVE  Wire'
<1>1. ASSUME UNCHANGED <<at, job, outq>>, NoNewAsk, ~Dead' => ~Dead,
             Handling' => Handling /\ cur' = cur
      PROVE  Wire'
  BY <1>1, WireQuiet DEF Waiting, Wire, RepliesMatch
<1>2. CASE UNCHANGED <<at, job, child, cur, inq, outq>>
  BY <1>1, <1>2 DEF NoNewAsk, Dead, Handling
<1>3. CASE Start
  BY <1>1, <1>3 DEF Start, Books, NoNewAsk, Dead, Handling, pipes, clients
<1>4. CASE Greet
  BY <1>1, <1>4 DEF Greet, NoNewAsk, Dead, Handling, pipes, clients
<1>5. CASE Quit
  BY <1>1, <1>5 DEF Quit, NoNewAsk, Dead, Handling, clients, childVars
<1>6. CASE Quitted
  BY <1>1, <1>6 DEF Quitted, Stopped, NoNewAsk, Dead, Handling, pipes, clients, childVars
<1>7. CASE Abort
  BY <1>1, <1>7 DEF Abort, NoNewAsk, Dead, Handling, pipes, clients
<1>8. CASE Wedge
  BY <1>1, <1>8 DEF Wedge, NoNewAsk, Dead, Handling, pipes, clients
<1>9. ASSUME NEW c \in Clients, NEW p, at' = [at EXCEPT ![c] = p],
             p \in Owed => at[c] \in Owed, p \in Owed \/ at[c] \notin Owed \/ Dead',
             ~Dead' => ~Dead, Handling' => Handling /\ cur' = cur,
             UNCHANGED outq, NoNewAsk, RepliesMatch'
      PROVE  Wire'
  BY <1>9, OwedMoves, WireQuiet
<1>10. ASSUME NEW c \in Clients, NEW r \in Requests[c], Ask(c, r)
       PROVE  Wire'
  <2>1. RepliesMatch'
    BY <1>10 DEF Ask, Data, Jobs, Wire, RepliesMatch
  <2>2. at' = [at EXCEPT ![c] = "enter"]
    BY <1>10 DEF Ask
  <2> QED
    BY <1>9, <1>10, <2>1, <2>2 DEF Ask, NoNewAsk, Dead, Handling, Owed, pipes, childVars
<1>11. ASSUME NEW c \in Clients, Enter(c)
       PROVE  Wire'
  <2>1. RepliesMatch'
    BY <1>11, MatchMoves DEF Enter, Back, Goto
  <2> QED
    BY <1>9, <1>11, <2>1
    DEF Enter, Back, Goto, NoNewAsk, Dead, Handling, Owed, pipes, childVars
<1>12. ASSUME NEW c \in Clients, Write(c)
       PROVE  Wire'
  <2>1. CASE UNCHANGED inq
    <3>1. RepliesMatch'
      BY <1>12, MatchMoves DEF Write, Back, Goto
    <3>2. \E p : at' = [at EXCEPT ![c] = p] /\ p \in {"back", "collect"}
      <4>1. inq # Append(inq, Line(c))
        <5>1. Line(c) \in Asks \cup Closes
          BY DEF Data, Line, Jobs, Asks
        <5>2. Len(Append(inq, Line(c))) = Len(inq) + 1 /\ Len(inq) \in Nat
          BY <5>1, WireLines, Carried
        <5> QED
          BY <5>2
      <4> QED
        BY <1>12, <2>1, <4>1 DEF Write, Back, Goto
    <3> QED
      BY <1>9, <1>12, <2>1, <3>1, <3>2 DEF Write, NoNewAsk, Dead, Handling, Owed, childVars
  <2>2. CASE inq' = Append(inq, Line(c)) /\ Goto(c, "read") /\ ~Dead
    BY <1>12, <2>2, WireWrite DEF Write
  <2> QED
    BY <1>12, <2>1, <2>2 DEF Write
<1>13. ASSUME NEW c \in Clients, Collect(c)
       PROVE  Wire'
  <2>1. RepliesMatch'
    BY <1>13, MatchMoves DEF Collect, Back
  <2> QED
    BY <1>9, <1>13, <2>1
    DEF Collect, Back, NoNewAsk, Dead, Handling, Owed, pipes, childVars
<1>14. ASSUME NEW c \in Clients, Read(c)
       PROVE  Wire'
  <2>1. CASE outq # <<>>
    BY <1>14, <2>1, WireRead
  <2>2. CASE outq = <<>>
    <3>1. RepliesMatch'
      BY <1>14, <2>2, MatchMoves DEF Read, Back, Goto
    <3>2. ~held => Dead
      BY <1>14, Serving DEF Read
    <3> QED
      BY <1>9, <1>14, <2>2, <3>1, <3>2
      DEF Read, Back, Goto, NoNewAsk, Dead, Handling, Owed, childVars
  <2> QED
    BY <2>1, <2>2
<1>15. ASSUME NEW c \in Clients, AskToClose(c)
       PROVE  Wire'
  <2>1. RepliesMatch'
    BY <1>15 DEF AskToClose, Goto, Wire, RepliesMatch
  <2> QED
    BY <1>9, <1>15, <2>1 DEF AskToClose, Goto, NoNewAsk, Dead, Handling, Owed, childVars
<1>16. ASSUME NEW c \in Clients, StopWorker(c)
       PROVE  Wire'
  <2>1. RepliesMatch'
    BY <1>16, MatchMoves DEF StopWorker, Back
  <2>2. Dead' /\ ~Handling'
    BY <1>16, Serving DEF StopWorker, Stopped, Dead, Handling, childVars
  <2> QED
    BY <1>9, <1>16, <2>1, <2>2 DEF StopWorker, Back, NoNewAsk, Owed, pipes
<1>17. ASSUME NEW c \in Clients, Return(c)
       PROVE  Wire'
  <2>1. RepliesMatch'
    BY <1>17 DEF Return, NoJob, Data, Wire, RepliesMatch
  <2>2. at' = [at EXCEPT ![c] = "idle"]
    BY <1>17 DEF Return
  <2> QED
    BY <1>9, <1>17, <2>1, <2>2 DEF Return, NoNewAsk, Dead, Handling, Owed, pipes, childVars
<1> QED
  BY <1>2, <1>3, <1>4, <1>5, <1>6, <1>7, <1>8, <1>10, <1>11, <1>12, <1>13, <1>14, <1>15, <1>16,
     <1>17, WireReceive, WireReply
  DEF Next, vars, clients, pipes, childVars, Serve, Child, Started, Probe, Begin, Work, Hear,
      Unplug

-------------------------------------------------------------------------------
LEMMA WorkerStarts == Init => WorkerInv
<1> SUFFICES ASSUME Init
             PROVE  WorkerInv
  OBVIOUS
<1>1. PlutoTypeOK /\ PlutoInv
  <2>1. 0 \in 0 .. Window + 1 /\ <<>> \in Seq(Chans)
    BY PlutoAssumption
  <2> QED
    BY <2>1, PlutoAssumption DEF Init, PlutoInit, PlutoTypeOK, PlutoInv, Sensing
<1>2. Data
  <2>1. Places
    BY HealthSent DEF Init, Places, Spots
  <2>2. Shapes /\ Current
    BY DEF Init, Shapes, Current, Handling
  <2>3. Lines
    <3>1. <<>> \in Seq(Asks \cup Closes) /\ <<>> \in Seq(Answers)
      OBVIOUS
    <3> QED
      BY <3>1 DEF Init, Lines
  <2> QED
    BY <1>1, <2>1, <2>2, <2>3, DataParts
<1>3. Owners
  BY WorkerAssumption DEF Init, Owners, Inside
<1>4. Wire
  <2>1. inq = <<>> /\ outq = <<>> /\ ~Handling /\ Len(inq) = 0
    BY DEF Init, Handling
  <2>2. Clean /\ OneAsk
    BY <2>1 DEF Clean, OneAsk, NoAsk
  <2> QED
    BY <2>2 DEF Init, Wire, Owed, RepliesMatch, NoJob
<1>5. Books
  BY DEF Init, Books, Stopping
<1> QED
  BY <1>1, <1>2, <1>3, <1>4, <1>5 DEF WorkerInv

LEMMA WorkerKept == WorkerInv /\ [Next]_vars => WorkerInv'
BY DataKept, OwnersKept, WireKept, BooksKept DEF WorkerInv

(* Whoever asks, retunes, sweeps or gives up, and whether the worker answers,  *)
(* dies, is silent or is stopped: the pipe is its lock holder's, the flowgraph *)
(* fits what the worker is doing, and what is down stays down.                 *)
THEOREM WorkerInvariant == Spec => []WorkerInv
BY WorkerStarts, WorkerKept, PTL DEF Spec

(* The state of the worker and of its threads keeps its types.                 *)
THEOREM TypeCorrect == Spec => []TypeOK
<1>1. WorkerInv => TypeOK
  BY DEF WorkerInv, Data
<1> QED
  BY <1>1, WorkerInvariant, PTL

(* A trial is captured on the channel of its condition with the frame on the   *)
(* air, whatever was asked of the worker before it and by whom.                *)
THEOREM TrialsFlyTheirCondition == Spec => []TrialFliesItsCondition
<1>1. WorkerInv => TrialFliesItsCondition
  BY DEF WorkerInv, PlutoInv, TrialFliesItsCondition
<1> QED
  BY <1>1, WorkerInvariant, PTL

(* A sweep hears its candidate with the link's own transmitter silent.         *)
THEOREM SweepsAreSilent == Spec => []SweepIsSilent
<1>1. WorkerInv => SweepIsSilent
  BY DEF WorkerInv, PlutoInv, SweepIsSilent
<1> QED
  BY <1>1, WorkerInvariant, PTL

(* The capture gate is shut and the sink empty whenever no capture is under    *)
(* way, also after one that came up short or a radio that disappeared.         *)
THEOREM GateShut == Spec => []GateClosedBetweenCaptures
<1>1. WorkerInv => GateClosedBetweenCaptures
  BY DEF WorkerInv, PlutoInv, GateClosedBetweenCaptures
<1> QED
  BY <1>1, WorkerInvariant, PTL

(* No thread ever reads the answer to another thread's request, though the     *)
(* pipe does not say whose an answer is and readers give up.                   *)
THEOREM AnswersMatch == Spec => []RepliesMatch
<1>1. WorkerInv => RepliesMatch
  BY DEF WorkerInv, Wire
<1> QED
  BY <1>1, WorkerInvariant, PTL

-------------------------------------------------------------------------------
(* The refinement: a worker that is lost stays lost, and every step changes    *)
(* the fate of one request at most.                                            *)
LEMMA LostStays ==
  ASSUME WorkerInv, [Next]_vars
  PROVE  Lost => Lost'
<1> USE DEF WorkerInv
<1>1. CASE UNCHANGED <<child, status>>
  BY <1>1 DEF Lost, Dead
<1>2. CASE Start \/ Started
  BY <1>2 DEF Start, Started, Books, Lost, Dead, childVars
<1>3. ASSUME Stopped
      PROVE  Lost => Lost'
  BY <1>3 DEF Stopped, Lost, Dead, childVars, superVars
<1>4. ASSUME UNCHANGED child, status' = Found
      PROVE  Lost => Lost'
  BY <1>4 DEF Found, Lost, Dead
<1>5. ASSUME NEW c \in Clients, Read(c)
      PROVE  Lost => Lost'
  BY <1>1, <1>4, <1>5 DEF Read, Lost, childVars
<1>6. CASE Greet \/ Receive \/ Reply \/ Abort \/ Wedge
  BY <1>6 DEF Greet, Receive, Reply, Abort, Wedge, Lost, Dead, superVars
<1> QED
  BY <1>1, <1>2, <1>3, <1>4, <1>5, <1>6
  DEF Next, vars, superVars, childVars, Serve, Child, Quit, Quitted, Ask, Probe, Enter, Write,
      Collect, AskToClose, StopWorker, Return, Begin, Work, Hear, Unplug

(* What the session is told of one request.                                    *)
View(c) ==
  CASE at[c] = "idle" -> "none"
    [] at[c] = "back" -> IF job[c].got = "ok" THEN "ok" ELSE "failed"
    [] at[c] = "read" /\ outq # <<>> -> Head(outq).is
    [] OTHER -> "pending"

LEMMA Views == AbstractReply = [c \in Clients |-> View(c)]
BY DEF AbstractReply, View

LEMMA ViewsNext == AbstractReply' = [c \in Clients |-> View(c)']
BY DEF AbstractReply, View

LEMMA ViewSame ==
  ASSUME NEW c \in Clients, at'[c] = at[c],
         at[c] = "back" => job'[c].got = job[c].got, at[c] = "read" => outq' = outq
  PROVE  View(c)' = View(c)
BY DEF View

(* A step that changes no fate is a stutter, or the loss of the device.        *)
LEMMA NothingTold ==
  ASSUME \A c \in Clients : View(c)' = View(c), Lost => Lost'
  PROVE  [Radio!LinkNext]_<<Lost, AbstractReply>>
<1>1. AbstractReply' = AbstractReply
  BY Views, ViewsNext
<1>2. CASE Lost' = Lost
  BY <1>1, <1>2
<1>3. CASE ~Lost /\ Lost'
  BY <1>1, <1>3 DEF Radio!LinkNext, Radio!Lose, Lost
<1> QED
  BY <1>2, <1>3 DEF Lost

(* A step that changes the fate of one.                                        *)
LEMMA OneTold ==
  ASSUME NEW c \in Clients, Lost' = Lost,
         \A d \in Clients \ {c} : View(d)' = View(d),
         \/ View(c) = "none" /\ View(c)' = "pending"
         \/ View(c) = "pending" /\ View(c)' = "ok" /\ ~Lost
         \/ View(c) = "pending" /\ View(c)' = "failed"
         \/ View(c) \in {"ok", "failed"} /\ View(c)' = "none"
  PROVE  [Radio!LinkNext]_<<Lost, AbstractReply>>
<1>1. /\ AbstractReply[c] = View(c)
      /\ AbstractReply' = [AbstractReply EXCEPT ![c] = View(c)']
  BY Views, ViewsNext
<1>2. Radio!Ask(c) \/ Radio!Answer(c) \/ Radio!Fail(c) \/ Radio!Take(c)
  BY <1>1 DEF Radio!Ask, Radio!Answer, Radio!Fail, Radio!Take, Radio!Fate, Lost
<1> QED
  BY <1>2 DEF Radio!LinkNext

LEMMA OthersKeepTheirFate ==
  ASSUME Data, NEW c \in Clients, NEW p, at' = [at EXCEPT ![c] = p],
         \A d \in Clients \ {c} : job'[d] = job[d],
         UNCHANGED outq \/ (Owners /\ at[c] \in Inside)
  PROVE  at'[c] = p /\ \A d \in Clients \ {c} : View(d)' = View(d)
<1>1. at'[c] = p /\ \A d \in Clients \ {c} : at'[d] = at[d]
  BY DEF Data, TypeOK
<1>2. \A d \in Clients \ {c} : at[d] = "read" => outq' = outq
  BY AloneInside DEF Inside
<1> QED
  BY <1>1, <1>2, ViewSame

LEMMA BackTold ==
  ASSUME Data, NEW c \in Clients, NEW w, Back(c, w),
         UNCHANGED outq \/ (Owners /\ at[c] \in Inside)
  PROVE  /\ \A d \in Clients \ {c} : View(d)' = View(d)
         /\ View(c)' = IF w = "ok" THEN "ok" ELSE "failed"
<1>1. at' = [at EXCEPT ![c] = "back"] /\ job' = [job EXCEPT ![c].got = w]
  BY DEF Back
<1>2. job'[c].got = w /\ \A d \in Clients \ {c} : job'[d] = job[d]
  BY <1>1 DEF Data, Jobs
<1>3. at'[c] = "back" /\ \A d \in Clients \ {c} : View(d)' = View(d)
  BY <1>1, <1>2, OthersKeepTheirFate
<1> QED
  BY <1>2, <1>3 DEF View

LEMMA GotoTold ==
  ASSUME Data, NEW c \in Clients, NEW p, Goto(c, p), UNCHANGED outq
  PROVE  at'[c] = p /\ \A d \in Clients \ {c} : View(d)' = View(d)
BY OthersKeepTheirFate DEF Goto

(* A thread in the worker's hands is waiting; one that ends there is refused.  *)
LEMMA HandledPends ==
  ASSUME NEW c \in Clients, at[c] \in {"enter", "write", "collect", "stop", "stopping"}
  PROVE  View(c) = "pending"
BY DEF View

LEMMA RefusedTold ==
  ASSUME Data, NEW c \in Clients, Back(c, "lost") \/ Back(c, "failed"), UNCHANGED outq,
         View(c) = "pending", Lost' = Lost
  PROVE  [Radio!LinkNext]_<<Lost, AbstractReply>>
BY BackTold, OneTold

LEMMA WriteRefines ==
  ASSUME WorkerInv, NEW c \in Clients, Write(c)
  PROVE  [Radio!LinkNext]_<<Lost, AbstractReply>>
<1> USE DEF WorkerInv
<1>1. at[c] = "write" /\ View(c) = "pending" /\ outq' = outq /\ Lost' = Lost
  BY HandledPends DEF Write, superVars, childVars, Lost, Dead
<1>2. CASE Back(c, "failed")
  BY <1>1, <1>2, RefusedTold
<1>3. CASE Goto(c, "collect")
  BY <1>1, <1>3, GotoTold, NothingTold DEF View
<1>4. CASE Goto(c, "read") /\ ~Dead
  <2>1. \A d \in Clients : at[d] \notin Owed
    BY <1>1, AloneInside DEF Inside, Owed
  <2>2. outq = <<>>
    BY <1>4, <2>1 DEF Wire, Waiting, Clean
  <2> QED
    BY <1>1, <1>4, <2>2, GotoTold, NothingTold DEF View
<1> QED
  BY <1>2, <1>3, <1>4 DEF Write

LEMMA ReadRefines ==
  ASSUME WorkerInv, NEW c \in Clients, Read(c)
  PROVE  [Radio!LinkNext]_<<Lost, AbstractReply>>
<1> USE DEF WorkerInv
<1>0. at[c] = "read" /\ at[c] \in Inside
  BY DEF Read, Inside
<1>1. CASE outq # <<>>
  <2>1. Back(c, Head(outq).is)
    BY <1>1, WireRead
  <2>2. Head(outq).is \in {"ok", "failed"}
    BY <1>1, WireLines, Consumed DEF Answers
  <2>3. View(c) = Head(outq).is
    BY <1>0, <1>1 DEF View
  <2>4. Lost' = Lost
    BY <1>1 DEF Read, Lost, Dead, childVars
  <2> QED
    BY <1>0, <2>1, <2>2, <2>3, <2>4, BackTold, NothingTold
<1>2. CASE outq = <<>>
  <2>1. View(c) = "pending" /\ (~held => Dead) /\ child' = child
    BY <1>0, <1>2, Serving DEF View, Read, childVars
  <2>2. CASE Back(c, "lost") /\ UNCHANGED outq /\ Dead
    <3>1. Lost' = Lost
      BY <2>1, <2>2 DEF Lost, Dead
    <3> QED
      BY <2>1, <2>2, <3>1, RefusedTold
  <2>3. CASE Goto(c, "stop") /\ UNCHANGED outq /\ status' = "silent"
    <3>1. View(c)' = "pending"
      BY <2>3, GotoTold DEF View
    <3>2. Lost'
      BY <2>3 DEF Lost
    <3> QED
      BY <2>1, <2>3, <3>1, <3>2, GotoTold, NothingTold
  <2> QED
    BY <1>2, <2>1, <2>2, <2>3 DEF Read
<1> QED
  BY <1>1, <1>2

(* An answer that reaches its reader was measured before anything was lost;    *)
(* one that comes too late changes no fate.                                    *)
LEMMA ReplyRefines ==
  ASSUME WorkerInv, Reply
  PROVE  [Radio!LinkNext]_<<Lost, AbstractReply>>
<1> USE DEF WorkerInv
<1> DEFINE a == [by |-> cur.by, is |-> IF stage = "failed" THEN "failed" ELSE "ok"]
<1>1. /\ cur.by \in Clients /\ outq = <<>> /\ ~Clean /\ ~Dead /\ UNCHANGED <<at, status>>
      /\ Dead' = FALSE /\ child # "none"
  BY DEF Reply, Data, Handling, Asks, Wire, OneAsk, Clean, Dead, superVars
<1>2. PICK c \in Clients : at[c] \in Owed /\ Ours(c)
  BY <1>1 DEF Wire, Waiting
<1>3. \A d \in Clients \ {c} : View(d)' = View(d)
  <2>1. \A d \in Clients \ {c} : at[d] \notin Inside
    BY <1>2, AloneInside DEF Inside, Owed
  <2>2. \A d \in Clients : job'[d].got = job[d].got
    BY <1>1 DEF Reply, Data, Jobs
  <2> QED
    BY <1>1, <2>1, <2>2, ViewSame DEF Inside
<1>4. Lost' = Lost
  BY <1>1 DEF Lost
<1>5. CASE at[c] = "read"
  <2>1. View(c) = "pending"
    BY <1>1, <1>5 DEF View
  <2>2. outq' # <<>> /\ Head(outq') \in {[by |-> cur.by, is |-> "ok"], [by |-> cur.by, is |-> "failed"]}
    <3>1. outq' = <<a>>
      BY <1>1 DEF Reply
    <3> QED
      BY <3>1
  <2>3. View(c)' \in {"ok", "failed"}
    BY <1>1, <1>5, <2>2 DEF View
  <2>4. ~Lost
    <3>1. ~Stopping
      BY <1>5, AloneInside DEF Stopping, Inside
    <3>2. main \in {"serving", "closing", "closed"}
      BY <1>5, Serving
    <3> QED
      BY <1>1, <3>1, <3>2 DEF Books, Lost
  <2> QED
    BY <1>3, <1>4, <2>1, <2>3, <2>4, OneTold
<1>6. CASE at[c] # "read"
  <2>1. View(c)' = View(c)
    BY <1>1, <1>2, <1>6 DEF View, Owed
  <2> QED
    BY <1>3, <1>4, <2>1, NothingTold
<1> QED
  BY <1>5, <1>6

LEMMA ThreadRefines ==
  ASSUME WorkerInv, NEW c \in Clients,
         \/ \E r \in Requests[c] : Ask(c, r)
         \/ Enter(c) \/ Collect(c) \/ AskToClose(c) \/ StopWorker(c) \/ Return(c)
  PROVE  [Radio!LinkNext]_<<Lost, AbstractReply>>
<1> USE DEF WorkerInv
<1>1. CASE \E r \in Requests[c] : Ask(c, r)
  <2>1. PICK r \in Requests[c] : Ask(c, r)
    BY <1>1
  <2>2. /\ at[c] = "idle" /\ at' = [at EXCEPT ![c] = "enter"]
        /\ \A d \in Clients \ {c} : job'[d] = job[d]
        /\ UNCHANGED <<outq, child, status>>
    BY <2>1 DEF Ask, Data, pipes, childVars, superVars
  <2>3. at'[c] = "enter" /\ \A d \in Clients \ {c} : View(d)' = View(d)
    BY <2>2, OthersKeepTheirFate
  <2>4. View(c) = "none" /\ View(c)' = "pending" /\ Lost' = Lost
    BY <2>2, <2>3 DEF View, Lost, Dead
  <2> QED
    BY <2>3, <2>4, OneTold
<1>2. CASE Enter(c)
  <2>1. View(c) = "pending" /\ UNCHANGED <<outq, child>> /\ status' = Found
    BY <1>2, HandledPends DEF Enter, pipes, childVars
  <2>2. CASE ~Running /\ Back(c, "lost")
    <3>1. Dead
      BY <1>2, <2>2, Serving DEF Enter
    <3>2. Lost' = Lost
      BY <2>1, <3>1 DEF Lost, Dead
    <3> QED
      BY <2>1, <2>2, <3>2, RefusedTold
  <2>3. CASE Running /\ Goto(c, "write")
    <3>1. View(c)' = "pending"
      BY <2>1, <2>3, GotoTold DEF View
    <3>2. Lost' = Lost
      BY <2>1, <2>3 DEF Running, Found, Lost, Dead
    <3> QED
      BY <2>1, <2>3, <3>1, <3>2, GotoTold, NothingTold
  <2> QED
    BY <1>2, <2>2, <2>3 DEF Enter
<1>3. CASE Collect(c)
  <2>1. View(c) = "pending" /\ Dead /\ UNCHANGED <<outq, child>> /\ Back(c, "lost")
    BY <1>3, HandledPends DEF Collect, pipes, childVars
  <2>2. Lost' = Lost
    BY <2>1 DEF Lost, Dead
  <2> QED
    BY <2>1, <2>2, RefusedTold
<1>4. CASE AskToClose(c)
  <2>1. /\ View(c) = "pending" /\ UNCHANGED <<outq, child, status>>
        /\ Goto(c, "stopping")
    BY <1>4, HandledPends DEF AskToClose, childVars, superVars
  <2>2. View(c)' = "pending"
    BY <2>1, GotoTold DEF View
  <2>3. Lost' = Lost
    BY <2>1 DEF Lost, Dead
  <2> QED
    BY <2>1, <2>2, <2>3, GotoTold, NothingTold
<1>5. CASE StopWorker(c)
  <2>1. View(c) = "pending" /\ UNCHANGED outq /\ Back(c, "lost")
    BY <1>5, HandledPends DEF StopWorker, pipes
  <2>2. Lost
    BY <1>5 DEF StopWorker, Books, Stopping
  <2>3. Dead'
    BY <1>5, Serving DEF StopWorker, Stopped, Dead, childVars
  <2>4. Lost' = Lost
    BY <2>2, <2>3 DEF Lost
  <2> QED
    BY <2>1, <2>4, RefusedTold
<1>6. CASE Return(c)
  <2>1. /\ at[c] = "back" /\ at' = [at EXCEPT ![c] = "idle"]
        /\ \A d \in Clients \ {c} : job'[d] = job[d]
        /\ UNCHANGED <<outq, child, status>>
    BY <1>6 DEF Return, Data, pipes, childVars
  <2>2. at'[c] = "idle" /\ \A d \in Clients \ {c} : View(d)' = View(d)
    BY <2>1, OthersKeepTheirFate
  <2>3. View(c) \in {"ok", "failed"} /\ View(c)' = "none" /\ Lost' = Lost
    BY <2>1, <2>2 DEF View, Lost, Dead
  <2> QED
    BY <2>2, <2>3, OneTold
<1> QED
  BY <1>1, <1>2, <1>3, <1>4, <1>5, <1>6

LEMMA WorkerStepRefines ==
  WorkerInv /\ [Next]_vars => [Radio!LinkNext]_<<Lost, AbstractReply>>
<1> SUFFICES ASSUME WorkerInv, [Next]_vars
             PROVE  [Radio!LinkNext]_<<Lost, AbstractReply>>
  OBVIOUS
<1>1. ASSUME \A c \in Clients : (at'[c] = at[c]) /\ (job'[c] = job[c]), outq' = outq
      PROVE  [Radio!LinkNext]_<<Lost, AbstractReply>>
  BY <1>1, LostStays, NothingTold, ViewSame
<1>2. CASE UNCHANGED <<at, job, outq>>
  BY <1>1, <1>2
<1>3. ASSUME NEW c \in Clients, Serve(c) \/ Enter(c) \/ (\E r \in Requests[c] : Ask(c, r))
      PROVE  [Radio!LinkNext]_<<Lost, AbstractReply>>
  BY <1>3, ThreadRefines, WriteRefines, ReadRefines DEF Serve
<1> QED
  BY <1>2, <1>3, ReplyRefines
  DEF Next, vars, clients, pipes, Child, Start, Greet, Started, Quit, Quitted, Probe, Receive,
      Begin, Work, Hear, Abort, Wedge, Unplug

LEMMA WorkerStartRefines == Init => Radio!LinkInit
BY DEF Init, Radio!LinkInit, AbstractReply, Dead

(* The worker, its death, its silence and the daemon's exit included, is the   *)
(* radio the session assumes: one fate per request, and nothing measured once  *)
(* the device is lost.                                                         *)
THEOREM WorkerIsARadioLink == Spec => ImplementsRadioLink
<1>1. [Radio!LinkNext]_<<Lost, AbstractReply>> =>
        [Radio!LinkNext]_<<Dead \/ status \in {"died", "silent", "stopped"}, AbstractReply>>
  BY DEF Lost
<1>2. WorkerInv /\ [Next]_vars =>
        [Radio!LinkNext]_<<Dead \/ status \in {"died", "silent", "stopped"}, AbstractReply>>
  BY <1>1, WorkerStepRefines
<1> QED
  BY <1>2, WorkerStartRefines, WorkerInvariant, PTL
  DEF Spec, ImplementsRadioLink, Radio!LinkSpec
===============================================================================
