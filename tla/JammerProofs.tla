----------------------------- MODULE JammerProofs -----------------------------
(* Theorems about Jammer, for any number of callers, followers, interferers    *)
(* and channels, whatever dies, refuses or is slow unless a theorem says so.   *)
EXTENDS Jammer, TLAPS

-------------------------------------------------------------------------------
(* The threads: where each may stand and what its locals are good for there.   *)
Sent == Commands \cup {Off}

Jobs == [cmd : Sent \cup {None}, want : BOOLEAN, again : BOOLEAN, unit : Units \cup {None},
         seen : Followers \cup Chans \cup {None}, reset : BOOLEAN]

Items == [op : {"start", "close", "retune", "retire"}, unit : Units \cup {None},
          hz : Chans \cup {None}, by : Threads \cup {None}]

Unlocked == {"idle", "fresh", "post", "enter", "retire", "done", "off", "wait"}
Waits == {"closing", "starting", "undo", "retuning"}
Critical == {"decide", "leave", "halt", "join", "close", "arm"} \cup Waits
Places == Unlocked \cup Critical
Unasked == {"idle", "fresh", "post", "enter", "decide"}

Fits(t, p, j) ==
  /\ t \in Followers => p \in {"off", "wait", "enter", "retuning"}
  /\ t \notin Followers => p \notin {"off", "wait", "retuning"}
  /\ p \in {"post", "decide"} => t \in Callers
  /\ p \in {"post", "enter", "decide"} /\ t \in Callers => j.cmd \in Sent
  /\ p \in {"enter", "retuning"} /\ t \in Followers => j.seen \in Chans
  /\ p = "join" => j.seen \in Followers
  /\ p \in {"starting", "undo"} => j.unit \in Units
  /\ p \in Unasked => ~j.again

(* One thread is between taking the lock and letting go of it, and only it     *)
(* waits for the owner.                                                        *)
Locked(t) ==
  /\ at[t] \in Critical <=> lock = t
  /\ at[t] \notin Waits => slot[t] = "none"

ThreadsFit ==
  /\ at \in [Threads -> Places] /\ job \in [Threads -> Jobs]
  /\ lock \in Threads \cup {None}
  /\ slot \in [Threads -> {"none", "waiting", "ok", "failed"}]
  /\ \A t \in Threads : Fits(t, at[t], job[t]) /\ Locked(t)

StoresFit ==
  /\ asked \in BOOLEAN /\ intended \in BOOLEAN /\ halted \in BOOLEAN /\ retired \in BOOLEAN
  /\ itf \in Units \cup {None}
  /\ cfg \in [hz : Chans, follow : BOOLEAN]
  /\ error \in {None, "died", "start", "retune"}
  /\ follower \in Followers \cup {None}
  /\ queue \in Seq(Items)
  /\ proc \in [Units -> {"none", "on", "dead"}]
  /\ parked \in [Units -> Chans \cup {None}]
  /\ chases \in [Units -> BOOLEAN]
  /\ link \in Chans \cup {None}

TypeInv == ThreadsFit /\ StoresFit

LEMMA TypesHold == TypeInv => TypeOK
BY DEF TypeInv, ThreadsFit, StoresFit, TypeOK, Items, Places, Unlocked, Critical, Waits

-------------------------------------------------------------------------------
(* A thread goes on, in or out of the lock, and touches only its own slot.     *)
Hands(t, p) ==
  /\ p \in Critical => (at[t] \in Critical \/ Free) /\ lock' = t
  /\ p \notin Critical => lock' = IF lock = t THEN None ELSE lock

OwnSlot(t, p) ==
  /\ slot' \in [Threads -> {"none", "waiting", "ok", "failed"}]
  /\ \A d \in Threads \ {t} : slot'[d] = slot[d]
  /\ p \notin Waits => slot'[t] = "none"

LEMMA Names ==
  /\ None \notin Threads
  /\ \A t \in Threads : t \notin Followers => t \in Callers \cup {Main}
  /\ \A t \in Followers : t \notin Callers /\ t # Main
  /\ Main \notin Callers
BY JammerAssumption DEF Threads

LEMMA Moved ==
  ASSUME ThreadsFit, NEW t \in Threads, NEW p, NEW j, Become(t, p, j)
  PROVE  /\ at'[t] = p /\ job'[t] = j
         /\ \A d \in Threads \ {t} : at'[d] = at[d] /\ job'[d] = job[d]
BY DEF Become, ThreadsFit

LEMMA MovesFit ==
  ASSUME ThreadsFit, NEW t \in Threads, NEW p \in Places, NEW j \in Jobs, Become(t, p, j),
         Fits(t, p, j), Hands(t, p), OwnSlot(t, p)
  PROVE  ThreadsFit'
<1>1. /\ at'[t] = p /\ job'[t] = j
      /\ \A d \in Threads \ {t} : at'[d] = at[d] /\ job'[d] = job[d]
  BY Moved
<1>2. at' \in [Threads -> Places] /\ job' \in [Threads -> Jobs]
  BY DEF Become, ThreadsFit
<1>3. lock' \in Threads \cup {None}
  BY DEF ThreadsFit, Hands
<1>4. ASSUME NEW d \in Threads PROVE Fits(d, at'[d], job'[d])
  BY <1>1 DEF ThreadsFit
<1>5. ASSUME NEW d \in Threads PROVE Locked(d)'
  <2>1. CASE d = t
    BY <1>1, <2>1, Names DEF Locked, Hands, OwnSlot, ThreadsFit
  <2>2. CASE d # t
    <3>1. at'[d] = at[d] /\ slot'[d] = slot[d] /\ Locked(d) /\ Locked(t)
      BY <1>1, <2>2 DEF OwnSlot, ThreadsFit
    <3> QED
      BY <2>2, <3>1, Names DEF Locked, Hands, Free
  <2> QED
    BY <2>1, <2>2
<1> QED
  BY <1>2, <1>3, <1>4, <1>5 DEF ThreadsFit, OwnSlot

(* Inside the lock, and still inside it.                                       *)
LEMMA StaysInside ==
  ASSUME ThreadsFit, NEW t \in Threads, NEW p \in Places, NEW j \in Jobs, Become(t, p, j),
         Fits(t, p, j), at[t] \in Critical, p \in Critical, lock' = lock, OwnSlot(t, p)
  PROVE  ThreadsFit'
BY MovesFit DEF Hands, ThreadsFit, Locked

LEMMA StaysOutside ==
  ASSUME ThreadsFit, NEW t \in Threads, NEW p \in Unlocked, NEW j \in Jobs, Become(t, p, j),
         Fits(t, p, j), at[t] \in Unlocked, lock' = lock, slot' = slot
  PROVE  ThreadsFit'
<1>1. p \in Places /\ p \notin Critical /\ p \notin Waits /\ at[t] \notin Critical /\ at[t] \notin Waits
  BY DEF Places, Unlocked, Critical, Waits
<1>2. lock # t /\ OwnSlot(t, p)
  BY <1>1 DEF ThreadsFit, Locked, OwnSlot
<1> QED
  BY <1>1, <1>2, MovesFit DEF Hands

(* Back to where a command came from.                                          *)
LEMMA Returns ==
  ASSUME ThreadsFit, NEW c \in Callers \cup {Main}, at[c] \in Critical, Return(c),
         \A p \in {"idle", "fresh", "retire"} : OwnSlot(c, p)
  PROVE  /\ ThreadsFit'
         /\ at'[c] \in {"idle", "fresh", "retire"} /\ job'[c] = NoJob /\ lock' = None
         /\ \A d \in Threads \ {c} : at'[d] = at[d] /\ job'[d] = job[d]
<1> DEFINE p == IF c = Main THEN "retire" ELSE IF job[c].reset THEN "fresh" ELSE "idle"
<1>1. c \in Threads /\ p \in {"idle", "fresh", "retire"} /\ Become(c, p, NoJob) /\ lock' = None
  BY DEF Return, Threads
<1>2. NoJob \in Jobs /\ p \in Places /\ p \notin Critical
  BY <1>1 DEF NoJob, Jobs, Places, Unlocked, Critical, Waits
<1>3. Fits(c, p, NoJob) /\ lock = c
  BY <1>1, Names DEF Fits, NoJob, Unasked, ThreadsFit, Locked
<1> HIDE DEF p
<1>4. ThreadsFit'
  BY <1>1, <1>2, <1>3, MovesFit DEF Hands
<1> QED
  BY <1>1, <1>4, Moved

-------------------------------------------------------------------------------
(* What is put in the queue fits there.                                        *)
LEMMA QueueFits ==
  ASSUME StoresFit
  PROVE  /\ \A q \in Seq(Items), op \in {"start", "close", "retune", "retire"},
               u \in Units \cup {None}, f \in Chans \cup {None}, t \in Threads \cup {None} :
              Queued(q, op, u, f, t) \in Seq(Items)
         /\ \A t \in Threads : Disowned(t) \in Seq(Items)
<1>1. ASSUME NEW q \in Seq(Items), NEW op \in {"start", "close", "retune", "retire"},
             NEW u \in Units \cup {None}, NEW f \in Chans \cup {None},
             NEW t \in Threads \cup {None}
      PROVE  Queued(q, op, u, f, t) \in Seq(Items)
  <2>1. [op |-> op, unit |-> u, hz |-> f, by |-> t] \in Items
    BY DEF Items
  <2> QED
    BY <2>1 DEF Queued
<1>2. ASSUME NEW t \in Threads PROVE Disowned(t) \in Seq(Items)
  <2>1. queue \in Seq(Items)
    BY DEF StoresFit
  <2>2. ASSUME NEW i \in DOMAIN queue
        PROVE  (IF queue[i].by = t THEN [queue[i] EXCEPT !.by = None] ELSE queue[i]) \in Items
    <3>1. queue[i] \in Items
      BY <2>1
    <3> QED
      BY <3>1 DEF Items
  <2> DEFINE item(i) == IF queue[i].by = t THEN [queue[i] EXCEPT !.by = None] ELSE queue[i]
  <2>3. DOMAIN queue = 1 .. Len(queue) /\ Len(queue) \in Nat
    BY <2>1
  <2>4. \A i \in 1 .. Len(queue) : item(i) \in Items
    BY <2>2, <2>3
  <2> HIDE DEF item
  <2>5. [i \in 1 .. Len(queue) |-> item(i)] \in Seq(Items)
    BY <2>3, <2>4
  <2> QED
    BY <2>3, <2>5 DEF Disowned, item
<1> QED
  BY <1>1, <1>2

LEMMA StepsAskStores ==
  ASSUME TypeInv, NEW c \in Callers \cup {Main},
         \/ \E cmd \in Commands : Post(c, cmd)
         \/ Reset(c) \/ Poll(c) \/ Enter(c) \/ Leave(c) \/ Halt(c) \/ Join(c)
  PROVE  StoresFit'
<1>1. intended' \in BOOLEAN /\ asked' \in BOOLEAN /\ halted' \in BOOLEAN
  BY DEF TypeInv, StoresFit, Post, Reset, Poll, Enter, Leave, Halt, Join, settings, pursuit, outside
<1>2. error' \in {None, "died", "start", "retune"} /\ follower' \in Followers \cup {None}
  BY DEF TypeInv, StoresFit, Post, Reset, Poll, Enter, Leave, Halt, Join, settings, pursuit, Noticed
<1>3. UNCHANGED <<itf, cfg, queue, proc, parked, chases, link, retired>>
  BY DEF Post, Reset, Poll, Enter, Leave, Halt, Join, settings, work, unitVars, outside
<1> QED
  BY <1>1, <1>2, <1>3 DEF TypeInv, StoresFit

LEMMA StepsRunStores ==
  ASSUME TypeInv, NEW c \in Callers \cup {Main},
         \/ Decide(c) \/ Close(c) \/ Closing(c) \/ Arm(c) \/ Starting(c) \/ Undo(c)
  PROVE  StoresFit'
<1>0. /\ StoresFit /\ ThreadsFit /\ c \in Threads /\ job[c] \in Jobs /\ Fits(c, at[c], job[c])
      /\ queue \in Seq(Items)
  BY DEF TypeInv, ThreadsFit, StoresFit, Threads
<1>q. /\ \A u \in Units \cup {None} : Queued(queue, "close", u, None, c) \in Seq(Items)
      /\ \A u \in Units \cup {None} : Queued(queue, "start", u, None, c) \in Seq(Items)
      /\ \A u \in Units \cup {None} : Queued(Disowned(c), "close", u, None, c) \in Seq(Items)
      /\ Disowned(c) \in Seq(Items)
  BY <1>0, QueueFits
<1>1. CASE Decide(c)
  <2>1. cfg' \in [hz : Chans, follow : BOOLEAN] /\ intended' \in BOOLEAN
    <3>1. CASE Refused(c)
      BY <1>0, <1>1, <3>1 DEF Decide, settings, StoresFit
    <3>2. CASE ~Refused(c)
      <4>1. job[c].cmd \in Sent /\ job[c].cmd.hz # "beyond"
        BY <1>0, <1>1, <3>2 DEF Decide, Fits, Refused
      <4>2. job[c].cmd.hz \in Chans \cup {None}
        BY <4>1, JammerAssumption DEF Sent, Off
      <4>3. cfg' = Told(c) /\ intended' = job[c].want
        BY <1>1, <3>2 DEF Decide
      <4> QED
        BY <1>0, <4>2, <4>3 DEF Told, StoresFit, Jobs
    <3> QED
      BY <3>1, <3>2
  <2> QED
    BY <1>0, <1>1, <2>1 DEF Decide, pursuit, work, unitVars, outside, StoresFit
<1>2. CASE Close(c)
  <2>1. queue' \in Seq(Items) /\ itf' \in Units \cup {None}
    BY <1>0, <1>q, <1>2 DEF Close, Submit, work, StoresFit
  <2> QED
    BY <1>0, <1>2, <2>1 DEF Close, settings, pursuit, unitVars, outside, StoresFit
<1>3. CASE Closing(c)
  <2>1. queue' \in Seq(Items)
    BY <1>0, <1>q, <1>3 DEF Closing, Collect, GiveUp
  <2> QED
    BY <1>0, <1>3, <2>1 DEF Closing, settings, pursuit, unitVars, outside, StoresFit
<1>4. CASE Arm(c)
  <2>1. /\ queue' \in Seq(Items)
        /\ proc' \in [Units -> {"none", "on", "dead"}]
        /\ parked' \in [Units -> Chans \cup {None}] /\ chases' \in [Units -> BOOLEAN]
    <3>1. CASE UNCHANGED <<work, unitVars>>
      BY <1>0, <3>1 DEF work, unitVars, StoresFit
    <3>2. ASSUME NEW u \in Units,
                 proc' = [proc EXCEPT ![u] = "none"], parked' = [parked EXCEPT ![u] = cfg.hz],
                 chases' = [chases EXCEPT ![u] = cfg.follow], Submit(c, "start", u, None)
          PROVE  /\ queue' \in Seq(Items)
                 /\ proc' \in [Units -> {"none", "on", "dead"}]
                 /\ parked' \in [Units -> Chans \cup {None}] /\ chases' \in [Units -> BOOLEAN]
      <4>1. queue' \in Seq(Items)
        BY <1>q, <3>2 DEF Submit
      <4> QED
        BY <1>0, <3>2, <4>1 DEF StoresFit
    <3> QED
      BY <1>4, <3>1, <3>2 DEF Arm
  <2> QED
    BY <1>0, <1>4, <2>1 DEF Arm, settings, pursuit, outside, StoresFit
<1>5. CASE Starting(c)
  <2>1. job[c].unit \in Units
    BY <1>0, <1>5 DEF Starting, Fits
  <2>2. queue' \in Seq(Items)
    BY <1>0, <1>q, <1>5, <2>1 DEF Starting, Collect
  <2>3. itf' \in Units \cup {None} /\ follower' \in Followers \cup {None} /\ halted' \in BOOLEAN
          /\ error' \in {None, "died", "start", "retune"}
    BY <1>0, <1>5, <2>1 DEF Starting, StoresFit, pursuit
  <2> QED
    BY <1>0, <1>5, <2>2, <2>3 DEF Starting, settings, unitVars, outside, StoresFit
<1>6. CASE Undo(c)
  <2>1. queue' \in Seq(Items)
    BY <1>0, <1>q, <1>6 DEF Undo, Collect, GiveUp
  <2> QED
    BY <1>0, <1>6, <2>1 DEF Undo, settings, pursuit, unitVars, outside, StoresFit
<1> QED
  BY <1>1, <1>2, <1>3, <1>4, <1>5, <1>6

LEMMA FollowersStores ==
  ASSUME TypeInv, NEW f \in Followers, Follow(f)
  PROVE  StoresFit'
<1>0. /\ StoresFit /\ f \in Threads /\ Fits(f, at[f], job[f]) /\ queue \in Seq(Items)
  BY DEF TypeInv, ThreadsFit, StoresFit, Threads
<1>1. CASE Look(f)
  BY <1>0, <1>1 DEF Look, settings, pursuit, work, unitVars, outside, StoresFit
<1>2. CASE Chase(f)
  <2>1. job[f].seen \in Chans
    BY <1>0, <1>2 DEF Chase, Fits
  <2>2. Queued(queue, "retune", itf, job[f].seen, f) \in Seq(Items)
    BY <1>0, <2>1, QueueFits DEF StoresFit
  <2>3. queue' \in Seq(Items)
    BY <1>0, <1>2, <2>2 DEF Chase, Submit, work
  <2> QED
    BY <1>0, <1>2, <2>3 DEF Chase, settings, pursuit, unitVars, outside, StoresFit
<1>3. CASE Chased(f)
  <2>1. job[f].seen \in Chans
    BY <1>0, <1>3 DEF Chased, Fits
  <2>2. queue' \in Seq(Items)
    BY <1>0, <1>3, QueueFits DEF Chased, Collect, GiveUp
  <2>3. cfg' \in [hz : Chans, follow : BOOLEAN] /\ error' \in {None, "died", "start", "retune"}
    BY <1>0, <1>3, <2>1 DEF Chased, StoresFit
  <2> QED
    BY <1>0, <1>3, <2>2, <2>3 DEF Chased, pursuit, unitVars, outside, StoresFit
<1> QED
  BY <1>1, <1>2, <1>3 DEF Follow

(* What the owner does to the item at the head of its queue.                   *)
LEMMA OwnerStores ==
  ASSUME TypeInv, Own
  PROVE  StoresFit'
<1>0. StoresFit /\ queue \in Seq(Items)
  BY DEF TypeInv, StoresFit
<1>1. queue # <<>> => Head(queue) \in Items /\ Tail(queue) \in Seq(Items)
  BY <1>0
<1>2. CASE RunStart
  <2>1. proc' \in [Units -> {"none", "on", "dead"}] /\ queue' \in Seq(Items)
    BY <1>0, <1>1, <1>2 DEF RunStart, Finish, Heads, StoresFit
  <2> QED
    BY <1>0, <1>2, <2>1 DEF RunStart, settings, pursuit, outside, StoresFit
<1>3. CASE RunClose
  <2>1. /\ proc' \in [Units -> {"none", "on", "dead"}] /\ queue' \in Seq(Items)
        /\ parked' \in [Units -> Chans \cup {None}] /\ chases' \in [Units -> BOOLEAN]
    BY <1>0, <1>1, <1>3 DEF RunClose, Finish, Heads, StoresFit
  <2> QED
    BY <1>0, <1>3, <2>1 DEF RunClose, settings, pursuit, outside, StoresFit
<1>4. CASE RunRetune
  <2>1. queue # <<>> /\ Head(queue) \in Items
    BY <1>1, <1>4 DEF RunRetune, Heads
  <2>2. queue' \in Seq(Items)
    <3>1. CASE Finish("ok")
      BY <1>1, <2>1, <3>1 DEF Finish
    <3>2. CASE queue' = [queue EXCEPT ![1].op = "start"]
      <4>1. queue[1] \in Items /\ 1 \in 1 .. Len(queue)
        BY <1>0, <2>1
      <4>2. [queue[1] EXCEPT !.op = "start"] \in Items
        BY <4>1 DEF Items
      <4> QED
        BY <1>0, <3>2, <4>1, <4>2
    <3> QED
      BY <1>4, <3>1, <3>2 DEF RunRetune
  <2>3. /\ proc' \in [Units -> {"none", "on", "dead"}] /\ parked' \in [Units -> Chans \cup {None}]
    BY <1>0, <1>4, <2>1 DEF RunRetune, StoresFit, Items
  <2> QED
    BY <1>0, <1>4, <2>2, <2>3 DEF RunRetune, settings, pursuit, outside, StoresFit
<1>5. CASE RunRetire
  <2>1. proc' \in [Units -> {"none", "on", "dead"}] /\ queue' \in Seq(Items)
    BY <1>0, <1>5 DEF RunRetire, StoresFit
  <2> QED
    BY <1>0, <1>5, <2>1 DEF RunRetire, settings, pursuit, StoresFit
<1> QED
  BY <1>2, <1>3, <1>4, <1>5 DEF Own

LEMMA WorldStores ==
  ASSUME TypeInv, Shutdown \/ Retire \/ MoveLink \/ \E u \in Units : Die(u)
  PROVE  StoresFit'
<1>0. StoresFit /\ queue \in Seq(Items)
  BY DEF TypeInv, StoresFit
<1>1. CASE Shutdown \/ MoveLink
  BY <1>0, <1>1 DEF Shutdown, MoveLink, settings, pursuit, work, unitVars, outside, StoresFit
<1>2. CASE Retire
  <2>1. queue' \in Seq(Items)
    BY <1>0, <1>2, QueueFits DEF Retire
  <2> QED
    BY <1>0, <1>2, <2>1 DEF Retire, settings, pursuit, unitVars, outside, StoresFit
<1>3. ASSUME NEW u \in Units, Die(u) PROVE StoresFit'
  BY <1>0, <1>3 DEF Die, settings, pursuit, work, outside, StoresFit
<1> QED
  BY <1>1, <1>2, <1>3

-------------------------------------------------------------------------------
(* Every step of the callers leaves the threads where they may stand.          *)
LEMMA SlotKept ==
  ASSUME ThreadsFit, NEW t \in Threads, at[t] \notin Waits, slot' = slot, NEW p
  PROVE  OwnSlot(t, p)
BY DEF ThreadsFit, Locked, OwnSlot

LEMMA SlotSet ==
  ASSUME ThreadsFit, NEW t \in Threads, NEW r \in {"none", "waiting", "ok", "failed"},
         slot' = [slot EXCEPT ![t] = r], NEW p, p \in Waits \/ r = "none"
  PROVE  OwnSlot(t, p)
BY DEF ThreadsFit, OwnSlot

LEMMA StepsOutsideThreads ==
  ASSUME ThreadsFit, NEW c \in Callers,
         \/ \E cmd \in Commands : Post(c, cmd)
         \/ Reset(c) \/ Poll(c)
  PROVE  ThreadsFit'
<1>0. c \in Threads /\ c \notin Followers /\ c # Main /\ job[c] \in Jobs /\ Fits(c, at[c], job[c])
  BY Names DEF Threads, ThreadsFit
<1>1. at[c] \in {"idle", "fresh", "post"} => at[c] \in Unlocked
  BY DEF Unlocked
<1>2. ASSUME NEW j \in Jobs, ~j.again, j.cmd \in Sent, Become(c, "post", j),
             at[c] \in {"idle", "fresh"}, lock' = lock, slot' = slot
      PROVE  ThreadsFit'
  <2>1. Fits(c, "post", j)
    BY <1>0, <1>2 DEF Fits
  <2> QED
    BY <1>0, <1>1, <1>2, <2>1, StaysOutside DEF Unlocked
<1>3. ASSUME NEW cmd \in Commands, Post(c, cmd) PROVE ThreadsFit'
  <2>1. [NoJob EXCEPT !.cmd = cmd] \in Jobs /\ ~[NoJob EXCEPT !.cmd = cmd].again
          /\ [NoJob EXCEPT !.cmd = cmd].cmd \in Sent
    BY DEF NoJob, Jobs, Sent
  <2> QED
    BY <1>2, <1>3, <2>1 DEF Post, work
<1>4. CASE Reset(c)
  <2>1. CASE Become(c, "fresh", NoJob)
    <3>1. NoJob \in Jobs /\ Fits(c, "fresh", NoJob)
      BY <1>0 DEF NoJob, Jobs, Fits, Unasked
    <3> QED
      BY <1>0, <1>1, <1>4, <2>1, <3>1, StaysOutside DEF Reset, work, Unlocked
  <2>2. CASE Become(c, "post", [NoJob EXCEPT !.cmd = Off, !.reset = TRUE])
    <3> DEFINE j == [NoJob EXCEPT !.cmd = Off, !.reset = TRUE]
    <3>1. j \in Jobs /\ ~j.again /\ j.cmd \in Sent
      BY DEF NoJob, Jobs, Sent
    <3> QED
      BY <1>2, <1>4, <2>2, <3>1 DEF Reset, work
  <2> QED
    BY <1>4, <2>1, <2>2 DEF Reset
<1>5. CASE Poll(c)
  <2>1. CASE at[c] = "post"
    <3>1. Fits(c, "enter", job[c])
      BY <1>0, <2>1 DEF Fits, Unasked
    <3> QED
      BY <1>0, <1>1, <1>5, <2>1, <3>1, StaysOutside DEF Poll, Goto, work, Unlocked
  <2>2. CASE at[c] = "idle"
    <3>1. Fits(c, "idle", job[c])
      BY <1>0, <2>2
    <3> QED
      BY <1>0, <1>1, <1>5, <2>2, <3>1, StaysOutside DEF Poll, Goto, work, Unlocked
  <2> QED
    BY <1>5, <2>1, <2>2 DEF Poll
<1> QED
  BY <1>3, <1>4, <1>5

LEMMA EnterThreads ==
  ASSUME ThreadsFit, NEW c \in Callers \cup {Main}, Enter(c)
  PROVE  ThreadsFit'
<1>0. c \in Threads /\ c \notin Followers /\ job[c] \in Jobs /\ Fits(c, "enter", job[c])
        /\ at[c] = "enter"
  BY Names DEF Threads, ThreadsFit, Enter
<1>1. \A p : OwnSlot(c, p)
  BY <1>0, SlotKept DEF Enter, work, Waits
<1>2. CASE c = Main /\ Goto(c, "halt")
  <2>1. Fits(c, "halt", job[c]) /\ "halt" \in Critical /\ "halt" \in Places
    BY <1>0 DEF Fits, Unasked, Critical, Places
  <2> QED
    BY <1>0, <1>1, <1>2, <2>1, MovesFit DEF Goto, Enter, Hands
<1>3. CASE c # Main
  <2> DEFINE j == [job[c] EXCEPT !.want =
                     IF job[c].cmd.on = "same" THEN Armed ELSE job[c].cmd.on = "on"]
  <2>1. j \in Jobs
    BY <1>0 DEF Jobs, Armed
  <2>2. Fits(c, "decide", j) /\ "decide" \in Critical /\ "decide" \in Places
    BY <1>0, <1>3, Names DEF Fits, Unasked, Critical, Places, Jobs
  <2>3. Become(c, "decide", j)
    BY <1>3 DEF Enter
  <2> HIDE DEF j
  <2> QED
    BY <1>0, <1>1, <2>1, <2>2, <2>3, MovesFit DEF Enter, Hands
<1> QED
  BY <1>2, <1>3 DEF Enter

(* Decide, Leave, Halt, Join, Close: nobody is waited for, except by Close.    *)
LEMMA StepsInsideThreads ==
  ASSUME ThreadsFit, StoresFit, NEW c \in Callers \cup {Main},
         Decide(c) \/ Leave(c) \/ Halt(c) \/ Join(c) \/ Close(c)
  PROVE  ThreadsFit'
<1>0. /\ c \in Threads /\ c \notin Followers /\ job[c] \in Jobs /\ Fits(c, at[c], job[c])
      /\ at[c] \in {"decide", "leave", "halt", "join", "close"}
  BY Names DEF Threads, ThreadsFit, Decide, Leave, Halt, Join, Close
<1>1. at[c] \in Critical /\ at[c] \notin Waits
  BY <1>0 DEF Critical, Waits
<1>2. \A p : slot' = slot => OwnSlot(c, p)
  BY <1>0, <1>1, SlotKept
<1>3. ASSUME NEW p \in {"leave", "halt", "join", "close", "arm", "closing"}, NEW j \in Jobs,
             Become(c, p, j), p = "join" => j.seen \in Followers, lock' = lock, OwnSlot(c, p)
      PROVE  ThreadsFit'
  <2>1. p \in Critical /\ p \in Places
    BY DEF Critical, Waits, Places
  <2>2. Fits(c, p, j)
    BY <1>0, <1>3 DEF Fits, Unasked
  <2> QED
    BY <1>0, <1>1, <1>3, <2>1, <2>2, StaysInside
<1>4. ASSUME Return(c), slot' = slot PROVE ThreadsFit'
  BY <1>1, <1>2, <1>4, Returns
<1>5. CASE Decide(c)
  <2>1. [job[c] EXCEPT !.again = TRUE] \in Jobs
    BY <1>0 DEF Jobs
  <2>2. slot' = slot
    BY <1>5 DEF Decide, work
  <2> QED
    BY <1>0, <1>2, <1>3, <1>4, <1>5, <2>1, <2>2 DEF Decide, Goto
<1>6. CASE Leave(c)
  BY <1>4, <1>6 DEF Leave, work
<1>7. CASE Halt(c)
  <2>1. follower # None => [job[c] EXCEPT !.seen = follower] \in Jobs
                             /\ [job[c] EXCEPT !.seen = follower].seen \in Followers
    BY <1>0 DEF Jobs, StoresFit
  <2> QED
    BY <1>0, <1>2, <1>3, <1>7, <2>1 DEF Halt, Goto, work
<1>8. CASE Join(c)
  BY <1>0, <1>2, <1>3, <1>8 DEF Join, Goto, work
<1>9. CASE Close(c)
  <2>1. AfterDisarm(c) \in {"arm", "leave"}
    BY DEF AfterDisarm
  <2>2. CASE slot' = slot /\ Goto(c, AfterDisarm(c))
    BY <1>0, <1>2, <1>3, <1>9, <2>1, <2>2 DEF Close, Goto
  <2>3. CASE slot' = [slot EXCEPT ![c] = "waiting"] /\ Goto(c, "closing")
    <3>1. OwnSlot(c, "closing")
      BY <1>0, <2>3, SlotSet DEF Waits
    <3> QED
      BY <1>0, <1>3, <1>9, <2>3, <3>1 DEF Close, Goto
  <2> QED
    BY <1>9, <2>2, <2>3 DEF Close, Submit, work
<1> QED
  BY <1>5, <1>6, <1>7, <1>8, <1>9

(* Closing, Arm, Starting, Undo: what waits for the owner.                     *)
LEMMA StepsWaitThreads ==
  ASSUME ThreadsFit, StoresFit, NEW c \in Callers \cup {Main},
         Closing(c) \/ Arm(c) \/ Starting(c) \/ Undo(c)
  PROVE  ThreadsFit'
<1>0. /\ c \in Threads /\ c \notin Followers /\ job[c] \in Jobs /\ Fits(c, at[c], job[c])
      /\ at[c] \in {"closing", "arm", "starting", "undo"}
  BY Names DEF Threads, ThreadsFit, Closing, Arm, Starting, Undo
<1>1. at[c] \in Critical
  BY <1>0 DEF Critical, Waits
<1>2. \A p : slot' = [slot EXCEPT ![c] = "none"] => OwnSlot(c, p)
  BY <1>0, SlotSet
<1>3. ASSUME NEW p \in {"leave", "arm", "starting", "undo"}, NEW j \in Jobs,
             Become(c, p, j), p \in {"starting", "undo"} => j.unit \in Units,
             lock' = lock, OwnSlot(c, p)
      PROVE  ThreadsFit'
  <2>1. p \in Critical /\ p \in Places
    BY DEF Critical, Waits, Places
  <2>2. Fits(c, p, j)
    BY <1>0, <1>3 DEF Fits, Unasked
  <2> QED
    BY <1>0, <1>1, <1>3, <2>1, <2>2, StaysInside
<1>4. CASE Closing(c)
  <2>1. AfterDisarm(c) \in {"arm", "leave"}
    BY DEF AfterDisarm
  <2>2. slot' = [slot EXCEPT ![c] = "none"]
    BY <1>4 DEF Closing, Collect, GiveUp
  <2> QED
    BY <1>0, <1>1, <1>2, <1>3, <1>4, <2>1, <2>2, Returns DEF Closing, Goto
<1>5. CASE Arm(c)
  <2>1. ASSUME NEW u \in Units, slot' = [slot EXCEPT ![c] = "waiting"],
               Become(c, "starting", [job[c] EXCEPT !.unit = u]), lock' = lock
        PROVE  ThreadsFit'
    <3>1. [job[c] EXCEPT !.unit = u] \in Jobs /\ [job[c] EXCEPT !.unit = u].unit \in Units
      BY <1>0 DEF Jobs
    <3>2. OwnSlot(c, "starting")
      BY <1>0, <2>1, SlotSet DEF Waits
    <3> QED
      BY <1>3, <2>1, <3>1, <3>2
  <2>2. CASE Return(c) /\ slot' = slot
    <3>1. at[c] \notin Waits
      BY <1>5 DEF Arm, Waits
    <3> QED
      BY <1>0, <1>1, <2>2, <3>1, Returns, SlotKept
  <2> QED
    BY <1>5, <2>1, <2>2 DEF Arm, Submit, work
<1>6. CASE Undo(c)
  <2>1. slot' = [slot EXCEPT ![c] = "none"]
    BY <1>6 DEF Undo, Collect, GiveUp
  <2> QED
    BY <1>0, <1>1, <1>2, <1>6, <2>1, Returns DEF Undo
<1>7. CASE Starting(c)
  <2>1. lock' = lock /\ job[c].unit \in Units
    BY <1>0, <1>7 DEF Starting, Fits
  <2>2. CASE Collect(c) /\ Goto(c, "leave")
    BY <1>0, <1>2, <1>3, <2>1, <2>2 DEF Collect, Goto
  <2>3. CASE slot' = [slot EXCEPT ![c] = "waiting"] /\ Goto(c, "undo")
    <3>1. OwnSlot(c, "undo")
      BY <1>0, <2>3, SlotSet DEF Waits
    <3> QED
      BY <1>0, <1>3, <2>1, <2>3, <3>1 DEF Goto
  <2>4. ASSUME NEW f \in Followers, at[f] = "off", Collect(c), UNCHANGED job,
               at' = [at EXCEPT ![c] = "leave", ![f] = "wait"]
        PROVE  ThreadsFit'
    <3>1. f # c /\ f \in Threads
      BY <1>0 DEF Threads
    <3>2. /\ at' \in [Threads -> Places] /\ at'[c] = "leave" /\ at'[f] = "wait"
          /\ \A d \in Threads \ {c, f} : at'[d] = at[d]
      BY <1>0, <2>4, <3>1 DEF ThreadsFit, Places, Unlocked, Critical
    <3>3. ASSUME NEW d \in Threads PROVE Fits(d, at'[d], job'[d])
      <4>1. CASE d = c
        BY <1>0, <2>4, <3>2, <4>1 DEF Fits, Unasked
      <4>2. CASE d = f
        BY <1>0, <2>4, <3>1, <3>2, <4>2, Names DEF Fits, Unasked
      <4>3. CASE d \notin {c, f}
        BY <2>4, <3>2, <4>3 DEF ThreadsFit
      <4> QED
        BY <4>1, <4>2, <4>3
    <3>4. slot' = [slot EXCEPT ![c] = "none"]
      BY <2>4 DEF Collect
    <3>5. ASSUME NEW d \in Threads PROVE Locked(d)'
      <4>1. CASE d = c
        BY <1>0, <1>1, <2>1, <3>2, <3>4, <4>1 DEF ThreadsFit, Locked, Critical, Waits
      <4>2. CASE d = f
        BY <1>0, <2>1, <2>4, <3>1, <3>2, <3>4, <4>2 DEF ThreadsFit, Locked, Critical, Waits
      <4>3. CASE d \notin {c, f}
        BY <2>1, <3>2, <3>4, <4>3 DEF ThreadsFit, Locked
      <4> QED
        BY <4>1, <4>2, <4>3
    <3> QED
      BY <2>1, <2>4, <3>2, <3>3, <3>4, <3>5 DEF ThreadsFit
  <2> QED
    BY <1>7, <2>2, <2>3, <2>4 DEF Starting
<1> QED
  BY <1>4, <1>5, <1>6, <1>7

LEMMA FollowersThreads ==
  ASSUME ThreadsFit, StoresFit, NEW f \in Followers, Follow(f)
  PROVE  ThreadsFit'
<1>0. /\ f \in Threads /\ f \notin Callers /\ f # Main /\ job[f] \in Jobs
      /\ Fits(f, at[f], job[f]) /\ at[f] \in Places
  BY Names DEF Threads, ThreadsFit
<1>1. CASE Look(f)
  <2>1. at[f] \in Unlocked /\ lock' = lock /\ slot' = slot
    BY <1>1 DEF Look, Unlocked, work
  <2>2. CASE Become(f, "off", NoJob)
    <3>1. NoJob \in Jobs /\ Fits(f, "off", NoJob)
      BY <1>0 DEF NoJob, Jobs, Fits, Unasked
    <3> QED
      BY <1>0, <2>1, <2>2, <3>1, StaysOutside DEF Unlocked
  <2>3. CASE link # None /\ Become(f, "enter", [NoJob EXCEPT !.seen = link])
    <3>1. link \in Chans
      BY <2>3 DEF StoresFit
    <3>2. [NoJob EXCEPT !.seen = link] \in Jobs /\ Fits(f, "enter", [NoJob EXCEPT !.seen = link])
      BY <1>0, <3>1 DEF NoJob, Jobs, Fits, Unasked
    <3> QED
      BY <1>0, <2>1, <2>3, <3>2, StaysOutside DEF Unlocked
  <2> QED
    BY <1>1, <2>2, <2>3 DEF Look
<1>2. CASE Chase(f)
  <2>0. at[f] = "enter" /\ at[f] \notin Waits
    BY <1>2 DEF Chase, Waits
  <2>1. CASE Goto(f, "wait") /\ UNCHANGED <<lock, work>>
    <3>1. Fits(f, "wait", job[f])
      BY <1>0, <2>0 DEF Fits, Unasked
    <3> QED
      BY <1>0, <2>0, <2>1, <3>1, StaysOutside DEF Goto, Unlocked, work
  <2>2. CASE lock' = f /\ Submit(f, "retune", itf, job[f].seen) /\ Goto(f, "retuning")
    <3>1. Fits(f, "retuning", job[f]) /\ "retuning" \in Places /\ "retuning" \in Critical
      BY <1>0, <2>0 DEF Fits, Unasked, Places, Critical, Waits
    <3>2. OwnSlot(f, "retuning")
      BY <1>0, <2>2, SlotSet DEF Submit, Waits
    <3> QED
      BY <1>0, <1>2, <2>2, <3>1, <3>2, MovesFit DEF Chase, Goto, Hands
  <2> QED
    BY <1>2, <2>1, <2>2 DEF Chase
<1>3. CASE Chased(f)
  <2>1. at[f] = "retuning" /\ lock' = None /\ Goto(f, "wait")
    BY <1>3 DEF Chased
  <2>2. slot' = [slot EXCEPT ![f] = "none"]
    BY <1>3 DEF Chased, Collect, GiveUp
  <2>3. Fits(f, "wait", job[f]) /\ "wait" \in Places /\ "wait" \notin Critical
    BY <1>0, <2>1 DEF Fits, Unasked, Places, Critical, Waits, Unlocked
  <2>4. lock = f
    BY <1>0, <2>1 DEF ThreadsFit, Locked, Critical, Waits
  <2>5. OwnSlot(f, "wait")
    BY <1>0, <2>2, SlotSet
  <2> QED
    BY <1>0, <2>1, <2>3, <2>4, <2>5, MovesFit DEF Hands, Goto
<1> QED
  BY <1>1, <1>2, <1>3 DEF Follow

LEMMA MainThreads ==
  ASSUME ThreadsFit, Shutdown \/ Retire
  PROVE  ThreadsFit'
<1>0. Main \in Threads /\ Main \notin Followers /\ Main \notin Callers /\ job[Main] \in Jobs
        /\ Fits(Main, at[Main], job[Main])
  BY Names DEF Threads, ThreadsFit
<1>1. CASE Shutdown
  <2>1. at[Main] \in Unlocked /\ Fits(Main, "enter", job[Main])
    BY <1>0, <1>1 DEF Shutdown, Unlocked, Fits, Unasked
  <2> QED
    BY <1>0, <1>1, <2>1, StaysOutside DEF Shutdown, Goto, work, Unlocked
<1>2. CASE Retire
  <2>1. at[Main] \in Unlocked /\ Fits(Main, "done", job[Main])
    BY <1>0, <1>2 DEF Retire, Unlocked, Fits, Unasked
  <2> QED
    BY <1>0, <1>2, <2>1, StaysOutside DEF Retire, Goto, work, Unlocked
<1> QED
  BY <1>1, <1>2

(* The owner answers one that is waiting.                                      *)
LEMMA AnswersFit ==
  ASSUME ThreadsFit, UNCHANGED <<threads, lock>>,
         \/ slot' = slot
         \/ \E t \in Threads, r \in {"ok", "failed"} :
              at[t] \in Waits /\ slot' = [slot EXCEPT ![t] = r]
  PROVE  ThreadsFit'
BY DEF ThreadsFit, threads, Locked

-------------------------------------------------------------------------------
(* The queue: whoever waits for an item holds the lock, and everything queued  *)
(* after it retires the owner. Once the owner is gone nothing is queued or     *)
(* keyed.                                                                      *)
Starts(item) == item.op \in {"start", "retune"}

Asks(t, item) ==
  /\ at[t] \in Waits /\ slot[t] = "waiting"
  /\ at[t] = "starting" => item.op = "start" /\ item.unit = job[t].unit
  /\ at[t] \in {"closing", "undo"} => item.op = "close"
  /\ at[t] = "retuning" => /\ Starts(item) /\ item.unit = itf /\ item.hz = job[t].seen
                           /\ item.op = "start" => parked[itf] = job[t].seen

QueueInv ==
  /\ \A i \in DOMAIN queue :
       /\ queue[i].op # "retire" => queue[i].unit \in Units
       /\ queue[i].op = "retire" => queue[i].by = None
       /\ queue[i].by # None => Asks(queue[i].by, queue[i])
       /\ queue[i].by \in Followers /\ queue[i].op = "start" => i = 1
  /\ \A i, j \in DOMAIN queue : i < j /\ queue[i].by # None => queue[j].op = "retire"
  /\ retired => queue = <<>> /\ \A u \in Units : ~On(u)

(* What is to be launched, and what is keyed, is the instrument's or about to  *)
(* be, or has its close queued behind it.                                      *)
Ours(u) == itf = u \/ \E t \in Threads : at[t] = "starting" /\ job[t].unit = u

Tended ==
  /\ \A i \in DOMAIN queue : Starts(queue[i]) =>
       \/ Ours(queue[i].unit)
       \/ \E k \in DOMAIN queue : i < k /\ queue[k].op = "close" /\ queue[k].unit = queue[i].unit
  /\ NoOrphanTransmitter

(* A new interferer is touched by nobody else, and once it runs it is alone.   *)
Launching(t) ==
  at[t] = "starting" =>
    /\ slot[t] = "waiting" =>
         /\ proc[job[t].unit] = "none"
         /\ \A i \in DOMAIN queue : queue[i].unit = job[t].unit => queue[i].by = t
    /\ slot[t] = "ok" =>
         /\ \A u \in Units \ {job[t].unit} : ~On(u)
         /\ \A i \in DOMAIN queue : ~Starts(queue[i])

Books == QueueInv /\ Tended /\ \A t \in Threads : Launching(t)

(* An interferer is there for as long as one is wanted, or is being disarmed.  *)
Wanted ==
  /\ itf # None => intended \/ \E t \in Threads : at[t] \in {"halt", "join", "close"}
  /\ \A t \in Threads :
       /\ at[t] \in {"arm", "starting"} => intended
       /\ at[t] \in {"halt", "join", "close", "closing"} /\ job[t].again => intended
       /\ at[t] = "closing" => itf = None
       /\ at[t] = "undo" => error # None

JammerInv == TypeInv /\ Books /\ Wanted

(* With an owner that answers in time nothing is left behind in the queue, and *)
(* what is launched is launched on a free HackRF and as it was told.           *)
Attended ==
  /\ \A i \in DOMAIN queue : queue[i].by # None \/ queue[i].op = "retire"
  /\ \A t \in Threads : at[t] = "arm" \/ (at[t] = "starting" /\ slot[t] = "waiting") =>
       \A u \in Units : ~On(u)

Faithful ==
  /\ \A t \in Threads : at[t] = "starting" =>
       parked[job[t].unit] = cfg.hz /\ chases[job[t].unit] = cfg.follow
  /\ error = None /\ itf # None /\ ~retired
       /\ (\A t \in Threads : at[t] \notin {"halt", "join", "close", "arm", "starting"}) =>
       /\ chases[itf] = cfg.follow
       /\ (\A t \in Threads : at[t] # "retuning") => parked[itf] = cfg.hz
       /\ \A t \in Threads : at[t] = "retuning" /\ slot[t] = "ok" => parked[itf] = job[t].seen

PromptInv == Attended /\ Faithful

-------------------------------------------------------------------------------
(* Who waits, and for what.                                                    *)
LEMMA Alone ==
  ASSUME ThreadsFit, NEW t \in Threads, at[t] \in Critical
  PROVE  /\ lock = t
         /\ \A d \in Threads \ {t} : at[d] \notin Critical /\ at[d] \notin Waits /\ slot[d] = "none"
BY DEF ThreadsFit, Locked, Critical

LEMMA NobodyInside ==
  ASSUME ThreadsFit, Free, NEW t \in Threads
  PROVE  at[t] \notin Critical /\ at[t] \notin Waits /\ slot[t] = "none"
BY Names DEF ThreadsFit, Locked, Critical, Free

LEMMA Owners ==
  ASSUME TypeInv, QueueInv, NEW i \in DOMAIN queue, queue[i].by # None
  PROVE  /\ queue[i].by \in Threads /\ queue[i].by = lock
         /\ at[queue[i].by] \in Waits /\ at[queue[i].by] \in Critical
         /\ slot[queue[i].by] = "waiting" /\ queue[i].op # "retire"
<1>1. queue[i] \in Items
  BY DEF TypeInv, StoresFit
<1>2. queue[i].by \in Threads
  BY <1>1 DEF Items
<1>3. Asks(queue[i].by, queue[i]) /\ queue[i].op # "retire"
  BY DEF QueueInv
<1>4. at[queue[i].by] \in Critical
  BY <1>3 DEF Asks, Critical
<1> QED
  BY <1>2, <1>3, <1>4, Alone DEF Asks, TypeInv

LEMMA NobodyAsks ==
  ASSUME TypeInv, QueueInv,
         Free \/ \E t \in Threads : at[t] \in Critical /\ slot[t] # "waiting"
  PROVE  \A i \in DOMAIN queue : queue[i].by = None
<1> SUFFICES ASSUME NEW i \in DOMAIN queue, queue[i].by # None PROVE FALSE
  OBVIOUS
<1>1. /\ queue[i].by \in Threads /\ queue[i].by = lock /\ slot[queue[i].by] = "waiting"
  BY Owners
<1>2. ~Free
  BY <1>1, Names DEF Free
<1>3. PICK t \in Threads : at[t] \in Critical /\ slot[t] # "waiting"
  BY <1>2
<1>4. lock = t
  BY <1>3, Alone DEF TypeInv
<1> QED
  BY <1>1, <1>3, <1>4

LEMMA ItemsTyped ==
  ASSUME TypeInv
  PROVE  /\ queue \in Seq(Items) /\ DOMAIN queue = 1 .. Len(queue) /\ Len(queue) \in Nat
         /\ \A i \in DOMAIN queue :
              /\ queue[i] \in Items
              /\ queue[i].op \in {"start", "close", "retune", "retire"}
              /\ queue[i].unit \in Units \cup {None} /\ queue[i].by \in Threads \cup {None}
              /\ queue[i].hz \in Chans \cup {None}
<1>1. queue \in Seq(Items)
  BY DEF TypeInv, StoresFit
<1>2. DOMAIN queue = 1 .. Len(queue) /\ Len(queue) \in Nat /\ \A i \in DOMAIN queue : queue[i] \in Items
  BY <1>1
<1> QED
  BY <1>1, <1>2 DEF Items

(* The queue as it was, but that nobody waits for an item any more.            *)
Loose(q) ==
  /\ q \in Seq(Items) /\ DOMAIN q = DOMAIN queue
  /\ \A i \in DOMAIN q : /\ q[i].op = queue[i].op /\ q[i].unit = queue[i].unit
                         /\ q[i].by = None

LEMMA Loosened ==
  ASSUME TypeInv, QueueInv, NEW c \in Threads, at[c] \in Critical
  PROVE  /\ Loose(Disowned(c))
         /\ slot[c] # "waiting" => Loose(queue)
<1>1. /\ queue \in Seq(Items) /\ DOMAIN queue = 1 .. Len(queue)
      /\ \A i \in DOMAIN queue : queue[i] \in Items
  BY ItemsTyped
<1>2. Disowned(c) \in Seq(Items)
  BY QueueFits DEF TypeInv
<1>3. DOMAIN Disowned(c) = DOMAIN queue
  BY DEF Disowned
<1>4. ASSUME NEW i \in DOMAIN queue
      PROVE  /\ Disowned(c)[i].op = queue[i].op /\ Disowned(c)[i].unit = queue[i].unit
             /\ Disowned(c)[i].by = None
  <2>1. Disowned(c)[i] = IF queue[i].by = c THEN [queue[i] EXCEPT !.by = None] ELSE queue[i]
    BY DEF Disowned
  <2>2. queue[i].by = c \/ queue[i].by = None
    BY Owners, Alone DEF TypeInv
  <2> QED
    BY <1>1, <2>1, <2>2 DEF Items
<1>5. slot[c] # "waiting" => Loose(queue)
  BY <1>1, NobodyAsks DEF Loose
<1> QED
  BY <1>2, <1>3, <1>4, <1>5 DEF Loose

(* A step of one thread that neither waits nor comes to wait.                  *)
LEMMA QuietBooks ==
  ASSUME TypeInv, Books, NEW c \in Threads, NEW p, NEW j, Become(c, p, j),
         at[c] \notin Waits, p \notin Waits,
         UNCHANGED <<queue, slot, unitVars, itf, retired>>
  PROVE  Books'
<1>1. /\ at'[c] = p /\ job'[c] = j
      /\ \A d \in Threads \ {c} : at'[d] = at[d] /\ job'[d] = job[d]
  BY Moved DEF TypeInv
<1>2. /\ UNCHANGED <<queue, slot, itf, retired, proc, parked>>
      /\ \A u : On(u)' <=> On(u)
  BY DEF unitVars, On
<1>3. \A d \in Threads : at'[d] \in Waits => at[d] \in Waits /\ at'[d] = at[d] /\ job'[d] = job[d]
  BY <1>1
<1>4. \A d \in Threads : at[d] \in Waits => at'[d] = at[d] /\ job'[d] = job[d]
  BY <1>1
<1>5. ASSUME NEW t \in Threads, NEW item, Asks(t, item) PROVE Asks(t, item)'
  <2>1. at'[t] = at[t] /\ job'[t] = job[t]
    BY <1>4, <1>5 DEF Asks
  <2> QED
    BY <1>2, <1>5, <2>1 DEF Asks
<1>6. QueueInv'
  <2>1. ASSUME NEW i \in DOMAIN queue, queue[i].by # None PROVE Asks(queue[i].by, queue[i])'
    BY <1>5, <2>1, Owners DEF QueueInv, Books
  <2>2. ASSUME NEW i \in DOMAIN queue, queue'[i].by # None PROVE Asks(queue[i].by, queue[i])'
    BY <1>2, <2>1, <2>2
  <2> QED
    BY <1>2, <2>1 DEF QueueInv, Books
<1>7. \A t \in Threads : Launching(t)'
  BY <1>2, <1>3 DEF Books, Launching, Waits
<1>8. Tended'
  <2>1. \A u : Ours(u) => Ours(u)'
    BY <1>2, <1>4 DEF Ours, Waits
  <2>2. NoOrphanTransmitter'
    BY <1>2, <1>4 DEF Books, Tended, NoOrphanTransmitter, Waits
  <2> QED
    BY <1>2, <2>1, <2>2 DEF Books, Tended
<1> QED
  BY <1>6, <1>7, <1>8 DEF Books

(* A thread that waited has its answer, or waits no longer.                    *)
LEMMA LetGoBooks ==
  ASSUME TypeInv, Books, NEW c \in Threads, NEW p, NEW j, Become(c, p, j),
         at[c] \in Waits \ {"starting"}, p \notin Waits,
         (Answered(c) /\ Collect(c)) \/ GiveUp(c),
         UNCHANGED <<unitVars, itf, retired>>
  PROVE  Books'
<1>1. /\ at'[c] = p /\ job'[c] = j
      /\ \A d \in Threads \ {c} : at'[d] = at[d] /\ job'[d] = job[d]
  BY Moved DEF TypeInv
<1>2. at[c] \in Critical
  BY DEF Waits, Critical
<1>3. \A d \in Threads : at[d] # "starting" /\ at'[d] # "starting"
  <2>1. \A d \in Threads \ {c} : at[d] \notin Waits
    BY <1>2, Alone DEF TypeInv
  <2> QED
    BY <1>1, <2>1 DEF Waits
<1>4. /\ UNCHANGED <<itf, retired>> /\ \A u : On(u)' <=> On(u)
  BY DEF unitVars, On
<1>5. Loose(queue')
  BY <1>2, Loosened DEF Answered, Collect, GiveUp, Books
<1>6. QueueInv'
  <2>1. retired' => queue' = <<>>
    BY <1>4, <1>5 DEF Loose, Books, QueueInv
  <2> QED
    BY <1>4, <1>5, <2>1, Names DEF Loose, Books, QueueInv, Threads
<1>7. \A t \in Threads : Launching(t)'
  BY <1>3 DEF Launching
<1>8. Tended'
  <2>1. \A u : Ours(u) => Ours(u)'
    BY <1>3, <1>4 DEF Ours
  <2>2. NoOrphanTransmitter'
    BY <1>3, <1>4, <1>5 DEF Loose, Books, Tended, NoOrphanTransmitter
  <2> QED
    BY <1>5, <2>1, <2>2 DEF Books, Tended, Loose, Starts
<1> QED
  BY <1>6, <1>7, <1>8 DEF Books

(* A thread queues an item, at n, and waits for it: the queue behind           *)
(* everything else.                                                            *)
Grown(n, op, u, f, t) ==
  /\ n \in Nat /\ DOMAIN queue' = DOMAIN queue \cup {n}
  /\ \A i \in DOMAIN queue :
       /\ i < n /\ i \in Nat
       /\ queue'[i].op = queue[i].op /\ queue'[i].unit = queue[i].unit
       /\ queue'[i].by = None
  /\ queue'[n] = [op |-> op, unit |-> u, hz |-> f, by |-> t]

LEMMA Queues ==
  ASSUME TypeInv, NEW q \in Seq(Items), Loose(q), ~retired, NEW op, NEW u, NEW f, NEW t,
         queue' = Queued(q, op, u, f, t)
  PROVE  Grown(Len(queue) + 1, op, u, f, t)
<1>1. DOMAIN queue = 1 .. Len(queue) /\ Len(queue) \in Nat
  BY ItemsTyped
<1>2. DOMAIN q = 1 .. Len(q) /\ Len(q) \in Nat
  OBVIOUS
<1>3. Len(q) = Len(queue)
  BY <1>1, <1>2 DEF Loose
<1> DEFINE x == [op |-> op, unit |-> u, hz |-> f, by |-> t]
<1>4. queue' = Append(q, x)
  BY DEF Queued
<1> HIDE DEF x
<1>5. /\ DOMAIN Append(q, x) = 1 .. (Len(q) + 1) /\ Append(q, x)[Len(q) + 1] = x
      /\ \A i \in 1 .. Len(q) : Append(q, x)[i] = q[i]
  OBVIOUS
<1>6. \A i \in 1 .. Len(q) : q[i].op = queue[i].op /\ q[i].unit = queue[i].unit /\ q[i].by = None
  BY <1>2 DEF Loose
<1> QED
  BY <1>1, <1>3, <1>4, <1>5, <1>6 DEF x, Grown

LEMMA SubmitsQueue ==
  ASSUME TypeInv, QueueInv, NEW q \in Seq(Items), Loose(q), NEW c \in Threads,
         NEW op \in {"start", "close", "retune"}, NEW u \in Units, NEW f,
         queue' = Queued(q, op, u, f, c), retired' = retired,
         c \in Followers => op # "start",
         Asks(c, [op |-> op, unit |-> u, hz |-> f, by |-> c])',
         \A v \in Units : On(v)' => On(v)
  PROVE  QueueInv'
<1>1. CASE retired
  BY <1>1 DEF QueueInv, Queued
<1>2. CASE ~retired
  <2> DEFINE x == [op |-> op, unit |-> u, hz |-> f, by |-> c]
  <2>0. PICK n : Grown(n, op, u, f, c)
    BY <1>2, Queues
  <2>1. /\ DOMAIN queue' = DOMAIN queue \cup {n}
        /\ \A i \in DOMAIN queue :
             /\ i < n /\ i \in Nat /\ queue'[i].op = queue[i].op /\ queue'[i].unit = queue[i].unit
             /\ queue'[i].by = None
        /\ queue'[n] = x
    BY <2>0 DEF Grown
  <2>2. n \in Nat
    BY <2>0 DEF Grown
  <2>3. x.op = op /\ x.unit = u /\ x.by = c /\ op # "retire"
    OBVIOUS
  <2>a. Asks(c, queue[n])'
    BY <2>1
  <2> HIDE DEF x
  <2>4. ASSUME NEW i \in DOMAIN queue'
        PROVE  /\ queue'[i].op # "retire" => queue'[i].unit \in Units
               /\ queue'[i].op = "retire" => queue'[i].by = None
               /\ queue'[i].by # None => Asks(queue[i].by, queue[i])'
               /\ queue'[i].by \in Followers /\ queue'[i].op = "start" => i = 1
    <3>1. CASE i = n
      BY <2>1, <2>3, <2>a, <3>1
    <3>2. CASE i \in DOMAIN queue
      BY <2>1, <3>2, Names DEF QueueInv, Threads
    <3> QED
      BY <2>1, <3>1, <3>2
  <2>5. ASSUME NEW i \in DOMAIN queue', NEW k \in DOMAIN queue', i < k, queue'[i].by # None
        PROVE  queue'[k].op = "retire"
    <3>1. i = n
      BY <2>1, <2>5
    <3>2. k = n \/ (k \in Nat /\ k < n)
      BY <2>1
    <3> QED
      BY <2>2, <2>5, <3>1, <3>2
  <2> QED
    BY <1>2, <2>4, <2>5 DEF QueueInv
<1> QED
  BY <1>1, <1>2

(* What is tended stays so when items are added, unless it was tended by a     *)
(* unit's being the instrument's, which the new item then closes.              *)
LEMMA SubmitsTended ==
  ASSUME TypeInv, Books, NEW q \in Seq(Items), Loose(q), NEW c \in Threads,
         NEW op \in {"start", "close", "retune"}, NEW u \in Units, NEW f,
         queue' = Queued(q, op, u, f, c), retired' = retired,
         \A v \in Units : On(v)' => On(v),
         \A v \in Units : Ours(v) => Ours(v)' \/ (op = "close" /\ v = u),
         op # "close" => Ours(u)'
  PROVE  Tended'
<1>1. CASE retired
  <2>1. queue' = <<>> /\ \A v \in Units : ~On(v)'
    BY <1>1 DEF Books, QueueInv, Queued
  <2> QED
    BY <2>1 DEF Tended, NoOrphanTransmitter
<1>2. CASE ~retired
  <2> DEFINE x == [op |-> op, unit |-> u, hz |-> f, by |-> c]
  <2>0. PICK n : Grown(n, op, u, f, c)
    BY <1>2, Queues
  <2>1. /\ DOMAIN queue' = DOMAIN queue \cup {n}
        /\ \A i \in DOMAIN queue :
             /\ i < n /\ i \in Nat /\ queue'[i].op = queue[i].op /\ queue'[i].unit = queue[i].unit
        /\ queue'[n] = x
    BY <2>0 DEF Grown
  <2>2. x.op = op /\ x.unit = u
    OBVIOUS
  <2> HIDE DEF x
  <2>3. \A v \in Units : On(v) => Ours(v) \/ \E k \in DOMAIN queue : queue[k].op = "close" /\ queue[k].unit = v
    BY DEF Books, Tended, NoOrphanTransmitter, Ours
  <2>4. ASSUME NEW v \in Units, Ours(v)
        PROVE  Ours(v)' \/ (queue'[n].op = "close" /\ queue'[n].unit = v)
    BY <2>1, <2>2, <2>4
  <2>5. ASSUME NEW v \in Units, On(v)'
        PROVE  Ours(v)' \/ \E k \in DOMAIN queue' : queue'[k].op = "close" /\ queue'[k].unit = v
    <3>1. CASE Ours(v)
      BY <2>1, <2>4, <3>1
    <3>2. ASSUME NEW k \in DOMAIN queue, queue[k].op = "close", queue[k].unit = v
          PROVE  k \in DOMAIN queue' /\ queue'[k].op = "close" /\ queue'[k].unit = v
      BY <2>1, <3>2
    <3> QED
      BY <2>3, <2>5, <3>1, <3>2
  <2>6. ASSUME NEW i \in DOMAIN queue', Starts(queue'[i])
        PROVE  \/ Ours(queue[i].unit)'
               \/ \E k \in DOMAIN queue' :
                    i < k /\ queue'[k].op = "close" /\ queue'[k].unit = queue'[i].unit
    <3>1. CASE i = n
      BY <2>1, <2>2, <2>6, <3>1 DEF Starts
    <3>2. CASE i \in DOMAIN queue
      <4>1. Starts(queue[i]) /\ queue'[i].unit = queue[i].unit
        BY <2>1, <2>6, <3>2 DEF Starts
      <4>2. queue[i].unit \in Units
        BY <3>2, <4>1 DEF Books, QueueInv, Starts
      <4>3. CASE Ours(queue[i].unit)
        BY <2>1, <2>4, <3>2, <4>1, <4>2, <4>3
      <4>4. ASSUME NEW k \in DOMAIN queue, i < k, queue[k].op = "close", queue[k].unit = queue[i].unit
            PROVE  k \in DOMAIN queue' /\ queue'[k].op = "close" /\ queue'[k].unit = queue'[i].unit
        BY <2>1, <4>1, <4>4
      <4> QED
        BY <3>2, <4>1, <4>3, <4>4 DEF Books, Tended
    <3> QED
      BY <2>1, <3>1, <3>2
  <2> QED
    BY <2>5, <2>6 DEF Tended, NoOrphanTransmitter, Ours
<1> QED
  BY <1>1, <1>2

-------------------------------------------------------------------------------
(* The books, step by step.                                                    *)
LEMMA AskBooks ==
  ASSUME TypeInv, Books, NEW c \in Callers \cup {Main},
         \/ \E cmd \in Commands : Post(c, cmd)
         \/ Reset(c) \/ Poll(c) \/ Enter(c) \/ Decide(c) \/ Leave(c) \/ Halt(c) \/ Join(c)
  PROVE  Books'
<1>1. c \in Threads
  BY DEF Threads
<1>2. UNCHANGED <<queue, slot, unitVars, itf, retired>>
  BY DEF Post, Reset, Poll, Enter, Decide, Leave, Halt, Join, work, outside
<1>3. at[c] \notin Waits
  BY DEF Post, Reset, Poll, Enter, Decide, Leave, Halt, Join, Waits
<1>4. ASSUME NEW p \in {"post", "fresh", "enter", "idle", "halt", "decide", "arm", "leave",
                        "close", "join", "retire"}, NEW j, Become(c, p, j)
      PROVE  Books'
  BY <1>1, <1>2, <1>3, <1>4, QuietBooks DEF Waits
<1>5. ASSUME Return(c) PROVE Books'
  BY <1>4, <1>5 DEF Return
<1>6. CASE \E cmd \in Commands : Post(c, cmd)
  BY <1>4, <1>6 DEF Post
<1>7. CASE Reset(c) \/ Poll(c)
  BY <1>4, <1>7 DEF Reset, Poll, Goto
<1>8. CASE Enter(c) \/ Halt(c) \/ Join(c)
  BY <1>4, <1>8 DEF Enter, Halt, Join, Goto
<1>9. CASE Decide(c) \/ Leave(c)
  BY <1>4, <1>5, <1>9 DEF Decide, Leave, Goto
<1> QED
  BY <1>6, <1>7, <1>8, <1>9

LEMMA CloseBooks ==
  ASSUME TypeInv, Books, NEW c \in Callers \cup {Main}, Close(c)
  PROVE  Books'
<1>1. c \in Threads /\ at[c] = "close" /\ at[c] \in Critical /\ at[c] \notin Waits
  BY DEF Threads, Close, Critical, Waits
<1>2. CASE itf = None /\ Goto(c, AfterDisarm(c)) /\ UNCHANGED <<itf, work>>
  BY <1>1, <1>2, QuietBooks DEF Close, Goto, AfterDisarm, Waits, work, outside
<1>3. CASE itf # None /\ itf' = None /\ Submit(c, "close", itf, None) /\ Goto(c, "closing")
  <2>1. /\ itf \in Units /\ slot[c] # "waiting" /\ slot'[c] = "waiting"
        /\ queue \in Seq(Items) /\ c \notin Followers
    BY <1>1, <1>3, Names DEF TypeInv, ThreadsFit, StoresFit, Locked, Submit
  <2>2. /\ Loose(queue) /\ queue' = Queued(queue, "close", itf, None, c) /\ retired' = retired
        /\ \A u : On(u)' <=> On(u)
    BY <1>1, <1>3, <2>1, Loosened DEF Books, Submit, Close, outside, unitVars, On
  <2>3. /\ at'[c] = "closing"
        /\ \A d \in Threads : at[d] # "starting" /\ at'[d] # "starting"
    BY <1>1, <1>3, Moved, Alone DEF Goto, TypeInv, Critical, Waits
  <2>4. QueueInv'
    <3>1. Asks(c, [op |-> "close", unit |-> itf, hz |-> None, by |-> c])'
      BY <2>1, <2>3 DEF Asks, Waits
    <3>2. PICK u \in Units : u = itf
      BY <2>1
    <3>3. Asks(c, [op |-> "close", unit |-> u, hz |-> None, by |-> c])'
      BY <2>1, <2>3 DEF Asks, Waits
    <3> QED
      BY <1>1, <2>1, <2>2, <3>2, <3>3, SubmitsQueue DEF Books
  <2>5. Tended'
    <3>1. PICK u \in Units : u = itf
      BY <2>1
    <3>2. \A v \in Units : Ours(v) => v = u
      BY <2>3, <3>1 DEF Ours
    <3> QED
      BY <1>1, <2>1, <2>2, <3>1, <3>2, SubmitsTended
  <2> QED
    BY <2>3, <2>4, <2>5 DEF Books, Launching
<1> QED
  BY <1>2, <1>3 DEF Close

LEMMA LetGoStepsBooks ==
  ASSUME TypeInv, Books, NEW c \in Threads,
         Closing(c) \/ Undo(c) \/ Chased(c)
  PROVE  Books'
<1>1. UNCHANGED <<unitVars, itf, retired>> /\ at[c] \in Waits \ {"starting"}
  BY DEF Closing, Undo, Chased, outside, Waits
<1>2. (Answered(c) /\ Collect(c)) \/ GiveUp(c)
  BY DEF Closing, Undo, Chased, Answered
<1>3. ASSUME NEW p \in {"retire", "fresh", "idle", "arm", "leave", "wait"}, NEW j, Become(c, p, j)
      PROVE  Books'
  BY <1>1, <1>2, <1>3, LetGoBooks DEF Waits
<1>4. ASSUME Return(c) PROVE Books'
  BY <1>3, <1>4 DEF Return
<1>5. CASE Closing(c)
  BY <1>3, <1>4, <1>5 DEF Closing, Goto, AfterDisarm
<1>6. CASE Undo(c)
  BY <1>4, <1>6 DEF Undo
<1>7. CASE Chased(c)
  BY <1>3, <1>7 DEF Chased, Goto
<1> QED
  BY <1>5, <1>6, <1>7

LEMMA ArmBooks ==
  ASSUME TypeInv, Books, NEW c \in Callers \cup {Main}, Arm(c)
  PROVE  Books'
<1>1. c \in Threads /\ at[c] = "arm" /\ at[c] \in Critical /\ at[c] \notin Waits
        /\ itf' = itf /\ retired' = retired
  BY DEF Threads, Arm, Critical, Waits, outside
<1>2. CASE Return(c) /\ UNCHANGED <<work, unitVars>>
  BY <1>1, <1>2, QuietBooks DEF Return, Waits, work
<1>3. ASSUME NEW u \in Units, Fresh(u), Submit(c, "start", u, None),
             proc' = [proc EXCEPT ![u] = "none"],
             Become(c, "starting", [job[c] EXCEPT !.unit = u])
      PROVE  Books'
  <2>1. /\ slot[c] # "waiting" /\ slot'[c] = "waiting"
        /\ queue \in Seq(Items) /\ c \notin Followers /\ proc' \in [Units -> {"none", "on", "dead"}]
        /\ proc'[u] = "none" /\ \A v \in Units \ {u} : proc'[v] = proc[v]
    BY <1>1, <1>3, Names DEF TypeInv, ThreadsFit, StoresFit, Locked, Submit
  <2>2. /\ Loose(queue) /\ queue' = Queued(queue, "start", u, None, c)
        /\ \A v \in Units : On(v)' <=> On(v)
    BY <1>1, <1>3, <2>1, Loosened DEF Books, Submit, On, Fresh
  <2>3. /\ at'[c] = "starting" /\ job'[c].unit = u
        /\ \A d \in Threads : at[d] # "starting"
        /\ \A d \in Threads \ {c} : at'[d] # "starting"
    <3>1. job[c] \in Jobs
      BY <1>1 DEF TypeInv, ThreadsFit
    <3> QED
      BY <1>1, <1>3, <3>1, Moved, Alone DEF TypeInv, Critical, Waits, Jobs
  <2>4. QueueInv'
    <3>1. Asks(c, [op |-> "start", unit |-> u, hz |-> None, by |-> c])'
      BY <2>1, <2>3 DEF Asks, Waits
    <3> QED
      BY <1>1, <2>1, <2>2, <3>1, SubmitsQueue DEF Books
  <2>5. Tended'
    <3>1. \A v \in Units : Ours(v) => Ours(v)'
      BY <1>1, <2>3 DEF Ours
    <3>2. Ours(u)'
      BY <1>1, <2>3 DEF Ours
    <3> QED
      BY <1>1, <2>1, <2>2, <3>1, <3>2, SubmitsTended
  <2>6. Launching(c)'
    <3>1. CASE retired
      BY <2>1, <2>2, <2>3, <3>1 DEF Launching, Queued
    <3>2. CASE ~retired
      <4>1. PICK n : Grown(n, "start", u, None, c)
        BY <2>1, <2>2, <3>2, Queues
      <4>2. \A i \in DOMAIN queue : queue'[i].unit # u
        BY <1>3, <4>1 DEF Fresh, Grown
      <4>3. \A i \in DOMAIN queue' : queue'[i].unit = u => queue'[i].by = c
        BY <4>1, <4>2 DEF Grown
      <4> QED
        BY <2>1, <2>3, <4>3 DEF Launching
    <3> QED
      BY <3>1, <3>2
  <2> QED
    BY <2>3, <2>4, <2>5, <2>6 DEF Books, Launching
<1> QED
  BY <1>2, <1>3 DEF Arm

LEMMA StartingBooks ==
  ASSUME TypeInv, Books, NEW c \in Callers \cup {Main}, Starting(c)
  PROVE  Books'
<1>1. /\ c \in Threads /\ c \notin Followers /\ at[c] = "starting" /\ at[c] \in Critical
      /\ job[c] \in Jobs /\ job[c].unit \in Units
      /\ retired' = retired /\ \A v : On(v)' <=> On(v)
  BY Names DEF Threads, Starting, Critical, Waits, outside, unitVars, On, TypeInv, ThreadsFit, Fits
<1>2. \A d \in Threads \ {c} : at[d] \notin Critical /\ at[d] \notin Waits
  BY <1>1, Alone DEF TypeInv
<1>3. CASE slot[c] = "ok" /\ Collect(c) /\ itf' = job[c].unit
  <2>1. \A d \in Threads : at'[d] \notin Waits
    <3>1. ASSUME NEW d \in Threads \ {c}, Goto(c, "leave") PROVE at'[d] \notin Waits
      BY <1>1, <1>2, <3>1, Moved DEF Goto, TypeInv
    <3>2. Goto(c, "leave") => at'[c] \notin Waits
      BY <1>1, Moved DEF Goto, TypeInv, Waits
    <3>3. ASSUME NEW f \in Followers, at' = [at EXCEPT ![c] = "leave", ![f] = "wait"],
                 NEW d \in Threads
          PROVE  at'[d] \notin Waits
      BY <1>1, <1>2, <3>3 DEF TypeInv, ThreadsFit, Waits
    <3> QED
      BY <1>1, <1>3, <3>1, <3>2, <3>3 DEF Starting
  <2>2. \A i \in DOMAIN queue : queue[i].by = None /\ ~Starts(queue[i])
    BY <1>1, <1>3, NobodyAsks DEF Books, Launching
  <2>3. queue' = queue
    BY <1>3 DEF Collect
  <2>4. QueueInv'
    BY <1>1, <2>2, <2>3, Names DEF Books, QueueInv, Threads
  <2>5. Tended'
    <3>1. \A u \in Units : On(u) => u = job[c].unit
      BY <1>1, <1>3 DEF Books, Launching
    <3> QED
      BY <1>1, <1>3, <2>2, <2>3, <3>1 DEF Tended, NoOrphanTransmitter
  <2> QED
    BY <2>1, <2>4, <2>5 DEF Books, Launching, Waits
<1>4. CASE /\ queue' = Queued(Disowned(c), "close", job[c].unit, None, c)
           /\ slot' = [slot EXCEPT ![c] = "waiting"] /\ Goto(c, "undo") /\ UNCHANGED itf
  <2>1. /\ slot'[c] = "waiting" /\ Loose(Disowned(c)) /\ Disowned(c) \in Seq(Items)
        /\ at'[c] = "undo" /\ job' = job
        /\ \A d \in Threads : at'[d] # "starting"
    BY <1>1, <1>2, <1>4, Loosened, Moved DEF Goto, Become, TypeInv, ThreadsFit, Books, Loose, Waits
  <2>2. PICK u \in Units : u = job[c].unit
    BY <1>1
  <2>3. QueueInv'
    <3>1. Asks(c, [op |-> "close", unit |-> u, hz |-> None, by |-> c])'
      BY <2>1 DEF Asks, Waits
    <3> QED
      BY <1>1, <1>4, <2>1, <2>2, <3>1, SubmitsQueue DEF Books
  <2>4. Tended'
    <3>1. \A v \in Units : Ours(v) => Ours(v)' \/ v = u
      BY <1>1, <1>2, <1>4, <2>2 DEF Ours, Waits
    <3> QED
      BY <1>1, <1>4, <2>1, <2>2, <3>1, SubmitsTended
  <2> QED
    BY <2>1, <2>3, <2>4 DEF Books, Launching
<1> QED
  BY <1>3, <1>4 DEF Starting

LEMMA ChaseBooks ==
  ASSUME TypeInv, Books, NEW f \in Followers, Look(f) \/ Chase(f)
  PROVE  Books'
<1>1. /\ f \in Threads /\ at[f] \notin Waits /\ job[f] \in Jobs
      /\ itf' = itf /\ retired' = retired /\ UNCHANGED unitVars
      /\ \A v : On(v)' <=> On(v)
  BY DEF Threads, Look, Chase, Waits, outside, unitVars, On, TypeInv, ThreadsFit
<1>2. CASE Look(f)
  BY <1>1, <1>2, QuietBooks DEF Look, work, Waits
<1>3. CASE Goto(f, "wait") /\ UNCHANGED <<lock, work>>
  BY <1>1, <1>3, QuietBooks DEF Goto, work, Waits
<1>4. CASE Chase(f) /\ Behind(f) /\ Submit(f, "retune", itf, job[f].seen) /\ Goto(f, "retuning")
  <2>1. /\ itf \in Units /\ slot'[f] = "waiting" /\ queue \in Seq(Items) /\ Free
        /\ at'[f] = "retuning" /\ job' = job
        /\ queue' = Queued(queue, "retune", itf, job[f].seen, f)
    BY <1>1, <1>4, Moved DEF TypeInv, ThreadsFit, StoresFit, Submit, Behind, Goto, Become, Chase
  <2>2. Loose(queue)
    BY <2>1, NobodyAsks DEF Loose, Books
  <2>3. \A d \in Threads : at[d] # "starting" /\ at'[d] # "starting"
    <3>1. \A d \in Threads : at[d] \notin Waits
      BY <2>1, NobodyInside DEF TypeInv
    <3>2. \A d \in Threads \ {f} : at'[d] = at[d]
      BY <1>1, <1>4, Moved DEF Goto, TypeInv
    <3> QED
      BY <2>1, <3>1, <3>2 DEF Waits
  <2>4. PICK u \in Units : u = itf
    BY <2>1
  <2>5. PICK x : x = job[f].seen
    OBVIOUS
  <2>6. QueueInv'
    <3>1. Asks(f, [op |-> "retune", unit |-> u, hz |-> x, by |-> f])'
      BY <1>1, <2>1, <2>4, <2>5 DEF Asks, Starts, Waits
    <3> QED
      BY <1>1, <2>1, <2>2, <2>4, <2>5, <3>1, SubmitsQueue DEF Books
  <2>7. Tended'
    <3>1. \A v \in Units : Ours(v) => Ours(v)'
      BY <1>1, <2>3 DEF Ours
    <3>2. Ours(u)'
      BY <1>1, <2>4 DEF Ours
    <3> QED
      BY <1>1, <2>1, <2>2, <2>4, <2>5, <3>1, <3>2, SubmitsTended
  <2> QED
    BY <2>3, <2>6, <2>7 DEF Books, Launching
<1> QED
  BY <1>2, <1>3, <1>4 DEF Chase

LEMMA DieBooks ==
  ASSUME TypeInv, Books, NEW x \in Units, Die(x)
  PROVE  Books'
<1>1. /\ proc' \in [Units -> {"none", "on", "dead"}]
      /\ \A u \in Units : proc'[u] = "none" <=> proc[u] = "none"
      /\ \A u \in Units : On(u)' => On(u)
  BY DEF Die, TypeInv, StoresFit, On
<1>2. UNCHANGED <<queue, slot, at, job, itf, retired, parked>>
  BY DEF Die, work, threads, outside
<1>3. \A t, item : Asks(t, item)' <=> Asks(t, item)
  BY <1>2 DEF Asks
<1>4. QueueInv'
  BY <1>1, <1>2, <1>3 DEF Books, QueueInv
<1>5. Tended'
  BY <1>1, <1>2 DEF Books, Tended, NoOrphanTransmitter, Ours
<1>6. ASSUME NEW t \in Threads PROVE Launching(t)'
  <2>1. at[t] = "starting" => job[t].unit \in Units
    BY DEF TypeInv, ThreadsFit, Fits
  <2> QED
    BY <1>1, <1>2, <2>1 DEF Books, Launching
<1> QED
  BY <1>4, <1>5, <1>6 DEF Books

LEMMA MainBooks ==
  ASSUME TypeInv, Books, Shutdown \/ Retire \/ MoveLink
  PROVE  Books'
<1>1. Main \in Threads
  BY DEF Threads
<1>2. CASE Shutdown
  BY <1>1, <1>2, QuietBooks DEF Shutdown, Goto, work, outside, Waits
<1>3. CASE MoveLink
  <2>1. UNCHANGED <<queue, slot, at, job, itf, retired, parked, proc>>
    BY <1>3 DEF MoveLink, work, threads, unitVars
  <2>2. \A t, item : Asks(t, item)' <=> Asks(t, item)
    BY <2>1 DEF Asks
  <2> QED
    BY <2>1, <2>2 DEF Books, QueueInv, Tended, NoOrphanTransmitter, Ours, Launching, On
<1>4. CASE Retire
  <2>1. /\ at'[Main] = "done" /\ at[Main] = "retire"
        /\ \A d \in Threads \ {Main} : at'[d] = at[d]
        /\ UNCHANGED <<job, slot, itf, retired, parked, proc>>
    BY <1>1, <1>4, Moved DEF Retire, Goto, Become, TypeInv, ThreadsFit, unitVars, outside
  <2>2. \A t \in Threads : \A item : Asks(t, item) => Asks(t, item)'
    BY <2>1 DEF Asks, Waits
  <2>3. \A u : (On(u)' <=> On(u)) /\ (Ours(u) => Ours(u)')
    BY <2>1 DEF On, Ours
  <2>4. \A t \in Threads : at'[t] = "starting" => at[t] = "starting"
    BY <2>1
  <2>5. CASE retired
    <3>1. queue' = <<>>
      BY <1>4, <2>5 DEF Retire, Queued
    <3> QED
      BY <2>1, <2>3, <2>4, <2>5, <3>1 DEF Books, QueueInv, Tended, NoOrphanTransmitter, Launching
  <2>6. CASE ~retired
    <3> DEFINE x == [op |-> "retire", unit |-> None, hz |-> None, by |-> None]
    <3>1. /\ queue' = Append(queue, x) /\ queue \in Seq(Items)
          /\ DOMAIN queue = 1 .. Len(queue) /\ Len(queue) \in Nat
      BY <1>4, <2>6, ItemsTyped DEF Retire, Queued
    <3>2. x.op = "retire" /\ x.by = None /\ x.unit = None
      OBVIOUS
    <3> HIDE DEF x
    <3>3. PICK n \in Nat : n = Len(queue) + 1
      BY <3>1
    <3>4. /\ DOMAIN queue' = DOMAIN queue \cup {n} /\ queue'[n] = x
          /\ \A i \in DOMAIN queue : i < n /\ i \in Nat /\ queue'[i] = queue[i]
      BY <3>1, <3>3
    <3>5. QueueInv'
      <4>1. ASSUME NEW i \in DOMAIN queue'
            PROVE  /\ queue'[i].op # "retire" => queue'[i].unit \in Units
                   /\ queue'[i].op = "retire" => queue'[i].by = None
                   /\ queue'[i].by # None => Asks(queue[i].by, queue[i])'
                   /\ queue'[i].by \in Followers /\ queue'[i].op = "start" => i = 1
        <5>1. CASE i = n
          BY <3>2, <3>4, <5>1, Names DEF Threads
        <5>2. CASE i \in DOMAIN queue
          <6>1. queue'[i] = queue[i]
            BY <3>4, <5>2
          <6>2. queue[i].by # None => Asks(queue[i].by, queue[i])'
            BY <2>2, <5>2, <6>1, Owners DEF Books, QueueInv
          <6> QED
            BY <5>2, <6>1, <6>2 DEF Books, QueueInv
        <5> QED
          BY <3>4, <5>1, <5>2
      <4>2. ASSUME NEW i \in DOMAIN queue', NEW k \in DOMAIN queue', i < k, queue'[i].by # None
            PROVE  queue'[k].op = "retire"
        BY <3>2, <3>3, <3>4, <4>2 DEF Books, QueueInv
      <4> QED
        BY <2>1, <2>6, <4>1, <4>2 DEF QueueInv
    <3>6. Tended'
      <4>1. NoOrphanTransmitter'
        BY <2>1, <2>3, <3>4 DEF Books, Tended, NoOrphanTransmitter
      <4>2. ASSUME NEW i \in DOMAIN queue', Starts(queue'[i])
            PROVE  \/ Ours(queue[i].unit)'
                   \/ \E k \in DOMAIN queue' :
                        i < k /\ queue'[k].op = "close" /\ queue'[k].unit = queue'[i].unit
        <5>1. i \in DOMAIN queue /\ queue'[i] = queue[i]
          BY <3>2, <3>4, <4>2 DEF Starts
        <5>2. Ours(queue[i].unit) => Ours(queue[i].unit)'
          <6>1. PICK u : u = queue[i].unit
            OBVIOUS
          <6>2. Ours(u) => Ours(u)'
            BY <2>3
          <6>3. queue'[i].unit = u
            BY <5>1, <6>1
          <6> QED
            BY <6>1, <6>2, <6>3
        <5> QED
          BY <3>4, <4>2, <5>1, <5>2 DEF Books, Tended
      <4> QED
        BY <4>1, <4>2 DEF Tended
    <3>7. ASSUME NEW t \in Threads PROVE Launching(t)'
      <4>1. at'[t] = "starting" => job[t].unit \in Units
        BY <2>4 DEF TypeInv, ThreadsFit, Fits
      <4>2. None \notin Units
        BY JammerAssumption
      <4> QED
        BY <2>1, <2>3, <2>4, <3>2, <3>4, <4>1, <4>2 DEF Books, Launching, Starts
    <3> QED
      BY <3>5, <3>6, <3>7 DEF Books
  <2> QED
    BY <2>5, <2>6
<1> QED
  BY <1>2, <1>3, <1>4

(* The item at the head is done with: the others move up by one.               *)
LEMMA Shifted ==
  ASSUME TypeInv, queue # <<>>, queue' = Tail(queue)
  PROVE  /\ 1 \in DOMAIN queue /\ Head(queue) = queue[1]
         /\ \A i \in DOMAIN queue' :
              /\ i \in Nat /\ i + 1 \in DOMAIN queue /\ 1 < i + 1 /\ queue'[i] = queue[i + 1]
         /\ \A k \in DOMAIN queue : k # 1 =>
              /\ k \in Nat /\ 1 < k /\ k - 1 \in DOMAIN queue' /\ queue'[k - 1] = queue[k]
<1>1. queue \in Seq(Items) /\ DOMAIN queue = 1 .. Len(queue) /\ Len(queue) \in Nat
  BY ItemsTyped
<1>2. Len(queue) # 0
  BY <1>1
<1>3. /\ Head(queue) = queue[1] /\ DOMAIN Tail(queue) = 1 .. (Len(queue) - 1)
      /\ \A i \in 1 .. (Len(queue) - 1) : Tail(queue)[i] = queue[i + 1]
  BY <1>1, <1>2
<1> QED
  BY <1>1, <1>2, <1>3

(* When somebody waits for the head, whatever is behind it retires the owner.  *)
LEMMA Behind1 ==
  ASSUME TypeInv, QueueInv, 1 \in DOMAIN queue, NEW k \in DOMAIN queue, k # 1
  PROVE  /\ queue[1].by # None => queue[k].op = "retire" /\ queue[k].by = None
         /\ ~(queue[k].by \in Followers /\ queue[k].op = "start")
<1>1. 1 < k
  BY ItemsTyped
<1> QED
  BY <1>1 DEF QueueInv

LEMMA FinishQueue ==
  ASSUME TypeInv, QueueInv, ~retired, queue # <<>>, NEW r, Finish(r),
         UNCHANGED <<threads, itf, retired>>
  PROVE  QueueInv'
<1>1. queue' = Tail(queue) /\ UNCHANGED <<at, job, itf, retired>>
        /\ (Head(queue).by = None => slot' = slot)
  BY DEF Finish, threads
<1>2. /\ 1 \in DOMAIN queue /\ Head(queue) = queue[1]
      /\ \A i \in DOMAIN queue' :
           /\ i \in Nat /\ i + 1 \in DOMAIN queue /\ 1 < i + 1 /\ queue'[i] = queue[i + 1]
  BY <1>1, Shifted
<1>3. ASSUME NEW i \in DOMAIN queue'
      PROVE  /\ queue'[i].op # "retire" => queue'[i].unit \in Units
             /\ queue'[i].op = "retire" => queue'[i].by = None
             /\ queue'[i].by # None => Asks(queue[i].by, queue[i])'
             /\ queue'[i].by \in Followers /\ queue'[i].op = "start" => i = 1
  <2>1. PICK k \in DOMAIN queue : k = i + 1 /\ k # 1 /\ queue'[i] = queue[k]
    BY <1>2
  <2>2. ~(queue[k].by \in Followers /\ queue[k].op = "start")
    BY <1>2, <2>1, Behind1
  <2>3. ASSUME queue[k].by # None PROVE Asks(queue[i].by, queue[i])'
    <3>1. slot' = slot
      BY <1>1, <1>2, <2>1, <2>3, Behind1
    <3>2. /\ Asks(queue[k].by, queue[k]) /\ queue[k].by \in Threads
      BY <2>3, Owners DEF QueueInv
    <3>0. PICK t \in Threads : t = queue[k].by
      BY <3>2
    <3>3. PICK item : t = queue[k].by /\ item = queue[k]
      BY <3>0
    <3>4. at[t] = "retuning" => t \in Followers
      BY DEF TypeInv, ThreadsFit, Fits
    <3>5. at[t] = "retuning" => item.op # "start"
      BY <2>2, <3>3, <3>4
    <3>6. Asks(t, item)'
      BY <1>1, <3>1, <3>2, <3>3, <3>5 DEF Asks
    <3>7. t = queue'[i].by /\ item = queue'[i]
      BY <2>1, <3>3
    <3> QED
      BY <2>1, <3>6, <3>7
  <2> QED
    BY <2>1, <2>2, <2>3 DEF QueueInv
<1>4. ASSUME NEW i \in DOMAIN queue', NEW k \in DOMAIN queue', i < k, queue'[i].by # None
      PROVE  queue'[k].op = "retire"
  <2>1. i + 1 \in DOMAIN queue /\ k + 1 \in DOMAIN queue /\ i + 1 < k + 1
          /\ queue'[i] = queue[i + 1] /\ queue'[k] = queue[k + 1]
    BY <1>2, <1>4
  <2> QED
    BY <1>4, <2>1 DEF QueueInv
<1> QED
  BY <1>1, <1>3, <1>4 DEF QueueInv

LEMMA FinishTended ==
  ASSUME TypeInv, Books, ~retired, queue # <<>>, NEW r, Finish(r), UNCHANGED <<threads, itf>>,
         NEW v, v = queue[1].unit, queue[1].op = "close" => ~On(v)',
         \A u \in Units : On(u)' => On(u) \/ (u = v /\ Starts(queue[1]))
  PROVE  Tended'
<1>1. queue' = Tail(queue) /\ UNCHANGED <<at, job, itf>>
  BY DEF Finish, threads
<1>2. /\ 1 \in DOMAIN queue /\ Head(queue) = queue[1]
      /\ \A i \in DOMAIN queue' :
           /\ i \in Nat /\ i + 1 \in DOMAIN queue /\ 1 < i + 1 /\ queue'[i] = queue[i + 1]
      /\ \A k \in DOMAIN queue : k # 1 =>
           /\ k \in Nat /\ 1 < k /\ k - 1 \in DOMAIN queue' /\ queue'[k - 1] = queue[k]
  BY <1>1, Shifted
<1>3. ASSUME NEW i \in DOMAIN queue, Starts(queue[i])
      PROVE  \/ Ours(queue[i].unit)
             \/ \E k \in DOMAIN queue' :
                  i - 1 < k /\ queue'[k].op = "close" /\ queue'[k].unit = queue[i].unit
  <2>1. CASE Ours(queue[i].unit)
    BY <2>1
  <2>2. ASSUME NEW k \in DOMAIN queue, i < k, queue[k].op = "close", queue[k].unit = queue[i].unit
        PROVE  k - 1 \in DOMAIN queue' /\ i - 1 < k - 1 /\ queue'[k - 1] = queue[k]
    <3>1. i \in Nat /\ k \in Nat /\ i >= 1
      BY ItemsTyped
    <3> QED
      BY <1>2, <2>2, <3>1
  <2> QED
    BY <1>3, <2>1, <2>2 DEF Books, Tended
<1>4. \A u : Ours(u)' <=> Ours(u)
  BY <1>1 DEF Ours
<1>5. NoOrphanTransmitter'
  <2> SUFFICES ASSUME NEW u \in Units, On(u)'
               PROVE  Ours(u) \/ \E k \in DOMAIN queue' : queue'[k].op = "close" /\ queue'[k].unit = u
    BY <1>4 DEF NoOrphanTransmitter, Ours
  <2>1. CASE On(u)
    <3>1. CASE Ours(u)
      BY <3>1
    <3>2. ASSUME NEW k \in DOMAIN queue, queue[k].op = "close", queue[k].unit = u
          PROVE  k - 1 \in DOMAIN queue' /\ queue'[k - 1] = queue[k]
      <4>1. k # 1
        BY <3>2
      <4> QED
        BY <1>2, <3>2, <4>1
    <3> QED
      BY <2>1, <3>1, <3>2 DEF Books, Tended, NoOrphanTransmitter, Ours
  <2>2. CASE u = v /\ Starts(queue[1])
    BY <1>2, <1>3, <2>2
  <2> QED
    BY <2>1, <2>2
<1>6. ASSUME NEW i \in DOMAIN queue', Starts(queue'[i])
      PROVE  \/ Ours(queue[i].unit)'
             \/ \E k \in DOMAIN queue' :
                  i < k /\ queue'[k].op = "close" /\ queue'[k].unit = queue'[i].unit
  <2>1. PICK m \in DOMAIN queue : m = i + 1 /\ queue'[i] = queue[m] /\ i \in Nat
    BY <1>2
  <2>2. PICK u : u = queue[m].unit
    OBVIOUS
  <2>3. queue'[i].unit = u
    BY <2>1, <2>2
  <2>4. \/ Ours(u)
        \/ \E k \in DOMAIN queue' : i < k /\ queue'[k].op = "close" /\ queue'[k].unit = u
    BY <1>3, <1>6, <2>1, <2>2
  <2>5. Ours(u) => Ours(queue[i].unit)'
    BY <1>4, <2>3
  <2> QED
    BY <2>3, <2>4, <2>5
<1> QED
  BY <1>5, <1>6 DEF Tended

LEMMA FinishSlots ==
  ASSUME TypeInv, Books, ~retired, queue # <<>>, NEW r, Finish(r), UNCHANGED threads,
         NEW t \in Threads, at[t] = "starting"
  PROVE  /\ at'[t] = "starting" /\ job'[t] = job[t] /\ queue # <<>> /\ 1 \in DOMAIN queue
         /\ queue[1].by = t => /\ slot[t] = "waiting" /\ slot'[t] = r /\ queue[1].op = "start"
                               /\ queue[1].unit = job[t].unit
         /\ queue[1].by # t => slot'[t] = slot[t]
         /\ \A i \in DOMAIN queue' : \E k \in DOMAIN queue : k # 1 /\ queue'[i] = queue[k]
<1>1. queue' = Tail(queue) /\ UNCHANGED <<at, job>>
        /\ slot' = IF Head(queue).by = None THEN slot ELSE [slot EXCEPT ![Head(queue).by] = r]
  BY DEF Finish, threads
<1>2. /\ 1 \in DOMAIN queue /\ Head(queue) = queue[1]
      /\ \A i \in DOMAIN queue' : i + 1 \in DOMAIN queue /\ 1 < i + 1 /\ queue'[i] = queue[i + 1]
  BY <1>1, Shifted
<1>3. ASSUME queue[1].by = t
      PROVE  slot[t] = "waiting" /\ queue[1].op = "start" /\ queue[1].unit = job[t].unit
  <2>1. Asks(queue[1].by, queue[1])
    BY <1>2, <1>3, Names DEF Books, QueueInv
  <2> QED
    BY <1>3, <2>1 DEF Asks
<1>4. slot \in [Threads -> {"none", "waiting", "ok", "failed"}]
  BY DEF TypeInv, ThreadsFit
<1>5. queue[1].by = t => slot'[t] = r
  BY <1>1, <1>2, <1>4, Names
<1>6. queue[1].by # t => slot'[t] = slot[t]
  BY <1>1, <1>2, <1>4
<1>7. \A i \in DOMAIN queue' : \E k \in DOMAIN queue : k # 1 /\ queue'[i] = queue[k]
  BY <1>2
<1> QED
  BY <1>1, <1>2, <1>3, <1>5, <1>6, <1>7

LEMMA RunStartBooks ==
  ASSUME TypeInv, Books, RunStart
  PROVE  Books'
<1>0. /\ ~retired /\ queue # <<>> /\ UNCHANGED <<threads, itf, retired, parked>>
      /\ Head(queue).op = "start" /\ proc \in [Units -> {"none", "on", "dead"}]
  BY DEF RunStart, Heads, outside, TypeInv, StoresFit
<1>1. PICK r \in {"ok", "failed"} : Finish(r)
  BY DEF RunStart
<1>2. /\ 1 \in DOMAIN queue /\ Head(queue) = queue[1] /\ queue' = Tail(queue)
  BY <1>0, <1>1, Shifted DEF Finish
<1>3. PICK v : v = queue[1].unit
  OBVIOUS
<1>4. v \in Units
  BY <1>0, <1>2, <1>3 DEF Books, QueueInv
<1>5. /\ proc' \in [Units -> {"none", "on", "dead"}]
      /\ \A u \in Units \ {v} : proc'[u] = proc[u]
      /\ proc'[v] # proc[v] => proc[v] = "none" /\ proc'[v] = "on" /\ \A u \in Units \ {v} : ~On(u)
      /\ r = "ok" /\ proc[v] = "none" => proc'[v] # proc[v] \/ Finish("failed")
  BY <1>0, <1>1, <1>2, <1>3, <1>4 DEF RunStart, Claimed
<1>6. QueueInv'
  BY <1>0, <1>1, FinishQueue DEF Books
<1>7. Tended'
  <2>1. \A u \in Units : On(u)' => On(u) \/ (u = v /\ Starts(queue[1]))
    BY <1>0, <1>2, <1>5 DEF On, Starts
  <2> QED
    BY <1>0, <1>1, <1>2, <1>3, <2>1, FinishTended
<1>8. ASSUME NEW t \in Threads, at'[t] = "starting"
      PROVE  /\ slot'[t] = "waiting" =>
                  /\ proc'[job'[t].unit] = "none"
                  /\ \A i \in DOMAIN queue' : queue'[i].unit = job'[t].unit => queue'[i].by = t
             /\ slot'[t] = "ok" =>
                  /\ \A u \in Units \ {job'[t].unit} : proc'[u] # "on"
                  /\ \A i \in DOMAIN queue' : ~Starts(queue'[i])
  <2>0. at[t] = "starting" /\ job[t].unit \in Units
    BY <1>0, <1>8 DEF threads, TypeInv, ThreadsFit, Fits
  <2>1. /\ job'[t] = job[t]
        /\ queue[1].by = t => slot[t] = "waiting" /\ slot'[t] = r /\ queue[1].unit = job[t].unit
        /\ queue[1].by # t => slot'[t] = slot[t]
        /\ \A i \in DOMAIN queue' : \E k \in DOMAIN queue : k # 1 /\ queue'[i] = queue[k]
    BY <1>0, <1>1, <2>0, FinishSlots
  <2>2. CASE queue[1].by = t
    <3>1. v = job[t].unit /\ proc[v] = "none" /\ slot'[t] = r
      BY <1>3, <2>0, <2>1, <2>2 DEF Books, Launching
    <3>2. \A i \in DOMAIN queue' : ~Starts(queue'[i])
      BY <1>2, <2>1, <2>2, Behind1, Names DEF Books, Starts
    <3>3. r = "ok" => \A u \in Units \ {v} : ~On(u)
      <4>1. Finish("failed") => slot'[t] = "failed"
        BY <1>0, <2>0, <2>2, FinishSlots
      <4> QED
        BY <1>5, <3>1, <4>1
    <3> QED
      BY <1>5, <2>1, <3>1, <3>2, <3>3 DEF On
  <2>3. CASE queue[1].by # t
    <3>1. CASE slot[t] = "waiting"
      <4>1. v # job[t].unit /\ proc[job[t].unit] = "none"
        BY <1>2, <1>3, <2>0, <2>3, <3>1 DEF Books, Launching
      <4> QED
        BY <1>5, <2>0, <2>1, <2>3, <3>1, <4>1 DEF Books, Launching
    <3>2. slot[t] # "ok"
      BY <1>0, <1>2, <2>0 DEF Books, Launching, Starts
    <3> QED
      BY <2>1, <2>3, <3>1, <3>2
  <2> QED
    BY <2>2, <2>3
<1> QED
  BY <1>6, <1>7, <1>8 DEF Books, Launching, On

LEMMA RunCloseBooks ==
  ASSUME TypeInv, Books, RunClose
  PROVE  Books'
<1>0. /\ ~retired /\ queue # <<>> /\ UNCHANGED <<threads, itf, retired>> /\ Finish("ok")
      /\ Head(queue).op = "close" /\ proc \in [Units -> {"none", "on", "dead"}]
      /\ proc' = [proc EXCEPT ![Head(queue).unit] = "none"]
  BY DEF RunClose, Heads, outside, TypeInv, StoresFit
<1>1. /\ 1 \in DOMAIN queue /\ Head(queue) = queue[1] /\ queue' = Tail(queue)
  BY <1>0, Shifted DEF Finish
<1>2. PICK v : v = queue[1].unit
  OBVIOUS
<1>3. v \in Units
  BY <1>0, <1>1, <1>2 DEF Books, QueueInv
<1>4. /\ proc'[v] = "none" /\ \A u \in Units \ {v} : proc'[u] = proc[u]
  BY <1>0, <1>1, <1>2, <1>3
<1>5. QueueInv'
  BY <1>0, FinishQueue DEF Books
<1>6. Tended'
  BY <1>0, <1>1, <1>2, <1>4, FinishTended DEF On
<1>7. ASSUME NEW t \in Threads, at'[t] = "starting"
      PROVE  /\ slot'[t] = "waiting" =>
                  /\ proc'[job'[t].unit] = "none"
                  /\ \A i \in DOMAIN queue' : queue'[i].unit = job'[t].unit => queue'[i].by = t
             /\ slot'[t] = "ok" =>
                  /\ \A u \in Units \ {job'[t].unit} : proc'[u] # "on"
                  /\ \A i \in DOMAIN queue' : ~Starts(queue'[i])
  <2>0. at[t] = "starting" /\ job[t].unit \in Units
    BY <1>0, <1>7 DEF threads, TypeInv, ThreadsFit, Fits
  <2>1. /\ job'[t] = job[t] /\ slot'[t] = slot[t]
        /\ \A i \in DOMAIN queue' : \E k \in DOMAIN queue : k # 1 /\ queue'[i] = queue[k]
    BY <1>0, <1>1, <2>0, FinishSlots
  <2> QED
    BY <1>4, <2>0, <2>1 DEF Books, Launching, On
<1> QED
  BY <1>5, <1>6, <1>7 DEF Books, Launching, On

LEMMA RunRetuneBooks ==
  ASSUME TypeInv, Books, RunRetune
  PROVE  Books'
<1>0. /\ ~retired /\ queue # <<>> /\ UNCHANGED <<threads, itf, retired>>
      /\ Head(queue).op = "retune" /\ proc \in [Units -> {"none", "on", "dead"}]
      /\ parked \in [Units -> Chans \cup {None}]
      /\ 1 \in DOMAIN queue /\ Head(queue) = queue[1]
  <2>1. ~retired /\ queue # <<>> /\ Head(queue).op = "retune"
    BY DEF RunRetune, Heads
  <2>2. 1 \in DOMAIN queue /\ Head(queue) = queue[1]
    BY <2>1, ItemsTyped
  <2> QED
    BY <2>1, <2>2 DEF RunRetune, outside, TypeInv, StoresFit
<1>a. queue[1].unit \in Units
  BY <1>0 DEF Books, QueueInv
<1>1. CASE Finish("ok") /\ UNCHANGED <<proc, parked>>
  <2>1. queue' = Tail(queue) /\ \A u : On(u)' <=> On(u)
    BY <1>1 DEF Finish, On
  <2>2. QueueInv'
    BY <1>0, <1>1, FinishQueue DEF Books
  <2>3. Tended'
    <3>1. PICK v : v = queue[1].unit
      OBVIOUS
    <3> QED
      BY <1>0, <1>1, <2>1, <3>1, FinishTended
  <2>4. ASSUME NEW t \in Threads, at'[t] = "starting"
        PROVE  /\ slot'[t] = "waiting" =>
                    /\ proc'[job'[t].unit] = "none"
                    /\ \A i \in DOMAIN queue' : queue'[i].unit = job'[t].unit => queue'[i].by = t
               /\ slot'[t] # "ok"
    <3>0. at[t] = "starting"
      BY <1>0, <2>4 DEF threads
    <3>1. /\ job'[t] = job[t] /\ slot'[t] = slot[t]
          /\ \A i \in DOMAIN queue' : \E k \in DOMAIN queue : k # 1 /\ queue'[i] = queue[k]
      BY <1>0, <1>1, <3>0, FinishSlots
    <3>2. slot[t] # "ok"
      BY <1>0, <3>0 DEF Books, Launching, Starts
    <3> QED
      BY <1>1, <3>0, <3>1, <3>2 DEF Books, Launching
  <2> QED
    BY <2>2, <2>3, <2>4 DEF Books, Launching
<1>2. CASE /\ proc' = [proc EXCEPT ![Head(queue).unit] = "none"]
           /\ parked' = [parked EXCEPT ![Head(queue).unit] = Head(queue).hz]
           /\ queue' = [queue EXCEPT ![1].op = "start"]
           /\ UNCHANGED slot
  <2>1. UNCHANGED <<at, job, itf, retired, slot>>
    BY <1>0, <1>2 DEF threads
  <2>2. /\ DOMAIN queue' = DOMAIN queue
        /\ queue'[1].op = "start" /\ queue'[1].unit = queue[1].unit
        /\ queue'[1].by = queue[1].by /\ queue'[1].hz = queue[1].hz
        /\ \A i \in DOMAIN queue : i # 1 => queue'[i] = queue[i]
    <3>1. queue[1] \in Items /\ queue \in Seq(Items)
      BY <1>0, ItemsTyped
    <3> QED
      BY <1>0, <1>2, <3>1 DEF Items
  <2>3. \A u \in Units : On(u)' => On(u)
    BY <1>0, <1>2 DEF On
  <2>4. \A u : Ours(u)' <=> Ours(u)
    BY <2>1 DEF Ours
  <2>5. \A i \in DOMAIN queue : Starts(queue'[i]) <=> Starts(queue[i])
    BY <1>0, <2>2 DEF Starts
  <2>6. QueueInv'
    <3>1. ASSUME queue'[1].by # None PROVE Asks(queue[1].by, queue[1])'
      <4>1. Asks(queue[1].by, queue[1]) /\ queue[1].by \in Threads
        BY <1>0, <2>2, <3>1, Owners DEF Books, QueueInv
      <4>2. PICK t \in Threads : t = queue[1].by
        BY <4>1
      <4>3. at[t] = "retuning" /\ slot[t] = "waiting" /\ queue[1].unit = itf /\ queue[1].hz = job[t].seen
        BY <1>0, <4>1, <4>2 DEF Asks, Waits
      <4>4. parked'[itf] = job[t].seen
        BY <1>0, <1>2, <1>a, <4>3
      <4>5. PICK item : item = queue'[1]
        OBVIOUS
      <4>6. Asks(t, item)'
        BY <2>1, <2>2, <4>3, <4>4, <4>5 DEF Asks, Starts, Waits
      <4>7. t = queue'[1].by
        BY <2>2, <4>2
      <4> QED
        BY <4>5, <4>6, <4>7
    <3>2. ASSUME NEW i \in DOMAIN queue, i # 1, queue[i].by # None PROVE Asks(queue[i].by, queue[i])'
      <4>1. Asks(queue[i].by, queue[i]) /\ queue[i].by \in Threads
        BY <3>2, Owners DEF Books, QueueInv
      <4>2. PICK t \in Threads : t = queue[i].by
        BY <4>1
      <4>3. PICK item : item = queue[i]
        OBVIOUS
      <4>4. at[t] = "retuning" => t \in Followers
        BY DEF TypeInv, ThreadsFit, Fits
      <4>5. at[t] = "retuning" => item.op # "start"
        BY <1>0, <3>2, <4>2, <4>3, <4>4, Behind1 DEF Books
      <4>6. Asks(t, item)'
        BY <2>1, <4>1, <4>2, <4>3, <4>5 DEF Asks
      <4>7. t = queue'[i].by /\ item = queue'[i]
        BY <2>2, <3>2, <4>2, <4>3
      <4> QED
        BY <4>6, <4>7
    <3>3. ASSUME NEW i \in DOMAIN queue'
          PROVE  /\ queue'[i].op # "retire" => queue'[i].unit \in Units
                 /\ queue'[i].op = "retire" => queue'[i].by = None
                 /\ queue'[i].by # None => Asks(queue[i].by, queue[i])'
                 /\ queue'[i].by \in Followers /\ queue'[i].op = "start" => i = 1
      <4>1. CASE i = 1
        BY <1>a, <2>2, <3>1, <4>1
      <4>2. CASE i # 1
        BY <2>2, <3>2, <4>2 DEF Books, QueueInv
      <4> QED
        BY <4>1, <4>2
    <3>4. ASSUME NEW i \in DOMAIN queue', NEW k \in DOMAIN queue', i < k, queue'[i].by # None
          PROVE  queue'[k].op = "retire"
      <4>1. k # 1 /\ queue[i].by # None
        BY <2>2, <3>4, ItemsTyped
      <4> QED
        BY <2>2, <3>4, <4>1 DEF Books, QueueInv
    <3> QED
      BY <1>0, <3>3, <3>4 DEF QueueInv
  <2>7. Tended'
    <3>1. NoOrphanTransmitter'
      BY <1>0, <2>1, <2>2, <2>3 DEF Books, Tended, NoOrphanTransmitter
    <3>2. ASSUME NEW i \in DOMAIN queue', Starts(queue'[i])
          PROVE  \/ Ours(queue[i].unit)'
                 \/ \E k \in DOMAIN queue' :
                      i < k /\ queue'[k].op = "close" /\ queue'[k].unit = queue'[i].unit
      <4>1. i \in DOMAIN queue /\ Starts(queue[i]) /\ queue'[i].unit = queue[i].unit
        BY <2>2, <2>5, <3>2
      <4>2. PICK u : u = queue[i].unit
        OBVIOUS
      <4>3. u = queue'[i].unit
        BY <4>1, <4>2
      <4>4. Ours(u) => Ours(queue[i].unit)'
        BY <2>4, <4>3
      <4>5. \A k \in DOMAIN queue : queue[k].op = "close" => queue'[k] = queue[k]
        BY <1>0, <2>2
      <4> QED
        BY <2>2, <4>1, <4>2, <4>3, <4>4, <4>5 DEF Books, Tended
    <3> QED
      BY <3>1, <3>2 DEF Tended
  <2>8. ASSUME NEW t \in Threads, at[t] = "starting"
        PROVE  /\ slot[t] = "waiting" =>
                    /\ proc'[job[t].unit] = "none"
                    /\ \A i \in DOMAIN queue' : queue'[i].unit = job[t].unit => queue'[i].by = t
               /\ slot[t] # "ok"
    <3>1. \A i \in DOMAIN queue : queue'[i].unit = queue[i].unit /\ queue'[i].by = queue[i].by
      BY <2>2
    <3>2. job[t].unit \in Units
      BY <2>8 DEF TypeInv, ThreadsFit, Fits
    <3>3. slot[t] # "ok"
      BY <1>0, <2>8 DEF Books, Launching, Starts
    <3> QED
      BY <1>0, <1>2, <2>2, <2>8, <3>1, <3>2, <3>3 DEF Books, Launching
  <2> QED
    BY <2>1, <2>6, <2>7, <2>8 DEF Books, Launching
<1> QED
  BY <1>1, <1>2 DEF RunRetune

LEMMA RunRetireBooks ==
  ASSUME TypeInv, Books, RunRetire
  PROVE  Books'
<1>1. /\ retired' /\ queue' = <<>> /\ \A u \in Units : ~On(u)'
      /\ \A u \in Units : proc[u] = "none" => proc'[u] = "none"
      /\ UNCHANGED <<at, job, slot, itf>>
  BY DEF RunRetire, TypeInv, StoresFit, On, threads
<1>2. \A t \in Threads : at[t] = "starting" => job[t].unit \in Units
  BY DEF TypeInv, ThreadsFit, Fits
<1> QED
  BY <1>1, <1>2 DEF Books, QueueInv, Tended, NoOrphanTransmitter, Launching

-------------------------------------------------------------------------------
(* What an interferer is there for, step by step.                              *)
LEMMA WantedOutside ==
  ASSUME TypeInv, Wanted, NEW c \in Threads, NEW p, NEW j, Become(c, p, j),
         at[c] \notin {"halt", "join", "close"},
         p \notin {"arm", "starting", "halt", "join", "close", "closing", "undo"},
         UNCHANGED <<itf, intended>>, error # None => error' # None
  PROVE  Wanted'
<1>1. /\ at'[c] = p
      /\ \A d \in Threads \ {c} : at'[d] = at[d] /\ job'[d] = job[d]
  BY Moved DEF TypeInv
<1> QED
  BY <1>1 DEF Wanted

LEMMA WantedInside ==
  ASSUME TypeInv, NEW c \in Threads, at[c] \in Critical \/ Free, NEW p, NEW j, Become(c, p, j),
         itf' # None => intended' \/ p \in {"halt", "join", "close"},
         p \in {"arm", "starting"} => intended',
         p \in {"halt", "join", "close", "closing"} /\ j.again => intended',
         p = "closing" => itf' = None,
         p = "undo" => error' # None
  PROVE  Wanted'
<1>1. \A d \in Threads \ {c} : at[d] \notin Critical
  BY Alone, NobodyInside DEF TypeInv
<1>2. /\ at'[c] = p /\ job'[c] = j
      /\ \A d \in Threads \ {c} : at'[d] \notin Critical
  BY <1>1, Moved DEF TypeInv
<1> QED
  BY <1>2 DEF Wanted, Critical, Waits

LEMMA CallersWanted ==
  ASSUME TypeInv, Wanted, NEW c \in Callers \cup {Main},
         \/ \E cmd \in Commands : Post(c, cmd)
         \/ Reset(c) \/ Poll(c) \/ Leave(c) \/ Undo(c)
  PROVE  Wanted'
<1>1. /\ c \in Threads /\ UNCHANGED <<itf, intended>>
      /\ at[c] \in {"idle", "fresh", "post", "leave", "undo"}
  BY DEF Threads, Post, Reset, Poll, Leave, Undo, settings
<1>2. error # None => error' # None
  BY DEF Post, Reset, Poll, Leave, Undo, Noticed
<1>3. ASSUME NEW p \in {"post", "fresh", "enter", "idle", "retire"}, NEW j, Become(c, p, j)
      PROVE  Wanted'
  BY <1>1, <1>2, <1>3, WantedOutside
<1> QED
  BY <1>3 DEF Post, Reset, Poll, Leave, Undo, Goto, Return

LEMMA StepsWanted ==
  ASSUME TypeInv, Wanted, NEW c \in Callers \cup {Main},
         Enter(c) \/ Decide(c) \/ Halt(c) \/ Join(c)
  PROVE  Wanted'
<1>1. /\ c \in Threads /\ job[c] \in Jobs /\ Fits(c, at[c], job[c]) /\ (at[c] \in Critical \/ Free)
      /\ itf' = itf
  BY DEF Threads, Enter, Decide, Halt, Join, TypeInv, ThreadsFit, Critical
<1>a. at[c] \notin {"halt", "join", "close"} /\ itf # None => intended
  <2> SUFFICES ASSUME at[c] \notin {"halt", "join", "close"}, itf # None PROVE intended
    OBVIOUS
  <2>1. \A d \in Threads : at[d] \notin {"halt", "join", "close"}
    BY <1>1, Alone, NobodyInside DEF TypeInv, Critical
  <2> QED
    BY <2>1 DEF Wanted
<1>2. CASE Enter(c)
  <2>1. ~job[c].again /\ at[c] = "enter"
    BY <1>1, <1>2 DEF Enter, Fits, Unasked
  <2>2. CASE c = Main /\ intended' = FALSE /\ Goto(c, "halt")
    BY <1>1, <2>1, <2>2, WantedInside DEF Goto
  <2>3. CASE c # Main
    <3>1. PICK j : Become(c, "decide", j)
      BY <1>2, <2>3 DEF Enter
    <3> QED
      BY <1>1, <1>2, <1>a, <2>1, <2>3, <3>1, WantedInside DEF Enter
  <2> QED
    BY <1>2, <2>2, <2>3 DEF Enter
<1>3. CASE Decide(c)
  <2>1. ~job[c].again /\ at[c] = "decide"
    BY <1>1, <1>3 DEF Decide, Fits, Unasked
  <2>2. CASE Return(c) /\ UNCHANGED settings
    BY <1>1, <1>a, <2>1, <2>2, WantedInside DEF Return, settings
  <2>3. CASE intended' = job[c].want /\ ~job[c].want /\ Goto(c, "halt")
    BY <1>1, <2>1, <2>3, WantedInside DEF Goto
  <2>4. CASE intended' = job[c].want /\ job[c].want
    <3>1. ASSUME NEW p \in {"arm", "halt", "leave", "retire", "fresh", "idle"}, NEW j,
                 Become(c, p, j)
          PROVE  Wanted'
      BY <1>1, <2>4, <3>1, WantedInside
    <3> QED
      BY <1>3, <2>4, <3>1 DEF Decide, Goto, Return
  <2> QED
    BY <1>3, <2>2, <2>3, <2>4 DEF Decide
<1>4. CASE Halt(c) \/ Join(c)
  <2>1. /\ at[c] \in {"halt", "join"} /\ intended' = intended
        /\ job[c].again => intended
    BY <1>1, <1>4 DEF Halt, Join, settings, Wanted
  <2>2. ASSUME NEW p \in {"close", "join"}, NEW j, Become(c, p, j), j.again = job[c].again
        PROVE  Wanted'
    BY <1>1, <2>1, <2>2, WantedInside
  <2>3. [job[c] EXCEPT !.seen = follower].again = job[c].again
    BY <1>1 DEF Jobs
  <2> QED
    BY <1>4, <2>2, <2>3 DEF Halt, Join, Goto
<1> QED
  BY <1>2, <1>3, <1>4

LEMMA WaitsWanted ==
  ASSUME TypeInv, Wanted, NEW c \in Callers \cup {Main},
         Close(c) \/ Closing(c) \/ Arm(c) \/ Starting(c)
  PROVE  Wanted'
<1>1. /\ c \in Threads /\ job[c] \in Jobs /\ Fits(c, at[c], job[c]) /\ at[c] \in Critical
      /\ intended' = intended /\ c \notin Followers
  BY Names DEF Threads, Close, Closing, Arm, Starting, settings, TypeInv, ThreadsFit, Critical, Waits
<1>2. CASE Close(c)
  <2>1. job[c].again => intended
    BY <1>1, <1>2 DEF Close, Wanted
  <2> QED
    BY <1>1, <1>2, <2>1, WantedInside DEF Close, Goto, AfterDisarm
<1>3. CASE Closing(c)
  <2>1. (job[c].again => intended) /\ itf = None /\ itf' = itf
    BY <1>1, <1>3 DEF Closing, Wanted
  <2> QED
    BY <1>1, <1>3, <2>1, WantedInside DEF Closing, Goto, AfterDisarm, Return
<1>4. CASE Arm(c)
  <2>1. intended /\ intended'
    BY <1>1, <1>4 DEF Arm, Wanted
  <2>2. ASSUME NEW p \in {"starting", "retire", "fresh", "idle"}, NEW j, Become(c, p, j) PROVE Wanted'
    BY <1>1, <2>1, <2>2, WantedInside
  <2> QED
    BY <1>4, <2>2 DEF Arm, Return
<1>5. CASE Starting(c)
  <2>1. intended /\ intended'
    BY <1>1, <1>5 DEF Starting, Wanted
  <2>2. CASE Goto(c, "leave")
    BY <1>1, <2>1, <2>2, WantedInside DEF Goto
  <2>3. CASE error' = "start" /\ Goto(c, "undo")
    BY <1>1, <2>1, <2>3, WantedInside, JammerAssumption DEF Goto
  <2>4. ASSUME NEW f \in Followers, at' = [at EXCEPT ![c] = "leave", ![f] = "wait"]
        PROVE  Wanted'
    <3>1. \A d \in Threads \ {c} : at[d] \notin Critical
      BY <1>1, Alone DEF TypeInv
    <3>2. \A d \in Threads : at'[d] \notin {"halt", "join", "close", "arm", "starting", "closing", "undo"}
      BY <1>1, <2>4, <3>1 DEF TypeInv, ThreadsFit, Critical, Waits
    <3> QED
      BY <2>1, <3>2 DEF Wanted
  <2> QED
    BY <1>5, <2>2, <2>3, <2>4 DEF Starting
<1> QED
  BY <1>2, <1>3, <1>4, <1>5

LEMMA FollowersWanted ==
  ASSUME TypeInv, Wanted, NEW f \in Followers, Follow(f)
  PROVE  Wanted'
<1>1. /\ f \in Threads /\ at[f] \in {"wait", "enter", "retuning"} /\ UNCHANGED <<itf, intended>>
  BY DEF Threads, Follow, Look, Chase, Chased, settings
<1>2. error # None => error' # None
  BY JammerAssumption DEF Follow, Look, Chase, Chased
<1>3. ASSUME NEW p \in {"wait", "enter", "retuning", "off"}, NEW j, Become(f, p, j) PROVE Wanted'
  BY <1>1, <1>2, <1>3, WantedOutside
<1> QED
  BY <1>3 DEF Follow, Look, Chase, Chased, Goto

LEMMA WorldWanted ==
  ASSUME TypeInv, Wanted, Shutdown \/ Retire \/ Own \/ MoveLink \/ \E u \in Units : Die(u)
  PROVE  Wanted'
<1>1. CASE Shutdown \/ Retire
  BY <1>1, WantedOutside DEF Shutdown, Retire, Goto, settings, Threads
<1>2. CASE Own \/ MoveLink \/ \E u \in Units : Die(u)
  <2>1. UNCHANGED <<itf, intended, error, at, job>>
    BY <1>2 DEF Own, RunStart, RunClose, RunRetune, RunRetire, MoveLink, Die, settings, threads
  <2> QED
    BY <2>1 DEF Wanted
<1> QED
  BY <1>1, <1>2

-------------------------------------------------------------------------------
(* The invariant.                                                              *)
LEMMA OwnerThreads ==
  ASSUME TypeInv, Books, Own
  PROVE  ThreadsFit'
<1>1. UNCHANGED <<threads, lock>>
  BY DEF Own, RunStart, RunClose, RunRetune, RunRetire
<1>2. ASSUME NEW r \in {"ok", "failed"}, queue # <<>>, Finish(r) PROVE ThreadsFit'
  <2>1. 1 \in DOMAIN queue /\ Head(queue) = queue[1]
    BY <1>2, Shifted DEF Finish
  <2>2. queue[1].by # None => queue[1].by \in Threads /\ at[queue[1].by] \in Waits
    BY <2>1, Owners DEF Books
  <2>3. \/ slot' = slot
        \/ \E t \in Threads : at[t] \in Waits /\ slot' = [slot EXCEPT ![t] = r]
    BY <1>2, <2>1, <2>2 DEF Finish
  <2> QED
    BY <1>1, <2>3, AnswersFit DEF TypeInv
<1>3. slot' = slot => ThreadsFit'
  BY <1>1, AnswersFit DEF TypeInv
<1> QED
  BY <1>2, <1>3 DEF Own, RunStart, RunClose, RunRetune, RunRetire, Heads

LEMMA TypeStep == ASSUME TypeInv, Books, [Next]_vars PROVE TypeInv'
<1>0. ThreadsFit /\ StoresFit
  BY DEF TypeInv
<1>1. ASSUME NEW c \in Callers, Operate(c) PROVE TypeInv'
  BY <1>0, <1>1, StepsAskStores, StepsOutsideThreads DEF Operate, TypeInv
<1>2. ASSUME NEW c \in Callers \cup {Main}, Take(c) PROVE TypeInv'
  <2>1. CASE Enter(c)
    BY <1>0, <2>1, StepsAskStores, EnterThreads DEF TypeInv
  <2>2. CASE at[c] = "post" /\ Poll(c)
    <3>1. c \in Callers
      BY <1>0, <2>2 DEF ThreadsFit, Fits, Threads
    <3> QED
      BY <1>0, <2>2, <3>1, StepsAskStores, StepsOutsideThreads DEF TypeInv
  <2> QED
    BY <1>2, <2>1, <2>2 DEF Take
<1>3. ASSUME NEW c \in Callers \cup {Main}, Serve(c) PROVE TypeInv'
  BY <1>0, <1>3, StepsAskStores, StepsRunStores, StepsInsideThreads, StepsWaitThreads
     DEF Serve, TypeInv
<1>4. ASSUME NEW f \in Followers, Follow(f) PROVE TypeInv'
  BY <1>0, <1>4, FollowersStores, FollowersThreads DEF TypeInv
<1>5. CASE Shutdown \/ Retire
  BY <1>0, <1>5, WorldStores, MainThreads DEF TypeInv
<1>6. CASE Own
  BY <1>6, OwnerStores, OwnerThreads DEF TypeInv
<1>7. CASE MoveLink \/ \E u \in Units : Die(u)
  <2>1. UNCHANGED <<at, job, lock, slot>>
    BY <1>7 DEF MoveLink, Die, threads, work
  <2>2. ThreadsFit'
    BY <1>0, <2>1 DEF ThreadsFit, Locked
  <2> QED
    BY <1>7, <2>2, WorldStores DEF TypeInv
<1>8. CASE UNCHANGED vars
  BY <1>8 DEF vars, TypeInv, ThreadsFit, StoresFit, Locked
<1> QED
  BY <1>1, <1>2, <1>3, <1>4, <1>5, <1>6, <1>7, <1>8 DEF Next

LEMMA BooksStep == ASSUME TypeInv, Books, [Next]_vars PROVE Books'
<1>1. ASSUME NEW c \in Callers, Operate(c) PROVE Books'
  BY <1>1, AskBooks DEF Operate
<1>2. ASSUME NEW c \in Callers \cup {Main}, Take(c) PROVE Books'
  BY <1>2, AskBooks DEF Take
<1>3. ASSUME NEW c \in Callers \cup {Main}, Serve(c) PROVE Books'
  <2>1. c \in Threads
    BY DEF Threads
  <2> QED
    BY <1>3, <2>1, AskBooks, CloseBooks, LetGoStepsBooks, ArmBooks, StartingBooks DEF Serve
<1>4. ASSUME NEW f \in Followers, Follow(f) PROVE Books'
  <2>1. f \in Threads
    BY DEF Threads
  <2> QED
    BY <1>4, <2>1, ChaseBooks, LetGoStepsBooks DEF Follow
<1>5. CASE Own
  BY <1>5, RunStartBooks, RunCloseBooks, RunRetuneBooks, RunRetireBooks DEF Own
<1>6. CASE Shutdown \/ Retire \/ MoveLink
  BY <1>6, MainBooks
<1>7. ASSUME NEW u \in Units, Die(u) PROVE Books'
  BY <1>7, DieBooks
<1>8. CASE UNCHANGED vars
  <2>1. UNCHANGED <<queue, slot, at, job, itf, retired, parked, proc>>
    BY <1>8 DEF vars
  <2>2. \A t, item : Asks(t, item)' <=> Asks(t, item)
    BY <2>1 DEF Asks
  <2> QED
    BY <2>1, <2>2 DEF Books, QueueInv, Tended, NoOrphanTransmitter, Ours, Launching, On
<1> QED
  BY <1>1, <1>2, <1>3, <1>4, <1>5, <1>6, <1>7, <1>8 DEF Next

LEMMA WantedStep == ASSUME TypeInv, Wanted, [Next]_vars PROVE Wanted'
<1>1. ASSUME NEW c \in Callers, Operate(c) PROVE Wanted'
  BY <1>1, CallersWanted DEF Operate
<1>2. ASSUME NEW c \in Callers \cup {Main}, Take(c) \/ Serve(c) PROVE Wanted'
  BY <1>2, CallersWanted, StepsWanted, WaitsWanted DEF Take, Serve
<1>3. ASSUME NEW f \in Followers, Follow(f) PROVE Wanted'
  BY <1>3, FollowersWanted
<1>4. CASE Shutdown \/ Retire \/ Own \/ MoveLink \/ \E u \in Units : Die(u)
  BY <1>4, WorldWanted
<1>5. CASE UNCHANGED vars
  BY <1>5 DEF vars, Wanted
<1> QED
  BY <1>1, <1>2, <1>3, <1>4, <1>5 DEF Next

LEMMA JammerInit == Init => JammerInv
<1> SUFFICES ASSUME Init PROVE JammerInv
  OBVIOUS
<1>1. NoJob \in Jobs /\ ~NoJob.again
  BY DEF NoJob, Jobs
<1>2. /\ at = [t \in Threads |-> IF t \in Followers THEN "off" ELSE "idle"]
      /\ job = [t \in Threads |-> NoJob] /\ slot = [t \in Threads |-> "none"]
      /\ lock = None /\ queue = <<>> /\ itf = None
  BY DEF Init
<1>3. \A t \in Threads : at[t] \in {"off", "idle"} /\ (at[t] = "off" <=> t \in Followers)
  BY <1>2
<1>4. ThreadsFit
  <2>1. at \in [Threads -> Places] /\ job \in [Threads -> Jobs]
          /\ slot \in [Threads -> {"none", "waiting", "ok", "failed"}]
    BY <1>1, <1>2 DEF Places, Unlocked
  <2>2. ASSUME NEW t \in Threads PROVE Fits(t, at[t], job[t])
    BY <1>1, <1>2, <1>3, Names DEF Fits, Unasked
  <2>3. ASSUME NEW t \in Threads PROVE Locked(t)
    BY <1>2, <1>3, Names DEF Locked, Critical, Waits
  <2> QED
    BY <1>2, <2>1, <2>2, <2>3 DEF ThreadsFit
<1>5. StoresFit
  <2>1. queue \in Seq(Items)
    BY <1>2
  <2> QED
    BY <2>1, JammerAssumption DEF Init, StoresFit
<1>6. Books
  BY <1>2, <1>3 DEF Init, Books, QueueInv, Tended, NoOrphanTransmitter, Launching, On
<1>7. Wanted
  BY <1>2, <1>3 DEF Wanted
<1> QED
  BY <1>4, <1>5, <1>6, <1>7 DEF JammerInv, TypeInv

(* Whatever is posted, reset, chased, retuned, lost or late, the instrument's  *)
(* books are in order.                                                         *)
THEOREM JammerInvariant == Spec => []JammerInv
<1>1. ASSUME JammerInv, [Next]_vars PROVE JammerInv'
  BY <1>1, TypeStep, BooksStep, WantedStep DEF JammerInv
<1> QED
  BY <1>1, JammerInit, PTL DEF Spec

(* Every variable keeps its type.                                              *)
THEOREM TypeCorrect == Spec => []TypeOK
<1>1. JammerInv => TypeOK
  BY TypesHold DEF JammerInv
<1> QED
  BY <1>1, JammerInvariant, PTL

(* A keyed transmitter always has somebody to answer for it: whatever dies,    *)
(* refuses or is slow, and whoever gave up on whom (JammerInstrument._disarm,  *)
(* _arm and the owner's queue).                                                *)
THEOREM NoOrphans == Spec => []NoOrphanTransmitter
<1>1. JammerInv => NoOrphanTransmitter
  BY DEF JammerInv, Books, Tended
<1> QED
  BY <1>1, JammerInvariant, PTL

(* Between commands, with nothing intended, what is still keyed has its close  *)
(* queued.                                                                     *)
THEOREM DisarmedSilence == Spec => []DisarmedIsSilent
<1>1. ASSUME JammerInv PROVE DisarmedIsSilent
  <2> SUFFICES ASSUME Free, ~intended, NEW u \in Units, On(u)
               PROVE  \E i \in DOMAIN queue : queue[i].op = "close" /\ queue[i].unit = u
    BY DEF DisarmedIsSilent
  <2>1. \A t \in Threads : at[t] \notin Critical
    BY <1>1, NobodyInside DEF JammerInv, TypeInv
  <2>2. \A t \in Threads : at[t] \notin {"starting", "halt", "join", "close"}
    BY <2>1 DEF Critical, Waits
  <2>3. itf = None
    BY <1>1, <2>2 DEF JammerInv, Wanted
  <2>4. itf # u
    BY <2>3, JammerAssumption
  <2> QED
    BY <1>1, <2>2, <2>4 DEF JammerInv, Books, Tended, NoOrphanTransmitter
<1> QED
  BY <1>1, JammerInvariant, PTL

-------------------------------------------------------------------------------
(* With an owner that answers in time.                                         *)
Rearm == {"halt", "join", "close", "arm", "starting"}

LEMMA OnlyRetires ==
  ASSUME TypeInv, Books, Attended, NEW c \in Threads, at[c] \in Critical \/ Free,
         slot[c] # "waiting"
  PROVE  \A i \in DOMAIN queue : queue[i].by = None /\ queue[i].op = "retire"
BY NobodyAsks, NobodyInside DEF Books, Attended, TypeInv

(* Nothing but the instrument's interferer is keyed.                           *)
LEMMA OnlyItf ==
  ASSUME TypeInv, Books, Attended, NEW c \in Threads, at[c] \in Critical \/ Free,
         slot[c] # "waiting", at[c] # "starting", NEW u \in Units, On(u)
  PROVE  itf = u
<1>1. \A i \in DOMAIN queue : queue[i].op # "close"
  BY OnlyRetires
<1>2. \A t \in Threads : at[t] # "starting"
  <2>1. \A t \in Threads \ {c} : at[t] \notin Waits
    BY Alone, NobodyInside DEF TypeInv
  <2> QED
    BY <2>1 DEF Waits
<1> QED
  BY <1>1, <1>2 DEF Books, Tended, NoOrphanTransmitter

LEMMA TrustNow ==
  ASSUME TypeInv, Faithful, NEW c \in Threads,
         Free \/ at[c] \in Critical \ (Rearm \cup {"retuning"}),
         error = None, itf # None, ~retired
  PROVE  chases[itf] = cfg.follow /\ parked[itf] = cfg.hz
<1>1. \A t \in Threads : at[t] \notin Rearm \cup {"retuning"}
  <2>1. \A t \in Threads \ {c} : at[t] \notin Critical
    BY Alone, NobodyInside DEF TypeInv
  <2>2. Free => at[c] \notin Critical
    BY NobodyInside DEF TypeInv
  <2> QED
    BY <2>1, <2>2 DEF Rearm, Critical, Waits
<1> QED
  BY <1>1 DEF Faithful, Rearm

LEMMA PromptOutside ==
  ASSUME TypeInv, PromptInv, NEW c \in Threads, NEW p, NEW j, Become(c, p, j),
         at[c] \notin Rearm \cup {"retuning"}, p \notin Rearm \cup {"retuning"},
         UNCHANGED <<itf, cfg, unitVars, queue, slot, retired>>, error' = None => error = None
  PROVE  PromptInv'
<1>1. /\ at'[c] = p
      /\ \A d \in Threads \ {c} : at'[d] = at[d] /\ job'[d] = job[d]
  BY Moved DEF TypeInv
<1>2. \A d \in Threads : (at'[d] \in Rearm \cup {"retuning"} \/ at[d] \in Rearm \cup {"retuning"})
                           => d # c /\ at'[d] = at[d] /\ job'[d] = job[d]
  BY <1>1
<1>3. UNCHANGED <<proc, parked, chases>>
  BY DEF unitVars
<1>4. Attended'
  BY <1>2, <1>3 DEF PromptInv, Attended, On, Rearm
<1>5. Faithful'
  <2>1. \A t \in Threads : at'[t] = "starting" =>
          parked'[job'[t].unit] = cfg'.hz /\ chases'[job'[t].unit] = cfg'.follow
    BY <1>2, <1>3 DEF PromptInv, Faithful, Rearm
  <2>2. ASSUME error' = None, itf' # None, ~retired',
               \A t \in Threads : at'[t] \notin Rearm
        PROVE  /\ chases'[itf'] = cfg'.follow
               /\ (\A t \in Threads : at'[t] # "retuning") => parked'[itf'] = cfg'.hz
               /\ \A t \in Threads : at'[t] = "retuning" /\ slot'[t] = "ok" => parked'[itf'] = job'[t].seen
    <3>1. error = None /\ itf # None /\ ~retired /\ \A t \in Threads : at[t] \notin Rearm
      BY <1>2, <2>2
    <3>2. /\ chases[itf] = cfg.follow
          /\ (\A t \in Threads : at[t] # "retuning") => parked[itf] = cfg.hz
          /\ \A t \in Threads : at[t] = "retuning" /\ slot[t] = "ok" => parked[itf] = job[t].seen
      BY <3>1 DEF PromptInv, Faithful, Rearm
    <3> QED
      BY <1>2, <1>3, <3>2
  <2> QED
    BY <2>1, <2>2 DEF Faithful, Rearm
<1> QED
  BY <1>4, <1>5 DEF PromptInv

Served == \A i \in DOMAIN queue : queue[i].by # None \/ queue[i].op = "retire"

LEMMA PromptInside ==
  ASSUME TypeInv, NEW c \in Threads, at[c] \in Critical \/ Free, NEW p, NEW j, Become(c, p, j),
         Served', p \in {"arm", "starting"} => \A u \in Units : ~On(u)',
         p = "starting" => parked'[j.unit] = cfg'.hz /\ chases'[j.unit] = cfg'.follow,
         \/ p \in Rearm \/ error' # None \/ itf' = None \/ retired'
         \/ /\ chases'[itf'] = cfg'.follow
            /\ p # "retuning" => parked'[itf'] = cfg'.hz
            /\ p = "retuning" /\ slot'[c] = "ok" => parked'[itf'] = j.seen
  PROVE  PromptInv'
<1>1. \A d \in Threads \ {c} : at[d] \notin Critical
  BY Alone, NobodyInside DEF TypeInv
<1>2. /\ at'[c] = p /\ job'[c] = j
      /\ \A d \in Threads \ {c} : at'[d] \notin Critical
  BY <1>1, Moved DEF TypeInv
<1>3. \A d \in Threads \ {c} : at'[d] \notin Rearm \cup {"retuning"}
  BY <1>2 DEF Critical, Waits, Rearm
<1>4. Attended'
  BY <1>2, <1>3 DEF Attended, Served, Rearm
<1>5. Faithful'
  BY <1>2, <1>3 DEF Faithful, Rearm
<1> QED
  BY <1>4, <1>5 DEF PromptInv

LEMMA QuietPrompt ==
  ASSUME TypeInv, PromptInv, NEW c \in Callers \cup {Main},
         \/ \E cmd \in Commands : Post(c, cmd)
         \/ Reset(c) \/ Poll(c) \/ Leave(c)
  PROVE  PromptInv'
<1>1. /\ c \in Threads /\ UNCHANGED <<itf, cfg, unitVars, queue, slot, retired>>
      /\ at[c] \in {"idle", "fresh", "post", "leave"}
  BY DEF Threads, Post, Reset, Poll, Leave, settings, work, outside
<1>2. error' = None => error = None
  BY DEF Post, Reset, Poll, Leave, Noticed
<1>3. ASSUME NEW p \in {"post", "fresh", "enter", "idle", "retire"}, NEW j, Become(c, p, j)
      PROVE  PromptInv'
  BY <1>1, <1>2, <1>3, PromptOutside DEF Rearm
<1> QED
  BY <1>3 DEF Post, Reset, Poll, Leave, Goto, Return

LEMMA StepsPrompt ==
  ASSUME TypeInv, Books, PromptInv, NEW c \in Callers \cup {Main},
         Enter(c) \/ Decide(c) \/ Halt(c) \/ Join(c)
  PROVE  PromptInv'
<1>1. /\ c \in Threads /\ (at[c] \in Critical \/ Free) /\ slot[c] # "waiting"
      /\ at[c] \in {"enter", "decide", "halt", "join"}
      /\ UNCHANGED <<itf, error, unitVars, queue, slot, retired>>
  BY DEF Threads, Enter, Decide, Halt, Join, TypeInv, ThreadsFit, Locked, Critical, Waits, outside,
         work
<1>2. Served' /\ UNCHANGED <<proc, parked, chases>>
  BY <1>1 DEF PromptInv, Attended, Served, unitVars
<1>3. ASSUME NEW p \in {"halt", "join", "close"}, NEW j, Become(c, p, j) PROVE PromptInv'
  BY <1>1, <1>2, <1>3, PromptInside DEF Rearm
<1>4. ASSUME NEW p \in {"decide", "idle", "fresh", "retire", "leave"}, NEW j, Become(c, p, j),
             Enter(c) \/ Decide(c), cfg' = cfg
      PROVE  PromptInv'
  <2>1. Free \/ at[c] \in Critical \ (Rearm \cup {"retuning"})
    BY <1>4 DEF Enter, Decide, Critical, Rearm
  <2>2. error = None /\ itf # None /\ ~retired => chases[itf] = cfg.follow /\ parked[itf] = cfg.hz
    BY <1>1, <2>1, TrustNow DEF PromptInv
  <2> QED
    BY <1>1, <1>2, <1>4, <2>2, PromptInside DEF Rearm
<1>5. ASSUME Decide(c), ~Armed, Goto(c, "arm") PROVE PromptInv'
  <2>1. \A u \in Units : ~On(u)
    <3> SUFFICES ASSUME NEW u \in Units, On(u) PROVE FALSE
      OBVIOUS
    <3>1. itf = u
      BY <1>1, OnlyItf DEF PromptInv
    <3> QED
      BY <1>5, <3>1, JammerAssumption DEF Armed
  <2>2. \A u \in Units : ~On(u)'
    BY <1>2, <2>1 DEF On
  <2> QED
    BY <1>1, <1>2, <1>5, <2>2, PromptInside DEF Rearm, Goto
<1>6. CASE Enter(c)
  BY <1>3, <1>4, <1>6 DEF Enter, Goto
<1>7. CASE Decide(c)
  <2>1. CASE Return(c) /\ UNCHANGED settings
    BY <1>4, <1>7, <2>1 DEF Return, settings
  <2> QED
    BY <1>3, <1>4, <1>5, <1>7, <2>1 DEF Decide, Goto
<1>8. CASE Halt(c) \/ Join(c)
  BY <1>3, <1>8 DEF Halt, Join, Goto
<1> QED
  BY <1>6, <1>7, <1>8

LEMMA AddsServed ==
  ASSUME TypeInv, Books, Attended, NEW c \in Threads, at[c] \in Critical \/ Free,
         NEW q \in Seq(Items), Loose(q), slot[c] # "waiting" \/ retired,
         NEW op, NEW u, NEW f, queue' = Queued(q, op, u, f, c)
  PROVE  Served'
<1>1. CASE retired
  BY <1>1 DEF Queued, Served
<1>2. CASE ~retired
  <2>1. PICK n : Grown(n, op, u, f, c)
    BY <1>2, Queues
  <2>2. \A i \in DOMAIN queue : queue[i].op = "retire"
    BY <1>2, OnlyRetires
  <2>3. queue'[n].by = c
    BY <2>1 DEF Grown
  <2> QED
    BY <2>1, <2>2, <2>3, Names DEF Grown, Served
<1> QED
  BY <1>1, <1>2

LEMMA GoesServed ==
  ASSUME TypeInv, Books, Attended, NEW c \in Threads, "slow" \notin Faults,
         (Answered(c) /\ Collect(c)) \/ GiveUp(c)
  PROVE  Served' /\ (queue' = queue \/ retired)
<1>1. CASE Collect(c)
  BY <1>1 DEF Collect, Attended, Served
<1>2. CASE GiveUp(c)
  <2>1. retired /\ queue = <<>> /\ queue' = Disowned(c)
    BY <1>2 DEF GiveUp, Late, Books, QueueInv
  <2>2. DOMAIN queue' = {}
    BY <2>1 DEF Disowned
  <2> QED
    BY <2>1, <2>2 DEF Served
<1> QED
  BY <1>1, <1>2

LEMMA ClosePrompt ==
  ASSUME TypeInv, Books, Wanted, PromptInv, "slow" \notin Faults,
         NEW c \in Callers \cup {Main}, Close(c) \/ Closing(c)
  PROVE  PromptInv'
<1>1. /\ c \in Threads /\ at[c] \in Critical /\ at[c] \in {"close", "closing"}
      /\ itf' = None /\ \A u : On(u)' <=> On(u)
  BY DEF Threads, Close, Closing, Critical, Waits, Wanted, unitVars, On
<1>2. ASSUME NEW p \in {"closing", "leave", "idle", "fresh", "retire"}, NEW j, Become(c, p, j), Served'
      PROVE  PromptInv'
  BY <1>1, <1>2, PromptInside DEF Rearm
<1>3. ASSUME Goto(c, AfterDisarm(c)), Served', slot[c] # "waiting", itf = None PROVE PromptInv'
  <2>1. \A u \in Units : ~On(u)'
    BY <1>1, <1>3, OnlyItf, JammerAssumption DEF PromptInv
  <2>2. Goto(c, "arm") => PromptInv'
    BY <1>1, <1>3, <2>1, PromptInside DEF Rearm, Goto
  <2> QED
    BY <1>2, <1>3, <2>2 DEF Goto, AfterDisarm
<1>4. CASE Close(c)
  <2>1. slot[c] # "waiting"
    BY <1>1, <1>4 DEF Close, TypeInv, ThreadsFit, Locked, Waits
  <2>2. CASE itf = None /\ Goto(c, AfterDisarm(c)) /\ UNCHANGED work
    <3>1. Served'
      BY <2>2 DEF work, PromptInv, Attended, Served
    <3> QED
      BY <1>3, <2>1, <2>2, <3>1
  <2>3. CASE Submit(c, "close", itf, None) /\ Goto(c, "closing")
    <3>1. Loose(queue) /\ queue \in Seq(Items)
      BY <1>1, <2>1, Loosened DEF Books, Loose
    <3>2. Served'
      BY <1>1, <2>1, <2>3, <3>1, AddsServed DEF Submit, PromptInv
    <3> QED
      BY <1>2, <2>3, <3>2 DEF Goto
  <2> QED
    BY <1>4, <2>2, <2>3 DEF Close
<1>5. CASE Closing(c)
  <2>1. Served' /\ itf = None
    BY <1>1, <1>5, GoesServed DEF Closing, PromptInv, Answered
  <2>2. CASE Answered(c) /\ Goto(c, AfterDisarm(c))
    BY <1>3, <2>1, <2>2 DEF Answered
  <2>3. CASE Return(c)
    BY <1>2, <2>1, <2>3 DEF Return
  <2> QED
    BY <1>5, <2>2, <2>3 DEF Closing
<1> QED
  BY <1>4, <1>5

LEMMA ArmPrompt ==
  ASSUME TypeInv, Books, PromptInv, "slow" \notin Faults, NEW c \in Callers \cup {Main}, Arm(c)
  PROVE  PromptInv'
<1>1. /\ c \in Threads /\ at[c] \in Critical /\ at[c] = "arm" /\ slot[c] # "waiting"
      /\ UNCHANGED <<cfg, retired>> /\ \A u \in Units : ~On(u)
  BY DEF Threads, Arm, Critical, TypeInv, ThreadsFit, Locked, Waits, settings, outside, PromptInv,
         Attended
<1>2. CASE Late /\ Return(c) /\ UNCHANGED <<work, unitVars>>
  <2>1. retired /\ Served'
    BY <1>2 DEF Late, work, PromptInv, Attended, Served
  <2>2. ASSUME NEW p \in {"idle", "fresh", "retire"}, Become(c, p, NoJob) PROVE PromptInv'
    BY <1>1, <2>1, <2>2, PromptInside DEF Rearm
  <2> QED
    BY <1>2, <2>2 DEF Return
<1>3. ASSUME NEW u \in Units, proc' = [proc EXCEPT ![u] = "none"],
             parked' = [parked EXCEPT ![u] = cfg.hz], chases' = [chases EXCEPT ![u] = cfg.follow],
             Submit(c, "start", u, None), Become(c, "starting", [job[c] EXCEPT !.unit = u])
      PROVE  PromptInv'
  <2>1. Loose(queue) /\ queue \in Seq(Items)
    BY <1>1, Loosened DEF Books, Loose
  <2>2. Served'
    BY <1>1, <1>3, <2>1, AddsServed DEF Submit, PromptInv
  <2>3. /\ parked'[u] = cfg'.hz /\ chases'[u] = cfg'.follow
        /\ \A v \in Units : ~On(v)'
    BY <1>1, <1>3 DEF TypeInv, StoresFit, On
  <2>4. [job[c] EXCEPT !.unit = u].unit = u
    BY <1>1 DEF TypeInv, ThreadsFit, Jobs
  <2> QED
    BY <1>1, <1>3, <2>2, <2>3, <2>4, PromptInside DEF Rearm
<1> QED
  BY <1>2, <1>3 DEF Arm

LEMMA StartingPrompt ==
  ASSUME TypeInv, Books, Wanted, PromptInv, "slow" \notin Faults,
         NEW c \in Callers \cup {Main}, Starting(c) \/ Undo(c)
  PROVE  PromptInv'
<1>1. /\ c \in Threads /\ c \notin Followers /\ at[c] \in Critical
      /\ UNCHANGED <<cfg, retired, parked, chases>>
  BY Names DEF Threads, Starting, Undo, Critical, Waits, settings, outside, unitVars
<1>2. CASE Undo(c)
  <2>1. error' # None /\ Served'
    BY <1>1, <1>2, GoesServed DEF Undo, Wanted, PromptInv, Answered
  <2>2. ASSUME NEW p \in {"idle", "fresh", "retire"}, Become(c, p, NoJob) PROVE PromptInv'
    BY <1>1, <2>1, <2>2, PromptInside
  <2> QED
    BY <1>2, <2>2 DEF Undo, Return
<1>3. CASE Starting(c) /\ slot[c] = "ok" /\ Collect(c) /\ itf' = job[c].unit
  <2>1. /\ Served' /\ parked'[itf'] = cfg'.hz /\ chases'[itf'] = cfg'.follow
    BY <1>1, <1>3 DEF Starting, Collect, PromptInv, Attended, Served, Faithful
  <2>2. CASE Goto(c, "leave")
    BY <1>1, <2>1, <2>2, PromptInside DEF Goto
  <2>3. ASSUME NEW f \in Followers, at' = [at EXCEPT ![c] = "leave", ![f] = "wait"] PROVE PromptInv'
    <3>1. \A d \in Threads : at'[d] \notin Rearm \cup {"retuning"}
      <4>1. \A d \in Threads \ {c} : at[d] \notin Critical
        BY <1>1, Alone DEF TypeInv
      <4> QED
        BY <1>1, <2>3, <4>1 DEF TypeInv, ThreadsFit, Critical, Waits, Rearm
    <3>2. Attended'
      BY <2>1, <3>1 DEF Attended, Served, Rearm
    <3>3. Faithful'
      BY <2>1, <3>1 DEF Faithful, Rearm
    <3> QED
      BY <3>2, <3>3 DEF PromptInv
  <2> QED
    BY <1>3, <2>2, <2>3 DEF Starting
<1>4. CASE /\ slot[c] = "failed" \/ (slot[c] = "waiting" /\ Late)
           /\ error' = "start" /\ Goto(c, "undo")
           /\ queue' = Queued(Disowned(c), "close", job[c].unit, None, c)
  <2>1. Loose(Disowned(c)) /\ Disowned(c) \in Seq(Items)
    BY <1>1, Loosened DEF Books, Loose
  <2>2. slot[c] # "waiting" \/ retired
    BY <1>4 DEF Late
  <2>3. Served'
    BY <1>1, <1>4, <2>1, <2>2, AddsServed DEF PromptInv
  <2> QED
    BY <1>1, <1>4, <2>3, PromptInside, JammerAssumption DEF Goto
<1> QED
  BY <1>2, <1>3, <1>4 DEF Starting

LEMMA FollowersPrompt ==
  ASSUME TypeInv, Books, PromptInv, "slow" \notin Faults, NEW f \in Followers, Follow(f)
  PROVE  PromptInv'
<1>1. /\ f \in Threads /\ UNCHANGED <<itf, retired, parked, chases>>
      /\ (at[f] = "enter" => slot[f] # "waiting")
  BY DEF Threads, Follow, Look, Chase, Chased, outside, unitVars, TypeInv, ThreadsFit, Locked, Waits
<1>2. CASE Look(f)
  <2>1. ASSUME NEW p \in {"off", "enter"}, NEW j, Become(f, p, j) PROVE PromptInv'
    BY <1>2, <2>1, <1>1, PromptOutside DEF Look, settings, work, outside, Rearm
  <2> QED
    BY <1>2, <2>1 DEF Look
<1>3. CASE Chase(f)
  <2>1. CASE Goto(f, "wait") /\ UNCHANGED work
    BY <1>1, <1>3, <2>1, PromptOutside DEF Chase, Goto, settings, work, outside, Rearm
  <2>2. CASE Submit(f, "retune", itf, job[f].seen) /\ Goto(f, "retuning")
    <3>1. Free /\ slot[f] # "waiting" /\ UNCHANGED <<error, cfg>>
      BY <1>1, <1>3 DEF Chase, settings
    <3>2. Loose(queue) /\ queue \in Seq(Items)
      BY <3>1, NobodyAsks, ItemsTyped DEF Loose, Books
    <3>3. Served'
      BY <1>1, <2>2, <3>1, <3>2, AddsServed DEF Submit, PromptInv
    <3>4. slot'[f] # "ok"
      BY <1>1, <2>2 DEF Submit, TypeInv, ThreadsFit
    <3>5. error = None /\ itf # None /\ ~retired => chases[itf] = cfg.follow
      BY <1>1, <3>1, TrustNow DEF PromptInv
    <3> QED
      BY <1>1, <2>2, <3>1, <3>3, <3>4, <3>5, PromptInside DEF Goto
  <2> QED
    BY <1>3, <2>1, <2>2 DEF Chase
<1>4. CASE Chased(f)
  <2>1. at[f] = "retuning" /\ at[f] \in Critical /\ Goto(f, "wait")
    BY <1>4 DEF Chased, Critical, Waits
  <2>2. Served'
    BY <1>1, <1>4, GoesServed DEF Chased, PromptInv, Answered
  <2>3. CASE error' = "retune"
    BY <1>1, <2>1, <2>2, <2>3, PromptInside, JammerAssumption DEF Goto
  <2>4. CASE slot[f] = "ok" /\ cfg' = [cfg EXCEPT !.hz = job[f].seen] /\ UNCHANGED error
    <3>1. \A d \in Threads : at[d] \notin Rearm
      <4>1. \A d \in Threads \ {f} : at[d] \notin Critical
        BY <1>1, <2>1, Alone DEF TypeInv
      <4> QED
        BY <2>1, <4>1 DEF Critical, Waits, Rearm
    <3>2. error = None /\ itf # None /\ ~retired =>
            chases[itf] = cfg.follow /\ parked[itf] = job[f].seen
      BY <1>1, <2>1, <2>4, <3>1 DEF PromptInv, Faithful, Rearm
    <3>3. cfg'.hz = job[f].seen /\ cfg'.follow = cfg.follow
      BY <2>4 DEF TypeInv, StoresFit
    <3> QED
      BY <1>1, <2>1, <2>2, <2>4, <3>2, <3>3, PromptInside DEF Goto
  <2> QED
    BY <1>4, <2>3, <2>4 DEF Chased
<1> QED
  BY <1>2, <1>3, <1>4 DEF Follow

LEMMA HeadAsked ==
  ASSUME TypeInv, Books, Attended, queue # <<>>, Head(queue).op # "retire"
  PROVE  \E t \in Threads :
           /\ t = Head(queue).by /\ t # None /\ Asks(t, Head(queue)) /\ at[t] \in Waits
           /\ \A d \in Threads \ {t} : at[d] \notin Critical
<1>1. 1 \in DOMAIN queue /\ Head(queue) = queue[1]
  BY ItemsTyped
<1>2. queue[1].by # None
  BY <1>1 DEF Attended
<1>3. /\ queue[1].by \in Threads /\ at[queue[1].by] \in Waits /\ at[queue[1].by] \in Critical
      /\ Asks(queue[1].by, queue[1])
  BY <1>1, <1>2, Owners DEF Books, QueueInv
<1> QED
  BY <1>1, <1>2, <1>3, Alone DEF TypeInv

LEMMA FinishServed ==
  ASSUME TypeInv, Attended, queue # <<>>, NEW r, Finish(r)
  PROVE  Served'
<1>1. \A i \in DOMAIN queue' : i + 1 \in DOMAIN queue /\ queue'[i] = queue[i + 1]
  BY Shifted DEF Finish
<1> QED
  BY <1>1 DEF Served, Attended

LEMMA OwnerPrompt ==
  ASSUME TypeInv, Books, Wanted, PromptInv, Own
  PROVE  PromptInv'
<1>1. UNCHANGED <<at, job, itf, cfg, error>> /\ slot \in [Threads -> {"none", "waiting", "ok", "failed"}]
  BY DEF Own, RunStart, RunClose, RunRetune, RunRetire, settings, threads, TypeInv, ThreadsFit
<1>2. CASE RunStart
  <2>1. queue # <<>> /\ Head(queue).op = "start" /\ UNCHANGED <<parked, chases, retired>>
    BY <1>2 DEF RunStart, Heads, outside
  <2>2. PICK r \in {"ok", "failed"} : Finish(r)
    BY <1>2 DEF RunStart
  <2>3. PICK t \in Threads : /\ t = Head(queue).by /\ t # None /\ Asks(t, Head(queue))
                             /\ at[t] \in Waits
                             /\ \A d \in Threads \ {t} : at[d] \notin Critical
    BY <2>1, HeadAsked DEF PromptInv
  <2>4. slot'[t] = r /\ \A d \in Threads \ {t} : slot'[d] = slot[d]
    BY <1>1, <2>2, <2>3 DEF Finish
  <2>5. Attended'
    <3>1. Served'
      BY <2>1, <2>2, FinishServed DEF PromptInv
    <3>2. ASSUME NEW d \in Threads, at'[d] = "arm" \/ (at'[d] = "starting" /\ slot'[d] = "waiting")
          PROVE  FALSE
      BY <1>1, <2>3, <2>4, <3>2 DEF Critical, Waits
    <3> QED
      BY <3>1, <3>2 DEF Served, Attended
  <2>6. at[t] = "retuning" => parked[itf] = job[t].seen
    BY <2>1, <2>3 DEF Asks
  <2>7. \A d \in Threads : at[d] = "retuning" => d = t
    BY <2>3 DEF Critical, Waits
  <2>8. Faithful'
    BY <1>1, <2>1, <2>6, <2>7 DEF PromptInv, Faithful
  <2> QED
    BY <2>5, <2>8 DEF PromptInv
<1>3. CASE RunClose
  <2>1. queue # <<>> /\ Head(queue).op = "close" /\ Finish("ok")
    BY <1>3 DEF RunClose, Heads
  <2>2. PICK t \in Threads : /\ t = Head(queue).by /\ t # None /\ Asks(t, Head(queue))
                             /\ at[t] \in Waits
                             /\ \A d \in Threads \ {t} : at[d] \notin Critical
    BY <2>1, HeadAsked DEF PromptInv
  <2>3. at[t] \in {"closing", "undo"}
    BY <2>1, <2>2 DEF Asks, Starts, Waits
  <2>4. \A d \in Threads : at'[d] \notin Rearm
    BY <1>1, <2>2, <2>3 DEF Critical, Waits, Rearm
  <2>5. itf' = None \/ error' # None
    BY <1>1, <2>3 DEF Wanted
  <2>6. Served'
    BY <2>1, FinishServed DEF PromptInv
  <2> QED
    BY <2>4, <2>5, <2>6 DEF PromptInv, Attended, Faithful, Served, Rearm
<1>4. CASE RunRetune
  <2>1. queue # <<>> /\ Head(queue).op = "retune" /\ UNCHANGED <<chases, retired>>
          /\ 1 \in DOMAIN queue /\ Head(queue) = queue[1]
    <3>1. queue # <<>> /\ Head(queue).op = "retune"
      BY <1>4 DEF RunRetune, Heads
    <3>2. 1 \in DOMAIN queue /\ Head(queue) = queue[1]
      BY <3>1, ItemsTyped
    <3> QED
      BY <1>4, <3>1, <3>2 DEF RunRetune, outside
  <2>2. PICK t \in Threads : /\ t = Head(queue).by /\ t # None /\ Asks(t, Head(queue))
                             /\ at[t] \in Waits
                             /\ \A d \in Threads \ {t} : at[d] \notin Critical
    BY <2>1, HeadAsked DEF PromptInv
  <2>3. /\ at[t] = "retuning" /\ slot[t] = "waiting"
        /\ Head(queue).unit = itf /\ Head(queue).hz = job[t].seen
    BY <2>1, <2>2 DEF Asks, Starts, Waits
  <2>4. \A d \in Threads : at'[d] \notin Rearm
    BY <1>1, <2>2, <2>3 DEF Critical, Waits, Rearm
  <2>5. \A d \in Threads : at'[d] = "retuning" => d = t
    BY <1>1, <2>2 DEF Critical, Waits
  <2>6. Served' /\ (slot'[t] = "ok" => parked'[itf'] = job'[t].seen)
    <3>1. CASE Finish("ok") /\ parked[Head(queue).unit] = Head(queue).hz /\ UNCHANGED parked
      BY <1>1, <2>1, <2>3, <3>1, FinishServed DEF PromptInv
    <3>2. CASE UNCHANGED slot /\ queue' = [queue EXCEPT ![1].op = "start"]
      <4>1. DOMAIN queue' = DOMAIN queue /\ queue'[1].by = queue[1].by
              /\ \A i \in DOMAIN queue : i # 1 => queue'[i] = queue[i]
        <5>1. queue[1] \in Items
          BY <2>1, ItemsTyped
        <5> QED
          BY <2>1, <3>2, <5>1, ItemsTyped DEF Items
      <4>2. Served'
        BY <2>1, <2>2, <4>1 DEF Served, PromptInv, Attended
      <4> QED
        BY <2>3, <3>2, <4>2
    <3> QED
      BY <1>4, <3>1, <3>2 DEF RunRetune
  <2>7. Attended'
    BY <2>4, <2>6 DEF Attended, Served, Rearm
  <2>8. Faithful'
    <3>1. itf # None /\ error = None /\ ~retired => chases[itf] = cfg.follow
      <4>1. \A d \in Threads : at[d] \notin Rearm
        BY <1>1, <2>4
      <4> QED
        BY <4>1 DEF PromptInv, Faithful, Rearm
    <3>2. at'[t] = "retuning"
      BY <1>1, <2>3
    <3> QED
      BY <1>1, <2>1, <2>4, <2>5, <2>6, <3>1, <3>2 DEF Faithful, Rearm
  <2> QED
    BY <2>7, <2>8 DEF PromptInv
<1>5. CASE RunRetire
  <2>1. /\ retired' /\ queue' = <<>> /\ \A u \in Units : ~On(u)'
        /\ UNCHANGED <<parked, chases>>
    BY <1>5 DEF RunRetire, TypeInv, StoresFit, On
  <2> QED
    BY <1>1, <2>1 DEF PromptInv, Attended, Faithful
<1> QED
  BY <1>2, <1>3, <1>4, <1>5 DEF Own

LEMMA WorldPrompt ==
  ASSUME TypeInv, Books, PromptInv, Shutdown \/ Retire \/ MoveLink \/ \E u \in Units : Die(u)
  PROVE  PromptInv'
<1>0. Main \in Threads
  BY DEF Threads
<1>1. CASE Shutdown
  BY <1>0, <1>1, PromptOutside DEF Shutdown, Goto, settings, work, outside, Rearm
<1>2. CASE Retire
  <2>1. /\ at'[Main] = "done" /\ at[Main] = "retire"
        /\ \A d \in Threads \ {Main} : at'[d] = at[d]
        /\ UNCHANGED <<job, slot, itf, cfg, error, retired, parked, chases, proc>>
    BY <1>0, <1>2, Moved DEF Retire, Goto, Become, TypeInv, ThreadsFit, unitVars, outside, settings
  <2>2. Served'
    <3>1. CASE retired
      BY <1>2, <3>1 DEF Retire, Queued, Served
    <3>2. CASE ~retired
      <4> DEFINE x == [op |-> "retire", unit |-> None, hz |-> None, by |-> None]
      <4>1. queue' = Append(queue, x) /\ x.op = "retire"
        BY <1>2, <3>2 DEF Retire, Queued
      <4> HIDE DEF x
      <4>2. \A i \in DOMAIN queue' : queue'[i] = x \/ (i \in DOMAIN queue /\ queue'[i] = queue[i])
        BY <4>1, ItemsTyped
      <4> QED
        BY <4>1, <4>2 DEF Served, PromptInv, Attended
    <3> QED
      BY <3>1, <3>2
  <2>3. \A d \in Threads : (at'[d] # "done" => at'[d] = at[d]) /\ (at[d] # "retire" => at'[d] = at[d])
    BY <2>1
  <2>4. Attended'
    BY <2>1, <2>2, <2>3 DEF PromptInv, Attended, Served, On
  <2>5. Faithful'
    BY <2>1, <2>3 DEF PromptInv, Faithful
  <2> QED
    BY <2>4, <2>5 DEF PromptInv
<1>3. CASE MoveLink
  BY <1>3 DEF MoveLink, settings, work, unitVars, threads, PromptInv, Attended, Faithful, On
<1>4. ASSUME NEW x \in Units, Die(x) PROVE PromptInv'
  <2>1. /\ \A u \in Units : On(u)' => On(u)
        /\ UNCHANGED <<queue, slot, at, job, itf, cfg, error, retired, parked, chases>>
    BY <1>4 DEF Die, settings, work, threads, outside, TypeInv, StoresFit, On
  <2> QED
    BY <2>1 DEF PromptInv, Attended, Faithful
<1> QED
  BY <1>1, <1>2, <1>3, <1>4

LEMMA PromptStep ==
  ASSUME JammerInv, PromptInv, "slow" \notin Faults, [Next]_vars
  PROVE  PromptInv'
<1>0. TypeInv /\ Books /\ Wanted
  BY DEF JammerInv
<1>1. ASSUME NEW c \in Callers, Operate(c) PROVE PromptInv'
  BY <1>0, <1>1, QuietPrompt DEF Operate
<1>2. ASSUME NEW c \in Callers \cup {Main}, Take(c) PROVE PromptInv'
  BY <1>0, <1>2, QuietPrompt, StepsPrompt DEF Take
<1>3. ASSUME NEW c \in Callers \cup {Main}, Serve(c) PROVE PromptInv'
  BY <1>0, <1>3, QuietPrompt, StepsPrompt, ClosePrompt, ArmPrompt, StartingPrompt DEF Serve
<1>4. ASSUME NEW f \in Followers, Follow(f) PROVE PromptInv'
  BY <1>0, <1>4, FollowersPrompt
<1>5. CASE Own
  BY <1>0, <1>5, OwnerPrompt
<1>6. CASE Shutdown \/ Retire \/ MoveLink \/ \E u \in Units : Die(u)
  BY <1>0, <1>6, WorldPrompt
<1>7. CASE UNCHANGED vars
  BY <1>7 DEF vars, PromptInv, Attended, Faithful, On
<1> QED
  BY <1>1, <1>2, <1>3, <1>4, <1>5, <1>6, <1>7 DEF Next

(* With an owner that answers in time nothing is left behind in its queue, and *)
(* the instrument's parameters are its transmitter's (_arm, _follow).          *)
THEOREM PromptInvariant ==
  ASSUME "slow" \notin Faults
  PROVE  Spec => []PromptInv
<1>1. Init => PromptInv
  <2> SUFFICES ASSUME Init PROVE PromptInv
    OBVIOUS
  <2>1. /\ queue = <<>> /\ itf = None
        /\ \A t \in Threads : at[t] \in {"off", "idle"}
    BY DEF Init
  <2> QED
    BY <2>1 DEF PromptInv, Attended, Faithful
<1>2. ASSUME JammerInv, PromptInv, [Next]_vars PROVE PromptInv'
  BY <1>2, PromptStep
<1> QED
  BY <1>1, <1>2, JammerInvariant, PTL DEF Spec

(* With an owner that answers in time, no start finds the HackRF taken by      *)
(* another transmitter of the daemon's.                                        *)
THEOREM Uncontended ==
  ASSUME "slow" \notin Faults
  PROVE  Spec => []NeverContends
<1>1. ASSUME JammerInv, PromptInv PROVE NeverContends
  <2> SUFFICES ASSUME Heads("start"), NEW v \in Units \ {Head(queue).unit}, On(v) PROVE FALSE
    BY DEF NeverContends, Claimed
  <2>0. TypeInv /\ Books /\ Attended /\ queue # <<>> /\ Head(queue).op = "start"
    BY <1>1 DEF JammerInv, PromptInv, Heads
  <2>1. PICK t \in Threads : /\ t = Head(queue).by /\ t # None /\ Asks(t, Head(queue))
                             /\ at[t] \in Waits
                             /\ \A d \in Threads \ {t} : at[d] \notin Critical
    BY <2>0, HeadAsked
  <2>2. at[t] # "starting"
    BY <2>0, <2>1 DEF Asks, Attended
  <2>3. at[t] = "retuning" /\ Head(queue).unit = itf
    BY <2>0, <2>1, <2>2 DEF Asks, Waits
  <2>4. \A d \in Threads : at[d] # "starting"
    BY <2>1, <2>2 DEF Critical, Waits
  <2>5. PICK i \in DOMAIN queue : queue[i].op = "close" /\ queue[i].unit = v
    BY <2>0, <2>3, <2>4 DEF Books, Tended, NoOrphanTransmitter
  <2>6. 1 \in DOMAIN queue /\ Head(queue) = queue[1] /\ i # 1
    BY <2>0, <2>5, ItemsTyped
  <2> QED
    BY <2>0, <2>1, <2>5, <2>6, Behind1 DEF Books
<1> QED
  BY <1>1, JammerInvariant, PromptInvariant, PTL

(* With an owner that answers in time, the jammer's report between commands is *)
(* where the transmitter is and whether it follows.                            *)
THEOREM ReportedTruly ==
  ASSUME "slow" \notin Faults
  PROVE  Spec => []ParkedWhereTold
<1>1. ASSUME JammerInv, PromptInv PROVE ParkedWhereTold
  <2> SUFFICES ASSUME Free, Armed, error = None
               PROVE  parked[itf] = cfg.hz /\ chases[itf] = cfg.follow
    BY DEF ParkedWhereTold
  <2>1. \A t \in Threads : at[t] \notin Critical
    BY <1>1, NobodyInside DEF JammerInv, TypeInv
  <2>2. \A t \in Threads : at[t] \notin Rearm \cup {"retuning"}
    BY <2>1 DEF Critical, Waits, Rearm
  <2>3. itf # None /\ ~retired
    BY <1>1 DEF Armed, JammerInv, Books, QueueInv, TypeInv, StoresFit
  <2> QED
    BY <1>1, <2>2, <2>3 DEF PromptInv, Faithful, Rearm
<1> QED
  BY <1>1, JammerInvariant, PromptInvariant, PTL
===============================================================================
