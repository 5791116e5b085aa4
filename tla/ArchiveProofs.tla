----------------------------- MODULE ArchiveProofs ----------------------------
(* What holds of the archive for any number of experiments, agents, consoles   *)
(* and rows, when one thread changes experiments and no slug that was given up *)
(* is asked for again.                                                         *)
EXTENDS Archive, TLAPS

(* One operator: of all threads, at most one asks for changes.                 *)
Changer(t) == \E want \in Wants[t] : want.op \in Changes
OneOperator == ~Reuse /\ \A t, u \in Threads : Changer(t) /\ Changer(u) => t = u

-------------------------------------------------------------------------------
Jobs == [op : Ops, name : Names \cup {None}, to : Names \cup {None}, ledger : Ledgers \cup {None}]
Places == {"idle", "seeking", "moving", "opening", "adopting", "removing", "appending", "emitting"}

(* Where a thread may stand, and what its locals are good for there.           *)
Fits(p, j) ==
  /\ p = "seeking" => j.op \in Changes \cup {"poll"}
  /\ p = "moving" => j.op = "rename"
  /\ p = "opening" => j.op \in Changes \cup {"poll"}
  /\ p = "adopting" => j.op \in {"start", "switch", "rename"} /\ j.ledger \in Ledgers
  /\ p = "removing" => j.op = "delete"
  /\ p \in {"appending", "emitting"} => j.op = "run" /\ j.ledger \in Ledgers
  /\ p = "idle" => j.op = "poll"
  /\ p # "idle" /\ j.op # "run" => j.name \in Names
  /\ j.op = "rename" => j.to \in Names

Databases == 1 .. Len(rows)

Data ==
  /\ dir \in [Names -> Nat \cup {None}]
  /\ rows \in Seq(Nat)
  /\ here \in Ledgers \cup {None}
  /\ spent \subseteq Names
  /\ at \in [Threads -> Places] /\ job \in [Threads -> Jobs]
  /\ \A t \in Threads : Fits(at[t], job[t])
  /\ \A t \in Threads : job[t].op \in Changes => Changer(t)
  /\ \A t \in Threads : at[t] \in {"appending", "emitting"} => Selected

(* The disk: every database stands in one directory, or was deleted, and none  *)
(* that somebody writes into is unknown.                                       *)
Disk ==
  /\ \A n \in Names : Exists(n) => dir[n] \in Databases /\ dir[n] \notin deleted
  /\ \A n, m \in Names : Exists(n) /\ dir[n] = dir[m] => n = m
  /\ \A d \in Databases : d \in deleted \/ \E n \in Names : dir[n] = d
  /\ row \subseteq Databases /\ deleted \subseteq Databases
  /\ \A t \in Threads : at[t] \in {"appending", "emitting"} => job[t].ledger.db \in Databases

(* A directory without a database belongs to a name that was given up, or to   *)
(* the experiment being started; a poll that found a database either finds it  *)
(* again or its name was given up meanwhile.                                   *)
Leftovers ==
  /\ \A n \in Names : dir[n] = 0 =>
       n \in spent \/ \E t \in Threads : at[t] = "opening" /\ job[t].op = "start" /\ job[t].name = n
  /\ \A t \in Threads : at[t] = "opening" /\ job[t].op = "poll" =>
       Exists(job[t].name) \/ job[t].name \in spent

(* What the thread that changes experiments can rely on, place by place.       *)
Rely(t) ==
  LET j == job[t] IN
  /\ at[t] = "seeking" /\ j.op = "start" => j.name \notin spent
  /\ at[t] = "seeking" /\ j.op = "rename" => j.to \notin spent
  /\ at[t] \in {"seeking", "moving", "opening", "adopting"} /\ j.op = "rename" =>
       Current(j.name)
  /\ at[t] = "moving" => j.to = j.name \/ (dir[j.to] = None /\ j.to \notin spent)
  /\ at[t] = "opening" /\ j.op = "rename" => dir[j.to] = here.db
  /\ at[t] \in {"opening", "adopting"} /\ j.op = "rename" =>
       dir[j.name] = here.db \/ j.name \in spent
  /\ at[t] # "idle" /\ j.op = "delete" => ~Current(j.name)
  /\ at[t] = "adopting" => dir[j.ledger.name] = j.ledger.db /\ j.ledger.db \in row

Operation ==
  /\ \A t \in Threads : Rely(t)
  /\ CurrentIsThere
  /\ Selected => here.db \in row

ArchiveInv == Data /\ Disk /\ Leftovers /\ Operation

-------------------------------------------------------------------------------
(* Constants.                                                                  *)
LEMMA NoneApart == None \notin Names /\ None \notin Nat /\ None \notin Ledgers
BY ArchiveAssumption

LEMMA NoJobFits == NoJob \in Jobs /\ Fits("idle", NoJob) /\ NoJob.op \notin Changes
BY DEF NoJob, Jobs, Fits, Ops, Changes

(* The stores and the threads, apart.                                          *)
Stores ==
  /\ dir \in [Names -> Nat \cup {None}]
  /\ rows \in Seq(Nat)
  /\ here \in Ledgers \cup {None}
  /\ spent \subseteq Names

Stands(t) ==
  /\ Fits(at[t], job[t])
  /\ job[t].op \in Changes => Changer(t)
  /\ at[t] \in {"appending", "emitting"} => Selected

Crew ==
  /\ at \in [Threads -> Places] /\ job \in [Threads -> Jobs]
  /\ \A t \in Threads : Stands(t)

LEMMA DataParts == Data <=> Stores /\ Crew
BY DEF Data, Stores, Crew, Stands

LEMMA DataNext == Data' <=> Stores' /\ Crew'
BY DataParts, PTL

(* One thread moves, the others stay where they are with what they hold.       *)
Moves(t, p, j) == at' = [at EXCEPT ![t] = p] /\ job' = [job EXCEPT ![t] = j]

LEMMA MovesOne ==
  ASSUME Data, NEW t \in Threads, NEW p, NEW j, Moves(t, p, j)
  PROVE  /\ at'[t] = p /\ job'[t] = j
         /\ \A u \in Threads \ {t} : (at'[u] = at[u]) /\ (job'[u] = job[u])
BY DEF Data, Moves

LEMMA CrewMoves ==
  ASSUME Data, NEW t \in Threads, NEW p \in Places, NEW j \in Jobs, Moves(t, p, j),
         Fits(p, j), j.op \in Changes => Changer(t),
         Selected => Selected', p \in {"appending", "emitting"} => Selected'
  PROVE  Crew'
<1>1. at' \in [Threads -> Places] /\ job' \in [Threads -> Jobs]
  BY DEF Data, Moves
<1>2. at'[t] = p /\ job'[t] = j /\ Stands(t)'
  BY MovesOne DEF Stands
<1>3. ASSUME NEW u \in Threads \ {t}
      PROVE  Stands(u)'
  <2>1. Stands(u) /\ at'[u] = at[u] /\ job'[u] = job[u]
    BY DataParts, MovesOne DEF Crew
  <2> QED
    BY <2>1 DEF Stands
<1> QED
  BY <1>1, <1>2, <1>3 DEF Crew

LEMMA GotoMoves ==
  ASSUME Data, NEW t \in Threads, NEW p, Goto(t, p)
  PROVE  Moves(t, p, job[t])
BY DEF Goto, Moves, Data

LEMMA FinishMoves ==
  ASSUME NEW t \in Threads, Finish(t)
  PROVE  Moves(t, "idle", NoJob)
BY DEF Finish, Moves

LEMMA FinishCrew ==
  ASSUME Data, NEW t \in Threads, Finish(t), Selected => Selected'
  PROVE  Crew'
BY FinishMoves, NoJobFits, CrewMoves DEF Places

LEMMA GotoCrew ==
  ASSUME Data, NEW t \in Threads, NEW p \in Places, Goto(t, p), Fits(p, job[t]),
         Selected => Selected', p \in {"appending", "emitting"} => Selected'
  PROVE  Crew'
<1>1. job[t] \in Jobs /\ (job[t].op \in Changes => Changer(t))
  BY DEF Data
<1> QED
  BY <1>1, GotoMoves, CrewMoves

(* What a thread is doing when it begins.                                      *)
Started(want) == IF want.op = "run" THEN "appending" ELSE "seeking"

LEMMA Requested ==
  ASSUME Data, NEW t \in Threads, NEW want \in Wants[t], Ask(t, want)
  PROVE  /\ Request(want) \in Jobs /\ Request(want).op = want.op
         /\ Fits(Started(want), Request(want))
         /\ want.op \in Changes => Changer(t) /\ want.name \in Names
         /\ want.op = "run" => Selected /\ Request(want).ledger = here
         /\ want.op = "rename" => /\ Selected /\ Request(want).name = here.name
                                  /\ Request(want).to = want.name
         /\ want.op \in {"start", "delete", "switch"} => Request(want).name = want.name
         /\ Moves(t, Started(want), Request(want))
<1>1. /\ want \in [op : Ops, name : Names \cup {None}]
      /\ want.op \in Changes => want.name \in Names
  BY ArchiveAssumption
<1>2. Selected => here \in Ledgers /\ here.name \in Names
  BY DEF Data, Selected, Ledgers
<1>3. want.op \in {"run", "rename", "poll"} => Selected
  BY DEF Ask
<1>4. CASE want.op = "rename"
  BY <1>1, <1>2, <1>3, <1>4
  DEF Ask, Begin, Request, Moves, Started, Jobs, Fits, Changer, Changes, Ops
<1>5. CASE want.op = "poll"
  BY <1>1, <1>2, <1>3, <1>5
  DEF Ask, Begin, Request, NoJob, Moves, Started, Jobs, Fits, Changer, Changes, Ops
<1>6. CASE want.op = "run"
  BY <1>1, <1>2, <1>3, <1>6
  DEF Ask, Begin, Request, NoJob, Moves, Started, Jobs, Fits, Changer, Changes, Ops
<1>7. CASE want.op \in {"start", "switch", "delete"}
  BY <1>1, <1>7
  DEF Ask, Begin, Request, NoJob, Moves, Started, Jobs, Fits, Changer, Changes, Ops
<1> QED
  BY <1>1, <1>4, <1>5, <1>6, <1>7 DEF Ops, Changes

-------------------------------------------------------------------------------
(* The disk, by the ways in which it changes.                                  *)
LEMMA RowsGrow ==
  ASSUME rows \in Seq(Nat)
  PROVE  /\ Append(rows, 0) \in Seq(Nat) /\ Len(rows) \in Nat
         /\ Len(Append(rows, 0)) = Len(rows) + 1
         /\ \A d \in 1 .. Len(rows) : Append(rows, 0)[d] = rows[d]
         /\ Append(rows, 0)[Len(rows) + 1] = 0
OBVIOUS

LEMMA OpenStores ==
  ASSUME Data, NEW n \in Names, Open(n)
  PROVE  /\ dir' \in [Names -> Nat \cup {None}] /\ rows' \in Seq(Nat)
         /\ \A m \in Names \ {n} : dir'[m] = dir[m]
         /\ dir'[n] = Opened(n) /\ Opened(n) \in Nat
         /\ Exists(n) => dir' = dir /\ rows' = rows /\ Opened(n) = dir[n]
         /\ ~Exists(n) => Len(rows') = Len(rows) + 1 /\ Opened(n) = Len(rows) + 1
                          /\ rows' = Append(rows, 0)
<1>1. rows \in Seq(Nat) /\ dir \in [Names -> Nat \cup {None}] /\ Len(rows) \in Nat
  BY DEF Data
<1>2. CASE Exists(n)
  <2>1. dir[n] \in Nat
    BY <1>1, <1>2 DEF Exists
  <2>2. dir' = dir
    BY <1>1, <1>2 DEF Open, Opened
  <2> QED
    BY <1>1, <1>2, <2>1, <2>2 DEF Open, Opened
<1>3. CASE ~Exists(n)
  BY <1>1, <1>3, RowsGrow DEF Open, Opened
<1> QED
  BY <1>2, <1>3

LEMMA MadeStores ==
  ASSUME Data, NEW n \in Names
  PROVE  /\ MadeDir(n) \in [Names -> Nat \cup {None}]
         /\ \A m \in Names \ {n} : MadeDir(n)[m] = dir[m]
         /\ There(n) => MadeDir(n) = dir
         /\ ~There(n) => MadeDir(n)[n] = 0
BY DEF Data, MadeDir

LEMMA StoresAsk ==
  ASSUME Data, NEW t \in Threads, NEW want \in Wants[t], Ask(t, want)
  PROVE  Data'
<1>1. Stores'
  BY DEF Ask, Begin, Data, Stores, disk, history
<1>2. Started(want) \in Places /\ UNCHANGED here /\ Request(want).op = want.op
  BY Requested DEF Started, Places, Ask, Begin
<1>3. Crew'
  BY <1>2, Requested, CrewMoves DEF Selected, Started
<1> QED
  BY <1>1, <1>3, DataNext

LEMMA StoresSeek ==
  ASSUME Data, NEW t \in Threads, Seek(t)
  PROVE  Data'
<1>1. /\ at[t] = "seeking" /\ Fits(at[t], job[t]) /\ job[t].name \in Names
      /\ UNCHANGED here
  BY DEF Seek, Data, Fits, Changes
<1>2. Stores'
  BY <1>1, MadeStores DEF Seek, Data, Stores, history
<1>3. Crew'
  <2>1. CASE Finish(t)
    BY <1>1, <2>1, FinishCrew DEF Selected
  <2>2. CASE Goto(t, IF job[t].op = "rename" THEN "moving" ELSE "opening")
    BY <1>1, <2>2, GotoCrew DEF Selected, Fits, Places
  <2> QED
    BY <2>1, <2>2 DEF Seek
<1> QED
  BY <1>2, <1>3, DataNext

LEMMA StoresMove ==
  ASSUME Data, NEW t \in Threads, Move(t)
  PROVE  Data'
<1>1. /\ at[t] = "moving" /\ Fits(at[t], job[t]) /\ job[t].name \in Names /\ job[t].to \in Names
      /\ UNCHANGED here
  BY DEF Move, Data, Fits
<1>2. Stores'
  BY <1>1 DEF Move, Data, Stores
<1>3. Crew'
  <2>1. CASE Finish(t)
    BY <1>1, <2>1, FinishCrew DEF Selected
  <2>2. CASE Goto(t, "opening")
    BY <1>1, <2>2, GotoCrew DEF Selected, Fits, Places, Changes
  <2> QED
    BY <2>1, <2>2 DEF Move
<1> QED
  BY <1>2, <1>3, DataNext

(* The slug a start, a switch or a rename opens.                               *)
Slug(t) == IF job[t].op = "rename" THEN job[t].to ELSE job[t].name

LEMMA Opening ==
  ASSUME Data, NEW t \in Threads, OpenLedger(t)
  PROVE  /\ Slug(t) \in Names /\ Open(Slug(t)) /\ row' = row \cup {Opened(Slug(t))}
         /\ Moves(t, "adopting", [job[t] EXCEPT !.ledger = [name |-> Slug(t), db |-> Opened(Slug(t))]])
BY DEF OpenLedger, Slug, Data, Fits, Moves, Jobs

LEMMA StoresOpenLedger ==
  ASSUME Data, NEW t \in Threads, OpenLedger(t)
  PROVE  Data'
<1>1. /\ job[t] \in Jobs /\ Fits(at[t], job[t]) /\ at[t] = "opening" /\ UNCHANGED here
      /\ job[t].op \in {"start", "switch", "rename"} /\ Changer(t) /\ UNCHANGED <<writers, history>>
  BY DEF OpenLedger, Data, Changes
<1> DEFINE l == [name |-> Slug(t), db |-> Opened(Slug(t))]
           j == [job[t] EXCEPT !.ledger = l]
<1>2. Slug(t) \in Names /\ Open(Slug(t)) /\ Moves(t, "adopting", j)
  BY Opening
<1>3. l \in Ledgers
  BY <1>2, OpenStores DEF Ledgers
<1> HIDE DEF l
<1>4. j \in Jobs /\ j.op = job[t].op /\ j.name = job[t].name /\ j.to = job[t].to /\ j.ledger = l
  BY <1>1, <1>3 DEF Jobs
<1> HIDE DEF j
<1>5. Fits("adopting", j)
  BY <1>1, <1>3, <1>4 DEF Fits, Changes
<1>6. Crew'
  BY <1>1, <1>2, <1>4, <1>5, CrewMoves DEF Selected, Places
<1>7. Stores'
  BY <1>1, <1>2, OpenStores DEF Data, Stores, history
<1> QED
  BY <1>6, <1>7, DataNext

LEMMA StoresOther ==
  ASSUME Data, NEW t \in Threads,
         Describe(t) \/ Poll(t) \/ Adopt(t) \/ Remove(t)
  PROVE  Data'
<1>0. Fits(at[t], job[t])
  BY DEF Data
<1>1. CASE Describe(t)
  <2>1. job[t].name \in Names /\ Fits("removing", job[t]) /\ UNCHANGED here
    BY <1>0, <1>1 DEF Describe, Fits
  <2>2. Crew'
    BY <1>1, <2>1, GotoCrew DEF Describe, Selected, Places
  <2>3. Stores'
    BY <1>1, <2>1, OpenStores DEF Describe, Data, Stores, history
  <2> QED
    BY <2>2, <2>3, DataNext
<1>2. CASE Poll(t)
  <2>1. job[t].name \in Names /\ UNCHANGED here
    BY <1>0, <1>2 DEF Poll, Fits
  <2>2. Crew'
    BY <1>2, <2>1, FinishCrew DEF Poll, Selected
  <2>3. Stores'
    BY <1>2, <2>1, OpenStores DEF Poll, Data, Stores, history
  <2> QED
    BY <2>2, <2>3, DataNext
<1>3. CASE Adopt(t)
  <2>1. here' \in Ledgers
    BY <1>0, <1>3 DEF Adopt, Fits
  <2>2. Crew'
    BY <1>3, <2>1, FinishCrew, NoneApart DEF Adopt, Selected
  <2>3. Stores'
    BY <1>3, <2>1 DEF Adopt, Data, Stores, disk, history
  <2> QED
    BY <2>2, <2>3, DataNext
<1>4. CASE Remove(t)
  <2>1. job[t].name \in Names /\ UNCHANGED here
    BY <1>0, <1>4 DEF Remove, Fits
  <2>2. Crew'
    BY <1>4, <2>1, FinishCrew DEF Remove, Selected
  <2>3. Stores'
    BY <1>4, <2>1 DEF Remove, Data, Stores
  <2> QED
    BY <2>2, <2>3, DataNext
<1> QED
  BY <1>1, <1>2, <1>3, <1>4

LEMMA StoresRun ==
  ASSUME Data, NEW t \in Threads, AppendRow(t) \/ Emit(t)
  PROVE  Data'
<1>0. Fits(at[t], job[t]) /\ (at[t] \in {"appending", "emitting"} => Selected)
  BY DEF Data
<1>1. CASE AppendRow(t)
  <2>1. Stores'
    BY <1>1 DEF AppendRow, Data, Stores, history
  <2>2. CASE Goto(t, "emitting")
    <3>1. Fits("emitting", job[t]) /\ Selected /\ UNCHANGED here
      BY <1>0, <1>1 DEF AppendRow, Fits
    <3>2. Crew'
      BY <2>2, <3>1, GotoCrew DEF Selected, Places
    <3> QED
      BY <2>1, <3>2, DataNext
  <2>3. CASE Finish(t)
    <3>1. Crew'
      BY <1>1, <2>3, FinishCrew DEF AppendRow, Selected
    <3> QED
      BY <2>1, <3>1, DataNext
  <2> QED
    BY <1>1, <2>2, <2>3 DEF AppendRow
<1>2. CASE Emit(t)
  <2>1. here.name \in Names /\ UNCHANGED here
    BY <1>0, <1>2 DEF Emit, Data, Selected, Ledgers
  <2>2. Crew'
    BY <1>2, <2>1, FinishCrew DEF Emit, Selected
  <2>3. Stores'
    BY <1>2, <2>1, MadeStores DEF Emit, Data, Stores, history
  <2> QED
    BY <2>2, <2>3, DataNext
<1> QED
  BY <1>1, <1>2

LEMMA DataKept ==
  ASSUME Data, [Next]_vars
  PROVE  Data'
<1>1. CASE UNCHANGED vars
  <2>1. UNCHANGED <<dir, rows, here, spent, at, job>>
    BY <1>1 DEF vars, disk, history
  <2> QED
    BY <2>1 DEF Data, Selected
<1> QED
  BY <1>1, StoresAsk, StoresSeek, StoresMove, StoresOpenLedger, StoresOther, StoresRun
  DEF Next, Lifecycle, Run

-------------------------------------------------------------------------------
(* Where the databases stand.                                                  *)
Shelved ==
  /\ \A n \in Names : Exists(n) => dir[n] \in Databases /\ dir[n] \notin deleted
  /\ \A n, m \in Names : Exists(n) /\ dir[n] = dir[m] => n = m
  /\ \A d \in Databases : d \in deleted \/ \E n \in Names : dir[n] = d
  /\ row \subseteq Databases /\ deleted \subseteq Databases

Hands == \A t \in Threads : at[t] \in {"appending", "emitting"} => job[t].ledger.db \in Databases

LEMMA DiskParts == Disk <=> Shelved /\ Hands
BY DEF Disk, Shelved, Hands

LEMMA DiskNext == Disk' <=> Shelved' /\ Hands'
BY DiskParts, PTL

LEMMA ShelvedSame ==
  ASSUME Shelved, UNCHANGED <<dir, row, deleted>>, Len(rows') = Len(rows)
  PROVE  Shelved'
BY DEF Shelved, Exists, Databases

LEMMA ShelvedOpen ==
  ASSUME Data, Shelved, NEW n \in Names, Open(n), UNCHANGED deleted,
         row' = row \/ row' = row \cup {Opened(n)}
  PROVE  Shelved' /\ Databases \subseteq Databases'
<1>1. Len(rows) \in Nat
  BY DEF Data
<1>2. CASE Exists(n)
  <2>1. dir' = dir /\ rows' = rows /\ Opened(n) \in Databases
    BY <1>2, OpenStores DEF Shelved
  <2> QED
    BY <2>1 DEF Shelved, Exists, Databases
<1>3. CASE ~Exists(n)
  <2> DEFINE e == Len(rows) + 1
  <2>1. /\ Len(rows') = e /\ dir'[n] = e /\ Opened(n) = e
        /\ \A m \in Names \ {n} : dir'[m] = dir[m]
    BY <1>3, OpenStores
  <2>2. Databases' = Databases \cup {e} /\ e \notin Databases /\ 0 \notin Databases /\ e # 0
    BY <1>1, <2>1 DEF Databases
  <2> HIDE DEF e
  <2>3. e \in Nat /\ e # None
    BY <1>1, NoneApart DEF e
  <2>4. \A m \in Names : Exists(m)' => dir'[m] \in Databases' /\ dir'[m] \notin deleted'
    BY <2>1, <2>2 DEF Shelved, Exists
  <2>5. \A m \in Names \ {n} : Exists(m) => dir[m] # e
    BY <2>2 DEF Shelved
  <2>6. \A m \in Names \ {n} : dir'[m] # e
    BY <2>1, <2>2, <2>3, <2>5 DEF Exists
  <2>7. \A k, m \in Names : Exists(k)' /\ dir'[k] = dir'[m] => k = m
    BY <2>1, <2>6 DEF Shelved, Exists
  <2>8. \A d \in Databases : d \in deleted' \/ \E m \in Names : dir'[m] = d
    <3>1. ASSUME NEW d \in Databases, d \notin deleted
          PROVE  \E m \in Names : dir'[m] = d
      <4>1. PICK m \in Names : dir[m] = d
        BY <3>1 DEF Shelved
      <4>2. d # 0 /\ d # None
        BY <1>1, NoneApart DEF Databases
      <4>3. m # n
        BY <1>3, <4>1, <4>2 DEF Exists
      <4> QED
        BY <2>1, <4>1, <4>3
    <3> QED
      BY <3>1
  <2>9. row' \subseteq Databases' /\ deleted' \subseteq Databases'
    BY <2>1, <2>2 DEF Shelved
  <2> QED
    BY <2>1, <2>2, <2>4, <2>7, <2>8, <2>9 DEF Shelved
<1> QED
  BY <1>2, <1>3

LEMMA ShelvedMade ==
  ASSUME Data, Shelved, NEW n \in Names, dir' = MadeDir(n), UNCHANGED <<rows, row, deleted>>
  PROVE  Shelved'
<1>1. CASE There(n)
  BY <1>1, MadeStores, ShelvedSame
<1>2. CASE ~There(n)
  <2>1. dir'[n] = 0 /\ dir[n] = None /\ \A m \in Names \ {n} : dir'[m] = dir[m]
    BY <1>2, MadeStores DEF There
  <2>2. \A m \in Names : (Exists(m)' <=> Exists(m)) /\ (Exists(m) => dir'[m] = dir[m])
    BY <2>1 DEF Exists
  <2>3. Databases' = Databases /\ None \notin Databases /\ 0 \notin Databases
    BY NoneApart DEF Databases, Data
  <2>4. \A d \in Databases, m \in Names : dir[m] = d => dir'[m] = d
    BY <2>1, <2>3
  <2>5. \A k, m \in Names : Exists(k)' /\ dir'[k] = dir'[m] => k = m
    BY <2>1, <2>2 DEF Shelved, Exists
  <2> QED
    BY <2>2, <2>3, <2>4, <2>5 DEF Shelved
<1> QED
  BY <1>1, <1>2

(* A rename takes what stands at the old name to a name where nothing is.      *)
LEMMA ShelvedMoved ==
  ASSUME Data, Shelved, NEW old \in Names, NEW new \in Names, old # new,
         Exists(old), ~There(new),
         dir' = [dir EXCEPT ![old] = None, ![new] = dir[old]],
         UNCHANGED <<rows, row, deleted>>
  PROVE  Shelved'
<1>1. /\ dir'[old] = None /\ dir'[new] = dir[old] /\ dir[new] = None
      /\ \A m \in Names \ {old, new} : dir'[m] = dir[m]
  BY DEF Data, There
<1>2. Databases' = Databases /\ None \notin Databases /\ 0 \notin Databases
  BY NoneApart DEF Databases, Data
<1>3. \A m \in Names : Exists(m)' => dir'[m] \in Databases' /\ dir'[m] \notin deleted'
  <2> SUFFICES ASSUME NEW m \in Names, Exists(m)'
               PROVE  dir'[m] \in Databases /\ dir'[m] \notin deleted
    BY <1>2
  <2>1. CASE m = new
    BY <1>1, <2>1 DEF Shelved
  <2>2. CASE m # new
    <3>1. dir'[m] = dir[m] /\ Exists(m)
      BY <1>1, <2>2 DEF Exists
    <3> QED
      BY <3>1 DEF Shelved
  <2> QED
    BY <2>1, <2>2
<1>4. \A k, m \in Names : Exists(k)' /\ dir'[k] = dir'[m] => k = m
  BY <1>1 DEF Shelved, Exists
<1>5. \A d \in Databases, m \in Names : dir[m] = d => \E k \in Names : dir'[k] = d
  BY <1>1, <1>2
<1> QED
  BY <1>2, <1>3, <1>4, <1>5 DEF Shelved

LEMMA ShelvedRemoved ==
  ASSUME Data, Shelved, NEW n \in Names, dir' = [dir EXCEPT ![n] = None],
         deleted' = IF Exists(n) THEN deleted \cup {dir[n]} ELSE deleted,
         UNCHANGED <<rows, row>>
  PROVE  Shelved'
<1>1. dir'[n] = None /\ \A m \in Names \ {n} : dir'[m] = dir[m]
  BY DEF Data
<1>2. Databases' = Databases /\ None \notin Databases /\ 0 \notin Databases
  BY NoneApart DEF Databases, Data
<1>3. \A m \in Names : Exists(m)' => m # n /\ Exists(m)
  BY <1>1 DEF Exists
<1>4. \A m \in Names : Exists(m)' => dir'[m] \in Databases' /\ dir'[m] \notin deleted'
  BY <1>1, <1>2, <1>3 DEF Shelved
<1>5. \A k, m \in Names : Exists(k)' /\ dir'[k] = dir'[m] => k = m
  BY <1>1 DEF Shelved, Exists
<1>6. \A d \in Databases : d \in deleted' \/ \E m \in Names : dir'[m] = d
  BY <1>1, <1>2 DEF Shelved, Exists
<1>7. deleted' \subseteq Databases'
  BY <1>2 DEF Shelved
<1> QED
  BY <1>2, <1>4, <1>5, <1>6, <1>7 DEF Shelved

(* The rows a thread is about to write go to a database that is known.         *)
LEMMA HandsMove ==
  ASSUME Data, Disk, NEW t \in Threads, NEW p, NEW j, Moves(t, p, j),
         Databases \subseteq Databases',
         p \in {"appending", "emitting"} => j.ledger.db \in Databases
  PROVE  Hands'
BY MovesOne DEF Disk, Hands

-------------------------------------------------------------------------------
(* What polls and late writers leave behind.                                   *)
Begins(p, j, n) == p = "opening" /\ j.op = "start" /\ j.name = n
Polls(p, j) == p = "opening" /\ j.op = "poll"

LEMMA LeftoversMove ==
  ASSUME Data, Leftovers, NEW t \in Threads, NEW p, NEW j, Moves(t, p, j), spent \subseteq spent',
         \A n \in Names : n \notin spent' /\ dir'[n] = 0 =>
           (dir[n] = 0 /\ ~Begins(at[t], job[t], n)) \/ Begins(p, j, n),
         \A n \in Names : Exists(n) => Exists(n)' \/ n \in spent',
         Polls(p, j) => Exists(j.name)' \/ j.name \in spent'
  PROVE  Leftovers'
<1>1. /\ at'[t] = p /\ job'[t] = j
      /\ \A u \in Threads \ {t} : (at'[u] = at[u]) /\ (job'[u] = job[u])
  BY MovesOne
<1>2. ASSUME NEW n \in Names, dir'[n] = 0, n \notin spent'
      PROVE  \E u \in Threads : Begins(at'[u], job'[u], n)
  <2>1. CASE Begins(p, j, n)
    BY <1>1, <2>1
  <2>2. CASE dir[n] = 0 /\ ~Begins(at[t], job[t], n)
    <3>1. PICK u \in Threads : Begins(at[u], job[u], n)
      BY <1>2, <2>2 DEF Leftovers, Begins
    <3>2. u # t
      BY <2>2, <3>1
    <3> QED
      BY <1>1, <3>1, <3>2
  <2> QED
    BY <1>2, <2>1, <2>2
<1>3. ASSUME NEW u \in Threads, Polls(at[u], job[u])'
      PROVE  (Exists(job[u].name) \/ job[u].name \in spent)'
  <2>1. CASE u = t
    BY <1>1, <1>3, <2>1 DEF Polls, Exists
  <2>2. CASE u # t
    <3>1. Polls(at[u], job[u]) /\ job'[u] = job[u] /\ job[u].name \in Names
      BY <1>1, <1>3, <2>2 DEF Polls, Data, Fits
    <3>2. PICK n \in Names : n = job[u].name
      BY <3>1
    <3>3. Exists(n) \/ n \in spent
      BY <3>1, <3>2 DEF Leftovers, Polls
    <3>4. Exists(n)' \/ n \in spent'
      BY <3>3
    <3> QED
      BY <3>1, <3>2, <3>4 DEF Exists
  <2> QED
    BY <2>1, <2>2
<1>4. \A n \in Names : dir'[n] = 0 =>
         n \in spent' \/ \E u \in Threads : at'[u] = "opening" /\ job'[u].op = "start" /\ job'[u].name = n
  BY <1>2 DEF Begins
<1>5. (\A u \in Threads : at[u] = "opening" /\ job[u].op = "poll" =>
         Exists(job[u].name) \/ job[u].name \in spent)'
  BY <1>3 DEF Polls
<1> QED
  BY <1>4, <1>5 DEF Leftovers

-------------------------------------------------------------------------------
(* What the operator relies on. A thread that changes nothing relies on        *)
(* nothing, and while one changes experiments no other does.                   *)
LEMMA RelyIdle ==
  \A u \in Threads : Data /\ job[u].op \notin Changes => Rely(u)
<1> SUFFICES ASSUME NEW u \in Threads, Data, job[u].op \notin Changes
             PROVE  Rely(u)
  OBVIOUS
<1>1. at[u] \notin {"moving", "adopting"} /\ job[u].op \notin {"start", "rename", "delete"}
  BY DEF Data, Fits, Changes
<1> QED
  BY <1>1 DEF Rely

LEMMA RelyIdleNext ==
  (\A u \in Threads : Data /\ job[u].op \notin Changes => Rely(u))'
BY RelyIdle, PTL

LEMMA OnlyOne ==
  ASSUME Data, OneOperator, NEW t \in Threads, Changer(t)
  PROVE  \A u \in Threads \ {t} : job[u].op \notin Changes
BY DEF Data, OneOperator

LEMMA OnlyOneNext ==
  ASSUME Data', OneOperator, NEW t \in Threads, Changer(t)
  PROVE  \A u \in Threads \ {t} : job'[u].op \notin Changes
<1>1. \A u \in Threads : job'[u].op \in Changes => Changer(u)
  BY DEF Data
<1> QED
  BY <1>1 DEF OneOperator

Settled == Selected => dir[here.name] = here.db
Between(t) == job[t].op = "rename" /\ at[t] \in {"opening", "adopting"}

LEMMA SettledUnless ==
  ASSUME Data, OneOperator, Operation, NEW t \in Threads, Changer(t), ~Between(t)
  PROVE  Settled
<1>1. ~Renaming
  BY OnlyOne DEF Renaming, Between, Changes
<1> QED
  BY <1>1 DEF Operation, CurrentIsThere, Settled

(* The experiment the session writes into has its directory, unless it is      *)
(* being renamed: then the old name was given up.                              *)
LEMMA HereIsThere ==
  ASSUME Data, Operation, Selected
  PROVE  /\ here \in Ledgers /\ here.name \in Names
         /\ dir[here.name] = here.db \/ here.name \in spent
<1>1. here \in Ledgers /\ here.name \in Names
  BY DEF Data, Selected, Ledgers
<1>2. CASE Renaming
  <2>1. PICK t \in Threads : Between(t)
    BY <1>2 DEF Renaming, Between
  <2>2. Current(job[t].name) /\ (dir[job[t].name] = here.db \/ job[t].name \in spent)
    BY <2>1 DEF Operation, Rely, Between
  <2> QED
    BY <1>1, <2>2 DEF Current
<1> QED
  BY <1>1, <1>2 DEF Operation, CurrentIsThere

LEMMA OperationOwn ==
  ASSUME Data', OneOperator, NEW t \in Threads, Changer(t), Rely(t)',
         ~Between(t)' => Settled', (Selected => here.db \in row)'
  PROVE  Operation'
<1>1. \A u \in Threads \ {t} : job'[u].op \notin Changes
  BY OnlyOneNext
<1>2. \A u \in Threads : Rely(u)'
  BY <1>1, RelyIdleNext
<1>3. ~Renaming' => ~Between(t)'
  BY DEF Renaming, Between
<1>4. CurrentIsThere'
  BY <1>3 DEF CurrentIsThere, Settled
<1> QED
  BY <1>2, <1>4 DEF Operation

(* What every step of another thread leaves alone.                             *)
Keeps ==
  /\ \A n \in Names : Exists(n) => dir'[n] = dir[n]
  /\ \A n \in Names : n \notin spent /\ dir[n] = None => dir'[n] = None
  /\ UNCHANGED <<row, here, spent>>

LEMMA OperationKept ==
  ASSUME Data, Data', Disk, Operation, NEW t \in Threads, NEW p, NEW j, Moves(t, p, j), Keeps,
         job[t].op \notin Changes, j.op \notin Changes
  PROVE  Operation'
<1>1. /\ at'[t] = p /\ job'[t] = j
      /\ \A u \in Threads \ {t} : (at'[u] = at[u]) /\ (job'[u] = job[u])
  BY MovesOne
<1>2. \A d \in Databases : d \notin {None, 0}
  BY NoneApart DEF Databases, Data
<1>3. \A n \in Names : dir[n] \in row => dir'[n] = dir[n]
  BY <1>2 DEF Disk, Keeps, Exists
<1>4. Selected => here.db \in row /\ here.name \in Names
  BY HereIsThere DEF Operation
<1>5. ASSUME NEW u \in Threads \ {t}
      PROVE  Rely(u)'
  <2>1. /\ Rely(u) /\ at'[u] = at[u] /\ job'[u] = job[u] /\ here' = here /\ row' = row /\ spent' = spent
        /\ (Fits(at[u], job[u]))
    BY <1>1 DEF Operation, Keeps, Data
  <2>2. Current(job[u].name)' <=> Current(job[u].name)
    BY <2>1 DEF Current, Selected
  <2>3. at[u] = "moving" => job[u].to \in Names /\ job[u].op = "rename"
    BY <2>1 DEF Fits
  <2>4. job[u].op = "rename" => job[u].to \in Names
    BY <2>1 DEF Fits
  <2>5. at[u] \in {"opening", "adopting"} /\ job[u].op = "rename" =>
          job[u].name \in Names /\ Selected
    BY <2>1 DEF Rely, Fits, Current
  <2>6. at[u] = "adopting" => job[u].ledger.name \in Names
    BY <2>1 DEF Fits, Ledgers
  <2>7. at[u] = "moving" =>
          job[u].to = job[u].name \/ (dir'[job[u].to] = None /\ job[u].to \notin spent)
    BY <2>1, <2>3 DEF Rely, Keeps
  <2>8. at[u] = "opening" /\ job[u].op = "rename" => dir'[job[u].to] = here.db
    BY <1>3, <1>4, <2>1, <2>4, <2>5 DEF Rely
  <2>9. at[u] \in {"opening", "adopting"} /\ job[u].op = "rename" =>
          dir'[job[u].name] = here.db \/ job[u].name \in spent
    BY <1>3, <1>4, <2>1, <2>5 DEF Rely
  <2>10. at[u] = "adopting" =>
           dir'[job[u].ledger.name] = job[u].ledger.db /\ job[u].ledger.db \in row
    BY <1>3, <2>1, <2>6 DEF Rely
  <2> QED
    BY <2>1, <2>2, <2>7, <2>8, <2>9, <2>10 DEF Rely
<1>6. Rely(t)'
  BY <1>1, RelyIdleNext
<1>7. Renaming' <=> Renaming
  BY <1>1 DEF Renaming, Changes
<1>8. CurrentIsThere'
  BY <1>3, <1>4, <1>7 DEF CurrentIsThere, Operation, Keeps, Selected
<1> QED
  BY <1>5, <1>6, <1>8 DEF Operation, Keeps, Selected

-------------------------------------------------------------------------------
(* The steps of a thread that measures or polls.                               *)
Apart == Disk /\ Leftovers /\ Operation

LEMMA UnchangedKept ==
  ASSUME Data, Data', Apart, UNCHANGED <<dir, rows, row, here, deleted, spent>>, NEW t \in Threads,
         NEW p, NEW j, Moves(t, p, j), p \in {"appending", "emitting"} => j.ledger.db \in Databases,
         p # "opening", ~(at[t] = "opening" /\ job[t].op = "start")
  PROVE  Disk' /\ Leftovers' /\ (job[t].op \notin Changes /\ j.op \notin Changes => Operation')
<1>1. Databases' = Databases
  BY DEF Databases
<1>2. Disk'
  BY <1>1, HandsMove, ShelvedSame, DiskParts, DiskNext DEF Apart
<1>3. Leftovers'
  BY LeftoversMove DEF Apart, Begins, Polls, Exists
<1>4. Keeps
  BY DEF Keeps
<1> QED
  BY <1>2, <1>3, <1>4, OperationKept DEF Apart

LEMMA AskQuietly ==
  ASSUME Data, Data', Apart, NEW t \in Threads, NEW want \in Wants[t], Ask(t, want),
         want.op \notin Changes
  PROVE  Apart'
<1>1. /\ Moves(t, Started(want), Request(want)) /\ Request(want).op = want.op
      /\ want.op = "run" => Selected /\ Request(want).ledger = here
      /\ at[t] = "idle"
      /\ UNCHANGED <<dir, rows, row, here, deleted, spent>>
  BY Requested DEF Ask, Begin, disk, history
<1>2. job[t].op \notin Changes
  BY <1>1 DEF Data, Fits, Changes
<1>3. Started(want) # "opening" /\ (Started(want) \in {"appending", "emitting"} => want.op = "run")
  BY DEF Started
<1>4. Selected => here.db \in Databases
  BY DEF Apart, Operation, Disk
<1> DEFINE p == Started(want)
           j == Request(want)
<1>5. p \in {"appending", "emitting"} => j.ledger.db \in Databases
  BY <1>1, <1>3, <1>4
<1> HIDE DEF p, j
<1>6. Moves(t, p, j) /\ p # "opening" /\ j.op \notin Changes
  BY <1>1, <1>3 DEF p, j
<1> QED
  BY <1>1, <1>2, <1>5, <1>6, UnchangedKept DEF Apart

LEMMA SeekPoll ==
  ASSUME Data, Data', Apart, NEW t \in Threads, Seek(t), job[t].op = "poll"
  PROVE  Apart'
<1>1. /\ UNCHANGED <<dir, rows, row, here, deleted, spent>> /\ at[t] = "seeking"
      /\ job[t].op \notin Changes /\ "poll" \notin Changes
  BY DEF Seek, history, Changes
<1>2. CASE Finish(t)
  BY <1>1, <1>2, FinishMoves, NoJobFits, UnchangedKept DEF Apart
<1>3. CASE Exists(job[t].name) /\ Goto(t, "opening")
  <2>1. Moves(t, "opening", job[t]) /\ Databases' = Databases /\ Keeps
    BY <1>1, <1>3, GotoMoves DEF Databases, Keeps
  <2>2. Disk'
    BY <1>1, <2>1, HandsMove, ShelvedSame, DiskParts, DiskNext DEF Apart
  <2>3. Leftovers'
    BY <1>1, <1>3, <2>1, LeftoversMove DEF Apart, Begins, Polls, Exists
  <2>4. Operation'
    BY <1>1, <2>1, OperationKept DEF Apart
  <2> QED
    BY <2>2, <2>3, <2>4 DEF Apart
<1> QED
  BY <1>2, <1>3 DEF Seek, Missing

LEMMA PollKept ==
  ASSUME Data, Data', Apart, NEW t \in Threads, Poll(t)
  PROVE  Apart'
<1> DEFINE n == job[t].name
<1>1. /\ at[t] = "opening" /\ job[t].op = "poll" /\ n \in Names /\ Open(n)
      /\ Moves(t, "idle", NoJob) /\ UNCHANGED <<row, here, deleted, spent>>
  BY FinishMoves DEF Poll, Data, Fits, history
<1>2. Exists(n) \/ n \in spent
  BY <1>1 DEF Apart, Leftovers
<1> HIDE DEF n
<1>3. Shelved' /\ Databases \subseteq Databases'
  BY <1>1, ShelvedOpen, DiskParts DEF Apart
<1>4. Disk'
  BY <1>1, <1>3, HandsMove, DiskNext DEF Apart
<1>5. /\ \A m \in Names \ {n} : dir'[m] = dir[m]
      /\ Exists(n) => dir' = dir
      /\ ~Exists(n) => dir'[n] = Len(rows) + 1
  BY <1>1, OpenStores
<1>6. Len(rows) + 1 \notin {0, None}
  BY NoneApart DEF Data
<1>7. Leftovers'
  BY <1>1, <1>2, <1>5, <1>6, LeftoversMove DEF Apart, Begins, Polls, Exists
<1>8. Keeps
  BY <1>1, <1>2, <1>5 DEF Keeps
<1>9. Operation'
  BY <1>1, <1>8, NoJobFits, OperationKept DEF Apart, Changes
<1> QED
  BY <1>4, <1>7, <1>9 DEF Apart

LEMMA AppendKept ==
  ASSUME Data, Data', Apart, NEW t \in Threads, AppendRow(t)
  PROVE  Apart'
<1>1. /\ at[t] = "appending" /\ job[t].op = "run" /\ job[t].op \notin Changes
      /\ job[t].ledger.db \in Databases
      /\ UNCHANGED <<dir, row, here, deleted, spent>>
  BY DEF AppendRow, Data, Fits, Changes, history, Apart, Disk
<1>2. Len(rows') = Len(rows)
  BY DEF AppendRow, Data
<1>3. Databases' = Databases /\ Shelved' /\ Keeps
  BY <1>1, <1>2, ShelvedSame, DiskParts DEF Databases, Apart, Keeps
<1>4. CASE Goto(t, "emitting")
  <2>1. Moves(t, "emitting", job[t])
    BY <1>4, GotoMoves
  <2>2. Disk'
    BY <1>1, <1>3, <2>1, HandsMove, DiskNext DEF Apart
  <2>3. Leftovers'
    BY <1>1, <2>1, LeftoversMove DEF Apart, Begins, Polls, Exists
  <2>4. Operation'
    BY <1>1, <1>3, <2>1, OperationKept DEF Apart
  <2> QED
    BY <2>2, <2>3, <2>4 DEF Apart
<1>5. CASE Finish(t)
  <2>1. Moves(t, "idle", NoJob)
    BY <1>5, FinishMoves
  <2>2. Disk'
    BY <1>1, <1>3, <2>1, HandsMove, DiskNext DEF Apart
  <2>3. Leftovers'
    BY <1>1, <2>1, LeftoversMove DEF Apart, Begins, Polls, Exists
  <2>4. Operation'
    BY <1>1, <1>3, <2>1, NoJobFits, OperationKept DEF Apart
  <2> QED
    BY <2>2, <2>3, <2>4 DEF Apart
<1> QED
  BY <1>4, <1>5 DEF AppendRow

(* The directory a late writer makes is at a name that was given up.           *)
LEMMA EmitKept ==
  ASSUME Data, Data', Apart, NEW t \in Threads, Emit(t)
  PROVE  Apart'
<1> DEFINE n == here.name
<1>1. /\ at[t] = "emitting" /\ job[t].op = "run" /\ job[t].op \notin Changes /\ Selected
      /\ Moves(t, "idle", NoJob) /\ UNCHANGED <<rows, row, here, deleted, spent>>
      /\ dir' = dir \/ dir' = MadeDir(n)
  BY FinishMoves DEF Emit, Data, Fits, Changes, history
<1>2. n \in Names /\ (There(n) \/ n \in spent)
  <2>1. Len(rows) \in Nat /\ Selected => here.db \in Databases
    BY <1>1 DEF Apart, Operation, Disk
  <2>2. here.db # None
    BY <1>1, <2>1, NoneApart DEF Databases, Data
  <2> QED
    BY <1>1, <2>2, HereIsThere DEF Apart, There
<1>3. /\ \A m \in Names \ {n} : dir'[m] = dir[m]
      /\ There(n) => dir' = dir
      /\ dir' = dir \/ (~There(n) /\ dir'[n] = 0)
  BY <1>1, <1>2, MadeStores
<1>4. Databases' = Databases
  BY <1>1 DEF Databases
<1>5. Shelved'
  BY <1>1, <1>2, ShelvedMade, ShelvedSame, DiskParts DEF Apart
<1> HIDE DEF n
<1>6. Disk'
  BY <1>1, <1>4, <1>5, HandsMove, DiskNext DEF Apart
<1>7. Leftovers'
  BY <1>1, <1>2, <1>3, LeftoversMove DEF Apart, Begins, Polls, Exists, There
<1>8. Keeps
  BY <1>1, <1>2, <1>3 DEF Keeps, Exists, There
<1>9. Operation'
  BY <1>1, <1>8, NoJobFits, OperationKept DEF Apart
<1> QED
  BY <1>6, <1>7, <1>9 DEF Apart

-------------------------------------------------------------------------------
(* The steps of the operator.                                                  *)
LEMMA HereIsKnown ==
  ASSUME Data, Apart, Selected
  PROVE  here.db \in Databases /\ here.db \notin {None, 0}
<1>1. here.db \in Databases
  BY DEF Apart, Operation, Disk
<1>2. \A d \in Databases : d # 0 /\ d # None
  BY NoneApart DEF Databases, Data
<1> QED
  BY <1>1, <1>2

LEMMA OwnDone ==
  ASSUME Data', OneOperator, NEW t \in Threads, Changer(t), Moves(t, "idle", NoJob), Data,
         Settled', (Selected => here.db \in row)'
  PROVE  Operation'
<1>1. at'[t] = "idle" /\ job'[t] = NoJob
  BY MovesOne
<1>2. Rely(t)'
  BY <1>1, NoJobFits, RelyIdleNext
<1> QED
  BY <1>2, OperationOwn

LEMMA AskChange ==
  ASSUME Data, Data', OneOperator, Apart, NEW t \in Threads, NEW want \in Wants[t], Ask(t, want),
         want.op \in Changes
  PROVE  Apart'
<1> DEFINE j == Request(want)
<1>1. /\ Moves(t, "seeking", j) /\ j.op = want.op /\ Changer(t) /\ at[t] = "idle"
      /\ UNCHANGED <<dir, rows, row, here, deleted, spent>>
      /\ want.op = "rename" => Selected /\ j.name = here.name /\ j.to = want.name
      /\ want.op \in {"start", "delete", "switch"} => j.name = want.name
      /\ want.op = "delete" => ~Current(want.name)
      /\ want.op \in {"start", "rename"} => want.name \notin spent
  BY Requested DEF Ask, Begin, Started, Changes, disk, history, OneOperator
<1> HIDE DEF j
<1>2. Disk' /\ Leftovers'
  BY <1>1, UnchangedKept
<1>3. at'[t] = "seeking" /\ job'[t] = j
  BY <1>1, MovesOne
<1>4. Rely(t)'
  BY <1>1, <1>3 DEF Rely, Current, Selected, Changes
<1>5. job[t].op # "rename"
  BY <1>1 DEF Data, Fits
<1>6. Settled
  BY <1>1, <1>5, SettledUnless DEF Apart, Between
<1>7. Operation'
  BY <1>1, <1>4, <1>6, OperationOwn DEF Settled, Selected, Apart, Operation
<1> QED
  BY <1>2, <1>7 DEF Apart

LEMMA SeekChange ==
  ASSUME Data, Data', OneOperator, Apart, NEW t \in Threads, Seek(t), job[t].op \in Changes
  PROVE  Apart'
<1> DEFINE j == job[t]
<1>1. /\ at[t] = "seeking" /\ Changer(t) /\ j.name \in Names
      /\ j.op = "rename" => j.to \in Names
      /\ UNCHANGED <<rows, row, here, deleted, spent>>
      /\ dir' = IF j.op = "start" THEN MadeDir(j.name) ELSE dir
      /\ Rely(t)
  BY DEF Seek, Data, Fits, history, Changes, Apart, Operation
<1>2. Settled /\ Databases' = Databases
  BY <1>1, SettledUnless DEF Apart, Between, Databases
<1>3. Shelved'
  BY <1>1, ShelvedMade, ShelvedSame, DiskParts DEF Apart
<1>4. /\ \A m \in Names : Exists(m) => dir'[m] = dir[m]
      /\ \A m \in Names : dir'[m] = 0 => dir[m] = 0 \/ (j.op = "start" /\ m = j.name)
  BY <1>1, MadeStores DEF Exists, There
<1>5. Settled' /\ (Selected => here.db \in row)'
  <2>1. here.db \notin {None, 0} \/ ~Selected
    BY HereIsKnown
  <2>2. Selected => here.name \in Names
    BY DEF Selected, Data, Ledgers
  <2> QED
    BY <1>1, <1>2, <1>4, <2>1, <2>2 DEF Settled, Selected, Exists, Apart, Operation
<1>6. CASE Finish(t) /\ (Taken(j) \/ Missing(j))
  <2>1. Moves(t, "idle", NoJob)
    BY <1>6, FinishMoves
  <2>2. dir' = dir
    BY <1>1, <1>6, MadeStores DEF Taken, Missing, Exists, There
  <2>3. Disk' /\ Leftovers'
    BY <1>1, <2>1, <2>2, UnchangedKept
  <2> QED
    BY <1>1, <1>5, <2>1, <2>3, OwnDone DEF Apart
<1>7. CASE ~(Taken(j) \/ Missing(j)) /\ Goto(t, IF j.op = "rename" THEN "moving" ELSE "opening")
  <2> DEFINE p == IF j.op = "rename" THEN "moving" ELSE "opening"
  <2>1. Moves(t, p, j) /\ at'[t] = p /\ job'[t] = j
    BY <1>7, GotoMoves, MovesOne
  <2>2. Disk'
    BY <1>2, <1>3, <2>1, HandsMove, DiskNext DEF Apart
  <2>3. Leftovers'
    BY <1>1, <1>4, <2>1, LeftoversMove DEF Apart, Begins, Polls, Exists, Changes
  <2>4. j.op = "rename" => j.to = j.name \/ (dir[j.to] = None /\ j.to \notin spent)
    <3> SUFFICES ASSUME j.op = "rename", j.to # j.name
                 PROVE  dir[j.to] = None /\ j.to \notin spent
      OBVIOUS
    <3>1. j.to \notin spent
      BY <1>1 DEF Rely
    <3>2. dir[j.to] \in {None, 0}
      BY <1>7 DEF Taken, Exists
    <3>3. \A u \in Threads : job[u].op # "start"
      BY <1>1, OnlyOne DEF Changes
    <3> QED
      BY <1>1, <3>1, <3>2, <3>3 DEF Apart, Leftovers
  <2>5. Rely(t)'
    <3>1. j.op = "rename" => dir' = dir
      BY <1>1
    <3> QED
      BY <1>1, <2>1, <2>4, <3>1 DEF Rely, Current, Selected, Changes
  <2>6. Operation'
    BY <1>1, <1>5, <2>5, OperationOwn
  <2> QED
    BY <2>2, <2>3, <2>6 DEF Apart
<1> QED
  BY <1>6, <1>7 DEF Seek

LEMMA MoveKept ==
  ASSUME Data, Data', OneOperator, Apart, NEW t \in Threads, Move(t)
  PROVE  Apart' /\ (job[t].name # job[t].to =>
           /\ Exists(job[t].name) /\ ~There(job[t].to)
           /\ dir[job[t].name] \in row
           /\ dir' = [dir EXCEPT ![job[t].name] = None, ![job[t].to] = dir[job[t].name]])
<1> DEFINE j == job[t]
           old == job[t].name
           new == job[t].to
<1>1. /\ at[t] = "moving" /\ j.op = "rename" /\ Changer(t) /\ old \in Names /\ new \in Names
      /\ UNCHANGED <<rows, row, here, deleted>> /\ Rely(t)
  BY DEF Move, Data, Fits, Changes, Apart, Operation
<1>2. Settled /\ Databases' = Databases
  BY <1>1, SettledUnless DEF Apart, Between, Databases
<1>3. Selected /\ here.name = old /\ dir[old] = here.db /\ here.db \in row /\ Exists(old)
  <2>1. Selected /\ here.name = old /\ dir[old] = here.db /\ here.db \in row
    BY <1>1, <1>2 DEF Rely, Current, Settled, Apart, Operation
  <2>2. here.db \notin {None, 0}
    BY <2>1, HereIsKnown
  <2> QED
    BY <2>1, <2>2 DEF Exists
<1>4. CASE old = new
  <2>1. UNCHANGED <<dir, spent>> /\ Goto(t, "opening")
    BY <1>4 DEF Move
  <2>2. Moves(t, "opening", j) /\ at'[t] = "opening" /\ job'[t] = j
    BY <2>1, GotoMoves, MovesOne
  <2>3. Disk'
    BY <1>1, <1>2, <2>1, <2>2, HandsMove, ShelvedSame, DiskParts, DiskNext DEF Apart
  <2>4. Leftovers'
    BY <1>1, <2>1, <2>2, LeftoversMove DEF Apart, Begins, Polls, Exists
  <2>5. Rely(t)'
    BY <1>1, <1>3, <1>4, <2>1, <2>2 DEF Rely, Current, Selected
  <2>6. Operation'
    BY <1>1, <1>3, <2>2, <2>5, OperationOwn DEF Between, Selected
  <2> QED
    BY <1>4, <2>3, <2>4, <2>6 DEF Apart
<1>5. CASE old # new
  <2>1. dir[new] = None /\ ~There(new) /\ There(old)
    BY <1>1, <1>3, <1>5 DEF Rely, There, Exists
  <2>2. /\ dir' = [dir EXCEPT ![old] = None, ![new] = dir[old]] /\ spent' = spent \cup {old}
        /\ Goto(t, "opening")
    BY <1>3, <1>5, <2>1 DEF Move
  <2>3. Moves(t, "opening", j) /\ at'[t] = "opening" /\ job'[t] = j
    BY <2>2, GotoMoves, MovesOne
  <2>4. Shelved'
    BY <1>1, <1>3, <1>5, <2>1, <2>2, ShelvedMoved, DiskParts DEF Apart
  <2>5. Disk'
    BY <1>2, <2>3, <2>4, HandsMove, DiskNext DEF Apart
  <2>6. dir'[new] = dir[old] /\ dir'[old] = None /\ \A m \in Names \ {old, new} : dir'[m] = dir[m]
    BY <1>1, <1>5, <2>2 DEF Data
  <2>7. Leftovers'
    <3>1. \A n \in Names : n \notin spent' /\ dir'[n] = 0 => dir[n] = 0
      BY <1>3, <2>2, <2>6 DEF Exists
    <3>2. \A n \in Names : Exists(n) => Exists(n)' \/ n \in spent'
      BY <1>3, <2>2, <2>6 DEF Exists
    <3> QED
      BY <1>1, <2>2, <2>3, <3>1, <3>2, LeftoversMove DEF Apart, Begins, Polls
  <2>8. Rely(t)'
    BY <1>1, <1>3, <2>2, <2>3, <2>6 DEF Rely, Current, Selected
  <2>9. Operation'
    BY <1>1, <1>3, <2>3, <2>8, OperationOwn DEF Between, Selected
  <2> QED
    BY <1>3, <2>1, <2>2, <2>5, <2>7, <2>9 DEF Apart
<1> QED
  BY <1>4, <1>5

LEMMA OpenKept ==
  ASSUME Data, Apart, NEW n \in Names, Open(n), UNCHANGED <<here, deleted, spent>>,
         row' = row \/ row' = row \cup {Opened(n)}
  PROVE  /\ Shelved' /\ Databases \subseteq Databases'
         /\ dir'[n] = Opened(n) /\ Opened(n) \notin {None, 0}
         /\ \A m \in Names : Exists(m) => dir'[m] = dir[m]
         /\ \A m \in Names : dir'[m] = 0 => dir[m] = 0 /\ m # n
         /\ \A m \in Names : Exists(m) => Exists(m)'
         /\ (Selected => here.db \in row)'
         /\ Settled => Settled'
<1>1. Shelved' /\ Databases \subseteq Databases'
  BY ShelvedOpen, DiskParts DEF Apart
<1>2. /\ dir'[n] = Opened(n) /\ \A m \in Names \ {n} : dir'[m] = dir[m]
      /\ Exists(n) => Opened(n) = dir[n]
      /\ ~Exists(n) => Opened(n) = Len(rows) + 1
  BY OpenStores
<1>3. Len(rows) + 1 \notin {None, 0}
  BY NoneApart DEF Data
<1>4. Opened(n) \notin {None, 0}
  BY <1>2, <1>3 DEF Exists
<1>5. \A m \in Names : Exists(m) => dir'[m] = dir[m]
  BY <1>2
<1>6. \A m \in Names : Exists(m) => Exists(m)'
  BY <1>5 DEF Exists
<1>7. Settled => Settled'
  <2>1. Selected => here.name \in Names
    BY DEF Data, Selected, Ledgers
  <2>2. Selected => here.db \notin {None, 0}
    BY HereIsKnown
  <2> QED
    BY <1>5, <2>1, <2>2 DEF Settled, Selected, Exists
<1>8. (Selected => here.db \in row)'
  BY DEF Selected, Apart, Operation
<1>9. \A m \in Names : dir'[m] = 0 => dir[m] = 0 /\ m # n
  BY <1>2, <1>4
<1> QED
  BY <1>1, <1>2, <1>4, <1>5, <1>6, <1>7, <1>8, <1>9

LEMMA OpenLedgerKept ==
  ASSUME Data, Data', OneOperator, Apart, NEW t \in Threads, OpenLedger(t)
  PROVE  Apart'
<1> DEFINE n == Slug(t)
           l == [name |-> n, db |-> Opened(n)]
           j == [job[t] EXCEPT !.ledger = l]
<1>1. /\ at[t] = "opening" /\ Changer(t) /\ job[t] \in Jobs /\ Rely(t)
      /\ n \in Names /\ Open(n) /\ row' = row \cup {Opened(n)} /\ Moves(t, "adopting", j)
      /\ job[t].op \in {"start", "switch", "rename"}
      /\ UNCHANGED <<here, deleted, spent>>
      /\ job[t].op = "start" => n = job[t].name
      /\ job[t].name \in Names
  BY Opening DEF OpenLedger, Data, Fits, Changes, Apart, Operation, history, Slug
<1>2. j.ledger = l /\ l.name = n /\ l.db = Opened(n) /\ j.op = job[t].op /\ j.name = job[t].name
  BY <1>1 DEF Jobs
<1> HIDE DEF n, l, j
<1>3. /\ Shelved' /\ Databases \subseteq Databases'
      /\ dir'[n] = Opened(n) /\ Opened(n) \notin {None, 0}
      /\ \A m \in Names : Exists(m) => dir'[m] = dir[m]
      /\ \A m \in Names : dir'[m] = 0 => dir[m] = 0 /\ m # n
      /\ \A m \in Names : Exists(m) => Exists(m)'
      /\ (Selected => here.db \in row)'
      /\ Settled => Settled'
  BY <1>1, OpenKept
<1>4. Disk'
  BY <1>1, <1>3, HandsMove, DiskNext DEF Apart
<1>5. Leftovers'
  BY <1>1, <1>3, LeftoversMove DEF Apart, Begins, Polls
<1>6. at'[t] = "adopting" /\ job'[t] = j
  BY <1>1, MovesOne
<1>7. Rely(t)'
  <2>1. dir'[l.name] = l.db /\ l.db \in row'
    BY <1>1, <1>2, <1>3
  <2>2. job[t].op = "rename" => dir'[job[t].name] = here.db \/ job[t].name \in spent
    <3>1. job[t].op = "rename" => Selected
      BY <1>1 DEF Rely, Current
    <3>2. Selected => here.db \notin {None, 0}
      BY HereIsKnown
    <3> QED
      BY <1>1, <1>3, <3>1, <3>2 DEF Rely, Exists
  <2>3. job[t].op = "rename" => Current(job[t].name)
    BY <1>1 DEF Rely
  <2> QED
    BY <1>1, <1>2, <1>6, <2>1, <2>2, <2>3 DEF Rely, Current, Selected
<1>8. ~Between(t)' => Settled'
  <2>1. job[t].op # "rename" => Settled
    BY <1>1, SettledUnless DEF Apart, Between
  <2> QED
    BY <1>2, <1>3, <1>6, <2>1 DEF Between
<1>9. Operation'
  BY <1>1, <1>3, <1>7, <1>8, OperationOwn
<1> QED
  BY <1>4, <1>5, <1>9 DEF Apart

LEMMA DescribeKept ==
  ASSUME Data, Data', OneOperator, Apart, NEW t \in Threads, Describe(t)
  PROVE  Apart'
<1> DEFINE n == job[t].name
<1>1. /\ at[t] = "opening" /\ job[t].op = "delete" /\ Changer(t) /\ n \in Names /\ Open(n)
      /\ Moves(t, "removing", job[t]) /\ ~Current(n)
      /\ UNCHANGED <<row, here, deleted, spent>>
  BY GotoMoves DEF Describe, Data, Fits, Changes, Apart, Operation, Rely, history
<1> HIDE DEF n
<1>2. /\ Shelved' /\ Databases \subseteq Databases'
      /\ \A m \in Names : dir'[m] = 0 => dir[m] = 0 /\ m # n
      /\ \A m \in Names : Exists(m) => Exists(m)'
      /\ (Selected => here.db \in row)'
      /\ Settled => Settled'
  BY <1>1, OpenKept
<1>3. Disk'
  BY <1>1, <1>2, HandsMove, DiskNext DEF Apart
<1>4. Leftovers'
  BY <1>1, <1>2, LeftoversMove DEF Apart, Begins, Polls
<1>5. at'[t] = "removing" /\ job'[t] = job[t] /\ ~Current(job[t].name)
  BY <1>1, MovesOne DEF n
<1>6. Rely(t)'
  BY <1>1, <1>5 DEF Rely, Current, Selected
<1>7. Settled
  BY <1>1, SettledUnless DEF Apart, Between
<1>8. Operation'
  BY <1>1, <1>2, <1>6, <1>7, OperationOwn
<1> QED
  BY <1>3, <1>4, <1>8 DEF Apart

LEMMA AdoptKept ==
  ASSUME Data, Data', OneOperator, Apart, NEW t \in Threads, Adopt(t)
  PROVE  Apart'
<1>1. /\ at[t] = "adopting" /\ Changer(t) /\ Moves(t, "idle", NoJob) /\ here' = job[t].ledger
      /\ job[t].ledger \in Ledgers /\ job[t].op \in Changes /\ Rely(t)
      /\ UNCHANGED <<dir, rows, row, deleted, spent>>
  BY FinishMoves DEF Adopt, Data, Fits, Changes, disk, history, Apart, Operation
<1>2. Databases' = Databases
  BY <1>1 DEF Databases
<1>3. Disk'
  BY <1>1, <1>2, HandsMove, ShelvedSame, DiskParts, DiskNext DEF Apart
<1>4. Leftovers'
  BY <1>1, LeftoversMove DEF Apart, Begins, Polls, Exists
<1>5. Settled' /\ (Selected => here.db \in row)'
  BY <1>1 DEF Rely, Settled
<1> QED
  BY <1>1, <1>3, <1>4, <1>5, OwnDone DEF Apart

LEMMA RemoveKept ==
  ASSUME Data, Data', OneOperator, Apart, NEW t \in Threads, Remove(t)
  PROVE  Apart' /\ Settled /\ job[t].name \in Names /\ ~Current(job[t].name)
<1> DEFINE n == job[t].name
<1>1. /\ at[t] = "removing" /\ job[t].op = "delete" /\ Changer(t) /\ n \in Names /\ ~Current(n)
      /\ Moves(t, "idle", NoJob) /\ UNCHANGED <<rows, row, here>>
      /\ dir' = [dir EXCEPT ![n] = None] /\ spent' = spent \cup {n}
      /\ deleted' = IF Exists(n) THEN deleted \cup {dir[n]} ELSE deleted
  BY FinishMoves DEF Remove, Data, Fits, Changes, Apart, Operation, Rely
<1> HIDE DEF n
<1>2. Databases' = Databases
  BY <1>1 DEF Databases
<1>3. Shelved'
  BY <1>1, ShelvedRemoved, DiskParts DEF Apart
<1>4. Disk'
  BY <1>1, <1>2, <1>3, HandsMove, DiskNext DEF Apart
<1>5. \A m \in Names : dir'[m] = dir[m] \/ m \in spent'
  BY <1>1 DEF Data
<1>6. Leftovers'
  BY <1>1, <1>5, LeftoversMove DEF Apart, Begins, Polls, Exists
<1>7. Settled
  BY <1>1, SettledUnless DEF Apart, Between
<1>8. Settled'
  <2>1. Selected => here.name \in Names /\ here.name # n
    BY <1>1 DEF Data, Selected, Current, Ledgers
  <2>2. \A m \in Names \ {n} : dir'[m] = dir[m]
    BY <1>1 DEF Data
  <2> QED
    BY <1>1, <1>7, <2>1, <2>2 DEF Settled, Selected
<1>9. Operation'
  BY <1>1, <1>8, OwnDone DEF Selected, Apart, Operation
<1> QED
  BY <1>1, <1>4, <1>6, <1>7, <1>9 DEF Apart, n

LEMMA ApartKept ==
  ASSUME Data, Data', OneOperator, Apart, [Next]_vars
  PROVE  Apart'
<1>1. CASE UNCHANGED vars
  <2>1. UNCHANGED <<dir, rows, row, here, deleted, spent, at, job>>
    BY <1>1 DEF vars, disk, history
  <2>2. Disk'
    BY <2>1 DEF Apart, Disk, Exists, Databases
  <2>3. Leftovers'
    BY <2>1 DEF Apart, Leftovers, Exists
  <2>4. (\A t \in Threads : Rely(t)) => (\A t \in Threads : Rely(t))'
    BY <2>1 DEF Rely, Current, Selected
  <2>5. CurrentIsThere => CurrentIsThere'
    BY <2>1 DEF CurrentIsThere, Renaming, Selected
  <2> QED
    BY <2>1, <2>2, <2>3, <2>4, <2>5 DEF Apart, Operation, Selected
<1>2. ASSUME NEW t \in Threads, Seek(t)
      PROVE  Apart'
  <2>1. job[t].op \in Changes \cup {"poll"}
    BY <1>2 DEF Seek, Data, Fits
  <2> QED
    BY <1>2, <2>1, SeekPoll, SeekChange
<1> QED
  BY <1>1, <1>2, AskQuietly, AskChange, MoveKept, OpenLedgerKept, DescribeKept, PollKept,
     AdoptKept, RemoveKept, AppendKept, EmitKept
  DEF Next, Lifecycle, Run

-------------------------------------------------------------------------------
LEMMA SavedFound ==
  ASSUME Init
  PROVE  /\ DOMAIN Saved = 1 .. Len(Saved) /\ Len(Saved) \in Nat
         /\ dir \in [Names -> {None} \cup DOMAIN Saved]
         /\ \A n \in Names : dir[n] # None => Saved[dir[n]] = n
         /\ \A i \in DOMAIN Saved : Saved[i] \in Names /\ dir[Saved[i]] = i
<1>1. DOMAIN Saved = 1 .. Len(Saved) /\ Len(Saved) \in Nat
      /\ \A i \in DOMAIN Saved : Saved[i] \in Names
  BY ArchiveAssumption
<1>2. \A i \in DOMAIN Saved : i # None
  BY <1>1, NoneApart
<1>3. ASSUME NEW n \in Names
      PROVE  /\ dir[n] \in {None} \cup DOMAIN Saved
             /\ dir[n] # None => Saved[dir[n]] = n
             /\ (\E i \in DOMAIN Saved : Saved[i] = n) => dir[n] # None
  <2>1. CASE \E i \in DOMAIN Saved : Saved[i] = n
    <3>1. dir[n] = CHOOSE i \in DOMAIN Saved : Saved[i] = n
      BY <2>1 DEF Init
    <3>2. dir[n] \in DOMAIN Saved /\ Saved[dir[n]] = n
      BY <2>1, <3>1
    <3> QED
      BY <1>2, <3>2
  <2>2. CASE ~\E i \in DOMAIN Saved : Saved[i] = n
    BY <2>2 DEF Init
  <2> QED
    BY <2>1, <2>2
<1>4. ASSUME NEW i \in DOMAIN Saved
      PROVE  dir[Saved[i]] = i
  <2>1. PICK n \in Names : n = Saved[i]
    BY <1>1
  <2>2. dir[n] # None
    BY <1>3, <2>1
  <2>3. dir[n] \in DOMAIN Saved /\ Saved[dir[n]] = n
    BY <1>3, <2>2
  <2>4. dir[n] = i
    BY <2>1, <2>3, ArchiveAssumption
  <2> QED
    BY <2>1, <2>4
<1>5. dir \in [Names -> {None} \cup DOMAIN Saved]
  <2> DEFINE S == {None} \cup DOMAIN Saved
  <2>1. dir = [n \in Names |-> dir[n]]
    BY DEF Init
  <2>2. \A n \in Names : dir[n] \in S
    BY <1>3
  <2> HIDE DEF S
  <2>3. dir \in [Names -> S]
    BY <2>1, <2>2
  <2> QED
    BY <2>3 DEF S
<1> QED
  BY <1>1, <1>3, <1>4, <1>5

LEMMA ArchiveStarts == Init => Data /\ Apart
<1> SUFFICES ASSUME Init
             PROVE  Data /\ Apart
  OBVIOUS
<1>1. /\ at = [t \in Threads |-> "idle"] /\ job = [t \in Threads |-> NoJob]
      /\ here = None /\ ~Selected /\ spent = {} /\ deleted = {} /\ row = DOMAIN Saved
      /\ rows = [i \in DOMAIN Saved |-> 0]
  BY DEF Init, Selected
<1>2. rows \in Seq(Nat) /\ Len(rows) = Len(Saved) /\ Databases = DOMAIN Saved
  BY <1>1, SavedFound DEF Databases
<1>3. Stores
  BY <1>1, <1>2, SavedFound DEF Stores
<1>4. Crew
  BY <1>1, NoJobFits DEF Crew, Stands, Places
<1>5. Data
  BY <1>3, <1>4, DataParts
<1>6. \A n \in Names : dir[n] # 0 /\ (Exists(n) => dir[n] \in DOMAIN Saved)
  BY SavedFound, NoneApart DEF Exists
<1>7. Shelved
  BY <1>1, <1>2, <1>6, SavedFound DEF Shelved, Exists
<1>8. Hands /\ Leftovers
  BY <1>1, <1>6 DEF Hands, Leftovers
<1>9. Operation
  <2>1. \A t \in Threads : job[t].op \notin Changes
    BY <1>1, NoJobFits
  <2> QED
    BY <1>1, <1>5, <2>1, RelyIdle DEF Operation, CurrentIsThere
<1> QED
  BY <1>5, <1>7, <1>8, <1>9, DiskParts DEF Apart

(* With one operator who starts, switches, renames and deletes, however many   *)
(* agents append and consoles poll: every database is in one directory or was  *)
(* deleted, and a directory without one is a leftover nobody will open.        *)
THEOREM ArchiveInvariant ==
  ASSUME OneOperator
  PROVE  Spec => []ArchiveInv
<1>1. ArchiveInv <=> Data /\ Apart
  BY DEF ArchiveInv, Apart
<1>2. Data /\ Apart /\ [Next]_vars => Data' /\ Apart'
  BY DataKept, ApartKept
<1> QED
  BY <1>1, <1>2, ArchiveStarts, PTL DEF Spec

(* Outside a rename, the experiment the session writes into is on disk under   *)
(* its own name, whatever agents append and consoles poll meanwhile.           *)
THEOREM CurrentStays ==
  ASSUME OneOperator
  PROVE  Spec => []CurrentIsThere
<1>1. ArchiveInv => CurrentIsThere
  BY DEF ArchiveInv, Operation
<1> QED
  BY <1>1, ArchiveInvariant, PTL

(* A row that was written is found again, unless its experiment was deleted.   *)
THEOREM RowsStay ==
  ASSUME OneOperator
  PROVE  Spec => []RowsSurvive
<1>1. ArchiveInv => RowsSurvive
  BY DEF ArchiveInv, Disk, RowsSurvive, Databases, Data
<1> QED
  BY <1>1, ArchiveInvariant, PTL

-------------------------------------------------------------------------------
(* The refinement.                                                             *)
Place == [n \in Names |-> IF dir[n] \in row THEN dir[n] ELSE None]
Chosen == IF Selected THEN here.db ELSE None

LEMMA PlaceNext == Place' = [n \in Names |-> IF dir'[n] \in row' THEN dir'[n] ELSE None]
BY DEF Place

LEMMA OnShelf ==
  ASSUME Data, Apart, NEW n \in Names
  PROVE  /\ dir[n] \in row <=> Place[n] # None
         /\ dir[n] \in row => Exists(n) /\ dir[n] \in Databases /\ Place[n] = dir[n]
         /\ dir[n] \notin row => Place[n] = None
         /\ \A m \in Names : Place[m] # None /\ Place[m] = Place[n] => m = n
<1>1. \A d \in row : d \in Databases /\ d # 0 /\ d # None
  BY NoneApart DEF Apart, Disk, Databases, Data
<1> QED
  BY <1>1 DEF Place, Exists, Apart, Disk

LEMMA ChosenIs ==
  ASSUME Data, Apart
  PROVE  Chosen = IF Selected THEN here.db ELSE None
BY DEF Chosen

(* The three variables of the shelf, as they are written.                      *)
LEMMA PlaceSame ==
  ASSUME Data, Apart, row' = row,
         \A n \in Names : dir'[n] = dir[n] \/ (dir[n] \notin row /\ dir'[n] \notin row)
  PROVE  Place' = Place
BY PlaceNext DEF Place

LEMMA NotInRow ==
  ASSUME Data, Apart
  PROVE  0 \notin row /\ None \notin row /\ Len(rows) + 1 \notin row /\ Len(rows) \in Nat
<1>1. Len(rows) \in Nat
  BY DEF Data
<1>2. \A d \in row : d \in 1 .. Len(rows)
  BY DEF Apart, Disk, Databases
<1>3. 0 \notin 1 .. Len(rows) /\ Len(rows) + 1 \notin 1 .. Len(rows)
  BY <1>1
<1>4. None \notin 1 .. Len(rows)
  BY <1>1, NoneApart
<1> QED
  BY <1>1, <1>2, <1>3, <1>4

Shelve == [Kept!ShelfNext]_(Kept!shelfVars)

LEMMA ShelveStutters ==
  ASSUME Place' = Place, rows' = rows, Chosen' = Chosen
  PROVE  Shelve
BY DEF Shelve, Kept!shelfVars, Place, Chosen

LEMMA ShelveMakes ==
  ASSUME Place' = Place, rows' = Append(rows, 0), Chosen' = Chosen
  PROVE  Shelve
<1>1. Kept!Make
  BY DEF Kept!Make, Place, Chosen
<1> QED
  BY <1>1 DEF Shelve, Kept!ShelfNext

LEMMA ShelveCreates ==
  ASSUME NEW n \in Names, NEW e \in 1 .. Len(rows) + 1, Place[n] = None,
         rows' = rows \/ rows' = Append(rows, 0), e \in DOMAIN rows',
         \A m \in Names : Place[m] # e,
         Place' = [Place EXCEPT ![n] = e], Chosen' = Chosen
  PROVE  Shelve
<1>1. Kept!Create(n, e)
  BY DEF Kept!Create, Place, Chosen
<1> QED
  BY <1>1 DEF Shelve, Kept!ShelfNext

LEMMA ShelveRenames ==
  ASSUME NEW old \in Names, NEW new \in Names, Place[old] # None, Place[new] = None,
         Place' = [Place EXCEPT ![old] = None, ![new] = Place[old]],
         rows' = rows, Chosen' = Chosen
  PROVE  Shelve
<1>1. Kept!Rename(old, new)
  BY DEF Kept!Rename, Place, Chosen
<1> QED
  BY <1>1 DEF Shelve, Kept!ShelfNext

LEMMA ShelveTakes ==
  ASSUME NEW n \in Names, Place[n] \notin {None, Chosen}, Place' = [Place EXCEPT ![n] = None],
         rows' = rows, Chosen' = Chosen
  PROVE  Shelve
<1>1. Kept!Take(n)
  BY DEF Kept!Take, Place, Chosen
<1> QED
  BY <1>1 DEF Shelve, Kept!ShelfNext

LEMMA ShelveChooses ==
  ASSUME NEW n \in Names, Place[n] # None, Chosen' = Place[n], Place' = Place, rows' = rows
  PROVE  Shelve
<1>1. Kept!Choose(n)
  BY DEF Kept!Choose, Place, Chosen
<1> QED
  BY <1>1 DEF Shelve, Kept!ShelfNext

LEMMA ShelveWrites ==
  ASSUME NEW e \in DOMAIN rows, rows' = [rows EXCEPT ![e] = @ + 1], Place' = Place,
         Chosen' = Chosen
  PROVE  Shelve
<1>1. Kept!Write(e)
  BY DEF Kept!Write, Place, Chosen
<1> QED
  BY <1>1 DEF Shelve, Kept!ShelfNext

LEMMA ChosenSame ==
  ASSUME here' = here
  PROVE  Chosen' = Chosen
BY DEF Chosen, Selected

(* A step that makes directories only, or a database that holds no experiment. *)
LEMMA MakingRefines ==
  ASSUME Data, Apart, NEW n \in Names, UNCHANGED <<row, here>>,
         Open(n) \/ (UNCHANGED rows /\ (dir' = dir \/ dir' = MadeDir(n)))
  PROVE  Shelve
<1>1. Chosen' = Chosen
  BY ChosenSame
<1>2. CASE UNCHANGED rows /\ (dir' = dir \/ dir' = MadeDir(n))
  <2>1. \A m \in Names : dir'[m] = dir[m] \/ (dir[m] = None /\ dir'[m] = 0)
    BY <1>2, MadeStores DEF There
  <2>2. Place' = Place
    BY <2>1, NotInRow, PlaceSame
  <2> QED
    BY <1>1, <1>2, <2>2, ShelveStutters
<1>3. CASE Open(n) /\ Exists(n)
  <2>1. dir' = dir /\ rows' = rows
    BY <1>3, OpenStores
  <2> QED
    BY <1>1, <2>1, PlaceSame, ShelveStutters
<1>4. CASE Open(n) /\ ~Exists(n)
  <2>1. /\ rows' = Append(rows, 0) /\ dir'[n] = Len(rows) + 1
        /\ \A m \in Names \ {n} : dir'[m] = dir[m]
    BY <1>4, OpenStores
  <2>2. dir[n] \notin row /\ dir'[n] \notin row
    BY <1>4, <2>1, NotInRow DEF Exists
  <2>3. Place' = Place
    BY <2>1, <2>2, PlaceSame
  <2> QED
    BY <1>1, <2>1, <2>3, ShelveMakes
<1> QED
  BY <1>2, <1>3, <1>4

LEMMA OpenLedgerRefines ==
  ASSUME Data, Apart, NEW t \in Threads, OpenLedger(t)
  PROVE  Shelve
<1> DEFINE n == Slug(t)
           e == Opened(n)
<1>1. n \in Names /\ Open(n) /\ row' = row \cup {e} /\ here' = here
  BY Opening DEF OpenLedger
<1>2. Chosen' = Chosen /\ e \notin {None, 0}
  <2>1. UNCHANGED <<here, deleted, spent>>
    BY DEF OpenLedger, history
  <2> QED
    BY <1>1, <2>1, ChosenSame, OpenKept
<1>3. /\ dir'[n] = e /\ \A m \in Names \ {n} : dir'[m] = dir[m]
      /\ Exists(n) => rows' = rows /\ e = dir[n]
      /\ ~Exists(n) => rows' = Append(rows, 0) /\ e = Len(rows) + 1 /\ Len(rows') = Len(rows) + 1
  BY <1>1, OpenStores
<1> HIDE DEF n, e
<1>4. rows \in Seq(Nat) /\ Len(rows) \in Nat /\ DOMAIN rows = Databases
  BY DEF Data, Databases
<1>5. e \in 1 .. Len(rows) + 1 /\ e \in DOMAIN rows'
  <2>1. CASE Exists(n)
    BY <1>1, <1>3, <1>4, <2>1 DEF Apart, Disk, Databases
  <2>2. CASE ~Exists(n)
    <3>1. DOMAIN rows' = 1 .. Len(rows')
      BY <1>3, <1>4, <2>2, RowsGrow
    <3> QED
      BY <1>3, <1>4, <2>2, <3>1
  <2> QED
    BY <2>1, <2>2
<1>6. \A m \in Names \ {n} : dir[m] # e
  <2> SUFFICES ASSUME NEW m \in Names \ {n}, dir[m] = e
               PROVE  FALSE
    OBVIOUS
  <2>1. Exists(m)
    BY <1>2 DEF Exists
  <2>2. e \in Databases
    BY <2>1 DEF Apart, Disk
  <2>3. Exists(n)
    BY <1>3, <1>4, <2>2 DEF Databases
  <2> QED
    BY <1>1, <1>3, <2>1, <2>3 DEF Apart, Disk
<1>7. /\ \A m \in Names \ {n} : Place'[m] = Place[m] /\ Place[m] # e
      /\ Place'[n] = e
  <2>1. \A m \in Names : Place'[m] = IF dir'[m] \in row' THEN dir'[m] ELSE None
    BY PlaceNext
  <2> QED
    BY <1>1, <1>2, <1>3, <1>6, <2>1 DEF Place
<1>8. Place' = [Place EXCEPT ![n] = e]
  BY <1>1, <1>7, PlaceNext DEF Place
<1>9. CASE dir[n] \in row
  <2>1. Exists(n) /\ Place[n] = dir[n]
    BY <1>1, <1>9, OnShelf
  <2>2. Place' = Place
    BY <1>3, <1>8, <2>1 DEF Place
  <2> QED
    BY <1>2, <1>3, <2>1, <2>2, ShelveStutters
<1>10. CASE dir[n] \notin row
  <2>1. Place[n] = None
    BY <1>1, <1>10 DEF Place
  <2>2. \A m \in Names : Place[m] # e
    BY <1>2, <1>7, <2>1
  <2> QED
    BY <1>1, <1>2, <1>3, <1>5, <1>8, <2>1, <2>2, ShelveCreates
<1> QED
  BY <1>9, <1>10

(* A rename moves an experiment to a free name.                                *)
LEMMA MoveRefines ==
  ASSUME Data, Data', OneOperator, Apart, NEW t \in Threads, Move(t)
  PROVE  Shelve
<1> DEFINE old == job[t].name
           new == job[t].to
<1>1. old \in Names /\ new \in Names /\ UNCHANGED <<rows, row, here>>
  BY DEF Move, Data, Fits
<1>2. Chosen' = Chosen
  BY <1>1, ChosenSame
<1>3. CASE old = new
  <2>1. dir' = dir
    BY <1>3 DEF Move
  <2> QED
    BY <1>1, <1>2, <2>1, PlaceSame, ShelveStutters
<1>4. CASE old # new
  <2>1. /\ ~There(new) /\ dir[old] \in row
        /\ dir' = [dir EXCEPT ![old] = None, ![new] = dir[old]]
    BY <1>4, MoveKept
  <2> HIDE DEF old, new
  <2>2. /\ dir'[old] = None /\ dir'[new] = dir[old]
        /\ \A m \in Names \ {old, new} : dir'[m] = dir[m]
    BY <1>1, <1>4, <2>1 DEF Data
  <2>3. Place[old] = dir[old] /\ Place[old] # None /\ Place[new] = None
    BY <1>1, <2>1, OnShelf, NotInRow DEF There
  <2>4. \A m \in Names : Place'[m] = IF dir'[m] \in row THEN dir'[m] ELSE None
    BY <1>1, PlaceNext
  <2>5. /\ Place'[old] = None /\ Place'[new] = Place[old]
        /\ \A m \in Names \ {old, new} : Place'[m] = Place[m]
    BY <1>1, <2>1, <2>2, <2>3, <2>4 DEF Place
  <2>6. Place' = [Place EXCEPT ![old] = None, ![new] = Place[old]]
    BY <1>1, <1>4, <2>5, PlaceNext DEF Place
  <2> QED
    BY <1>1, <1>2, <2>3, <2>6, ShelveRenames
<1> QED
  BY <1>3, <1>4

(* What is deleted is not what the session writes into.                        *)
LEMMA RemoveRefines ==
  ASSUME Data, Data', OneOperator, Apart, NEW t \in Threads, Remove(t)
  PROVE  Shelve
<1> DEFINE n == job[t].name
<1>1. /\ n \in Names /\ Settled /\ ~Current(n) /\ UNCHANGED <<rows, row, here>>
      /\ dir' = [dir EXCEPT ![n] = None]
  BY RemoveKept DEF Remove
<1> HIDE DEF n
<1>2. dir'[n] = None /\ \A m \in Names \ {n} : dir'[m] = dir[m]
  BY <1>1 DEF Data
<1>3. Chosen' = Chosen
  BY <1>1, ChosenSame
<1>4. CASE dir[n] \notin row
  <2>1. Place' = Place
    BY <1>1, <1>2, <1>4, NotInRow, PlaceSame
  <2> QED
    BY <1>1, <1>3, <2>1, ShelveStutters
<1>5. CASE dir[n] \in row
  <2>1. Place[n] = dir[n] /\ Place[n] # None /\ Exists(n)
    BY <1>1, <1>5, OnShelf
  <2>2. Place[n] # Chosen
    <3>1. CASE Selected
      <4>1. here.name \in Names /\ here.name # n /\ dir[here.name] = here.db
        BY <1>1, <3>1 DEF Settled, Current, Data, Selected, Ledgers
      <4>2. dir[n] # here.db
        BY <1>1, <2>1, <4>1 DEF Apart, Disk
      <4> QED
        BY <2>1, <3>1, <4>2 DEF Chosen
    <3>2. CASE ~Selected
      BY <2>1, <3>2 DEF Chosen
    <3> QED
      BY <3>1, <3>2
  <2>3. \A m \in Names : Place'[m] = IF dir'[m] \in row THEN dir'[m] ELSE None
    BY <1>1, PlaceNext
  <2>4. Place'[n] = None /\ \A m \in Names \ {n} : Place'[m] = Place[m]
    BY <1>1, <1>2, <2>3 DEF Place
  <2>5. Place' = [Place EXCEPT ![n] = None]
    BY <1>1, <2>4, PlaceNext DEF Place
  <2> QED
    BY <1>1, <1>3, <2>1, <2>2, <2>5, ShelveTakes
<1> QED
  BY <1>4, <1>5

LEMMA AdoptRefines ==
  ASSUME Data, Apart, NEW t \in Threads, Adopt(t)
  PROVE  Shelve
<1> DEFINE l == job[t].ledger
<1>1. /\ l \in Ledgers /\ l.name \in Names /\ dir[l.name] = l.db /\ l.db \in row
      /\ here' = l /\ UNCHANGED <<dir, rows, row>>
  BY DEF Adopt, Data, Fits, Ledgers, Apart, Operation, Rely, disk
<1>2. Place[l.name] = l.db /\ Place[l.name] # None
  BY <1>1, OnShelf
<1>3. Chosen' = l.db
  BY <1>1, NoneApart DEF Chosen, Selected
<1> QED
  BY <1>1, <1>2, <1>3, PlaceSame, ShelveChooses

LEMMA AppendRefines ==
  ASSUME Data, Apart, NEW t \in Threads, AppendRow(t)
  PROVE  Shelve
<1>1. UNCHANGED <<dir, row, here>> /\ job[t].ledger.db \in DOMAIN rows
  BY DEF AppendRow, Apart, Disk, Databases, Data
<1>2. Place' = Place /\ Chosen' = Chosen
  BY <1>1, PlaceSame, ChosenSame
<1>3. rows' = rows \/ rows' = [rows EXCEPT ![job[t].ledger.db] = @ + 1]
  BY DEF AppendRow
<1> QED
  BY <1>1, <1>2, <1>3, ShelveWrites, ShelveStutters

LEMMA ArchiveStepRefines ==
  ASSUME Data, Data', OneOperator, Apart, [Next]_vars
  PROVE  Shelve
<1>1. CASE UNCHANGED <<dir, rows, row, here>>
  BY <1>1, PlaceSame, ChosenSame, ShelveStutters
<1>2. ASSUME NEW t \in Threads, Seek(t) \/ Describe(t) \/ Poll(t)
      PROVE  Shelve
  <2>1. job[t].name \in Names
    BY <1>2 DEF Seek, Describe, Poll, Data, Fits, Changes
  <2> QED
    BY <1>2, <2>1, MakingRefines DEF Seek, Describe, Poll
<1>3. ASSUME NEW t \in Threads, Emit(t)
      PROVE  Shelve
  <2>1. here.name \in Names
    BY <1>3 DEF Emit, Data, Selected, Ledgers
  <2> QED
    BY <1>3, <2>1, MakingRefines DEF Emit
<1> QED
  BY <1>1, <1>2, <1>3, OpenLedgerRefines, MoveRefines, RemoveRefines, AdoptRefines, AppendRefines
  DEF Next, Lifecycle, Run, Ask, Begin, vars, disk

LEMMA ArchiveStartRefines == Init => Kept!ShelfInit
<1> SUFFICES ASSUME Init
             PROVE  Kept!ShelfInit
  OBVIOUS
<1>1. Chosen = None /\ DOMAIN rows = DOMAIN Saved /\ \A e \in DOMAIN rows : rows[e] = 0
  BY DEF Init, Chosen, Selected
<1>2. Place \in [Names -> {None} \cup DOMAIN rows]
  <2> DEFINE S == {None} \cup DOMAIN Saved
  <2>1. \A n \in Names : dir[n] \in S
    BY SavedFound
  <2> HIDE DEF S
  <2>2. None \in S
    BY DEF S
  <2>3. Place \in [Names -> S]
    BY <2>1, <2>2 DEF Place
  <2> QED
    BY <1>1, <2>3 DEF S
<1> QED
  BY <1>1, <1>2 DEF Kept!ShelfInit, Place, Chosen

(* Polls' leftovers apart, the archive is a shelf: a name holds one experiment *)
(* at a time, histories only grow, and only a delete takes one away, never the *)
(* one the session writes into.                                                *)
THEOREM ArchiveIsAShelf ==
  ASSUME OneOperator
  PROVE  Spec => IsAShelf
<1>1. ArchiveInv <=> Data /\ Apart
  BY DEF ArchiveInv, Apart
<1>2. ArchiveInv /\ ArchiveInv' /\ [Next]_vars => [Kept!ShelfNext]_(Kept!shelfVars)
  <2>1. ArchiveInv' => Data'
    BY DEF ArchiveInv
  <2> QED
    BY <1>1, <2>1, ArchiveStepRefines DEF Shelve
<1> QED
  BY <1>2, ArchiveStartRefines, ArchiveInvariant, PTL DEF Spec, IsAShelf, Kept!ShelfSpec
===============================================================================
