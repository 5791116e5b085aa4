------------------------------- MODULE Archive --------------------------------
(* ExperimentManager under AutopilotService: a directory per experiment below  *)
(* the runs directory, the one the session writes into, and the threads that   *)
(* start, switch, rename and delete them while an agent measures and consoles  *)
(* poll. Whoever opens a database that is not there creates it, and            *)
(* TelemetryWriter creates the directory it is to write in.                    *)
EXTENDS Naturals, Sequences

CONSTANTS Threads,
          Names,     \* slugs
          Saved,     \* the slugs found at start-up, in some order
          Wants,     \* thread -> what it asks, [op, name]
          Reuse,     \* a slug that was given up may be asked for again
          MaxRows,   \* bound: rows of one database
          MaxMade,   \* bound: databases made before the last lifecycle request
          None

Changes == {"start", "switch", "rename", "delete"}
Ops == Changes \cup {"run", "poll"}

Ledgers == [name : Names, db : Nat]

ASSUME ArchiveAssumption ==
  /\ Saved \in Seq(Names) /\ Reuse \in BOOLEAN /\ MaxRows \in Nat /\ MaxMade \in Nat
  /\ \A i, j \in DOMAIN Saved : Saved[i] = Saved[j] => i = j
  /\ \A t \in Threads : \A want \in Wants[t] :
       /\ want \in [op : Ops, name : Names \cup {None}]
       /\ want.op \in Changes => want.name \in Names
  /\ None \notin Names \cup Nat \cup Ledgers

VARIABLES dir,      \* slug -> its directory's database: None without a directory, 0 without a database
          rows,     \* rows of each database made so far
          row,      \* the databases that hold an experiment row
          here,     \* service.ledger: None or [name, db]
          writers,  \* slugs a TelemetryWriter was made for
          deleted,  \* databases removed by a delete
          spent,    \* slugs given up by a rename or a delete
          at,       \* thread -> where it is
          job       \* thread -> its request and the ledger it has in hand

disk == <<dir, rows, row>>
history == <<deleted, spent>>
vars == <<disk, here, writers, history, at, job>>

NoJob == [op |-> "poll", name |-> None, to |-> None, ledger |-> None]

Init ==
  /\ dir = [n \in Names |-> IF \E i \in DOMAIN Saved : Saved[i] = n
                              THEN CHOOSE i \in DOMAIN Saved : Saved[i] = n ELSE None]
  /\ rows = [i \in DOMAIN Saved |-> 0] /\ row = DOMAIN Saved
  /\ here = None
  /\ writers = {} /\ deleted = {} /\ spent = {}
  /\ at = [t \in Threads |-> "idle"]
  /\ job = [t \in Threads |-> NoJob]

-------------------------------------------------------------------------------
There(n) == dir[n] # None
Exists(n) == dir[n] \notin {None, 0}
MadeDir(n) == IF There(n) THEN dir ELSE [dir EXCEPT ![n] = 0]

(* ExperimentStore(path): the directory and the database, made if need be.     *)
Opened(n) == IF Exists(n) THEN dir[n] ELSE Len(rows) + 1

Open(n) ==
  /\ dir' = [dir EXCEPT ![n] = Opened(n)]
  /\ rows' = IF Exists(n) THEN rows ELSE Append(rows, 0)

Selected == here # None
Current(n) == Selected /\ here.name = n

Goto(t, place) == at' = [at EXCEPT ![t] = place] /\ UNCHANGED job
Finish(t) == at' = [at EXCEPT ![t] = "idle"] /\ job' = [job EXCEPT ![t] = NoJob]

Request(want) ==
  CASE want.op = "rename" -> [op |-> "rename", name |-> here.name, to |-> want.name, ledger |-> here]
    [] want.op = "poll" -> [NoJob EXCEPT !.name = here.name]
    [] want.op = "run" -> [NoJob EXCEPT !.op = "run", !.ledger = here]
    [] OTHER -> [NoJob EXCEPT !.op = want.op, !.name = want.name]

Begin(t, want) ==
  /\ at' = [at EXCEPT ![t] = IF want.op = "run" THEN "appending" ELSE "seeking"]
  /\ job' = [job EXCEPT ![t] = Request(want)]
  /\ UNCHANGED <<disk, here, writers, history>>

(* Mutant: deleting the current experiment is not refused.                     *)
AskForAny(t, want) ==
  /\ at[t] = "idle"
  /\ want.op \in {"run", "rename", "poll"} => Selected
  /\ want.op = "switch" => ~Current(want.name)
  /\ want.op \in Changes => Len(rows) < MaxMade
  /\ want.op \in {"start", "rename"} => Reuse \/ want.name \notin spent
  /\ Begin(t, want)

(* A request. What is refused before the disk is looked at changes nothing and *)
(* is left out: measuring or renaming with nothing selected, deleting the      *)
(* current experiment; so is a switch to it. A run appends to the ledger that  *)
(* is current when its measurement is over.                                    *)
Ask(t, want) ==
  /\ at[t] = "idle"
  /\ want.op \in {"run", "rename", "poll"} => Selected
  /\ want.op \in {"switch", "delete"} => ~Current(want.name)
  /\ want.op \in Changes => Len(rows) < MaxMade
  /\ want.op \in {"start", "rename"} => Reuse \/ want.name \notin spent
  /\ Begin(t, want)

Taken(j) == (j.op = "start" /\ Exists(j.name)) \/ (j.op = "rename" /\ j.to # j.name /\ Exists(j.to))
Missing(j) == j.op \notin {"start", "rename"} /\ ~Exists(j.name)

(* Mutant: a rename does not look whether the new name is taken.               *)
SeekCarelessly(t) ==
  /\ at[t] = "seeking"
  /\ dir' = IF job[t].op = "start" THEN MadeDir(job[t].name) ELSE dir
  /\ IF Missing(job[t]) \/ (job[t].op = "start" /\ Exists(job[t].name)) THEN Finish(t)
     ELSE Goto(t, IF job[t].op = "rename" THEN "moving" ELSE "opening")
  /\ UNCHANGED <<rows, row, here, writers, history>>

(* Whether the database is there. A start or a rename to a name that is taken  *)
(* is refused; a switch, a delete or a poll of one that is not there ends.     *)
Seek(t) ==
  /\ at[t] = "seeking"
  /\ dir' = IF job[t].op = "start" THEN MadeDir(job[t].name) ELSE dir
  /\ IF Taken(job[t]) \/ Missing(job[t]) THEN Finish(t)
     ELSE Goto(t, IF job[t].op = "rename" THEN "moving" ELSE "opening")
  /\ UNCHANGED <<rows, row, here, writers, history>>

(* Mutant: the directory is copied and the old one stays.                      *)
MoveCopying(t) ==
  /\ at[t] = "moving"
  /\ LET old == job[t].name
         new == job[t].to
     IN IF old = new
          THEN UNCHANGED <<dir, spent>> /\ Goto(t, "opening")
          ELSE /\ dir' = [dir EXCEPT ![new] = IF There(old) /\ ~There(new) THEN dir[old] ELSE @]
               /\ spent' = spent \cup {old}
               /\ IF There(old) /\ (Exists(new) \/ (Exists(old) /\ ~There(new)))
                    THEN Goto(t, "opening") ELSE Finish(t)
  /\ UNCHANGED <<rows, row, here, writers, deleted>>

(* Rename the row, close the store, move the directory. A directory already at *)
(* the new name takes the moved one in, where no slug leads; the call goes on  *)
(* only if there is a database at the new name then.                           *)
Move(t) ==
  /\ at[t] = "moving"
  /\ LET old == job[t].name
         new == job[t].to
     IN IF old = new
          THEN UNCHANGED <<dir, spent>> /\ Goto(t, "opening")
          ELSE /\ dir' = [dir EXCEPT ![old] = None,
                                     ![new] = IF There(old) /\ ~There(new) THEN dir[old] ELSE @]
               /\ spent' = spent \cup {old}
               /\ IF There(old) /\ (Exists(new) \/ (Exists(old) /\ ~There(new)))
                    THEN Goto(t, "opening") ELSE Finish(t)
  /\ UNCHANGED <<rows, row, here, writers, deleted>>

(* EditLedger for a start, a switch or a rename, with an experiment row if the *)
(* database holds none.                                                        *)
OpenLedger(t) ==
  /\ at[t] = "opening" /\ job[t].op \in {"start", "switch", "rename"}
  /\ LET n == IF job[t].op = "rename" THEN job[t].to ELSE job[t].name IN
     /\ Open(n)
     /\ row' = row \cup {Opened(n)}
     /\ at' = [at EXCEPT ![t] = "adopting"]
     /\ job' = [job EXCEPT ![t].ledger = [name |-> n, db |-> Opened(n)]]
  /\ UNCHANGED <<here, writers, history>>

(* info, for the delete that reports what it is about to remove.               *)
Describe(t) ==
  /\ at[t] = "opening" /\ job[t].op = "delete"
  /\ Open(job[t].name)
  /\ Goto(t, "removing")
  /\ UNCHANGED <<row, here, writers, history>>

(* A poll reads the rows, or the header, of the database it found.             *)
Poll(t) ==
  /\ at[t] = "opening" /\ job[t].op = "poll"
  /\ Open(job[t].name)
  /\ Finish(t)
  /\ UNCHANGED <<row, here, writers, history>>

(* _adopt, after the seconds a reset takes.                                    *)
Adopt(t) ==
  /\ at[t] = "adopting"
  /\ here' = job[t].ledger
  /\ Finish(t)
  /\ UNCHANGED <<disk, writers, history>>

(* delete's rmtree.                                                            *)
Remove(t) ==
  /\ at[t] = "removing"
  /\ LET n == job[t].name IN
     /\ dir' = [dir EXCEPT ![n] = None]
     /\ deleted' = IF Exists(n) THEN deleted \cup {dir[n]} ELSE deleted
     /\ spent' = spent \cup {n}
  /\ Finish(t)
  /\ UNCHANGED <<rows, row, here, writers>>

-------------------------------------------------------------------------------
(* run_flowgraph's row. The thread's connection is on the file, wherever it    *)
(* was moved to; a thread that has none looks for the path and may not find it.*)
AppendRow(t) ==
  /\ at[t] = "appending"
  /\ \/ /\ rows[job[t].ledger.db] < MaxRows
        /\ rows' = [rows EXCEPT ![job[t].ledger.db] = @ + 1]
        /\ Goto(t, "emitting")
     \/ /\ ~Exists(job[t].ledger.name) \/ rows[job[t].ledger.db] = MaxRows
        /\ Finish(t) /\ UNCHANGED rows
  /\ UNCHANGED <<dir, row, here, writers, history>>

(* attach_telemetry's emit: a writer for the path of the experiment selected   *)
(* now, which the session may be leaving. The first one makes the directory.   *)
Emit(t) ==
  /\ at[t] = "emitting"
  /\ dir' = IF here.name \in writers THEN dir ELSE MadeDir(here.name)
  /\ writers' = writers \cup {here.name}
  /\ Finish(t)
  /\ UNCHANGED <<rows, row, here, history>>

-------------------------------------------------------------------------------
Lifecycle(t) ==
  Seek(t) \/ Move(t) \/ OpenLedger(t) \/ Describe(t) \/ Poll(t) \/ Adopt(t) \/ Remove(t)

Run(t) == AppendRow(t) \/ Emit(t)

Next == \E t \in Threads : (\E want \in Wants[t] : Ask(t, want)) \/ Lifecycle(t) \/ Run(t)

Spec == Init /\ [][Next]_vars

-------------------------------------------------------------------------------
(* Outside a rename, the experiment the session writes into is on disk under   *)
(* its own name, whatever the console polls and deletes meanwhile: appends do  *)
(* not fail "in a way that looks like a hardware fault" (service.py:344).      *)
Renaming == \E t \in Threads : job[t].op = "rename" /\ at[t] \in {"opening", "adopting"}

CurrentIsThere == Selected /\ ~Renaming => dir[here.name] = here.db

(* A row that was written can be found again, unless its experiment was        *)
(* deleted: renames, switches and polls lose and bury nothing.                 *)
RowsSurvive == \A d \in DOMAIN rows : rows[d] > 0 => d \in deleted \/ \E n \in Names : dir[n] = d

(* Databases that polls leave behind apart, the directories are a shelf of     *)
(* experiments, and no delete takes the one the session writes into.           *)
Kept == INSTANCE Shelf WITH
  place <- [n \in Names |-> IF dir[n] \in row THEN dir[n] ELSE None],
  written <- rows,
  chosen <- IF Selected THEN here.db ELSE None

IsAShelf == Kept!ShelfSpec
===============================================================================
