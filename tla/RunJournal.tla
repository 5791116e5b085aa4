------------------------------ MODULE RunJournal ------------------------------
(* What the edit ledger promises a reader, said without a word about sessions, *)
(* radios or threads: an experiment is a growing journal that can be concluded *)
(* and reopened, and whose report counts exactly the rows it closes.           *)
EXTENDS Naturals, Sequences

CONSTANT Exps       \* experiments, named by their directory

VARIABLES journal,  \* experiment -> its rows, oldest first; each row is a record
                    \* with at least a kind and a number seq
          closed,   \* experiment -> is it concluded
          report    \* experiment -> rows counted by its last report

journalVars == <<journal, closed, report>>

(* A row that stands for something the agent did, numbered after every row     *)
(* before it; a note carries the number of the row it speaks of instead.       *)
Follows(row, rows) ==
  row.kind = "annotation" \/ \A i \in DOMAIN rows : rows[i].seq < row.seq

Init ==
  /\ journal = [e \in Exps |-> <<>>]
  /\ closed = [e \in Exps |-> FALSE]
  /\ report = [e \in Exps |-> 0]

(* Writing a row, whatever the row is, reopens the experiment it is written to *)
(* and leaves every earlier row as it was.                                     *)
Write(e) ==
  /\ Len(journal'[e]) = Len(journal[e]) + 1
  /\ LET row == journal'[e][Len(journal[e]) + 1]
     IN  /\ Follows(row, journal[e])
         /\ journal' = [journal EXCEPT ![e] = Append(@, row)]
  /\ closed' = [closed EXCEPT ![e] = FALSE]
  /\ UNCHANGED report

(* A conclusion closes an open experiment and reports every row it holds.      *)
Close(e) ==
  /\ ~closed[e]
  /\ closed' = [closed EXCEPT ![e] = TRUE]
  /\ report' = [report EXCEPT ![e] = Len(journal[e])]
  /\ UNCHANGED journal

Next == \E e \in Exps : Write(e) \/ Close(e)

Spec == Init /\ [][Next]_journalVars
===============================================================================
