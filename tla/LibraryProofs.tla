----------------------------- MODULE LibraryProofs ----------------------------
(* What holds of an experiment's files and vocabulary for any experiments,     *)
(* structures, skills, edits and numbers of calls.                             *)
EXTENDS Library, SequenceTheorems, WellFoundedInduction, TLAPS

(* Where a tool stands, an experiment is selected: the console selects another *)
(* one, but never none.                                                        *)
Selected ==
  /\ current \in Exps \cup {None}
  /\ at \in {"idle", "flown", "export", "bench", "retrial"}
  /\ at # "idle" => current \in Exps

-------------------------------------------------------------------------------
(* Files.                                                                      *)

(* A graph is safe where a file holds it or somebody wrote over it by name.    *)
Safe(e, doc) == doc \in taken[e] \/ \E n \in DOMAIN files[e] : files[e][n] = doc

(* What an export answered for is safe, and so is what a content-addressed     *)
(* file is named after, which ExportTarget relies on without reading the file. *)
Shelved ==
  /\ DOMAIN files = Exps /\ DOMAIN kept = Exps /\ DOMAIN taken = Exps
  /\ \A e \in Exps : \A doc \in kept[e] : Safe(e, doc)
  /\ \A e \in Exps : \A n \in DOMAIN files[e] : n.digest # <<>> => Safe(e, n.digest[1])

FilesTyped ==
  /\ files = [e \in Exps |-> files[e]]
  /\ kept = [e \in Exps |-> kept[e]] /\ taken = [e \in Exps |-> taken[e]]

FilesInv == Selected /\ FilesTyped /\ Shelved

-------------------------------------------------------------------------------
(* Skills.                                                                     *)

AllTargets == Targets \cup {DefaultTarget}
Verified == [min : Gains, against : AllTargets, level : Levels, moved : BOOLEAN]
SkillsWith(tests) ==
  [name : Names, exp : Exps, target : AllTargets,
   gain : {0} \cup {Gain(m) : m \in {x \in SUBSET Ladder : Worth(x)}},
   strayed : BOOLEAN, orphaned : BOOLEAN, test : tests]
Sought == SkillsWith({None})
Promotable == SkillsWith(Verified)
Pieces == [skill : Promotable, whole : BOOLEAN]
Line == Seq(Pieces) \ {<<>>}

SkillTypes ==
  /\ authorTarget \in AllTargets
  /\ proposal \in {None} \cup Sought
  /\ job \in [skill : {None} \cup Sought, exp : Exps \cup {None}, moved : BOOLEAN, min : {0} \cup Gains]
  /\ learned \subseteq Promotable
  /\ lines \in [Exps -> Seq(Line)] /\ ended \in [Exps -> BOOLEAN]
  /\ promoted \in [Exps -> SUBSET Promotable]
  /\ \A e \in Exps : ~ended[e] => lines[e] # <<>>

(* While a search runs, the target is its own; afterwards it is that of the    *)
(* proposal left, unless a later search failed.                                *)
Aimed(s) == s.target = authorTarget \/ s.orphaned
Home(s, e) == s.exp = e \/ s.strayed

ProposalFits ==
  proposal # None => Home(proposal, current) /\ (at # "bench" => Aimed(proposal))

JobFits ==
  /\ at \in {"bench", "retrial"} =>
       /\ job.skill \in Sought /\ job.exp \in Exps
       /\ ~job.moved => job.exp = current
       /\ Home(job.skill, job.exp) /\ Aimed(job.skill)
  /\ at = "bench" =>
       ~job.skill.orphaned /\ ~job.skill.strayed
  /\ at = "retrial" => job.min \in Gains /\ job.skill.gain >= job.min

(* Every piece of every line was earned, cut short or not.                     *)
LinesEarned ==
  \A e \in Exps : \A i \in DOMAIN lines[e] : \A k \in DOMAIN lines[e][i] :
    Earned(lines[e][i][k].skill, e)

(* What a store's lines still say of a skill: it stands alone on a whole line, *)
(* or on a line that others were joined to.                                    *)
Told(s, e) ==
  \E i \in DOMAIN lines[e] : \E k \in DOMAIN lines[e][i] :
    lines[e][i][k].skill = s /\ (Len(lines[e][i]) > 1 \/ lines[e][i][1].whole)

(* What promote_skill kept is earned and told, what is loaded is earned.       *)
PromisesTold == \A e \in Exps : \A s \in promoted[e] : Earned(s, e) /\ Told(s, e)
LearnedEarned == current # None => \A s \in learned : Earned(s, current)

Kept == SkillTypes /\ LinesEarned /\ PromisesTold /\ LearnedEarned
VocabularyInv == Selected /\ Kept /\ ProposalFits /\ JobFits

-------------------------------------------------------------------------------
(* A write that puts what it overwrites among what was taken loses nothing.    *)
LEMMA Written ==
  ASSUME FilesTyped, NEW e \in Exps, NEW n, NEW doc, Write(e, n, doc), DOMAIN files = Exps,
         \A d \in Exps \ {e} : taken[d] \subseteq taken'[d],
         (taken[e] \cup Overwritten(e, n, doc)) \ {doc} \subseteq taken'[e]
  PROVE  /\ files' = [x \in Exps |-> files'[x]]
         /\ \A x \in Exps : \A m \in DOMAIN files'[x] \ DOMAIN files[x] : x = e /\ m = n
         /\ n \in DOMAIN files'[e] /\ files'[e][n] = doc
         /\ \A x \in Exps : \A d : Safe(x, d) => Safe(x, d)'
<1> DEFINE g == Entered(files[e], n, doc)
<1>1. /\ DOMAIN g = {n} \cup DOMAIN files[e] /\ g[n] = doc
      /\ \A m \in DOMAIN files[e] \ {n} : g[m] = files[e][m]
  BY DEF Entered
<1>2. files' = [files EXCEPT ![e] = g]
  BY DEF Write
<1> HIDE DEF g
<1>3. files'[e] = g /\ \A x \in Exps \ {e} : files'[x] = files[x]
  BY <1>2
<1>4. files' = [x \in Exps |-> files'[x]]
  BY <1>2 DEF FilesTyped
<1>5. ASSUME NEW x \in Exps, NEW d, Safe(x, d) PROVE Safe(x, d)'
  <2>1. CASE x # e
    BY <1>3, <1>5, <2>1 DEF Safe
  <2>2. CASE x = e /\ d = doc
    BY <1>1, <1>3, <2>2 DEF Safe
  <2>3. CASE x = e /\ d # doc
    <3>1. CASE d \in taken[e]
      BY <2>3, <3>1 DEF Safe
    <3>2. CASE \E m \in DOMAIN files[e] : files[e][m] = d
      <4>1. PICK m \in DOMAIN files[e] : files[e][m] = d
        BY <3>2
      <4>2. CASE m = n
        <5>1. d \in Overwritten(e, n, doc)
          BY <2>3, <4>1, <4>2 DEF Overwritten
        <5> QED
          BY <2>3, <5>1 DEF Safe
      <4>3. CASE m # n
        <5>1. m \in DOMAIN files'[e] /\ files'[e][m] = d
          BY <1>1, <1>3, <4>1, <4>3
        <5> QED
          BY <2>3, <5>1 DEF Safe
      <4> QED
        BY <4>2, <4>3
    <3> QED
      BY <1>5, <2>3, <3>1, <3>2 DEF Safe
  <2> QED
    BY <2>1, <2>2, <2>3
<1> QED
  BY <1>1, <1>3, <1>4, <1>5

LEMMA FilesStart == Init => FilesInv
BY DEF Init, FilesInv, Selected, FilesTyped, Shelved

LEMMA SelectedStep == Selected /\ [Next]_vars => Selected'
<1> SUFFICES ASSUME Selected, [Next]_vars PROVE Selected'
  OBVIOUS
<1> USE DEF Selected, session, Ready, Return, NoJob
<1>1. CASE \E s \in Structures : BuildFlowgraph(s)
  BY <1>1 DEF BuildFlowgraph
<1>2. CASE Fly
  BY <1>2 DEF Fly
<1>3. CASE Record
  BY <1>3 DEF Record
<1>4. CASE \E b \in BOOLEAN : ExportRan(b) \/ ExportFlowgraph(b)
  BY <1>4 DEF ExportRan, ExportFlowgraph
<1>5. CASE \E e \in Exps : \E n \in DOMAIN files[e] : ImportFlowgraph(e, n) \/ OperatorEdit(e, n)
  BY <1>5 DEF ImportFlowgraph, OperatorEdit
<1>6. CASE \E n \in Names, t \in Targets : Author(n, t)
  BY <1>6 DEF Author
<1>7. CASE \E m \in SUBSET Ladder : Authored(m)
  BY <1>7 DEF Authored
<1>8. CASE AuthorRaises
  BY <1>8 DEF AuthorRaises
<1>9. CASE \E g \in Gains : Promote(g)
  BY <1>9 DEF Promote
<1>10. CASE \E l \in Levels : Retrial(l) \/ StoreFull(l)
  BY <1>10 DEF Retrial, StoreFull
<1>11. CASE \E e \in Exps : Switch(e)
  BY <1>11 DEF Switch
<1>12. CASE Restart
  BY <1>12 DEF Restart, Dead
<1>13. CASE \E l \in Levels, w \in BOOLEAN : DieAppending(l, w)
  BY <1>13 DEF DieAppending, Dead
<1>14. CASE UNCHANGED vars
  BY <1>14 DEF vars
<1> QED
  BY <1>1, <1>2, <1>3, <1>4, <1>5, <1>6, <1>7, <1>8, <1>9, <1>10, <1>11, <1>12, <1>13, <1>14
  DEF Next

(* What a write adds to the shelf, as long as what it says it kept is safe.    *)
LEMMA ShelfGrows ==
  ASSUME FilesTyped, Shelved,
         NEW e \in Exps, NEW doc,
         kept' = [kept EXCEPT ![e] = kept'[e]], kept'[e] \subseteq kept[e] \cup {doc},
         kept'[e] # kept[e] => Safe(e, doc)',
         taken' = [taken EXCEPT ![e] = taken'[e]],
         files' = [x \in Exps |-> files'[x]],
         \A x \in Exps : \A m \in DOMAIN files'[x] \ DOMAIN files[x] :
            x = e /\ (m.digest = <<>> \/ Safe(e, m.digest[1])'),
         \A x \in Exps : \A d : Safe(x, d) => Safe(x, d)'
  PROVE  FilesTyped' /\ Shelved'
<1>1. FilesTyped' /\ DOMAIN files' = Exps /\ DOMAIN kept' = Exps /\ DOMAIN taken' = Exps
  <2>1. kept' = [x \in Exps |-> kept'[x]] /\ taken' = [x \in Exps |-> taken'[x]]
    BY DEF FilesTyped, Shelved
  <2> QED
    BY <2>1 DEF FilesTyped
<1>2. ASSUME NEW x \in Exps, NEW d \in kept'[x] PROVE Safe(x, d)'
  <2>1. CASE d \in kept[x]
    BY <2>1 DEF Shelved
  <2>2. CASE d \notin kept[x]
    <3>1. x = e
      BY <2>2, <1>2 DEF Shelved, FilesTyped
    <3> QED
      BY <2>2, <3>1, <1>2
  <2> QED
    BY <2>1, <2>2
<1>3. ASSUME NEW x \in Exps, NEW m \in DOMAIN files'[x], m.digest # <<>>
      PROVE  Safe(x, m.digest[1])'
  <2>1. CASE m \in DOMAIN files[x]
    BY <2>1, <1>3 DEF Shelved
  <2>2. CASE m \notin DOMAIN files[x]
    BY <2>2, <1>3
  <2> QED
    BY <2>1, <2>2
<1> QED
  BY <1>1, <1>2, <1>3 DEF Shelved

LEMMA ShelfStays ==
  ASSUME FilesTyped, Shelved, UNCHANGED <<files, kept, taken>>
  PROVE  FilesTyped' /\ Shelved'
BY DEF FilesTyped, Shelved, Safe

LEMMA ExportRanShelves ==
  ASSUME FilesInv, NEW written \in BOOLEAN, ExportRan(written)
  PROVE  FilesTyped' /\ Shelved'
<1> USE DEF FilesInv
<1>1. CASE spec = None
  <2>1. UNCHANGED <<files, kept, taken>>
    BY <1>1 DEF ExportRan, graphs
  <2> QED
    BY <2>1, ShelfStays
<1>2. CASE spec # None
  <2>0. PICK e, doc : e \in Exps /\ e = current /\ doc = BuildGrc(spec)
    BY DEF ExportRan, FilesInv, Selected
  <2> DEFINE target == ExportTarget(spec)
  <2>1. /\ IF target = {} THEN UNCHANGED files
             ELSE \E n \in target : Write(e, n, IF written THEN doc ELSE None)
        /\ kept' = [kept EXCEPT ![e] = IF written THEN @ \cup {doc} ELSE @]
        /\ taken' = [taken EXCEPT ![e] =
             IF written THEN (IF target = {} THEN @ ELSE @ \ {doc}) ELSE @ \cup {doc}]
    BY <1>2, <2>0 DEF ExportRan
  <2>2. e \in Exps
    BY <2>0
  <2>3. DOMAIN kept = Exps /\ DOMAIN taken = Exps /\ DOMAIN files = Exps
    BY DEF Shelved
  <2>4. target \subseteq {Plain(spec), Addressed(spec)} \ DOMAIN files[e]
    BY <2>0 DEF ExportTarget
  <2>5. target # {} \/ Safe(e, doc)
    <3>1. CASE Plain(spec) \notin DOMAIN files[e]
      BY <2>0, <3>1 DEF ExportTarget
    <3>2. CASE Holds(e, Plain(spec), doc)
      BY <3>2 DEF Holds, Safe
    <3>3. CASE Plain(spec) \in DOMAIN files[e] /\ ~Holds(e, Plain(spec), doc)
      <4>1. CASE Addressed(spec) \notin DOMAIN files[e]
        BY <2>0, <3>3, <4>1 DEF ExportTarget
      <4>2. CASE Addressed(spec) \in DOMAIN files[e]
        <5>1. Addressed(spec).digest # <<>> /\ Addressed(spec).digest[1] = doc
          BY <2>0 DEF Addressed
        <5> QED
          BY <2>2, <4>2, <5>1 DEF Shelved
      <4> QED
        BY <4>1, <4>2
    <3> QED
      BY <3>1, <3>2, <3>3
  <2>6. /\ \A m \in target : m = Plain(spec) \/ m = Addressed(spec)
        /\ Plain(spec).digest = <<>> /\ Addressed(spec).digest[1] = doc
    BY <2>0, <2>4 DEF Plain, Addressed
  <2> HIDE DEF target
  <2>7. /\ kept' = [kept EXCEPT ![e] = kept'[e]]
        /\ kept'[e] \subseteq kept[e] \cup {doc}
        /\ kept'[e] # kept[e] => written
        /\ taken' = [taken EXCEPT ![e] = taken'[e]]
    BY <2>1, <2>2, <2>3
  <2>8. CASE target = {}
    <3>1. files' = files /\ taken[e] \subseteq taken'[e] /\ Safe(e, doc)
      BY <2>1, <2>2, <2>3, <2>5, <2>8
    <3>2. \A x \in Exps : taken[x] \subseteq taken'[x]
      BY <2>3, <2>7, <3>1
    <3>3. \A x \in Exps : \A d : Safe(x, d) => Safe(x, d)'
      BY <3>1, <3>2 DEF Safe
    <3>4. files' = [x \in Exps |-> files'[x]]
      BY <3>1 DEF FilesTyped
    <3>5. \A x \in Exps : DOMAIN files'[x] \ DOMAIN files[x] = {}
      BY <3>1
    <3>6. Safe(e, doc)'
      BY <2>2, <3>1, <3>3
    <3> QED
      BY <2>2, <2>7, <3>3, <3>4, <3>5, <3>6, ShelfGrows
  <2>9. CASE target # {}
    <3> DEFINE put == IF written THEN doc ELSE None
    <3>1. PICK n \in target : Write(e, n, put)
      BY <2>1, <2>9
    <3>2. n \notin DOMAIN files[e]
      BY <2>4 DEF target
    <3>3. Overwritten(e, n, put) = {}
      BY <3>2 DEF Overwritten
    <3>4. taken'[e] = IF written THEN taken[e] \ {doc} ELSE taken[e] \cup {doc}
      BY <2>1, <2>2, <2>3, <2>9
    <3>5. (taken[e] \cup Overwritten(e, n, put)) \ {put} \subseteq taken'[e]
      BY <3>3, <3>4
    <3>6. \A x \in Exps \ {e} : taken[x] \subseteq taken'[x]
      BY <2>3, <2>7
    <3> HIDE DEF put
    <3>7. /\ files' = [x \in Exps |-> files'[x]]
          /\ \A x \in Exps : \A m \in DOMAIN files'[x] \ DOMAIN files[x] : x = e /\ m = n
          /\ n \in DOMAIN files'[e] /\ files'[e][n] = put
          /\ \A x \in Exps : \A d : Safe(x, d) => Safe(x, d)'
      BY <2>2, <2>3, <3>1, <3>5, <3>6, Written
    <3>8. Safe(e, doc)'
      BY <3>4, <3>7 DEF Safe, put
    <3>9. n.digest = <<>> \/ Safe(e, n.digest[1])'
      BY <2>6, <3>8
    <3> QED
      BY <2>2, <2>7, <3>7, <3>8, <3>9, ShelfGrows
  <2> QED
    BY <2>8, <2>9
<1> QED
  BY <1>1, <1>2

(* A file that is written by name adds no content-addressed one.               *)
LEMMA NamedWriteShelves ==
  ASSUME FilesInv, NEW e \in Exps, NEW n, NEW doc, Write(e, n, doc),
         n \in DOMAIN files[e] \/ n.digest = <<>>,
         kept' = kept, taken' = [taken EXCEPT ![e] = taken'[e]],
         (taken[e] \cup Overwritten(e, n, doc)) \ {doc} \subseteq taken'[e]
  PROVE  FilesTyped' /\ Shelved'
<1> USE DEF FilesInv
<1>1. DOMAIN kept = Exps /\ DOMAIN taken = Exps /\ DOMAIN files = Exps
  BY DEF Shelved
<1>2. \A x \in Exps \ {e} : taken[x] \subseteq taken'[x]
  BY <1>1
<1>3. /\ files' = [x \in Exps |-> files'[x]]
      /\ \A x \in Exps : \A m \in DOMAIN files'[x] \ DOMAIN files[x] : x = e /\ m = n
      /\ \A x \in Exps : \A d : Safe(x, d) => Safe(x, d)'
  BY <1>1, <1>2, Written
<1>4. kept' = [kept EXCEPT ![e] = kept'[e]] /\ kept'[e] \subseteq kept[e] \cup {doc}
  BY <1>1 DEF FilesTyped
<1>5. \A x \in Exps : \A m \in DOMAIN files'[x] \ DOMAIN files[x] : x = e /\ m.digest = <<>>
  BY <1>3
<1> QED
  BY <1>3, <1>4, <1>5, ShelfGrows

LEMMA ExportShelves ==
  ASSUME FilesInv, NEW written \in BOOLEAN, ExportFlowgraph(written)
  PROVE  FilesTyped' /\ Shelved'
<1> DEFINE doc == IF written THEN BuildGrc(spec) ELSE None
           n == Plain(spec)
<1>1. current \in Exps
  BY DEF ExportFlowgraph, Ready, FilesInv, Selected
<1>2. /\ Write(current, n, doc) /\ kept' = kept
      /\ taken' = [taken EXCEPT ![current] = (@ \cup Overwritten(current, n, doc)) \ {doc}]
  BY DEF ExportFlowgraph
<1>3. n.digest = <<>>
  BY DEF Plain
<1>4. DOMAIN taken = Exps
  BY DEF FilesInv, Shelved
<1> HIDE DEF n, doc
<1>5. taken'[current] = (taken[current] \cup Overwritten(current, n, doc)) \ {doc}
  BY <1>1, <1>2, <1>4
<1>6. taken' = [taken EXCEPT ![current] = taken'[current]]
  BY <1>2, <1>5
<1> QED
  BY <1>1, <1>2, <1>3, <1>5, <1>6, NamedWriteShelves

LEMMA EditShelves ==
  ASSUME FilesInv, NEW e \in Exps, NEW n \in DOMAIN files[e], OperatorEdit(e, n)
  PROVE  FilesTyped' /\ Shelved'
<1>1. PICK doc : /\ Write(e, n, doc) /\ kept' = kept
                 /\ taken' = [taken EXCEPT ![e] = @ \cup Overwritten(e, n, doc)]
  BY DEF OperatorEdit
<1>2. DOMAIN taken = Exps
  BY DEF FilesInv, Shelved
<1>3. taken'[e] = taken[e] \cup Overwritten(e, n, doc)
  BY <1>1, <1>2
<1>4. taken' = [taken EXCEPT ![e] = taken'[e]]
  BY <1>1, <1>3
<1> QED
  BY <1>1, <1>3, <1>4, NamedWriteShelves

LEMMA FilesStep == FilesInv /\ [Next]_vars => FilesInv'
<1> SUFFICES ASSUME FilesInv, [Next]_vars PROVE FilesTyped' /\ Shelved'
  BY SelectedStep DEF FilesInv
<1>1. CASE \E b \in BOOLEAN : ExportRan(b) \/ ExportFlowgraph(b)
  BY <1>1, ExportRanShelves, ExportShelves
<1>2. CASE \E e \in Exps : \E n \in DOMAIN files[e] : OperatorEdit(e, n)
  BY <1>2, EditShelves
<1>3. CASE UNCHANGED <<files, kept, taken>>
  BY <1>3, ShelfStays DEF FilesInv
<1>4. \/ \E b \in BOOLEAN : ExportRan(b) \/ ExportFlowgraph(b)
      \/ \E e \in Exps : \E n \in DOMAIN files[e] : OperatorEdit(e, n)
      \/ UNCHANGED <<files, kept, taken>>
  BY DEF Next, vars, graphs, BuildFlowgraph, Fly, Record, ImportFlowgraph, Author, Authored,
     AuthorRaises, Promote, Retrial, StoreFull, Switch, Restart, DieAppending, Dead
<1> QED
  BY <1>1, <1>2, <1>3, <1>4

(* Every structure that a run was recorded under stays downloadable, for any   *)
(* structures under one name, any edits and any writes that fail: the          *)
(* automatic export writes over nothing, and what it takes for there is there. *)
THEOREM RunsStayDownloadable == Spec => []EveryRunDownloadable
<1>1. FilesInv => EveryRunDownloadable
  BY DEF FilesInv, Shelved, Safe, EveryRunDownloadable
<1> QED
  BY <1>1, FilesStart, FilesStep, PTL DEF Spec

-------------------------------------------------------------------------------
LinesTyped == lines \in [Exps -> Seq(Line)]

(* A skill that stands alone on a whole line.                                  *)
Alone(s, e) == \E i \in Loaded(e) : SkillAt(e, i) = s

LEMMA ToldIs ==
  LinesTyped => \A e \in Exps : \A s :
    /\ s \in Stored(e) => Told(s, e)
    /\ Told(s, e) => Alone(s, e) \/ Joined(s, e)
<1> SUFFICES ASSUME LinesTyped, NEW e \in Exps, NEW s
             PROVE  /\ s \in Stored(e) => Told(s, e)
                    /\ Told(s, e) => Alone(s, e) \/ Joined(s, e)
  OBVIOUS
<1>1. lines[e] \in Seq(Line)
  BY DEF LinesTyped
<1>2. \A i \in DOMAIN lines[e] : lines[e][i] \in Seq(Pieces) /\ lines[e][i] # <<>>
  BY <1>1 DEF Line
<1>3. \A l \in Seq(Pieces) : l # <<>> => Len(l) >= 1 /\ DOMAIN l = 1 .. Len(l) /\ Head(l) = l[1]
  OBVIOUS
<1>4. \A i \in DOMAIN lines[e] :
        /\ Len(lines[e][i]) \in Nat /\ Len(lines[e][i]) >= 1
        /\ DOMAIN lines[e][i] = 1 .. Len(lines[e][i]) /\ Head(lines[e][i]) = lines[e][i][1]
  <2> TAKE i \in DOMAIN lines[e]
  <2>1. lines[e][i] \in Seq(Pieces) /\ lines[e][i] # <<>>
    BY <1>2
  <2> QED
    BY <1>3, <2>1
<1>5. ASSUME s \in Stored(e) PROVE Told(s, e)
  <2>1. PICK i \in Loaded(e) : s = SkillAt(e, i)
    BY <1>5 DEF Stored
  <2>2. i \in DOMAIN lines[e] /\ Loads(lines[e][i]) /\ s = Head(lines[e][i]).skill
    BY <2>1 DEF Loaded, SkillAt
  <2>3. 1 \in DOMAIN lines[e][i]
    BY <1>4, <2>2
  <2> QED
    BY <1>4, <2>2, <2>3 DEF Told, Loads
<1>7. ASSUME Told(s, e) PROVE Alone(s, e) \/ Joined(s, e)
  <2>1. PICK i \in DOMAIN lines[e] : \E k \in DOMAIN lines[e][i] :
          lines[e][i][k].skill = s /\ (Len(lines[e][i]) > 1 \/ lines[e][i][1].whole)
    BY <1>7 DEF Told
  <2>2. PICK k \in DOMAIN lines[e][i] :
          lines[e][i][k].skill = s /\ (Len(lines[e][i]) > 1 \/ lines[e][i][1].whole)
    BY <2>1
  <2>3. lines[e][i] \in ToSet(lines[e]) /\ lines[e][i][k] \in ToSet(lines[e][i])
    BY DEF ToSet
  <2>4. CASE Len(lines[e][i]) > 1
    BY <2>2, <2>3, <2>4 DEF Joined
  <2>5. CASE Len(lines[e][i]) = 1
    <3>1. k = 1
      <4>1. k \in 1 .. Len(lines[e][i])
        BY <1>4
      <4> QED
        BY <2>5, <4>1
    <3>2. Head(lines[e][i]) = lines[e][i][1] /\ lines[e][i][1].skill = s
      <4>1. lines[e][i][k].skill = s
        BY <2>2
      <4> QED
        BY <1>4, <3>1, <4>1
    <3>3. lines[e][i][1].whole
      BY <2>2, <2>5
    <3>4. Loads(lines[e][i])
      BY <2>5, <3>2, <3>3, Zenon DEF Loads
    <3>5. i \in Loaded(e) /\ SkillAt(e, i) = s
      BY <2>1, <3>2, <3>4 DEF Loaded, SkillAt
    <3> QED
      BY <3>5 DEF Alone
  <2>6. \A n \in Nat : n >= 1 => n = 1 \/ n > 1
    OBVIOUS
  <2>7. Len(lines[e][i]) \in Nat /\ Len(lines[e][i]) >= 1
    BY <1>4
  <2>8. Len(lines[e][i]) = 1 \/ Len(lines[e][i]) > 1
    BY <2>6, <2>7
  <2> QED
    BY <2>4, <2>5, <2>8
<1> QED
  BY <1>5, <1>7

(* What is appended to a store: nothing that was told is lost, and the new     *)
(* piece is told if it is whole or lands on a line cut short.                  *)
LEMMA PutTells ==
  ASSUME SkillTypes, NEW e \in Exps, NEW piece \in Pieces, NEW newline \in BOOLEAN,
         Put(e, piece, newline)
  PROVE  /\ LinesTyped' /\ ended' \in [Exps -> BOOLEAN]
         /\ \A x \in Exps : ~ended'[x] => lines'[x] # <<>>
         /\ LinesEarned /\ Earned(piece.skill, e) => LinesEarned'
         /\ \A x \in Exps : \A s : Told(s, x) => Told(s, x)'
         /\ piece.whole => Told(piece.skill, e)'
<1> DEFINE old == lines[e]
           new == lines'[e]
           n == Len(old)
<1>1. old \in Seq(Line) /\ n \in Nat /\ DOMAIN old = 1 .. n
  BY DEF SkillTypes
<1>2. /\ new = IF ended[e] THEN Append(old, <<piece>>) ELSE [old EXCEPT ![n] = Append(old[n], piece)]
      /\ lines' = [lines EXCEPT ![e] = new] /\ ended' = [ended EXCEPT ![e] = newline]
  BY DEF Put, SkillTypes, ReplaceAt, Last
<1>3. <<piece>> \in Line
  <2>1. <<piece>> \in Seq(Pieces) /\ Len(<<piece>>) = 1 /\ Len(<<>>) = 0
    OBVIOUS
  <2>2. <<piece>> # <<>>
    BY <2>1
  <2> QED
    BY <2>1, <2>2 DEF Line
<1>4. ~ended[e] => n >= 1
  BY <1>1 DEF SkillTypes
<1>5. \A i \in 1 .. n : old[i] \in Line
  BY <1>1
<1>6. ASSUME NEW l \in Line
      PROVE  /\ Append(l, piece) \in Line /\ Len(l) \in Nat /\ Len(l) >= 1
             /\ Len(Append(l, piece)) = Len(l) + 1 /\ DOMAIN l = 1 .. Len(l)
             /\ DOMAIN Append(l, piece) = 1 .. (Len(l) + 1)
             /\ \A k \in 1 .. Len(l) : Append(l, piece)[k] = l[k]
             /\ Append(l, piece)[Len(l) + 1] = piece
  <2>1. l \in Seq(Pieces) /\ l # <<>>
    BY DEF Line
  <2>2. /\ Len(l) \in Nat /\ Len(l) >= 1 /\ DOMAIN l = 1 .. Len(l)
        /\ Append(l, piece) \in Seq(Pieces) /\ Len(Append(l, piece)) = Len(l) + 1
    BY <2>1
  <2>3. Append(l, piece) # <<>>
    BY <2>2
  <2>4. DOMAIN Append(l, piece) = 1 .. (Len(l) + 1)
    BY <2>1, <2>2
  <2>5. \A k \in 1 .. Len(l) : Append(l, piece)[k] = l[k]
    BY <2>1
  <2>6. Append(l, piece)[Len(l) + 1] = piece
    BY <2>1
  <2> QED
    BY <2>2, <2>3, <2>4, <2>5, <2>6 DEF Line
<1>7. /\ new \in Seq(Line) /\ new # <<>>
      /\ \A i \in 1 .. n : i \in DOMAIN new /\ (new[i] = old[i] \/ new[i] = Append(old[i], piece))
      /\ \A i \in DOMAIN new : i \in 1 .. n \/ new[i] = <<piece>>
      /\ \E i \in DOMAIN new : new[i] = <<piece>> \/ (i \in 1 .. n /\ new[i] = Append(old[i], piece))
  <2> HIDE DEF new, old, n
  <2>1. CASE ended[e]
    <3>1. new = Append(old, <<piece>>)
      BY <1>2, <2>1
    <3>2. /\ new \in Seq(Line) /\ DOMAIN new = 1 .. (n + 1) /\ Len(new) = n + 1
          /\ \A i \in 1 .. n : new[i] = old[i]
          /\ new[n + 1] = <<piece>>
      BY <1>1, <1>3, <3>1 DEF n
    <3>3. new # <<>>
      BY <1>1, <3>2
    <3> QED
      BY <1>1, <3>2, <3>3
  <2>2. CASE ~ended[e]
    <3>1. new = [old EXCEPT ![n] = Append(old[n], piece)] /\ n \in 1 .. n
      BY <1>1, <1>2, <1>4, <2>2
    <3>2. Append(old[n], piece) \in Line
      BY <1>5, <1>6, <3>1
    <3>3. /\ new \in Seq(Line) /\ DOMAIN new = 1 .. n /\ Len(new) = n
          /\ \A i \in 1 .. n : new[i] = IF i = n THEN Append(old[n], piece) ELSE old[i]
      BY <1>1, <3>1, <3>2 DEF n
    <3>4. new # <<>>
      BY <1>1, <3>1, <3>3
    <3> QED
      BY <1>1, <3>1, <3>3, <3>4
  <2> QED
    BY <2>1, <2>2
<1>8. \A x \in Exps \ {e} : lines'[x] = lines[x] /\ ended'[x] = ended[x]
  BY <1>2 DEF SkillTypes
<1>9. LinesTyped' /\ ended' \in [Exps -> BOOLEAN]
  BY <1>2, <1>7 DEF SkillTypes, LinesTyped
<1>10. \A x \in Exps : ~ended'[x] => lines'[x] # <<>>
  BY <1>7, <1>8 DEF SkillTypes
<1> HIDE DEF new
<1>11. ASSUME LinesEarned, Earned(piece.skill, e) PROVE LinesEarned'
  <2> SUFFICES ASSUME NEW x \in Exps, NEW i \in DOMAIN lines'[x], NEW k \in DOMAIN lines'[x][i]
               PROVE  Earned(lines'[x][i][k].skill, x)
    BY DEF LinesEarned, Earned, Home
  <2>1. CASE x # e
    BY <1>8, <1>11, <2>1 DEF LinesEarned
  <2>2. CASE x = e
    <3>1. new[i][k] = piece \/ (i \in 1 .. n /\ k \in DOMAIN old[i] /\ new[i][k] = old[i][k])
      <4> HIDE DEF old, n
      <4>1. CASE new[i] = <<piece>>
        BY <2>2, <4>1 DEF new
      <4>2. CASE i \in 1 .. n /\ new[i] = old[i]
        BY <2>2, <4>2 DEF new
      <4>3. CASE i \in 1 .. n /\ new[i] = Append(old[i], piece)
        <5>1. k \in 1 .. (Len(old[i]) + 1) /\ Len(old[i]) \in Nat
          BY <1>5, <1>6, <2>2, <4>3 DEF new
        <5> QED
          BY <1>5, <1>6, <4>3, <5>1
      <4> QED
        BY <1>7, <2>2, <4>1, <4>2, <4>3 DEF new
    <3>2. lines'[x][i][k] = new[i][k]
      BY <2>2 DEF new
    <3> QED
      BY <1>1, <1>11, <2>2, <3>1, <3>2 DEF LinesEarned
  <2> QED
    BY <2>1, <2>2
<1>12. ASSUME NEW x \in Exps, NEW s, Told(s, x) PROVE Told(s, x)'
  <2>1. CASE x # e
    BY <1>8, <1>12, <2>1 DEF Told
  <2>2. CASE x = e
    <3>1. PICK i \in 1 .. n : \E k \in DOMAIN old[i] :
            old[i][k].skill = s /\ (Len(old[i]) > 1 \/ old[i][1].whole)
      BY <1>1, <1>12, <2>2 DEF Told
    <3>2. PICK k \in DOMAIN old[i] :
            old[i][k].skill = s /\ (Len(old[i]) > 1 \/ old[i][1].whole)
      BY <3>1
    <3> HIDE DEF old, n
    <3>3. k \in DOMAIN new[i] /\ new[i][k] = old[i][k] /\ (Len(new[i]) > 1 \/ new[i][1].whole)
      <4>1. CASE new[i] = old[i]
        BY <3>2, <4>1
      <4>2. CASE new[i] = Append(old[i], piece)
        BY <1>5, <1>6, <3>2, <4>2
      <4> QED
        BY <1>7, <4>1, <4>2
    <3> QED
      BY <1>7, <2>2, <3>2, <3>3 DEF Told, new
  <2> QED
    BY <2>1, <2>2
<1>13. ASSUME piece.whole PROVE Told(piece.skill, e)'
  <2> HIDE DEF old, n
  <2>1. PICK i \in DOMAIN new : new[i] = <<piece>> \/ (i \in 1 .. n /\ new[i] = Append(old[i], piece))
    BY <1>7
  <2>2. \E k \in DOMAIN new[i] : new[i][k].skill = piece.skill /\ (Len(new[i]) > 1 \/ new[i][1].whole)
    <3>1. CASE new[i] = <<piece>>
      BY <1>13, <3>1
    <3>2. CASE i \in 1 .. n /\ new[i] = Append(old[i], piece)
      BY <1>5, <1>6, <3>2
    <3> QED
      BY <2>1, <3>1, <3>2
  <2> QED
    BY <2>2 DEF Told, new
<1> QED
  BY <1>9, <1>10, <1>11, <1>12, <1>13

-------------------------------------------------------------------------------
LEMMA TypedLines == SkillTypes => LinesTyped
BY DEF SkillTypes, LinesTyped

LEMMA StoredEarned ==
  ASSUME SkillTypes, LinesEarned, NEW e \in Exps, NEW s \in Stored(e)
  PROVE  Earned(s, e) /\ s \in Promotable
<1>1. PICK i \in DOMAIN lines[e] : \E k \in DOMAIN lines[e][i] : lines[e][i][k].skill = s
  BY ToldIs, TypedLines DEF Told
<1>2. PICK k \in DOMAIN lines[e][i] : lines[e][i][k].skill = s
  BY <1>1
<1>3. Earned(s, e)
  BY <1>1, <1>2 DEF LinesEarned
<1>4. lines[e] \in Seq(Line)
  BY DEF SkillTypes
<1>5. lines[e][i] \in Line
  BY <1>4
<1>6. lines[e][i] \in Seq(Pieces)
  BY <1>5 DEF Line
<1>7. lines[e][i][k] \in Pieces
  BY <1>6
<1> QED
  BY <1>2, <1>3, <1>7 DEF Pieces

LEMMA VocabularyStarts == Init => VocabularyInv
<1> SUFFICES ASSUME Init PROVE VocabularyInv
  OBVIOUS
<1>1. SkillTypes
  <2>1. lines \in [Exps -> Seq(Line)]
    <3>1. <<>> \in Seq(Line)
      OBVIOUS
    <3> QED
      BY <3>1 DEF Init
  <2> QED
    BY <2>1 DEF Init, SkillTypes, AllTargets, NoJob
<1>2. LinesEarned
  BY DEF Init, LinesEarned
<1> QED
  BY <1>1, <1>2 DEF Init, VocabularyInv, Kept, Selected, PromisesTold, LearnedEarned, ProposalFits,
     JobFits

(* Steps that leave the stores alone.                                          *)
LEMMA StoresStay ==
  ASSUME VocabularyInv, UNCHANGED <<lines, ended, promoted>>
  PROVE  LinesEarned' /\ PromisesTold'
BY DEF VocabularyInv, Kept, LinesEarned, PromisesTold, Told

LEMMA AuthorFits ==
  ASSUME VocabularyInv, NEW name \in Names, NEW target \in Targets, Author(name, target)
  PROVE  Kept' /\ ProposalFits' /\ JobFits'
<1> DEFINE skill == [name |-> name, exp |-> current, target |-> target, gain |-> 0,
                     strayed |-> FALSE, orphaned |-> FALSE, test |-> None]
<1>1. /\ at = "idle" /\ current # None /\ current \in Exps
      /\ authorTarget' = target /\ at' = "bench"
      /\ UNCHANGED <<current, proposal, learned, lines, ended, promoted>>
  BY DEF Author, Ready, session, VocabularyInv, Selected
<1>2. job' = [skill |-> skill, exp |-> current, moved |-> FALSE, min |-> 0]
  BY DEF Author, NoJob
<1>3. skill \in Sought
  BY <1>1 DEF Sought, SkillsWith, AllTargets
<1>4. skill.exp = current /\ skill.target = target /\ ~skill.strayed /\ ~skill.orphaned
  OBVIOUS
<1> HIDE DEF skill
<1>5. SkillTypes'
  BY <1>1, <1>2, <1>3 DEF VocabularyInv, Kept, SkillTypes, AllTargets
<1>6. LearnedEarned' /\ ProposalFits'
  BY <1>1 DEF VocabularyInv, Kept, LearnedEarned, ProposalFits, Home
<1>7. JobFits'
  BY <1>1, <1>2, <1>3, <1>4 DEF JobFits, Home, Aimed
<1> QED
  BY <1>1, <1>5, <1>6, <1>7, StoresStay DEF Kept

LEMMA AuthoredFits ==
  ASSUME VocabularyInv, NEW meeting \in SUBSET Ladder, Authored(meeting)
  PROVE  Kept' /\ ProposalFits' /\ JobFits'
<1> DEFINE found == [job.skill EXCEPT !.gain = Gain(meeting), !.strayed = job.moved]
<1>1. /\ at = "bench" /\ at' = "idle" /\ job' = NoJob
      /\ proposal' = IF Worth(meeting) THEN found ELSE None
      /\ UNCHANGED <<current, authorTarget, learned, lines, ended, promoted>>
  BY DEF Authored, Return, session
<1>2. /\ job.skill \in Sought /\ job.exp \in Exps /\ (~job.moved => job.exp = current)
      /\ job.moved \in BOOLEAN
      /\ Home(job.skill, job.exp) /\ Aimed(job.skill)
      /\ ~job.skill.orphaned /\ ~job.skill.strayed
  BY <1>1 DEF VocabularyInv, Kept, SkillTypes, JobFits
<1>3. Worth(meeting) => found \in Sought
  BY <1>2 DEF Sought, SkillsWith
<1>4. /\ found.exp = job.skill.exp /\ found.strayed = job.moved
      /\ found.target = job.skill.target /\ found.orphaned = job.skill.orphaned
  BY <1>2 DEF Sought, SkillsWith
<1> HIDE DEF found
<1>5. job.skill.exp = job.exp
  BY <1>2 DEF Home
<1>6. Home(found, current)
  BY <1>2, <1>4, <1>5, Zenon DEF Home
<1>7. Aimed(found)
  BY <1>2, <1>4 DEF Aimed
<1>8. SkillTypes'
  BY <1>1, <1>3 DEF VocabularyInv, Kept, SkillTypes, NoJob
<1>9. LearnedEarned' /\ JobFits'
  BY <1>1 DEF VocabularyInv, Kept, LearnedEarned, JobFits
<1>10. ProposalFits'
  <2>1. CASE Worth(meeting)
    <3>1. proposal' = found
      BY <1>1, <2>1
    <3>2. proposal'.exp = current' \/ proposal'.strayed
      BY <1>1, <1>6, <3>1 DEF Home
    <3>3. proposal'.target = authorTarget' \/ proposal'.orphaned
      BY <1>1, <1>7, <3>1 DEF Aimed
    <3> QED
      BY <3>2, <3>3 DEF ProposalFits, Home, Aimed
  <2>2. CASE ~Worth(meeting)
    BY <1>1, <2>2 DEF ProposalFits
  <2> QED
    BY <2>1, <2>2
<1> QED
  BY <1>1, <1>8, <1>9, <1>10, StoresStay DEF Kept

LEMMA AuthorRaisesFits == VocabularyInv /\ AuthorRaises => Kept' /\ ProposalFits' /\ JobFits'
<1> SUFFICES ASSUME VocabularyInv, AuthorRaises PROVE Kept' /\ ProposalFits' /\ JobFits'
  OBVIOUS
<1> DEFINE left == [proposal EXCEPT !.orphaned = @ \/ proposal.target # authorTarget]
<1>1. /\ at = "bench" /\ at' = "idle" /\ job' = NoJob
      /\ proposal' = IF proposal = None THEN None ELSE left
      /\ UNCHANGED <<current, authorTarget, learned, lines, ended, promoted>>
  BY DEF AuthorRaises, Return, session
<1>2. proposal # None => proposal \in Sought /\ Home(proposal, current)
  BY DEF VocabularyInv, Kept, SkillTypes, ProposalFits
<1>3. proposal # None =>
        /\ left \in Sought /\ left.exp = proposal.exp /\ left.strayed = proposal.strayed
        /\ left.target = proposal.target
        /\ left.orphaned = (proposal.orphaned \/ proposal.target # authorTarget)
  BY <1>2 DEF Sought, SkillsWith
<1> HIDE DEF left
<1>4. SkillTypes'
  BY <1>1, <1>3 DEF VocabularyInv, Kept, SkillTypes, NoJob
<1>5. LearnedEarned' /\ JobFits'
  BY <1>1 DEF VocabularyInv, Kept, LearnedEarned, JobFits
<1>6. ProposalFits'
  BY <1>1, <1>2, <1>3 DEF ProposalFits, Home, Aimed
<1> QED
  BY <1>1, <1>4, <1>5, <1>6, StoresStay DEF Kept

LEMMA PromoteFits ==
  ASSUME VocabularyInv, NEW min \in Gains, Promote(min)
  PROVE  Kept' /\ ProposalFits' /\ JobFits'
<1>1. /\ at = "idle" /\ current # None /\ current \in Exps /\ at' = "retrial"
      /\ proposal # None /\ proposal.gain >= min
      /\ UNCHANGED <<current, authorTarget, proposal, learned, lines, ended, promoted>>
  BY DEF Promote, Ready, session, skills, VocabularyInv, Selected
<1>2. job' = [skill |-> proposal, exp |-> current, moved |-> FALSE, min |-> min]
  BY DEF Promote, NoJob
<1>3. proposal \in Sought /\ Home(proposal, current) /\ Aimed(proposal)
  BY <1>1 DEF VocabularyInv, Kept, SkillTypes, ProposalFits
<1>4. SkillTypes'
  BY <1>1, <1>2, <1>3 DEF VocabularyInv, Kept, SkillTypes
<1>5. LearnedEarned' /\ ProposalFits'
  BY <1>1, <1>3 DEF VocabularyInv, Kept, LearnedEarned, ProposalFits, Home, Aimed
<1>6. JobFits'
  BY <1>1, <1>2, <1>3 DEF JobFits, Home, Aimed
<1> QED
  BY <1>1, <1>4, <1>5, <1>6, StoresStay DEF Kept

LEMMA TestedEarned ==
  ASSUME VocabularyInv, NEW level \in Levels, at = "retrial", Passes(level)
  PROVE  /\ Tested(level) \in Promotable /\ Earned(Tested(level), job.exp)
         /\ Tested(level).name = job.skill.name /\ Tested(level).test.moved = job.moved
<1> DEFINE test == [min |-> job.min, against |-> authorTarget, level |-> level,
                    moved |-> job.moved]
<1>1. /\ job.skill \in Sought /\ Home(job.skill, job.exp) /\ Aimed(job.skill)
      /\ job.min \in Gains /\ job.skill.gain >= job.min
  BY DEF VocabularyInv, JobFits
<1>2. /\ test \in Verified /\ test.min = job.min /\ test.against = authorTarget
      /\ test.level = level /\ test.moved = job.moved
  BY <1>1 DEF Verified, VocabularyInv, Kept, SkillTypes
<1>3. Tested(level) = [job.skill EXCEPT !.test = test]
  BY DEF Tested
<1> HIDE DEF test
<1>4. /\ Tested(level) \in Promotable /\ Tested(level).test = test
      /\ Tested(level).exp = job.skill.exp /\ Tested(level).strayed = job.skill.strayed
      /\ Tested(level).gain = job.skill.gain /\ Tested(level).target = job.skill.target
      /\ Tested(level).orphaned = job.skill.orphaned /\ Tested(level).name = job.skill.name
  BY <1>1, <1>2, <1>3 DEF Sought, Promotable, SkillsWith
<1> QED
  BY <1>1, <1>2, <1>4 DEF Earned, Home, Aimed, Passes

(* What a step that takes a skill into the vocabulary does to the stores.      *)
LEMMA Taken ==
  ASSUME VocabularyInv, NEW level \in Levels, NEW whole \in BOOLEAN, NEW newline \in BOOLEAN,
         at = "retrial", Passes(level),
         Put(job.exp, [skill |-> Tested(level), whole |-> whole], newline)
  PROVE  /\ LinesTyped' /\ ended' \in [Exps -> BOOLEAN]
         /\ \A x \in Exps : ~ended'[x] => lines'[x] # <<>>
         /\ LinesEarned'
         /\ \A x \in Exps : \A s : Told(s, x) => Told(s, x)'
         /\ \A t : t = Tested(level) /\ whole => \E e : e = job.exp /\ Told(t, e)'
<1>1. PICK e, t : e = job.exp /\ t = Tested(level)
  OBVIOUS
<1>2. e \in Exps /\ t \in Promotable /\ Earned(t, e)
  BY <1>1, TestedEarned DEF VocabularyInv, JobFits
<1> DEFINE piece == [skill |-> t, whole |-> whole]
<1>3. piece \in Pieces /\ piece.skill = t /\ piece.whole = whole
  BY <1>2 DEF Pieces
<1>4. Put(e, piece, newline)
  BY <1>1
<1> HIDE DEF piece
<1>5. /\ LinesTyped' /\ ended' \in [Exps -> BOOLEAN]
      /\ \A x \in Exps : ~ended'[x] => lines'[x] # <<>>
      /\ LinesEarned /\ Earned(piece.skill, e) => LinesEarned'
      /\ \A x \in Exps : \A s : Told(s, x) => Told(s, x)'
      /\ piece.whole => Told(piece.skill, e)'
  BY <1>2, <1>3, <1>4, PutTells DEF VocabularyInv, Kept
<1>6. LinesEarned
  BY DEF VocabularyInv, Kept
<1> QED
  BY <1>1, <1>2, <1>3, <1>5, <1>6

(* A retrial that passes keeps the vocabulary as long as it promises nothing   *)
(* that the store does not tell.                                               *)
LEMMA RetrialKeeps ==
  ASSUME VocabularyInv, NEW level \in Levels, NEW whole \in BOOLEAN, NEW newline \in BOOLEAN,
         at = "retrial", Passes(level),
         Put(job.exp, [skill |-> Tested(level), whole |-> whole], newline),
         \/ promoted' = promoted
         \/ whole /\ promoted' = [promoted EXCEPT ![job.exp] = @ \cup {Tested(level)}]
  PROVE  /\ lines' \in [Exps -> Seq(Line)] /\ ended' \in [Exps -> BOOLEAN]
         /\ promoted' \in [Exps -> SUBSET Promotable]
         /\ \A x \in Exps : ~ended'[x] => lines'[x] # <<>>
         /\ LinesEarned' /\ PromisesTold'
<1>1. PICK e, t : e = job.exp /\ t = Tested(level)
  OBVIOUS
<1>2. e \in Exps /\ t \in Promotable /\ Earned(t, e)
  BY <1>1, TestedEarned DEF VocabularyInv, JobFits
<1>3. /\ LinesTyped' /\ ended' \in [Exps -> BOOLEAN]
      /\ \A x \in Exps : ~ended'[x] => lines'[x] # <<>>
      /\ LinesEarned'
      /\ \A x \in Exps : \A s : Told(s, x) => Told(s, x)'
      /\ whole => Told(t, e)'
  <2>1. \A u : u = Tested(level) /\ whole => \E x : x = job.exp /\ Told(u, x)'
    BY Taken
  <2> QED
    BY <1>1, <2>1, Taken
<1>4. promoted' = promoted \/ (whole /\ promoted' = [promoted EXCEPT ![e] = @ \cup {t}])
  BY <1>1
<1>5. promoted \in [Exps -> SUBSET Promotable] /\ PromisesTold
  BY DEF VocabularyInv, Kept, SkillTypes
<1>6. promoted' \in [Exps -> SUBSET Promotable]
  BY <1>2, <1>4, <1>5
<1>7. ASSUME NEW x \in Exps, NEW s \in promoted'[x] PROVE Earned(s, x) /\ Told(s, x)'
  <2>1. CASE s \in promoted[x]
    BY <1>3, <1>5, <2>1 DEF PromisesTold
  <2>2. CASE s \notin promoted[x]
    <3>1. whole /\ x = e /\ s = t
      BY <1>2, <1>4, <1>5, <1>7, <2>2
    <3> QED
      BY <1>2, <1>3, <3>1
  <2> QED
    BY <2>1, <2>2
<1>8. PromisesTold'
  BY <1>7 DEF PromisesTold, Earned
<1> QED
  BY <1>3, <1>6, <1>8 DEF LinesTyped

(* A switch during the call leaves the new vocabulary alone.                   *)
LEMMA Remembered ==
  ASSUME VocabularyInv, NEW level \in Levels, at = "retrial", Passes(level),
         Remember(Tested(level)), current' = current
  PROVE  learned' \subseteq Promotable /\ LearnedEarned'
<1>1. PICK e, t : e = job.exp /\ t = Tested(level)
  OBVIOUS
<1>2. t \in Promotable /\ Earned(t, e) /\ (~job.moved => e = current)
  BY <1>1, TestedEarned DEF VocabularyInv, JobFits
<1>3. learned' = IF job.moved THEN learned ELSE {l \in learned : l.name # t.name} \cup {t}
  BY <1>1 DEF Remember
<1>4. learned \subseteq Promotable /\ LearnedEarned
  BY DEF VocabularyInv, Kept, SkillTypes
<1>5. CASE job.moved
  BY <1>3, <1>4, <1>5 DEF LearnedEarned, Earned
<1>6. CASE ~job.moved
  <2>1. learned' \subseteq learned \cup {t} /\ e = current
    BY <1>2, <1>3, <1>6
  <2> QED
    BY <1>2, <1>4, <2>1 DEF LearnedEarned, Earned
<1> QED
  BY <1>5, <1>6

LEMMA RetrialFits ==
  ASSUME VocabularyInv, NEW level \in Levels, Retrial(level) \/ StoreFull(level)
  PROVE  Kept' /\ ProposalFits' /\ JobFits'
<1>1. /\ at = "retrial" /\ at' = "idle" /\ job' = NoJob
      /\ UNCHANGED <<current, authorTarget>> /\ proposal' \in {proposal, None}
  BY DEF Retrial, StoreFull, Return, session
<1>2. JobFits'
  BY <1>1 DEF JobFits
<1>3. ProposalFits'
  <2>1. CASE proposal' = proposal
    BY <1>1, <2>1 DEF VocabularyInv, ProposalFits, Home, Aimed
  <2>2. CASE proposal' = None
    BY <2>2 DEF ProposalFits
  <2> QED
    BY <1>1, <2>1, <2>2
<1>4. CASE Passes(level)
  <2>1. Remember(Tested(level))
    BY <1>4 DEF Retrial, StoreFull
  <2>2. \E whole, newline \in BOOLEAN :
          /\ Put(job.exp, [skill |-> Tested(level), whole |-> whole], newline)
          /\ \/ promoted' = promoted
             \/ whole /\ promoted' = [promoted EXCEPT ![job.exp] = @ \cup {Tested(level)}]
    <3>1. CASE Retrial(level)
      BY <1>4, <3>1 DEF Retrial
    <3>2. CASE StoreFull(level)
      BY <1>4, <3>2 DEF StoreFull
    <3> QED
      BY <3>1, <3>2
  <2>3. /\ lines' \in [Exps -> Seq(Line)] /\ ended' \in [Exps -> BOOLEAN]
        /\ promoted' \in [Exps -> SUBSET Promotable]
        /\ \A x \in Exps : ~ended'[x] => lines'[x] # <<>>
        /\ LinesEarned' /\ PromisesTold'
    BY <1>1, <1>4, <2>2, RetrialKeeps
  <2>4. learned' \subseteq Promotable /\ LearnedEarned'
    BY <1>1, <1>4, <2>1, Remembered
  <2>5. SkillTypes'
    BY <1>1, <2>3, <2>4 DEF VocabularyInv, Kept, SkillTypes, NoJob
  <2> QED
    BY <1>2, <1>3, <2>3, <2>4, <2>5 DEF Kept
<1>5. CASE ~Passes(level)
  <2>1. UNCHANGED <<learned, lines, ended, promoted, proposal>>
    BY <1>5 DEF Retrial, StoreFull
  <2>2. SkillTypes' /\ LearnedEarned'
    BY <1>1, <2>1 DEF VocabularyInv, Kept, SkillTypes, LearnedEarned, NoJob
  <2> QED
    BY <1>2, <1>3, <2>1, <2>2, StoresStay DEF Kept
<1> QED
  BY <1>4, <1>5

LEMMA SwitchFits ==
  ASSUME VocabularyInv, NEW e \in Exps, Switch(e)
  PROVE  Kept' /\ ProposalFits' /\ JobFits'
<1>1. /\ e # current /\ current' = e /\ proposal' = None /\ learned' = Stored(e)
      /\ job' = IF at = "idle" THEN job ELSE [job EXCEPT !.moved = TRUE]
      /\ UNCHANGED <<at, authorTarget, lines, ended, promoted>>
  BY DEF Switch, ResetSession
<1>2. job \in [skill : {None} \cup Sought, exp : Exps \cup {None}, moved : BOOLEAN, min : {0} \cup Gains]
  BY DEF VocabularyInv, Kept, SkillTypes
<1>3. /\ job' \in [skill : {None} \cup Sought, exp : Exps \cup {None}, moved : BOOLEAN, min : {0} \cup Gains]
      /\ job'.skill = job.skill /\ job'.exp = job.exp /\ job'.min = job.min
      /\ at # "idle" => job'.moved
  BY <1>1, <1>2
<1>4. \A s \in Stored(e) : Earned(s, e) /\ s \in Promotable
  BY StoredEarned DEF VocabularyInv, Kept
<1>5. SkillTypes'
  BY <1>1, <1>3, <1>4 DEF VocabularyInv, Kept, SkillTypes
<1>6. LearnedEarned'
  BY <1>1, <1>4 DEF LearnedEarned, Earned
<1>7. ProposalFits'
  BY <1>1 DEF ProposalFits
<1>8. JobFits'
  BY <1>1, <1>3 DEF VocabularyInv, JobFits, Home, Aimed
<1> QED
  BY <1>1, <1>5, <1>6, <1>7, <1>8, StoresStay DEF Kept

LEMMA DeadFits ==
  ASSUME VocabularyInv,
         Restart \/ \E level \in Levels, whole \in BOOLEAN : DieAppending(level, whole)
  PROVE  Kept' /\ ProposalFits' /\ JobFits'
<1>1. /\ current' = None /\ at' = "idle" /\ job' = NoJob /\ proposal' = None
      /\ authorTarget' = DefaultTarget /\ learned' = {} /\ promoted' = promoted
  BY DEF Restart, DieAppending, Dead, Return
<1>2. /\ lines' \in [Exps -> Seq(Line)] /\ ended' \in [Exps -> BOOLEAN]
      /\ promoted' \in [Exps -> SUBSET Promotable]
      /\ \A x \in Exps : ~ended'[x] => lines'[x] # <<>>
      /\ LinesEarned' /\ PromisesTold'
  <2>1. CASE Restart
    <3>1. UNCHANGED <<lines, ended, promoted>>
      BY <1>1, <2>1 DEF Restart
    <3> QED
      BY <3>1, StoresStay DEF VocabularyInv, Kept, SkillTypes
  <2>2. CASE \E level \in Levels, whole \in BOOLEAN : DieAppending(level, whole)
    <3>1. PICK level \in Levels, whole \in BOOLEAN : DieAppending(level, whole)
      BY <2>2
    <3>2. /\ at = "retrial" /\ Passes(level)
          /\ Put(job.exp, [skill |-> Tested(level), whole |-> whole], FALSE)
      BY <3>1 DEF DieAppending
    <3> QED
      BY <1>1, <3>2, RetrialKeeps
  <2> QED
    BY <2>1, <2>2
<1>3. SkillTypes'
  BY <1>1, <1>2 DEF SkillTypes, AllTargets, NoJob
<1> QED
  BY <1>1, <1>2, <1>3 DEF Kept, LearnedEarned, ProposalFits, JobFits

(* Calls on graphs, and steps of nobody.                                       *)
LEMMA GraphsFit ==
  ASSUME VocabularyInv, UNCHANGED skills, UNCHANGED current,
         \/ UNCHANGED <<at, job>>
         \/ {at, at'} \subseteq {"idle", "flown", "export"} /\ (job' = job \/ job' = NoJob)
  PROVE  Kept' /\ ProposalFits' /\ JobFits'
<1>1. UNCHANGED <<proposal, authorTarget, learned, lines, ended, promoted>>
  BY DEF skills
<1>2. SkillTypes'
  <2>1. job' = job \/ job' = NoJob
    OBVIOUS
  <2>2. SkillTypes
    BY DEF VocabularyInv, Kept
  <2>3. job' \in [skill : {None} \cup Sought, exp : Exps \cup {None}, moved : BOOLEAN,
                  min : {0} \cup Gains]
    <3>1. CASE job' = job
      BY <2>2, <3>1 DEF SkillTypes
    <3>2. CASE job' = NoJob
      BY <3>2 DEF NoJob
    <3> QED
      BY <2>1, <3>1, <3>2
  <2> QED
    BY <1>1, <2>2, <2>3 DEF SkillTypes
<1>3. LearnedEarned'
  BY <1>1 DEF VocabularyInv, Kept, LearnedEarned
<1>4. CASE UNCHANGED <<at, job>>
  BY <1>1, <1>2, <1>3, <1>4, StoresStay DEF VocabularyInv, Kept, ProposalFits, JobFits, Home, Aimed
<1>5. CASE {at, at'} \subseteq {"idle", "flown", "export"}
  <2>1. at # "bench" /\ at' # "bench" /\ at' # "retrial"
    BY <1>5
  <2>2. ProposalFits' /\ JobFits'
    BY <1>1, <2>1 DEF VocabularyInv, ProposalFits, JobFits, Home, Aimed
  <2> QED
    BY <1>1, <1>2, <1>3, <2>2, StoresStay DEF Kept
<1> QED
  BY <1>4, <1>5

LEMMA VocabularyStep == VocabularyInv /\ [Next]_vars => VocabularyInv'
<1> SUFFICES ASSUME VocabularyInv, [Next]_vars PROVE Kept' /\ ProposalFits' /\ JobFits'
  BY SelectedStep DEF VocabularyInv
<1> USE DEF Ready, Return, session, graphs
<1>1. CASE \E s \in Structures : BuildFlowgraph(s)
  BY <1>1, GraphsFit DEF BuildFlowgraph
<1>2. CASE Fly
  BY <1>2, GraphsFit DEF Fly
<1>3. CASE Record
  <2>1. at = "flown" /\ at' \in {"idle", "export"} /\ (job' = job \/ job' = NoJob)
    BY <1>3 DEF Record
  <2> QED
    BY <1>3, <2>1, GraphsFit DEF Record
<1>4. CASE \E b \in BOOLEAN : ExportRan(b)
  <2>1. at = "export" /\ at' = "idle" /\ job' = NoJob /\ UNCHANGED skills /\ UNCHANGED current
    BY <1>4 DEF ExportRan
  <2> QED
    BY <2>1, GraphsFit
<1>5. CASE \E b \in BOOLEAN : ExportFlowgraph(b)
  <2>1. UNCHANGED <<current, at, job, skills>>
    BY <1>5 DEF ExportFlowgraph
  <2> QED
    BY <2>1, GraphsFit
<1>6. CASE \E e \in Exps : \E n \in DOMAIN files[e] : ImportFlowgraph(e, n) \/ OperatorEdit(e, n)
  <2>1. UNCHANGED <<current, at, job, skills>>
    BY <1>6 DEF ImportFlowgraph, OperatorEdit
  <2> QED
    BY <2>1, GraphsFit
<1>7. CASE \E n \in Names, t \in Targets : Author(n, t)
  BY <1>7, AuthorFits
<1>8. CASE \E m \in SUBSET Ladder : Authored(m)
  BY <1>8, AuthoredFits
<1>9. CASE AuthorRaises
  BY <1>9, AuthorRaisesFits
<1>10. CASE \E g \in Gains : Promote(g)
  BY <1>10, PromoteFits
<1>11. CASE \E l \in Levels : Retrial(l) \/ StoreFull(l)
  BY <1>11, RetrialFits
<1>12. CASE \E e \in Exps : Switch(e)
  BY <1>12, SwitchFits
<1>13. CASE Restart \/ \E l \in Levels, w \in BOOLEAN : DieAppending(l, w)
  BY <1>13, DeadFits
<1>14. CASE UNCHANGED vars
  BY <1>14, GraphsFit DEF vars, skills
<1> QED
  BY <1>1, <1>2, <1>3, <1>4, <1>5, <1>6, <1>7, <1>8, <1>9, <1>10, <1>11, <1>12, <1>13, <1>14
  DEF Next

-------------------------------------------------------------------------------
(* One skill of a name. A line of a name that another line of it comes after   *)
(* was written by a promotion that a switch overlapped; what the store in use  *)
(* does not know of its file was written by such a promotion, and a promotion  *)
(* under way found its name free.                                              *)
Repeats ==
  \A e \in Exps : \A i, k \in Loaded(e) :
    i < k /\ SkillAt(e, i).name = SkillAt(e, k).name => SkillAt(e, i).test.moved
Learned ==
  current # None => \A i \in Loaded(current) :
    SkillAt(current, i).test.moved \/ SkillAt(current, i).name \in NamesOf(learned)
Free ==
  at = "retrial" => \A i \in Loaded(job.exp) :
    SkillAt(job.exp, i).name = job.skill.name => SkillAt(job.exp, i).test.moved

NamesInv == Repeats /\ Learned /\ Free

(* The least-number principle.                                                 *)
Below == {p \in Nat \X Nat : p[1] < p[2]}

LEMMA BelowIsWellFounded == IsWellFoundedOn(Below, Nat)
<1>1. Below = OpToRel(<, Nat)
  BY Zenon DEF Below, OpToRel
<1> QED
  BY <1>1, NatLessThanWellFounded, Zenon

LEMMA LeastNumber ==
  ASSUME NEW T, T \subseteq Nat, T # {}
  PROVE  \E n \in T : \A k \in T : n <= k
<1>1. PICK n \in T : \A k \in T : <<k, n>> \notin Below
  BY BelowIsWellFounded, WFMin
<1>2. \A k \in T : ~ (k < n)
  BY <1>1 DEF Below
<1> QED
  BY <1>2

LEMMA CountBack ==
  ASSUME NEW n \in Nat, NEW x \in 1 .. n
  PROVE  /\ n - x \in 0 .. n /\ x = n - (n - x)
         /\ \A m \in 0 .. n : m <= n - x => x <= n - m
OBVIOUS

(* The last line of a name is read.                                            *)
LEMMA LastIsRead ==
  ASSUME LinesTyped, NEW e \in Exps, NEW i \in Loaded(e)
  PROVE  SkillAt(e, i).name \in NamesOf(Stored(e))
<1> DEFINE n == Len(lines[e])
           T == {m \in 0 .. n : \E k \in Loaded(e) : k = n - m /\ SkillAt(e, k).name = SkillAt(e, i).name}
<1>1. n \in Nat /\ Loaded(e) \subseteq 1 .. n
  BY DEF LinesTyped, Loaded
<1>2. n - i \in T
  BY <1>1, CountBack
<1>3. T \subseteq Nat
  <2>1. T \subseteq 0 .. n
    OBVIOUS
  <2> HIDE DEF T
  <2> QED
    BY <1>1, <2>1
<1>4. PICK m \in T : \A x \in T : m <= x
  <2> HIDE DEF T
  <2> QED
    BY <1>2, <1>3, LeastNumber
<1>5. PICK k \in Loaded(e) : k = n - m /\ SkillAt(e, k).name = SkillAt(e, i).name
  BY <1>4
<1>6. ASSUME NEW x \in Loaded(e), x > k PROVE SkillAt(e, x).name # SkillAt(e, k).name
  <2> SUFFICES ASSUME SkillAt(e, x).name = SkillAt(e, k).name PROVE FALSE
    OBVIOUS
  <2>1. x \in 1 .. n /\ m \in 0 .. n
    BY <1>1, <1>4
  <2>2. n - x \in 0 .. n /\ x = n - (n - x) /\ (m <= n - x => x <= n - m)
    BY <1>1, <2>1, CountBack
  <2>3. n - x \in T
    BY <1>5, <2>2
  <2>4. x <= k
    BY <1>4, <1>5, <2>2, <2>3
  <2>5. x \in Int /\ k \in Int
    BY <1>1
  <2> QED
    BY <1>6, <2>4, <2>5
<1>7. SkillAt(e, k) \in Stored(e)
  BY <1>6 DEF Stored
<1> QED
  BY <1>5, <1>7 DEF NamesOf

(* What an append makes loadable is its own piece, at the end.                 *)
LEMMA PutLoads ==
  ASSUME SkillTypes, NEW e \in Exps, NEW piece \in Pieces, NEW newline, Put(e, piece, newline)
  PROVE  \A x \in Exps : \A i \in Loaded(x)' :
           \/ i \in Loaded(x) /\ SkillAt(x, i)' = SkillAt(x, i)
           \/ /\ x = e /\ SkillAt(x, i)' = piece.skill
              /\ \A k \in Loaded(x)' : k <= i
<1> DEFINE old == lines[e]
           n == Len(old)
<1>1. old \in Seq(Line) /\ n \in Nat /\ DOMAIN old = 1 .. n
  BY DEF SkillTypes
<1>2. \A x \in Exps \ {e} : lines'[x] = lines[x]
  BY DEF Put, SkillTypes
<1>3. ASSUME NEW x \in Exps, x # e, NEW i \in Loaded(x)'
      PROVE  i \in Loaded(x) /\ SkillAt(x, i)' = SkillAt(x, i)
  BY <1>2, <1>3 DEF Loaded, SkillAt, Loads
<1>4. CASE ended[e]
  <2>1. lines'[e] = Append(old, <<piece>>)
    BY <1>4 DEF Put, SkillTypes
  <2>2. /\ DOMAIN lines'[e] = 1 .. (n + 1)
        /\ \A i \in 1 .. n : lines'[e][i] = old[i]
        /\ lines'[e][n + 1] = <<piece>>
    BY <1>1, <2>1
  <2>3. ASSUME NEW i \in Loaded(e)'
        PROVE  \/ i \in Loaded(e) /\ SkillAt(e, i)' = SkillAt(e, i)
               \/ i = n + 1 /\ SkillAt(e, i)' = piece.skill
    <3>1. i \in 1 .. (n + 1) /\ Loads(lines'[e][i])
      BY <2>2, <2>3 DEF Loaded, Loads
    <3>2. CASE i \in 1 .. n
      BY <1>1, <2>2, <3>1, <3>2 DEF Loaded, SkillAt
    <3>3. CASE i = n + 1
      <4>1. lines'[e][i] = <<piece>>
        BY <2>2, <3>3
      <4>2. Head(<<piece>>) = piece
        OBVIOUS
      <4> QED
        BY <3>3, <4>1, <4>2 DEF SkillAt
    <3> QED
      BY <1>1, <3>1, <3>2, <3>3
  <2>4. \A k \in Loaded(e)' : k <= n + 1
    BY <1>1, <2>2 DEF Loaded
  <2> QED
    BY <1>3, <2>3, <2>4
<1>5. CASE ~ended[e]
  <2>1. /\ lines'[e] = [old EXCEPT ![n] = Append(old[n], piece)]
        /\ n >= 1
    BY <1>1, <1>5 DEF Put, SkillTypes, ReplaceAt, Last
  <2>2. old[n] \in Line /\ n \in 1 .. n
    BY <1>1, <2>1
  <2>3. ~Loads(lines'[e][n])
    <3>1. old[n] \in Seq(Pieces) /\ old[n] # <<>>
      BY <2>2 DEF Line
    <3>2. Len(Append(old[n], piece)) = Len(old[n]) + 1 /\ Len(old[n]) \in Nat /\ Len(old[n]) >= 1
      BY <3>1
    <3>3. lines'[e][n] = Append(old[n], piece)
      BY <1>1, <2>1, <2>2
    <3> QED
      BY <3>2, <3>3 DEF Loads
  <2>4. ASSUME NEW i \in Loaded(e)'
        PROVE  i \in Loaded(e) /\ SkillAt(e, i)' = SkillAt(e, i)
    <3>1. i \in 1 .. n /\ Loads(lines'[e][i])
      BY <1>1, <2>1, <2>4 DEF Loaded, Loads
    <3>2. i # n
      BY <2>3, <3>1
    <3>3. lines'[e][i] = old[i]
      BY <1>1, <2>1, <3>1, <3>2
    <3> QED
      BY <1>1, <3>1, <3>3 DEF Loaded, SkillAt
  <2> QED
    BY <1>3, <2>4
<1> QED
  BY <1>4, <1>5

LEMMA NamesStay ==
  ASSUME NamesInv, UNCHANGED <<current, learned, lines>>,
         at' = "retrial" => UNCHANGED <<at, job>>
  PROVE  NamesInv'
<1>1. Repeats' /\ Learned'
  BY DEF NamesInv, Repeats, Learned, Loaded, SkillAt
<1>2. Free'
  BY DEF NamesInv, Free, Loaded, SkillAt
<1> QED
  BY <1>1, <1>2 DEF NamesInv

(* A piece written under a free name repeats none that was not overlapped.     *)
LEMMA RepeatsKept ==
  ASSUME VocabularyInv, NamesInv, NEW level \in Levels, NEW whole \in BOOLEAN,
         NEW newline \in BOOLEAN,
         at = "retrial", Passes(level),
         Put(job.exp, [skill |-> Tested(level), whole |-> whole], newline)
  PROVE  /\ Repeats'
         /\ \A x \in Exps : \A i \in Loaded(x)' :
              \/ i \in Loaded(x) /\ SkillAt(x, i)' = SkillAt(x, i)
              \/ /\ x = job.exp /\ SkillAt(x, i)'.name = job.skill.name
                 /\ SkillAt(x, i)'.test.moved = job.moved
<1>1. PICK e, t : e = job.exp /\ t = Tested(level)
  OBVIOUS
<1>2. /\ e \in Exps /\ t \in Promotable
      /\ t.name = job.skill.name /\ t.test.moved = job.moved
  BY <1>1, TestedEarned DEF VocabularyInv, JobFits
<1> DEFINE piece == [skill |-> t, whole |-> whole]
<1>3. piece \in Pieces /\ piece.skill = t /\ Put(e, piece, newline)
  BY <1>1, <1>2 DEF Pieces
<1> HIDE DEF piece
<1>4. \A x \in Exps : \A i \in Loaded(x)' :
        \/ i \in Loaded(x) /\ SkillAt(x, i)' = SkillAt(x, i)
        \/ x = e /\ SkillAt(x, i)' = t /\ \A k \in Loaded(x)' : k <= i
  BY <1>2, <1>3, PutLoads DEF VocabularyInv, Kept
<1>5. ASSUME NEW x \in Exps, NEW i \in Loaded(x)', NEW k \in Loaded(x)',
             i < k, SkillAt(x, i)'.name = SkillAt(x, k)'.name
      PROVE  SkillAt(x, i)'.test.moved
  <2>0. i \in Int /\ k \in Int
    <3>1. LinesTyped'
      BY <1>2, <1>3, PutTells DEF VocabularyInv, Kept
    <3> QED
      BY <3>1 DEF LinesTyped, Loaded
  <2>1. i \in Loaded(x) /\ SkillAt(x, i)' = SkillAt(x, i)
    BY <1>4, <1>5, <2>0
  <2>2. CASE k \in Loaded(x) /\ SkillAt(x, k)' = SkillAt(x, k)
    BY <1>5, <2>1, <2>2 DEF NamesInv, Repeats
  <2>3. CASE x = e /\ SkillAt(x, k)' = t
    BY <1>1, <1>2, <1>5, <2>1, <2>3 DEF NamesInv, Free
  <2> QED
    BY <1>4, <2>2, <2>3
<1>6. Repeats'
  BY <1>5 DEF Repeats
<1> QED
  BY <1>1, <1>2, <1>4, <1>6

LEMMA NamesStep == VocabularyInv /\ NamesInv /\ [Next]_vars => NamesInv'
<1> SUFFICES ASSUME VocabularyInv, NamesInv, [Next]_vars PROVE NamesInv'
  OBVIOUS
<1>0. LinesTyped
  BY TypedLines DEF VocabularyInv, Kept
<1>1. CASE \/ (\E s \in Structures : BuildFlowgraph(s)) \/ Fly \/ Record
           \/ (\E b \in BOOLEAN : ExportRan(b) \/ ExportFlowgraph(b))
           \/ (\E e \in Exps : \E n \in DOMAIN files[e] : ImportFlowgraph(e, n) \/ OperatorEdit(e, n))
           \/ UNCHANGED vars
  <2>1. /\ UNCHANGED <<current, learned, lines>>
        /\ at' = "retrial" => UNCHANGED <<at, job>>
    BY <1>1 DEF BuildFlowgraph, Fly, Record, ExportRan, ExportFlowgraph, ImportFlowgraph,
       OperatorEdit, session, skills, Return, vars
  <2> QED
    BY <2>1, NamesStay
<1>2. CASE \/ (\E n \in Names, t \in Targets : Author(n, t))
           \/ (\E m \in SUBSET Ladder : Authored(m)) \/ AuthorRaises
  <2>1. UNCHANGED <<current, learned, lines>> /\ at' # "retrial"
    <3>1. CASE \E n \in Names, t \in Targets : Author(n, t)
      BY <3>1 DEF Author, session
    <3>2. ASSUME NEW m, Authored(m) PROVE UNCHANGED <<current, learned, lines>> /\ at' # "retrial"
      BY <3>2 DEF Authored, session, Return
    <3>3. CASE AuthorRaises
      BY <3>3 DEF AuthorRaises, session, Return
    <3> QED
      BY <1>2, <3>1, <3>2, <3>3
  <2> QED
    BY <2>1, NamesStay
<1>3. ASSUME NEW min \in Gains, Promote(min) PROVE NamesInv'
  <2>1. /\ current # None /\ UNCHANGED <<current, learned, lines>>
        /\ proposal.name \notin NamesOf(learned)
        /\ job' = [skill |-> proposal, exp |-> current, moved |-> FALSE, min |-> min]
    BY <1>3 DEF Promote, Ready, session, skills, NoJob
  <2>2. Repeats' /\ Learned'
    BY <2>1 DEF NamesInv, Repeats, Learned, Loaded, SkillAt
  <2>3. Free'
    BY <2>1 DEF NamesInv, Learned, Free, Loaded, SkillAt
  <2> QED
    BY <2>2, <2>3 DEF NamesInv
<1>4. ASSUME NEW level \in Levels, Retrial(level) \/ StoreFull(level), Passes(level)
      PROVE  NamesInv'
  <2>1. /\ at = "retrial" /\ at' = "idle" /\ current' = current
        /\ Remember(Tested(level))
    BY <1>4 DEF Retrial, StoreFull, Return, session
  <2>2. \E whole, newline \in BOOLEAN :
          Put(job.exp, [skill |-> Tested(level), whole |-> whole], newline)
    <3>1. CASE Retrial(level)
      BY <1>4, <3>1 DEF Retrial
    <3>2. CASE StoreFull(level)
      BY <1>4, <3>2 DEF StoreFull
    <3> QED
      BY <1>4, <3>1, <3>2
  <2>3. /\ Repeats'
        /\ \A x \in Exps : \A i \in Loaded(x)' :
             \/ i \in Loaded(x) /\ SkillAt(x, i)' = SkillAt(x, i)
             \/ /\ x = job.exp /\ SkillAt(x, i)'.name = job.skill.name
                /\ SkillAt(x, i)'.test.moved = job.moved
    BY <1>4, <2>1, <2>2, RepeatsKept
  <2>4. job.moved \/ (NamesOf(learned) \cup {job.skill.name}) \subseteq NamesOf(learned')
    <3>1. PICK t : t = Tested(level) /\ t.name = job.skill.name
      BY <1>4, <2>1, TestedEarned
    <3>2. job.moved \/ learned' = {l \in learned : l.name # t.name} \cup {t}
      BY <2>1, <3>1 DEF Remember
    <3> QED
      BY <3>1, <3>2 DEF NamesOf
  <2>5. job.moved => learned' = learned
    BY <2>1 DEF Remember
  <2>6. Learned'
    <3> SUFFICES ASSUME NEW x \in Exps, x = current, current # None, NEW i \in Loaded(x)'
                 PROVE  SkillAt(x, i)'.test.moved \/ SkillAt(x, i)'.name \in NamesOf(learned')
      BY <2>1 DEF Learned, Loaded, SkillAt, NamesOf, VocabularyInv, Selected
    <3>1. CASE i \in Loaded(x) /\ SkillAt(x, i)' = SkillAt(x, i)
      <4>1. SkillAt(x, i).test.moved \/ SkillAt(x, i).name \in NamesOf(learned)
        BY <3>1 DEF NamesInv, Learned
      <4> QED
        BY <2>4, <2>5, <3>1, <4>1
    <3>2. CASE SkillAt(x, i)'.name = job.skill.name /\ SkillAt(x, i)'.test.moved = job.moved
      BY <2>4, <3>2
    <3> QED
      BY <2>3, <3>1, <3>2
  <2>7. Free'
    BY <2>1 DEF Free
  <2> QED
    BY <2>3, <2>6, <2>7 DEF NamesInv
<1>5. ASSUME NEW level \in Levels, Retrial(level), ~Passes(level) PROVE NamesInv'
  <2>1. UNCHANGED <<current, learned, lines>> /\ at' # "retrial"
    BY <1>5 DEF Retrial, session, Return
  <2> QED
    BY <2>1, NamesStay
<1>6. ASSUME NEW e \in Exps, Switch(e) PROVE NamesInv'
  <2>1. /\ current' = e /\ learned' = Stored(e) /\ UNCHANGED <<at, lines>>
        /\ job' = IF at = "idle" THEN job ELSE [job EXCEPT !.moved = TRUE]
    BY <1>6 DEF Switch
  <2>2. job \in [skill : {None} \cup Sought, exp : Exps \cup {None}, moved : BOOLEAN, min : {0} \cup Gains]
    BY DEF VocabularyInv, Kept, SkillTypes
  <2>3. job'.exp = job.exp /\ job'.skill = job.skill
    BY <2>1, <2>2
  <2>4. Repeats' /\ Free'
    BY <2>1, <2>3 DEF NamesInv, Repeats, Free, Loaded, SkillAt
  <2>5. \A i \in Loaded(e) : SkillAt(e, i).name \in NamesOf(Stored(e))
    BY <1>0, LastIsRead
  <2>6. Learned'
    BY <2>1, <2>5 DEF Learned, Loaded, SkillAt, NamesOf
  <2> QED
    BY <2>4, <2>6 DEF NamesInv
<1>7. CASE Restart
  <2>1. current' = None /\ at' = "idle" /\ lines' = lines
    BY <1>7 DEF Restart, Dead, Return
  <2> QED
    BY <2>1 DEF NamesInv, Repeats, Learned, Free, Loaded, SkillAt
<1>8. ASSUME NEW level \in Levels, NEW whole \in BOOLEAN, DieAppending(level, whole) PROVE NamesInv'
  <2>1. /\ current' = None /\ at' = "idle" /\ at = "retrial" /\ Passes(level)
        /\ Put(job.exp, [skill |-> Tested(level), whole |-> whole], FALSE)
    BY <1>8 DEF DieAppending, Dead, Return
  <2>2. Repeats'
    BY <2>1, RepeatsKept
  <2> QED
    BY <2>1, <2>2 DEF NamesInv, Learned, Free
<1> QED
  BY <1>1, <1>2, <1>3, <1>4, <1>5, <1>6, <1>7, <1>8 DEF Next, StoreFull

LEMMA VocabularyFollows == VocabularyInv /\ NamesInv => VocabularyTrue
<1> SUFFICES ASSUME VocabularyInv, NamesInv PROVE VocabularyTrue
  OBVIOUS
<1>1. \A e \in Exps : \A s \in Stored(e) : Earned(s, e)
  BY StoredEarned DEF VocabularyInv, Kept
<1>2. \A e \in Exps : \A s \in promoted[e] : Earned(s, e) /\ Told(s, e)
  BY DEF VocabularyInv, Kept, PromisesTold
<1>3. LinesTyped /\ LearnedEarned
  BY TypedLines DEF VocabularyInv, Kept
<1>4. ASSUME NEW e \in Exps, NEW s \in promoted[e]
      PROVE  \/ s \in Stored(e) \/ Joined(s, e)
             \/ s.test.moved /\ s.name \in NamesOf(Stored(e))
  <2>1. Alone(s, e) \/ Joined(s, e)
    BY <1>2, <1>3, <1>4, ToldIs
  <2>2. ASSUME NEW i \in Loaded(e), SkillAt(e, i) = s, s \notin Stored(e)
        PROVE  s.test.moved /\ s.name \in NamesOf(Stored(e))
    <3>1. PICK k \in Loaded(e) : k > i /\ SkillAt(e, k).name = SkillAt(e, i).name
      BY <2>2 DEF Stored
    <3>2. i < k
      BY <1>3, <3>1 DEF LinesTyped, Loaded
    <3>3. SkillAt(e, i).test.moved
      BY <3>1, <3>2 DEF NamesInv, Repeats
    <3> QED
      BY <1>3, <2>2, <3>3, LastIsRead
  <2> QED
    BY <2>1, <2>2 DEF Alone
<1> QED
  BY <1>1, <1>2, <1>3, <1>4 DEF VocabularyTrue, LearnedEarned

(* The vocabulary is true, for any names, targets, gates and levels, whatever  *)
(* switches overlap a call and whenever the daemon dies: a loaded skill passed *)
(* its gate and its retrial in its experiment, and what promote_skill kept is  *)
(* read back, unless its line was joined to one cut short, or a switch         *)
(* overlapped its promotion and a later line has its name.                     *)
THEOREM VocabularyStaysTrue == Spec => []VocabularyTrue
<1>1. Init => NamesInv
  BY DEF Init, NamesInv, Repeats, Learned, Free, Loaded
<1> QED
  BY <1>1, VocabularyStarts, VocabularyStep, NamesStep, VocabularyFollows, PTL DEF Spec

-------------------------------------------------------------------------------
(* Functions by recursion, and what is kept of a sequence.                     *)

LEMMA Upward ==
  ASSUME NEW m \in Nat, NEW T, 0 \in T, \A n \in 1 .. m : n - 1 \in T => n \in T
  PROVE  \A n \in 0 .. m : n \in T
<1> DEFINE Missed == {n \in 0 .. m : n \notin T}
<1>1. SUFFICES ASSUME Missed # {} PROVE FALSE
  OBVIOUS
<1>2. Missed \subseteq Nat
  OBVIOUS
<1>3. PICK n \in Missed : \A k \in Missed : n <= k
  <2> HIDE DEF Missed
  <2> QED
    BY <1>1, <1>2, LeastNumber
<1>4. n \in 1 .. m /\ n \notin T
  BY <1>3
<1>5. n - 1 \in 0 .. m /\ ~ (n <= n - 1)
  BY <1>4
<1>6. n - 1 \in T
  BY <1>3, <1>5
<1> QED
  BY <1>4, <1>6

(* A function on 0 .. m that satisfies a recursion.                            *)
Solves(f, m, first, step) ==
  /\ f = [n \in 0 .. m |-> f[n]] /\ f[0] = first
  /\ \A n \in 1 .. m : f[n] = step[n][f[n - 1]]

LEMMA Recursion ==
  ASSUME NEW m \in Nat, NEW first, NEW step
  PROVE  \E f : Solves(f, m, first, step)
<1> DEFINE Solvable == {k \in Nat : \E f : Solves(f, k, first, step)}
<1>1. 0 \in Solvable
  <2>1. Solves([n \in 0 .. 0 |-> first], 0, first, step)
    BY DEF Solves
  <2> QED
    BY <2>1
<1>2. ASSUME NEW k \in 1 .. m, k - 1 \in Solvable PROVE k \in Solvable
  <2>1. PICK f : Solves(f, k - 1, first, step)
    BY <1>2
  <2> DEFINE g == [n \in 0 .. k |-> IF n = k THEN step[k][f[k - 1]] ELSE f[n]]
  <2>2. g = [n \in 0 .. k |-> g[n]]
    OBVIOUS
  <2>3. /\ g[k] = step[k][f[k - 1]]
        /\ \A n \in 0 .. (k - 1) : g[n] = f[n]
    OBVIOUS
  <2> HIDE DEF g
  <2>4. g[0] = first
    BY <2>1, <2>3 DEF Solves
  <2>5. ASSUME NEW n \in 1 .. k PROVE g[n] = step[n][g[n - 1]]
    <3>1. n - 1 \in 0 .. (k - 1)
      OBVIOUS
    <3>2. g[n - 1] = f[n - 1]
      BY <2>3, <3>1
    <3>3. CASE n = k
      BY <2>3, <3>2, <3>3
    <3>4. CASE n # k
      <4>1. n \in 1 .. (k - 1) /\ n \in 0 .. (k - 1)
        BY <3>4
      <4>2. f[n] = step[n][f[n - 1]]
        BY <2>1, <4>1 DEF Solves
      <4> QED
        BY <2>3, <3>2, <4>1, <4>2
    <3> QED
      BY <3>3, <3>4
  <2>6. Solves(g, k, first, step)
    BY <2>2, <2>4, <2>5 DEF Solves
  <2>7. k \in Nat
    OBVIOUS
  <2> QED
    BY <2>6, <2>7
<1> HIDE DEF Solvable
<1>3. m \in Solvable
  BY <1>1, <1>2, Upward
<1> QED
  BY <1>3 DEF Solvable

LEMMA RecursionIn ==
  ASSUME NEW m \in Nat, NEW S, NEW first \in S, NEW step,
         \A n \in 1 .. m : \A x \in S : step[n][x] \in S
  PROVE  \E f \in [0 .. m -> S] : Solves(f, m, first, step)
<1>1. PICK f : Solves(f, m, first, step)
  BY Recursion
<1> DEFINE Stays == {n \in 0 .. m : f[n] \in S}
<1>2. 0 \in Stays
  BY <1>1 DEF Solves
<1>3. ASSUME NEW n \in 1 .. m, n - 1 \in Stays PROVE n \in Stays
  <2>1. f[n] = step[n][f[n - 1]] /\ f[n - 1] \in S
    BY <1>1, <1>3 DEF Solves
  <2>2. step[n][f[n - 1]] \in S
    BY <2>1
  <2> QED
    BY <2>1, <2>2
<1>4. \A n \in 0 .. m : n \in Stays
  <2> HIDE DEF Stays
  <2> QED
    BY <1>2, <1>3, Upward
<1>5. f \in [0 .. m -> S]
  BY <1>1, <1>4 DEF Solves
<1> QED
  BY <1>1, <1>5

(* Where, unfolded.                                                            *)
KeptBy(s, T, f) ==
  [i \in 0 .. Len(s) |->
     IF i = 0 THEN <<>> ELSE IF s[i] \in T THEN Append(f[i - 1], s[i]) ELSE f[i - 1]]

Keeps(s, T, f) ==
  /\ f[0] = <<>>
  /\ \A i \in 1 .. Len(s) : f[i] = IF s[i] \in T THEN Append(f[i - 1], s[i]) ELSE f[i - 1]

LEMMA KeptByAt ==
  ASSUME NEW s, Len(s) \in Nat, NEW T, NEW f
  PROVE  /\ KeptBy(s, T, f)[0] = <<>>
         /\ \A i \in 1 .. Len(s) :
              KeptBy(s, T, f)[i] = IF s[i] \in T THEN Append(f[i - 1], s[i]) ELSE f[i - 1]
<1> DEFINE m == Len(s)
           e(i) == IF i = 0 THEN <<>> ELSE IF s[i] \in T THEN Append(f[i - 1], s[i]) ELSE f[i - 1]
<1>1. KeptBy(s, T, f) = [i \in 0 .. m |-> e(i)]
  BY DEF KeptBy
<1>2. e(0) = <<>>
  OBVIOUS
<1>3. ASSUME NEW i \in 1 .. m PROVE e(i) = IF s[i] \in T THEN Append(f[i - 1], s[i]) ELSE f[i - 1]
  <2>1. i # 0
    OBVIOUS
  <2> QED
    BY <2>1
<1>4. 0 \in 0 .. m /\ 1 .. m \subseteq 0 .. m
  OBVIOUS
<1> HIDE DEF e
<1> QED
  BY <1>1, <1>2, <1>3, <1>4

LEMMA WhereIs ==
  ASSUME NEW S, NEW s \in Seq(S), NEW T
  PROVE  \E f \in [0 .. Len(s) -> Seq(S)] : Keeps(s, T, f) /\ Where(s, T) = f[Len(s)]
<1> DEFINE m == Len(s)
           step == [n \in 1 .. m |-> [x \in Seq(S) |-> IF s[n] \in T THEN Append(x, s[n]) ELSE x]]
           f == CHOOSE g : g = KeptBy(s, T, g)
<1>0. m \in Nat /\ \A n \in 1 .. m : s[n] \in S
  OBVIOUS
<1>1. \A n \in 1 .. m : \A x \in Seq(S) :
        /\ step[n][x] = IF s[n] \in T THEN Append(x, s[n]) ELSE x
        /\ step[n][x] \in Seq(S)
  BY <1>0
<1>2. PICK g \in [0 .. m -> Seq(S)] : Solves(g, m, <<>>, step)
  <2>1. <<>> \in Seq(S)
    OBVIOUS
  <2> HIDE DEF step, m
  <2> QED
    BY <1>0, <1>1, <2>1, RecursionIn
<1>3. Keeps(s, T, g)
  <2>1. ASSUME NEW i \in 1 .. m
        PROVE  g[i] = IF s[i] \in T THEN Append(g[i - 1], s[i]) ELSE g[i - 1]
    <3>1. g[i] = step[i][g[i - 1]]
      BY <1>2 DEF Solves
    <3>2. g[i - 1] \in Seq(S)
      BY <1>0, <1>2
    <3> HIDE DEF step
    <3> QED
      BY <1>1, <3>1, <3>2
  <2> QED
    BY <1>2, <2>1 DEF Keeps, Solves
<1>4. g = KeptBy(s, T, g)
  <2>1. ASSUME NEW i \in 0 .. m PROVE g[i] = KeptBy(s, T, g)[i]
    <3>1. CASE i = 0
      BY <1>0, <1>3, <3>1, KeptByAt DEF Keeps
    <3>2. CASE i # 0
      <4>1. i \in 1 .. m
        BY <1>0, <3>2
      <4>2. g[i] = IF s[i] \in T THEN Append(g[i - 1], s[i]) ELSE g[i - 1]
        BY <1>3, <4>1 DEF Keeps
      <4>3. KeptBy(s, T, g)[i] = IF s[i] \in T THEN Append(g[i - 1], s[i]) ELSE g[i - 1]
        BY <1>0, <4>1, KeptByAt
      <4> QED
        BY <4>2, <4>3
    <3> QED
      BY <3>1, <3>2
  <2>2. KeptBy(s, T, g) = [i \in 0 .. m |-> KeptBy(s, T, g)[i]]
    BY DEF KeptBy
  <2>3. g = [i \in 0 .. m |-> g[i]]
    OBVIOUS
  <2> QED
    BY <2>1, <2>2, <2>3
<1>5. f = KeptBy(s, T, f)
  BY <1>4
<1>6. Where(s, T) = f[m]
  BY DEF Where, KeptBy
<1> HIDE DEF f
<1>7. f = [i \in 0 .. m |-> f[i]]
  BY <1>5 DEF KeptBy
<1>8. Keeps(s, T, f)
  <2>1. KeptBy(s, T, f) = f
    BY <1>5
  <2> QED
    BY <1>0, <2>1, KeptByAt DEF Keeps
<1>9. \A i \in 0 .. m : f[i] = g[i]
  <2> DEFINE Same == {i \in 0 .. m : f[i] = g[i]}
  <2>1. 0 \in Same
    BY <1>0, <1>3, <1>8 DEF Keeps
  <2>2. \A n \in 1 .. m : n - 1 \in Same => n \in Same
    BY <1>0, <1>3, <1>8 DEF Keeps
  <2>3. \A n \in 0 .. m : n \in Same
    <3> HIDE DEF Same
    <3> QED
      BY <1>0, <2>1, <2>2, Upward
  <2> QED
    BY <2>3
<1>10. f \in [0 .. m -> Seq(S)]
  BY <1>2, <1>7, <1>9
<1> QED
  BY <1>6, <1>8, <1>10

LEMMA AppendIs ==
  ASSUME NEW S, NEW s \in Seq(S), NEW x \in S
  PROVE  ToSet(Append(s, x)) = ToSet(s) \cup {x}
<1>1. /\ Len(Append(s, x)) = Len(s) + 1 /\ Append(s, x)[Len(s) + 1] = x
      /\ \A i \in 1 .. Len(s) : Append(s, x)[i] = s[i]
      /\ DOMAIN s = 1 .. Len(s) /\ DOMAIN Append(s, x) = 1 .. Len(s) + 1 /\ Len(s) \in Nat
  OBVIOUS
<1>2. \A i \in 1 .. Len(s) + 1 : i \in 1 .. Len(s) \/ i = Len(s) + 1
  BY <1>1
<1>3. 1 .. Len(s) \subseteq 1 .. Len(s) + 1 /\ Len(s) + 1 \in 1 .. Len(s) + 1
  BY <1>1
<1> QED
  BY <1>1, <1>2, <1>3 DEF ToSet

LEMMA WhereIn ==
  ASSUME NEW S, NEW s \in Seq(S), NEW T
  PROVE  Where(s, T) \in Seq(S) /\ ToSet(Where(s, T)) = ToSet(s) \cap T
<1>0. Len(s) \in Nat /\ \A n \in 1 .. Len(s) : s[n] \in S
  OBVIOUS
<1>1. PICK f \in [0 .. Len(s) -> Seq(S)] : Keeps(s, T, f) /\ Where(s, T) = f[Len(s)]
  BY WhereIs
<1> DEFINE Upto(i) == {s[j] : j \in 1 .. i}
           Good == {i \in 0 .. Len(s) : ToSet(f[i]) = Upto(i) \cap T}
<1>2. 0 \in Good
  BY <1>0, <1>1 DEF Keeps, ToSet
<1>3. ASSUME NEW n \in 1 .. Len(s), n - 1 \in Good PROVE n \in Good
  <2>1. Upto(n) = Upto(n - 1) \cup {s[n]}
    <3>1. 1 .. n = (1 .. n - 1) \cup {n}
      BY <1>0
    <3> QED
      BY <3>1
  <2>2. f[n - 1] \in Seq(S)
    BY <1>0
  <2>3. f[n] = IF s[n] \in T THEN Append(f[n - 1], s[n]) ELSE f[n - 1]
    BY <1>1 DEF Keeps
  <2>4. ToSet(Append(f[n - 1], s[n])) = ToSet(f[n - 1]) \cup {s[n]}
    BY <1>0, <2>2, AppendIs
  <2>5. ToSet(f[n - 1]) = Upto(n - 1) \cap T
    BY <1>3
  <2>6. ToSet(f[n]) = Upto(n) \cap T
    <3> HIDE DEF Upto
    <3> QED
      BY <2>1, <2>3, <2>4, <2>5
  <2> QED
    BY <2>6
<1>4. \A n \in 0 .. Len(s) : n \in Good
  <2> HIDE DEF Good
  <2> QED
    BY <1>0, <1>2, <1>3, Upward
<1>5. ToSet(s) = Upto(Len(s))
  BY DEF ToSet
<1> QED
  BY <1>0, <1>1, <1>4, <1>5

(* Names for two operators that the provers then leave alone.                  *)
Joint(a, b) == a \o b
Longer(a, x) == Append(a, x)

LEMMA LongerJoint ==
  \A S : \A a, b \in Seq(S) : \A x \in S : Longer(Joint(a, b), x) = Joint(a, Longer(b, x))
BY DEF Longer, Joint

LEMMA WhereSame ==
  ASSUME NEW S, NEW s \in Seq(S), NEW T, NEW U, \A i \in 1 .. Len(s) : s[i] \in T <=> s[i] \in U
  PROVE  Where(s, T) = Where(s, U)
<1>0. Len(s) \in Nat
  OBVIOUS
<1>1. PICK f \in [0 .. Len(s) -> Seq(S)] : Keeps(s, T, f) /\ Where(s, T) = f[Len(s)]
  BY WhereIs
<1>2. PICK g \in [0 .. Len(s) -> Seq(S)] : Keeps(s, U, g) /\ Where(s, U) = g[Len(s)]
  BY WhereIs
<1> DEFINE Same == {i \in 0 .. Len(s) : f[i] = g[i]}
<1>3. 0 \in Same
  BY <1>0, <1>1, <1>2 DEF Keeps
<1>4. ASSUME NEW n \in 1 .. Len(s), n - 1 \in Same PROVE n \in Same
  <2>1. f[n] = IF s[n] \in T THEN Append(f[n - 1], s[n]) ELSE f[n - 1]
    BY <1>1 DEF Keeps
  <2>2. g[n] = IF s[n] \in U THEN Append(g[n - 1], s[n]) ELSE g[n - 1]
    BY <1>2 DEF Keeps
  <2>3. s[n] \in T <=> s[n] \in U
    OBVIOUS
  <2>4. f[n - 1] = g[n - 1]
    BY <1>4
  <2> QED
    BY <2>1, <2>2, <2>3, <2>4
<1>5. \A n \in 0 .. Len(s) : n \in Same
  <2> HIDE DEF Same
  <2> QED
    BY <1>0, <1>3, <1>4, Upward
<1> QED
  BY <1>0, <1>1, <1>2, <1>5

LEMMA WhereJoins ==
  ASSUME NEW S, NEW a \in Seq(S), NEW b \in Seq(S), NEW T
  PROVE  Where(a \o b, T) = Where(a, T) \o Where(b, T)
<1> DEFINE c == a \o b
           m == Len(a)
           k == Len(b)
<1>0. /\ m \in Nat /\ k \in Nat /\ c \in Seq(S) /\ Len(c) = m + k
      /\ \A i \in 1 .. m : c[i] = a[i]
      /\ \A i \in 1 .. k : c[m + i] = b[i]
      /\ \A i \in 1 .. k : b[i] \in S
  OBVIOUS
<1> HIDE DEF c
<1>a. m \in Nat /\ k \in Nat
  OBVIOUS
<1>b. c \in Seq(S)
  BY <1>0
<1>1. PICK f \in [0 .. m -> Seq(S)] : Keeps(a, T, f) /\ Where(a, T) = f[m]
  BY WhereIs
<1>2. PICK g \in [0 .. k -> Seq(S)] : Keeps(b, T, g) /\ Where(b, T) = g[k]
  BY WhereIs
<1>3. PICK h \in [0 .. Len(c) -> Seq(S)] : Keeps(c, T, h) /\ Where(c, T) = h[Len(c)]
  BY <1>b, WhereIs
<1> DEFINE Same == {i \in 0 .. m : h[i] = f[i]}
           Onwards == {i \in 0 .. k : h[m + i] = f[m] \o g[i]}
<1>4. \A n \in 0 .. m : n \in Same
  <2>1. 0 \in Same
    BY <1>0, <1>1, <1>3 DEF Keeps
  <2>2. ASSUME NEW n \in 1 .. m, n - 1 \in Same PROVE n \in Same
    <3>1. f[n] = IF a[n] \in T THEN Append(f[n - 1], a[n]) ELSE f[n - 1]
      BY <1>1 DEF Keeps
    <3>2. n \in 1 .. Len(c) /\ c[n] = a[n]
      BY <1>0
    <3>3. h[n] = IF c[n] \in T THEN Append(h[n - 1], c[n]) ELSE h[n - 1]
      BY <1>3, <3>2 DEF Keeps
    <3>4. h[n - 1] = f[n - 1]
      BY <2>2
    <3> QED
      BY <3>1, <3>2, <3>3, <3>4
  <2> HIDE DEF Same
  <2> QED
    BY <1>0, <2>1, <2>2, Upward
<1>5. f[m] \in Seq(S)
  <2>1. m \in 0 .. m
    BY <1>a
  <2> QED
    BY <2>1
<1>6. \A n \in 0 .. k : n \in Onwards
  <2>1. 0 \in Onwards
    <3>1. h[m] = f[m]
      BY <1>0, <1>4
    <3>2. g[0] = <<>> /\ f[m] \o <<>> = f[m]
      BY <1>2, <1>5 DEF Keeps
    <3> QED
      <4>1. m + 0 = m /\ 0 \in 0 .. k
        BY <1>a
      <4> QED
        BY <3>1, <3>2, <4>1
  <2>2. ASSUME NEW n \in 1 .. k, n - 1 \in Onwards PROVE n \in Onwards
    <3>1. g[n] = IF b[n] \in T THEN Append(g[n - 1], b[n]) ELSE g[n - 1]
      BY <1>2 DEF Keeps
    <3>2. m + n \in 1 .. Len(c) /\ c[m + n] = b[n] /\ m + n - 1 = m + (n - 1)
      BY <1>0
    <3>3. h[m + n] = IF c[m + n] \in T THEN Append(h[m + n - 1], c[m + n]) ELSE h[m + n - 1]
      BY <1>3, <3>2 DEF Keeps
    <3>4. h[m + (n - 1)] = f[m] \o g[n - 1]
      BY <2>2
    <3>5. g[n - 1] \in Seq(S) /\ b[n] \in S
      <4>1. n - 1 \in 0 .. k
        BY <1>a
      <4> QED
        BY <1>0, <4>1
    <3>6. Append(f[m] \o g[n - 1], b[n]) = f[m] \o Append(g[n - 1], b[n])
      <4>1. Longer(Joint(f[m], g[n - 1]), b[n]) = Joint(f[m], Longer(g[n - 1], b[n]))
        BY <1>5, <3>5, LongerJoint
      <4> QED
        BY <4>1 DEF Longer, Joint
    <3>7. h[m + n] = f[m] \o g[n]
      <4>1. CASE b[n] \in T
        BY <3>1, <3>2, <3>3, <3>4, <3>6, <4>1
      <4>2. CASE b[n] \notin T
        BY <3>1, <3>2, <3>3, <3>4, <4>2
      <4> QED
        BY <4>1, <4>2
    <3>8. n \in 0 .. k
      BY <1>a
    <3> QED
      BY <3>7, <3>8
  <2> HIDE DEF Onwards
  <2> QED
    BY <1>0, <2>1, <2>2, Upward
<1>7. h[m + k] = f[m] \o g[k]
  BY <1>0, <1>6
<1> QED
  BY <1>0, <1>1, <1>2, <1>3, <1>7 DEF c

LEMMA WhereOne ==
  ASSUME NEW x, NEW T
  PROVE  Where(<<x>>, T) = IF x \in T THEN <<x>> ELSE <<>>
<1>1. <<x>> \in Seq({x}) /\ Len(<<x>>) = 1 /\ <<x>>[1] = x
  OBVIOUS
<1>2. PICK f \in [0 .. Len(<<x>>) -> Seq({x})] : Keeps(<<x>>, T, f) /\ Where(<<x>>, T) = f[Len(<<x>>)]
  BY <1>1, WhereIs
<1>3. f[0] = <<>> /\ f[1] = IF x \in T THEN Append(f[0], x) ELSE f[0]
  <2>1. 1 \in 1 .. Len(<<x>>) /\ 1 - 1 = 0
    BY <1>1
  <2> QED
    BY <1>1, <1>2, <2>1 DEF Keeps
<1>4. Append(<<>>, x) = <<x>>
  OBVIOUS
<1> QED
  BY <1>1, <1>2, <1>3, <1>4

(* The elements of a set that lie side by side in a sequence.                  *)
LEMMA WherePart ==
  ASSUME NEW S, NEW s \in Seq(S), NEW T, NEW a \in Nat, NEW b \in Nat,
         1 <= a, a <= b + 1, b <= Len(s), \A i \in 1 .. Len(s) : s[i] \in T <=> i \in a .. b
  PROVE  Where(s, T) = SubSeq(s, a, b)
<1> DEFINE n == Len(s)
           Upto(i) == SubSeq(s, a, IF i < a THEN a - 1 ELSE IF i < b THEN i ELSE b)
<1>0. n \in Nat
  OBVIOUS
<1>1. PICK f \in [0 .. n -> Seq(S)] : Keeps(s, T, f) /\ Where(s, T) = f[n]
  BY WhereIs
<1> DEFINE Good == {i \in 0 .. n : f[i] = Upto(i)}
<1>2. SubSeq(s, a, a - 1) = <<>>
  OBVIOUS
<1>3. ASSUME NEW i \in a .. b PROVE SubSeq(s, a, i) = Append(SubSeq(s, a, i - 1), s[i])
  <2>1. /\ i \in 1 .. n /\ i - 1 \in Nat /\ i - 1 <= n /\ a - 1 \in Nat /\ i - a \in Nat
        /\ s[i] \in S
    OBVIOUS
  <2>2. PICK l \in Nat, x \in S : l = i - a /\ x = s[i]
    BY <2>1
  <2>3. PICK t, u, v : t = SubSeq(s, a, i - 1) /\ u = SubSeq(s, a, i) /\ v = Append(t, x)
    OBVIOUS
  <2>4. t \in Seq(S) /\ Len(t) = l /\ \A j \in 1 .. l : t[j] = s[a + j - 1]
    BY <2>1, <2>2, <2>3
  <2>5. u \in Seq(S) /\ Len(u) = l + 1 /\ \A j \in 1 .. l + 1 : u[j] = s[a + j - 1]
    BY <2>1, <2>2, <2>3
  <2>6. v \in Seq(S) /\ Len(v) = l + 1 /\ v[l + 1] = x /\ \A j \in 1 .. l : v[j] = t[j]
    BY <2>3, <2>4
  <2>7. ASSUME NEW j \in 1 .. l + 1 PROVE u[j] = v[j]
    <3>1. u[j] = s[a + j - 1]
      BY <2>5
    <3>2. CASE j \in 1 .. l
      BY <2>4, <2>6, <3>1, <3>2
    <3>3. CASE j = l + 1
      <4>1. a + j - 1 = i
        BY <2>1, <2>2, <3>3
      <4> QED
        BY <2>2, <2>6, <3>1, <3>3, <4>1
    <3>4. j \in 1 .. l \/ j = l + 1
      OBVIOUS
    <3> QED
      BY <3>2, <3>3, <3>4
  <2>8. u = v
    BY <2>5, <2>6, <2>7, SeqEqual
  <2> QED
    BY <2>2, <2>3, <2>8, Zenon
<1>4. 0 \in Good
  <2>1. Upto(0) = <<>>
    BY <1>2
  <2> QED
    BY <1>0, <1>1, <2>1 DEF Keeps
<1>5. ASSUME NEW i \in 1 .. n, i - 1 \in Good PROVE i \in Good
  <2>1. f[i] = IF s[i] \in T THEN Append(f[i - 1], s[i]) ELSE f[i - 1]
    BY <1>1 DEF Keeps
  <2>2. s[i] \in T <=> i \in a .. b
    OBVIOUS
  <2>3. f[i - 1] = Upto(i - 1)
    BY <1>5
  <2>4. CASE i \in a .. b
    <3>1. Upto(i) = SubSeq(s, a, i) /\ Upto(i - 1) = SubSeq(s, a, i - 1)
      <4>1. (IF i < a THEN a - 1 ELSE IF i < b THEN i ELSE b) = i
        BY <2>4
      <4>2. (IF i - 1 < a THEN a - 1 ELSE IF i - 1 < b THEN i - 1 ELSE b) = i - 1
        BY <2>4
      <4> QED
        BY <4>1, <4>2
    <3>2. SubSeq(s, a, i) = Append(SubSeq(s, a, i - 1), s[i])
      BY <1>3, <2>4
    <3> HIDE DEF Upto
    <3>3. f[i] = Append(f[i - 1], s[i])
      BY <2>1, <2>2, <2>4
    <3>4. f[i] = Upto(i)
      BY <2>3, <3>1, <3>2, <3>3, Zenon
    <3> QED
      BY <3>4 DEF Good
  <2>5. CASE i \notin a .. b
    <3>1. (IF i < a THEN a - 1 ELSE IF i < b THEN i ELSE b) =
            (IF i - 1 < a THEN a - 1 ELSE IF i - 1 < b THEN i - 1 ELSE b)
      BY <2>5
    <3>2. Upto(i) = Upto(i - 1)
      BY <3>1
    <3> HIDE DEF Upto
    <3> QED
      BY <2>1, <2>2, <2>3, <2>5, <3>2
  <2> QED
    BY <2>4, <2>5
<1>6. \A i \in 0 .. n : i \in Good
  <2> HIDE DEF Good
  <2> QED
    BY <1>0, <1>4, <1>5, Upward
<1>7. f[n] = Upto(n)
  BY <1>0, <1>6
<1>8. (IF n < a THEN a - 1 ELSE IF n < b THEN n ELSE b) = b
  BY <1>0
<1> QED
  BY <1>1, <1>7, <1>8

-------------------------------------------------------------------------------
(* Walks from name to name.                                                    *)

(* Follow, unfolded.                                                           *)
Onward(next, seen) == next[Last(seen)] \ ToSet(seen)
Further(next, seen) ==
  IF Onward(next, seen) = {} THEN seen ELSE Append(seen, CHOOSE n \in Onward(next, seen) : TRUE)
WalkBy(start, next, m, f) ==
  [i \in 0 .. m |-> IF i = 0 THEN <<start>> ELSE Further(next, f[i - 1])]
Walks(start, next, m, f) ==
  f[0] = <<start>> /\ \A i \in 1 .. m : f[i] = Further(next, f[i - 1])
Trails(N) == Seq(N) \ {<<>>}

LEMMA TrailIs ==
  ASSUME NEW N, NEW s \in Trails(N)
  PROVE  /\ Len(s) \in Nat \ {0} /\ DOMAIN s = 1 .. Len(s) /\ \A i \in 1 .. Len(s) : s[i] \in N
         /\ Last(s) = s[Len(s)] /\ Last(s) \in N /\ s \in Seq(N)
<1>1. s \in Seq(N) /\ s # <<>>
  BY DEF Trails
<1>2. Len(s) # 0
  BY <1>1, EmptySeq
<1>3. Len(s) \in Nat /\ DOMAIN s = 1 .. Len(s) /\ \A i \in 1 .. Len(s) : s[i] \in N
  BY <1>1
<1> QED
  BY <1>1, <1>2, <1>3 DEF Last

LEMMA FurtherIs ==
  ASSUME NEW N, NEW next \in [N -> SUBSET N], NEW s \in Trails(N)
  PROVE  Further(next, s) \in Trails(N)
<1>1. CASE Onward(next, s) = {}
  BY <1>1 DEF Further
<1>2. CASE Onward(next, s) # {}
  <2>1. Onward(next, s) \subseteq N
    BY TrailIs DEF Onward
  <2> DEFINE n == CHOOSE n \in Onward(next, s) : TRUE
  <2>2. n \in N
    BY <1>2, <2>1
  <2>3. Further(next, s) = Append(s, n)
    BY <1>2 DEF Further
  <2> HIDE DEF n
  <2>4. Append(s, n) \in Seq(N) /\ Append(s, n) # <<>>
    BY <2>2 DEF Trails
  <2> QED
    BY <2>3, <2>4 DEF Trails
<1> QED
  BY <1>1, <1>2

LEMMA WalkByStarts ==
  ASSUME NEW start, NEW next, NEW m \in Nat, NEW f
  PROVE  WalkBy(start, next, m, f)[0] = <<start>>
BY DEF WalkBy

LEMMA WalkByGoes ==
  ASSUME NEW start, NEW next, NEW m \in Nat, NEW f, NEW i \in 1 .. m
  PROVE  WalkBy(start, next, m, f)[i] = Further(next, f[i - 1])
<1> DEFINE e(k) == IF k = 0 THEN <<start>> ELSE Further(next, f[k - 1])
<1>1. WalkBy(start, next, m, f) = [k \in 0 .. m |-> e(k)]
  BY DEF WalkBy
<1>2. i # 0 /\ i \in 0 .. m
  OBVIOUS
<1>3. e(i) = Further(next, f[i - 1])
  BY <1>2
<1> HIDE DEF e
<1> QED
  BY <1>1, <1>2, <1>3

LEMMA FollowIs ==
  ASSUME NEW N, NEW start \in N, NEW next \in [N -> SUBSET N], NEW m \in Nat
  PROVE  \E f \in [0 .. m -> Trails(N)] :
           Walks(start, next, m, f) /\ Follow(start, next, m) = f[m]
<1> DEFINE step == [n \in 1 .. m |-> [x \in Trails(N) |-> Further(next, x)]]
           f == CHOOSE g : g = WalkBy(start, next, m, g)
<1>0. m \in Nat
  OBVIOUS
<1>1. \A n \in 1 .. m : \A x \in Trails(N) :
        step[n][x] = Further(next, x) /\ step[n][x] \in Trails(N)
  BY FurtherIs
<1>2. PICK g \in [0 .. m -> Trails(N)] : Solves(g, m, <<start>>, step)
  <2>1. <<start>> \in Trails(N)
    BY DEF Trails
  <2> HIDE DEF step
  <2> QED
    BY <1>1, <2>1, RecursionIn
<1>3. Walks(start, next, m, g)
  <2>1. ASSUME NEW i \in 1 .. m PROVE g[i] = Further(next, g[i - 1])
    <3>1. g[i] = step[i][g[i - 1]]
      BY <1>2 DEF Solves
    <3>2. g[i - 1] \in Trails(N)
      BY <1>2
    <3> HIDE DEF step
    <3> QED
      BY <1>1, <3>1, <3>2
  <2> QED
    BY <1>2, <2>1 DEF Walks, Solves
<1>4. g = WalkBy(start, next, m, g)
  <2>1. ASSUME NEW i \in 0 .. m PROVE g[i] = WalkBy(start, next, m, g)[i]
    <3>1. CASE i = 0
      BY <1>3, <3>1, WalkByStarts DEF Walks
    <3>2. CASE i # 0
      <4>1. i \in 1 .. m
        BY <3>2
      <4>2. g[i] = Further(next, g[i - 1])
        BY <1>3, <4>1 DEF Walks
      <4>3. WalkBy(start, next, m, g)[i] = Further(next, g[i - 1])
        BY <1>0, <4>1, WalkByGoes
      <4> QED
        BY <4>2, <4>3
    <3> QED
      BY <3>1, <3>2
  <2>2. WalkBy(start, next, m, g) = [i \in 0 .. m |-> WalkBy(start, next, m, g)[i]]
    BY DEF WalkBy
  <2>3. g = [i \in 0 .. m |-> g[i]]
    OBVIOUS
  <2> QED
    BY <2>1, <2>2, <2>3
<1>5. f = WalkBy(start, next, m, f)
  BY <1>4
<1>6. Follow(start, next, m) = f[m]
  BY DEF Follow, WalkBy, Further, Onward
<1> HIDE DEF f
<1>7. f = [i \in 0 .. m |-> f[i]]
  BY <1>5 DEF WalkBy
<1>8. Walks(start, next, m, f)
  <2>1. WalkBy(start, next, m, f) = f
    BY <1>5
  <2> QED
    <3>1. f[0] = <<start>>
      BY <1>0, <2>1, WalkByStarts
    <3>2. ASSUME NEW i \in 1 .. m PROVE f[i] = Further(next, f[i - 1])
      BY <1>0, <2>1, WalkByGoes
    <3> QED
      BY <3>1, <3>2 DEF Walks
<1>9. \A i \in 0 .. m : f[i] = g[i]
  <2> DEFINE Same == {i \in 0 .. m : f[i] = g[i]}
  <2>1. 0 \in Same
    BY <1>3, <1>8 DEF Walks
  <2>2. ASSUME NEW n \in 1 .. m, n - 1 \in Same PROVE n \in Same
    <3>1. f[n] = Further(next, f[n - 1]) /\ g[n] = Further(next, g[n - 1])
      BY <1>3, <1>8 DEF Walks
    <3>2. f[n - 1] = g[n - 1] /\ n \in 0 .. m
      BY <2>2
    <3> QED
      BY <3>1, <3>2
  <2>3. \A n \in 0 .. m : n \in Same
    <3> HIDE DEF Same
    <3> QED
      BY <2>1, <2>2, Upward
  <2> QED
    BY <2>3
<1>10. f \in [0 .. m -> Trails(N)]
  BY <1>2, <1>7, <1>9
<1> QED
  BY <1>6, <1>8, <1>10

-------------------------------------------------------------------------------
Distinct(s) == \A i, j \in 1 .. Len(s) : s[i] = s[j] => i = j
Steps(next, s) == \A i \in 1 .. Len(s) - 1 : s[i + 1] \in next[s[i]]

LEMMA FurtherGoes ==
  ASSUME NEW N, NEW next \in [N -> SUBSET N], NEW s \in Trails(N), Distinct(s), Steps(next, s)
  PROVE  LET t == Further(next, s) IN
           Distinct(t) /\ Steps(next, t) /\ t[1] = s[1] /\ Len(t) <= Len(s) + 1
<1> DEFINE m == Len(s)
<1>0. /\ m \in Nat \ {0} /\ DOMAIN s = 1 .. m /\ \A i \in 1 .. m : s[i] \in N
      /\ Last(s) = s[m] /\ s \in Seq(N) /\ ToSet(s) = {s[i] : i \in 1 .. m}
  BY TrailIs DEF ToSet
<1>1. CASE Onward(next, s) = {}
  BY <1>0, <1>1 DEF Further
<1>2. CASE Onward(next, s) # {}
  <2> DEFINE n == CHOOSE n \in Onward(next, s) : TRUE
  <2>1. n \in Onward(next, s)
    BY <1>2
  <2>2. n \in next[s[m]] /\ \A i \in 1 .. m : s[i] # n
    BY <1>0, <2>1 DEF Onward
  <2>3. n \in N
    BY <1>0, <2>2
  <2>4. Further(next, s) = Append(s, n)
    BY <1>2 DEF Further
  <2> HIDE DEF n
  <2> DEFINE t == Append(s, n)
  <2>5. /\ Len(t) = m + 1 /\ t[m + 1] = n /\ \A i \in 1 .. m : t[i] = s[i]
    BY <1>0, <2>3
  <2> HIDE DEF t, m
  <2>6. \A i \in 1 .. m + 1 : i \in 1 .. m \/ i = m + 1
    BY <1>0
  <2>7. Distinct(t)
    <3> SUFFICES ASSUME NEW i \in 1 .. m + 1, NEW j \in 1 .. m + 1, t[i] = t[j] PROVE i = j
      BY <2>5 DEF Distinct
    <3>1. CASE i \in 1 .. m /\ j \in 1 .. m
      BY <2>5, <3>1 DEF Distinct, m
    <3>2. CASE i = m + 1 /\ j \in 1 .. m
      BY <2>2, <2>5, <3>2
    <3>3. CASE j = m + 1 /\ i \in 1 .. m
      BY <2>2, <2>5, <3>3
    <3> QED
      BY <2>6, <3>1, <3>2, <3>3
  <2>8. Steps(next, t)
    <3> SUFFICES ASSUME NEW i \in 1 .. m PROVE t[i + 1] \in next[t[i]]
      BY <1>0, <2>5 DEF Steps
    <3>1. CASE i = m
      BY <1>0, <2>2, <2>5, <3>1
    <3>2. CASE i # m
      <4>1. i \in 1 .. m - 1 /\ i + 1 \in 1 .. m
        BY <1>0, <3>2
      <4>2. s[i + 1] \in next[s[i]]
        BY <4>1 DEF Steps, m
      <4> QED
        BY <2>5, <4>1, <4>2
    <3> QED
      BY <3>1, <3>2
  <2>9. t[1] = s[1]
    BY <1>0, <2>5
  <2> QED
    BY <1>0, <2>4, <2>5, <2>7, <2>8, <2>9 DEF t, m
<1> QED
  BY <1>1, <1>2

(* A walk passes no name twice, and takes at most so many steps.               *)
LEMMA FollowGoes ==
  ASSUME NEW N, NEW start \in N, NEW next \in [N -> SUBSET N], NEW m \in Nat
  PROVE  LET t == Follow(start, next, m) IN
           t \in Trails(N) /\ Distinct(t) /\ Steps(next, t) /\ t[1] = start /\ Len(t) <= m + 1
<1>1. PICK f \in [0 .. m -> Trails(N)] : Walks(start, next, m, f) /\ Follow(start, next, m) = f[m]
  BY FollowIs
<1> DEFINE Fine(t, i) == Distinct(t) /\ Steps(next, t) /\ t[1] = start /\ Len(t) <= i + 1
           Good == {i \in 0 .. m : Fine(f[i], i)}
<1>2. 0 \in Good
  <2>1. f[0] = <<start>>
    BY <1>1 DEF Walks
  <2>2. Len(<<start>>) = 1 /\ <<start>>[1] = start
    OBVIOUS
  <2>3. \A t : Len(t) = 1 => Distinct(t) /\ Steps(next, t)
    BY DEF Distinct, Steps
  <2> QED
    BY <2>1, <2>2, <2>3
<1>3. ASSUME NEW n \in 1 .. m, n - 1 \in Good PROVE n \in Good
  <2>1. f[n] = Further(next, f[n - 1])
    BY <1>1 DEF Walks
  <2>2. f[n - 1] \in Trails(N) /\ Fine(f[n - 1], n - 1) /\ n \in 0 .. m
    BY <1>3
  <2>3. Distinct(f[n]) /\ Steps(next, f[n]) /\ f[n][1] = start /\ Len(f[n]) <= Len(f[n - 1]) + 1
    BY <2>1, <2>2, FurtherGoes
  <2>4. Len(f[n - 1]) \in Nat /\ Len(f[n]) \in Nat
    BY <2>2, TrailIs
  <2>5. Len(f[n]) <= n + 1
    BY <2>2, <2>3, <2>4
  <2> QED
    BY <2>2, <2>3, <2>5
<1>4. \A n \in 0 .. m : n \in Good
  <2> HIDE DEF Good
  <2> QED
    BY <1>2, <1>3, Upward
<1>5. m \in 0 .. m
  OBVIOUS
<1> QED
  BY <1>1, <1>4, <1>5

OneWay(start, next, q) ==
  /\ q[1] = start /\ Distinct(q) /\ next[q[Len(q)]] = {}
  /\ \A i \in 1 .. Len(q) - 1 : next[q[i]] = {q[i + 1]}

(* Where every step but the last has one way on, the walk is the whole way.    *)
LEMMA FollowThrough ==
  ASSUME NEW N, NEW next \in [N -> SUBSET N], NEW m \in Nat, NEW q \in Trails(N),
         NEW start \in N, OneWay(start, next, q), Len(q) <= m + 1
  PROVE  Follow(start, next, m) = q
<1> DEFINE n == Len(q)
           Pre(k) == SubSeq(q, 1, k)
<1>0. n \in Nat \ {0} /\ q \in Seq(N) /\ \A i \in 1 .. n : q[i] \in N
  BY TrailIs
<1>a. start = q[1] /\ Distinct(q) /\ next[q[n]] = {}
      /\ \A i \in 1 .. n - 1 : next[q[i]] = {q[i + 1]}
  BY DEF OneWay
<1>1. PICK f \in [0 .. m -> Trails(N)] : Walks(start, next, m, f) /\ Follow(start, next, m) = f[m]
  BY FollowIs
<1>2. ASSUME NEW k \in 1 .. n
      PROVE  /\ Pre(k) \in Trails(N) /\ Len(Pre(k)) = k /\ Last(Pre(k)) = q[k]
             /\ ToSet(Pre(k)) = {q[j] : j \in 1 .. k}
             /\ \A j \in 1 .. k : Pre(k)[j] = q[j]
  <2>1. Pre(k) \in Seq(N) /\ Len(Pre(k)) = k /\ \A j \in 1 .. k : Pre(k)[j] = q[j]
    BY <1>0
  <2>2. Pre(k) # <<>>
    <3> HIDE DEF Pre
    <3> QED
      BY <2>1, EmptySeq
  <2>3. DOMAIN Pre(k) = 1 .. k
    BY <2>1
  <2> HIDE DEF Pre
  <2>4. Pre(k) \in Trails(N)
    BY <2>1, <2>2 DEF Trails
  <2>5. ToSet(Pre(k)) = {q[j] : j \in 1 .. k}
    <3>1. ToSet(Pre(k)) = {Pre(k)[j] : j \in 1 .. k}
      BY <2>3 DEF ToSet
    <3> QED
      BY <2>1, <3>1
  <2>6. Last(Pre(k)) = q[k]
    BY <2>1 DEF Last
  <2> QED
    BY <2>1, <2>4, <2>5, <2>6
<1>3. Pre(n) = q
  BY <1>0
<1>4. ASSUME NEW k \in 1 .. n - 1 PROVE Further(next, Pre(k)) = Pre(k + 1)
  <2>1. k \in 1 .. n /\ k + 1 \in 1 .. n
    BY <1>0
  <2>2. next[q[k]] = {q[k + 1]}
    BY <1>a
  <2>3. \A j \in 1 .. k : q[j] # q[k + 1]
    <3> SUFFICES ASSUME NEW j \in 1 .. k, q[j] = q[k + 1] PROVE FALSE
      OBVIOUS
    <3>1. j \in 1 .. n /\ j # k + 1
      BY <1>0
    <3> QED
      BY <1>a, <2>1, <3>1 DEF Distinct
  <2>4. Onward(next, Pre(k)) = {q[k + 1]}
    <3>1. Last(Pre(k)) = q[k] /\ ToSet(Pre(k)) = {q[j] : j \in 1 .. k}
      BY <1>2, <2>1
    <3>2. q[k + 1] \notin {q[j] : j \in 1 .. k}
      BY <2>3
    <3> HIDE DEF Pre
    <3> QED
      BY <2>2, <3>1, <3>2 DEF Onward
  <2>5. Further(next, Pre(k)) = Append(Pre(k), q[k + 1])
    <3> HIDE DEF Pre
    <3> QED
      BY <2>4 DEF Further
  <2>6. Append(Pre(k), q[k + 1]) = Pre(k + 1)
    BY <1>0, <2>1
  <2> QED
    BY <2>5, <2>6
<1>5. Further(next, q) = q
  BY <1>0, <1>a, TrailIs DEF Further, Onward
<1> DEFINE Upto(i) == IF i < n THEN Pre(i + 1) ELSE q
           Good == {i \in 0 .. m : f[i] = Upto(i)}
<1>6. 0 \in Good
  <2>1. f[0] = <<q[1]>>
    BY <1>a, <1>1 DEF Walks
  <2>2. Pre(1) = <<q[1]>>
    <3>1. Pre(1) \in Seq(N) /\ Len(Pre(1)) = 1 /\ Pre(1)[1] = q[1] /\ q[1] \in N
      BY <1>0
    <3>2. <<q[1]>> \in Seq(N) /\ Len(<<q[1]>>) = 1 /\ <<q[1]>>[1] = q[1]
      BY <3>1
    <3>3. \A i \in 1 .. 1 : i = 1
      OBVIOUS
    <3> HIDE DEF Pre
    <3> QED
      BY <3>1, <3>2, <3>3, SeqEqual
  <2> HIDE DEF Pre
  <2>3. Upto(0) = Pre(1) /\ 0 \in 0 .. m
    BY <1>0
  <2> QED
    BY <2>1, <2>2, <2>3
<1>7. ASSUME NEW i \in 1 .. m, i - 1 \in Good PROVE i \in Good
  <2>1. f[i] = Further(next, f[i - 1])
    BY <1>1 DEF Walks
  <2>2. f[i - 1] = Upto(i - 1) /\ i \in 0 .. m
    BY <1>7
  <2> HIDE DEF Pre
  <2>3. CASE i < n
    <3>1. i \in 1 .. n - 1 /\ i - 1 < n /\ i - 1 + 1 = i
      BY <1>0, <2>3
    <3>2. Upto(i - 1) = Pre(i) /\ Upto(i) = Pre(i + 1)
      BY <2>3, <3>1
    <3> QED
      BY <1>4, <2>1, <2>2, <3>1, <3>2
  <2>4. CASE i = n
    <3>1. i - 1 < n /\ i - 1 + 1 = n /\ ~ (i < n)
      BY <1>0, <2>4
    <3>2. Upto(i - 1) = Pre(n) /\ Upto(i) = q
      BY <3>1
    <3> QED
      BY <1>3, <1>5, <2>1, <2>2, <3>2
  <2>5. CASE i > n
    <3>1. ~ (i - 1 < n) /\ ~ (i < n)
      BY <1>0, <2>5
    <3>2. Upto(i - 1) = q /\ Upto(i) = q
      BY <3>1
    <3> QED
      BY <1>5, <2>1, <2>2, <3>2
  <2>6. i < n \/ i = n \/ i > n
    BY <1>0
  <2> QED
    BY <2>3, <2>4, <2>5, <2>6
<1>8. \A i \in 0 .. m : i \in Good
  <2> HIDE DEF Good
  <2> QED
    BY <1>6, <1>7, Upward
<1>9. f[m] = q
  <2> HIDE DEF Pre
  <2>1. f[m] = Upto(m)
    BY <1>8
  <2>2. CASE m < n
    <3>1. m + 1 = n
      BY <1>0, <2>2
    <3> QED
      BY <1>3, <2>1, <2>2, <3>1
  <2>3. CASE ~ (m < n)
    BY <2>1, <2>3
  <2> QED
    BY <2>2, <2>3
<1> QED
  BY <1>a, <1>1, <1>9

-------------------------------------------------------------------------------
(* Drawings, and the paths through them.                                       *)

(* A drawing is a list of blocks and a list of wires.                          *)
Listed(doc) ==
  /\ doc = [id |-> doc.id, blocks |-> doc.blocks, wires |-> doc.wires]
  /\ doc.blocks \in Seq(ToSet(doc.blocks)) /\ doc.wires \in Seq(ToSet(doc.wires))
  /\ \A b \in ToSet(doc.blocks) : b = Block(b.name, b.kind, b.settings)
  /\ \A w \in ToSet(doc.wires) : w = Wire(w.from, w.to)

(* The blocks a path begins, ends and divides at.                              *)
Landmarks == {"source", "sink", "channel"}

(* A drawing has one source, which nothing feeds, one sink, which feeds        *)
(* nothing, and one channel; its wires run between blocks that are there.      *)
WellDrawn(doc) ==
  /\ Listed(doc)
  /\ \A a, b \in ToSet(doc.blocks) : a.name = b.name => a.kind = b.kind
  /\ \A a, b \in ToSet(doc.blocks) : a.kind \in Landmarks /\ a.kind = b.kind => a.name = b.name
  /\ \E b \in ToSet(doc.blocks) : b.kind = "sink"
  /\ \A w \in ToSet(doc.wires) : w.from \in NamesIn(doc) /\ w.to \in NamesIn(doc)
  /\ \A w \in ToSet(doc.wires) : \A b \in ToSet(doc.blocks) :
       /\ b.kind = "source" => w.to # b.name
       /\ b.kind = "sink" => w.from # b.name

LEMMA MinIs ==
  ASSUME NEW S, S \subseteq Nat, S # {}
  PROVE  Min(S) \in S /\ First(S) = {Min(S)}
<1>1. PICK n \in S : \A k \in S : n <= k
  BY LeastNumber
<1>2. Min(S) \in S /\ \A k \in S : Min(S) <= k
  BY <1>1, Zenon DEF Min
<1>3. PICK m \in S : m = Min(S) /\ \A k \in S : m <= k
  BY <1>2
<1>4. \A i \in S : (\A j \in S : i <= j) <=> i = m
  BY <1>3
<1> QED
  BY <1>3, <1>4 DEF First

LEMMA ListsAre ==
  ASSUME NEW doc, Listed(doc)
  PROVE  /\ Len(doc.blocks) \in Nat /\ Len(doc.wires) \in Nat
         /\ DOMAIN doc.blocks = 1 .. Len(doc.blocks) /\ DOMAIN doc.wires = 1 .. Len(doc.wires)
         /\ \A i \in DOMAIN doc.blocks : doc.blocks[i] \in ToSet(doc.blocks)
         /\ \A w \in DOMAIN doc.wires : doc.wires[w] \in ToSet(doc.wires)
BY DEF Listed, ToSet

LEMMA BlockAtIs ==
  ASSUME NEW doc, NEW n \in NamesIn(doc)
  PROVE  BlockAt(doc, n) \in ToSet(doc.blocks) /\ BlockAt(doc, n).name = n
BY DEF NamesIn, BlockAt

(* The way on from a name that a wire of the signal leaves.                    *)
LEMMA OutgoingIs ==
  ASSUME NEW doc, WellDrawn(doc), NEW n, NEW v \in SignalWires(doc), doc.wires[v].from = n,
         NEW first, first = Min(Leaving(doc, n))
  PROVE  Outgoing(doc, n) = {doc.wires[first].to}
<1> DEFINE out == Leaving(doc, n)
<1>1. {x \in SignalWires(doc) : doc.wires[x].from = n} = out
  BY DEF SignalWires, Leaving
<1>2. v \in out /\ out \subseteq Nat
  <2>1. DOMAIN doc.wires = 1 .. Len(doc.wires) /\ Len(doc.wires) \in Nat
    BY ListsAre DEF WellDrawn
  <2>2. v \in out
    BY DEF SignalWires, Leaving
  <2> QED
    BY <2>1, <2>2 DEF Leaving
<1>3. first = Min(out)
  OBVIOUS
<1>4. Outgoing(doc, n) = {doc.wires[w].to : w \in First(out)}
  BY <1>1 DEF Outgoing
<1> HIDE DEF out
<1>5. First(out) = {first}
  BY <1>2, <1>3, MinIs
<1> QED
  BY <1>4, <1>5

LEMMA WaysStay ==
  ASSUME NEW doc, WellDrawn(doc), NEW n
  PROVE  Outgoing(doc, n) \subseteq NamesIn(doc) /\ Incoming(doc, n) \subseteq NamesIn(doc)
<1>1. \A w \in SignalWires(doc) : doc.wires[w] \in ToSet(doc.wires)
  BY ListsAre DEF SignalWires, WellDrawn
<1>2. \A w \in SignalWires(doc) : doc.wires[w].from \in NamesIn(doc) /\ doc.wires[w].to \in NamesIn(doc)
  BY <1>1 DEF WellDrawn
<1>3. \A S : First(S) \subseteq S
  BY DEF First
<1> QED
  BY <1>2, <1>3 DEF Outgoing, Incoming

LEMMA ReverseIs ==
  ASSUME NEW N, NEW t \in Trails(N)
  PROVE  /\ Reverse(t) \in Trails(N) /\ Len(Reverse(t)) = Len(t)
         /\ \A i \in 1 .. Len(t) : Reverse(t)[i] = t[Len(t) - i + 1]
<1>0. Len(t) \in Nat \ {0} /\ t \in Seq(N) /\ \A i \in 1 .. Len(t) : t[i] \in N
  BY TrailIs
<1>1. Reverse(t) = [i \in 1 .. Len(t) |-> t[(Len(t) - i) + 1]]
  BY DEF Reverse
<1>2. \A i \in 1 .. Len(t) : (Len(t) - i) + 1 \in 1 .. Len(t)
  BY <1>0
<1>3. Reverse(t) \in [1 .. Len(t) -> N]
  BY <1>0, <1>1, <1>2
<1>4. Reverse(t) \in Seq(N) /\ Len(Reverse(t)) = Len(t)
  BY <1>0, <1>3, <1>1
<1>5. Reverse(t) # <<>>
  BY <1>0, <1>4, EmptySeq
<1> QED
  BY <1>1, <1>4, <1>5 DEF Trails

(* The walk begins at a drawing's source.                                      *)
LEMMA StartIs ==
  ASSUME NEW doc, WellDrawn(doc), NEW b \in ToSet(doc.blocks), b.kind = "source"
  PROVE  Starts(doc) # {} /\ doc.blocks[Min(Starts(doc))].name = b.name
<1>0. DOMAIN doc.blocks = 1 .. Len(doc.blocks)
  BY ListsAre DEF WellDrawn
<1>1. PICK i \in DOMAIN doc.blocks : doc.blocks[i] = b
  BY DEF ToSet
<1>2. \A w \in SignalWires(doc) : doc.wires[w].to # b.name
  BY ListsAre DEF WellDrawn, SignalWires
<1> DEFINE sources == {j \in Unfed(doc) : doc.blocks[j].kind = "source"}
<1>3. i \in sources
  BY <1>1, <1>2 DEF Unfed
<1>4. Starts(doc) = sources
  BY <1>3 DEF Starts
<1>5. sources \subseteq Nat
  BY <1>0 DEF Unfed
<1>6. Min(sources) \in sources
  <2> HIDE DEF sources
  <2> QED
    BY <1>3, <1>5, MinIs
<1>7. PICK j \in DOMAIN doc.blocks : j = Min(Starts(doc)) /\ doc.blocks[j].kind = "source"
  BY <1>4, <1>6 DEF Unfed
<1>8. doc.blocks[j] \in ToSet(doc.blocks)
  BY DEF ToSet
<1>9. doc.blocks[j].name = b.name
  BY <1>7, <1>8 DEF WellDrawn, Landmarks
<1> QED
  BY <1>3, <1>4, <1>7, <1>9

(* The chain the importer follows forward is the path the wires draw back from *)
(* the sink, where that path is whole and every fork's first wire stays on it. *)
LEMMA ChainIsPath ==
  ASSUME NEW doc, WellDrawn(doc), NEW names, names = PathNames(doc),
         Whole(Along(doc, names)), LeadsOn(doc, names)
  PROVE  /\ names \in Trails(NamesIn(doc)) /\ Distinct(names)
         /\ OrderedChain(doc) = Along(doc, names)
<1> DEFINE N == NamesIn(doc)
           m == Len(doc.blocks)
           sink == CHOOSE b \in ToSet(doc.blocks) : b.kind = "sink"
           back == [n \in N |-> Incoming(doc, n)]
           next == [n \in N |-> Outgoing(doc, n)]
           k == Len(names)
<1>0. m \in Nat /\ DOMAIN doc.blocks = 1 .. m
  BY ListsAre DEF WellDrawn
<1>1. sink \in ToSet(doc.blocks) /\ sink.kind = "sink" /\ sink.name \in N
  <2>1. sink \in ToSet(doc.blocks) /\ sink.kind = "sink"
    BY DEF WellDrawn
  <2> HIDE DEF sink
  <2> QED
    BY <2>1 DEF NamesIn
<1>2. back \in [N -> SUBSET N] /\ next \in [N -> SUBSET N]
  BY WaysStay
<1>3. PICK t : t = Follow(sink.name, back, m)
  OBVIOUS
<1>4. names = Reverse(t)
  BY <1>3 DEF PathNames
<1> HIDE DEF sink
<1>5. t \in Trails(N) /\ Distinct(t) /\ Steps(back, t) /\ t[1] = sink.name /\ Len(t) <= m + 1
  <2> HIDE DEF N, back, m
  <2> QED
    BY <1>0, <1>1, <1>2, <1>3, FollowGoes
<1>6. /\ names \in Trails(N) /\ k = Len(t) /\ k \in Nat \ {0}
      /\ \A i \in 1 .. k : names[i] = t[k - i + 1] /\ names[i] \in N
      /\ DOMAIN names = 1 .. k
  BY <1>4, <1>5, ReverseIs, TrailIs
<1>7. Distinct(names)
  <2> SUFFICES ASSUME NEW i \in 1 .. k, NEW j \in 1 .. k, names[i] = names[j] PROVE i = j
    BY DEF Distinct
  <2>1. k - i + 1 \in 1 .. Len(t) /\ k - j + 1 \in 1 .. Len(t)
    BY <1>6
  <2>2. t[k - i + 1] = t[k - j + 1]
    BY <1>6
  <2>3. k - i + 1 = k - j + 1
    BY <1>5, <2>1, <2>2 DEF Distinct
  <2> QED
    BY <1>6, <2>3
<1>8. ASSUME NEW i \in 1 .. k - 1 PROVE next[names[i]] = {names[i + 1]}
  <2>1. k - i \in 1 .. Len(t) - 1 /\ i \in 1 .. k /\ i + 1 \in 1 .. k /\ k - (i + 1) + 1 = k - i
    BY <1>6
  <2>2. t[k - i + 1] \in back[t[k - i]]
    BY <1>5, <2>1 DEF Steps
  <2>3. names[i] \in Incoming(doc, names[i + 1])
    BY <1>6, <2>1, <2>2
  <2>4. PICK v \in SignalWires(doc) : doc.wires[v].from = names[i]
    BY <2>3 DEF Incoming, First
  <2>5. doc.wires[Min(Leaving(doc, names[i]))].to = names[i + 1]
    BY DEF LeadsOn
  <2>6. PICK n \in N : n = names[i]
    BY <1>6, <2>1
  <2>7. PICK first : first = Min(Leaving(doc, n))
    OBVIOUS
  <2>8. doc.wires[first].to = names[i + 1]
    BY <2>5, <2>6, <2>7
  <2>9. Outgoing(doc, n) = {doc.wires[first].to}
    BY <2>4, <2>6, <2>7, OutgoingIs
  <2>10. next[n] = Outgoing(doc, n)
    BY <2>6
  <2> QED
    BY <2>6, <2>8, <2>9, <2>10
<1>9. next[names[k]] = {}
  <2>1. names[k] = sink.name
    <3>1. k \in 1 .. k /\ k - k + 1 = 1
      BY <1>6
    <3> QED
      BY <1>5, <1>6, <3>1
  <2>2. \A w \in DOMAIN doc.wires : doc.wires[w].from # sink.name
    BY <1>1, ListsAre DEF WellDrawn
  <2>3. {x \in SignalWires(doc) : doc.wires[x].from = sink.name} = {}
    BY <2>2 DEF SignalWires
  <2>4. Outgoing(doc, sink.name) = {}
    BY <2>3 DEF Outgoing, First
  <2> QED
    BY <1>1, <2>1, <2>4
<1>10. names[1] \in N /\ BlockAt(doc, names[1]).kind = "source"
  <2>1. 1 \in 1 .. k
    BY <1>6
  <2> QED
    BY <1>6, <2>1 DEF Whole, Along
<1>11. doc.blocks[Min(Starts(doc))].name = names[1]
  <2>1. PICK n \in N : n = names[1]
    BY <1>10
  <2>2. PICK b \in ToSet(doc.blocks) : b.name = names[1] /\ b.kind = "source"
    BY <1>10, <2>1, BlockAtIs
  <2> QED
    BY <2>2, StartIs
<1>12. Follow(names[1], next, m) = names
  <2>1. PICK start \in N : start = names[1]
    BY <1>10
  <2> HIDE DEF N, next, m
  <2>2. names \in Trails(N) /\ OneWay(start, next, names) /\ Len(names) <= m + 1
    BY <1>5, <1>6, <1>7, <1>8, <1>9, <2>1 DEF OneWay
  <2>3. Follow(start, next, m) = names
    BY <1>0, <1>2, <2>2, FollowThrough
  <2> QED
    BY <2>1, <2>3
<1>13. OrderedChain(doc) = Along(doc, Follow(names[1], next, m))
  BY <1>11 DEF OrderedChain
<1> QED
  BY <1>6, <1>7, <1>12, <1>13

-------------------------------------------------------------------------------
(* The kinds on a path.                                                        *)

OfKind(s, kinds) == {x \in ToSet(s) : x.kind \in kinds}

LEMMA ElementsIn ==
  ASSUME NEW S, NEW s \in Seq(S)
  PROVE  Len(s) \in Nat /\ DOMAIN s = 1 .. Len(s) /\ \A i \in 1 .. Len(s) : s[i] \in S /\ s[i] \in ToSet(s)
BY DEF ToSet

LEMMA OfKindsAmong ==
  ASSUME NEW S, NEW s \in Seq(S), NEW kinds, NEW T,
         \A i \in 1 .. Len(s) : s[i] \in T <=> s[i].kind \in kinds
  PROVE  OfKinds(s, kinds) = Where(s, T)
<1>1. \A i \in 1 .. Len(s) : s[i] \in OfKind(s, kinds) <=> s[i] \in T
  BY ElementsIn DEF OfKind
<1>2. Where(s, OfKind(s, kinds)) = Where(s, T)
  BY <1>1, WhereSame
<1> QED
  BY <1>2 DEF OfKinds, OfKind

LEMMA OfKindsJoin ==
  ASSUME NEW S, NEW a \in Seq(S), NEW b \in Seq(S), NEW kinds
  PROVE  OfKinds(Joint(a, b), kinds) = Joint(OfKinds(a, kinds), OfKinds(b, kinds))
<1> DEFINE T == {x \in S : x.kind \in kinds}
<1>1. PICK c : c = a \o b
  OBVIOUS
<1>2. c \in Seq(S)
  BY <1>1
<1>3. /\ \A i \in 1 .. Len(a) : a[i] \in T <=> a[i].kind \in kinds
      /\ \A i \in 1 .. Len(b) : b[i] \in T <=> b[i].kind \in kinds
      /\ \A i \in 1 .. Len(c) : c[i] \in T <=> c[i].kind \in kinds
  BY <1>2, ElementsIn
<1> HIDE DEF T
<1>4. OfKinds(a, kinds) = Where(a, T) /\ OfKinds(b, kinds) = Where(b, T) /\ OfKinds(c, kinds) = Where(c, T)
  BY <1>2, <1>3, OfKindsAmong
<1>5. Where(a \o b, T) = Where(a, T) \o Where(b, T)
  BY WhereJoins
<1> QED
  BY <1>1, <1>4, <1>5 DEF Joint

LEMMA OfKindsSame ==
  ASSUME NEW S, NEW s \in Seq(S), NEW kinds, NEW others,
         \A i \in 1 .. Len(s) : s[i].kind \in kinds <=> s[i].kind \in others
  PROVE  OfKinds(s, kinds) = OfKinds(s, others)
<1>1. \A i \in 1 .. Len(s) : s[i] \in OfKind(s, others) <=> s[i].kind \in kinds
  BY ElementsIn DEF OfKind
<1>2. OfKinds(s, kinds) = Where(s, OfKind(s, others))
  BY <1>1, OfKindsAmong
<1> QED
  BY <1>2 DEF OfKinds, OfKind

LEMMA OfKindsOne ==
  ASSUME NEW x, NEW kinds
  PROVE  OfKinds(<<x>>, kinds) = IF x.kind \in kinds THEN <<x>> ELSE <<>>
<1>1. x \in OfKind(<<x>>, kinds) <=> x.kind \in kinds
  BY DEF OfKind, ToSet
<1>2. OfKinds(<<x>>, kinds) = Where(<<x>>, OfKind(<<x>>, kinds))
  BY DEF OfKinds, OfKind
<1> QED
  BY <1>1, <1>2, WhereOne

LEMMA OfKindsIn ==
  ASSUME NEW S, NEW s \in Seq(S), NEW kinds
  PROVE  /\ OfKinds(s, kinds) \in Seq(S)
         /\ \A i \in 1 .. Len(OfKinds(s, kinds)) :
              OfKinds(s, kinds)[i] \in ToSet(s) /\ OfKinds(s, kinds)[i].kind \in kinds
<1>1. PICK t : t = OfKinds(s, kinds)
  OBVIOUS
<1>2. t \in Seq(S) /\ ToSet(t) = ToSet(s) \cap OfKind(s, kinds)
  BY <1>1, WhereIn DEF OfKinds, OfKind
<1>3. \A i \in 1 .. Len(t) : t[i] \in ToSet(t)
  BY <1>2, ElementsIn
<1>4. \A i \in 1 .. Len(t) : t[i] \in ToSet(s) /\ t[i].kind \in kinds
  BY <1>2, <1>3 DEF OfKind
<1> QED
  BY <1>1, <1>2, <1>4

(* The same for the elements of some kinds.                                    *)
LEMMA OfKindsPart ==
  ASSUME NEW S, NEW s \in Seq(S), NEW kinds, NEW a \in Nat, NEW b \in Nat,
         1 <= a, a <= b + 1, b <= Len(s), \A i \in 1 .. Len(s) : s[i].kind \in kinds <=> i \in a .. b
  PROVE  OfKinds(s, kinds) = SubSeq(s, a, b)
<1>1. \A i \in 1 .. Len(s) : s[i] \in OfKind(s, kinds) <=> i \in a .. b
  BY ElementsIn DEF OfKind
<1>2. Where(s, OfKind(s, kinds)) = SubSeq(s, a, b)
  BY <1>1, WherePart
<1> QED
  BY <1>2 DEF OfKinds, OfKind

KindList(s) == [i \in DOMAIN s |-> s[i].kind]

(* The skills read off some blocks are of the kinds of those blocks.           *)
LEMMA SkillsKinds ==
  ASSUME NEW S, NEW s \in Seq(S)
  PROVE  KindsOf(SkillsOn(s)) = KindList(OfKinds(s, Signal))
<1>1. PICK d : d = OfKinds(s, Signal)
  OBVIOUS
<1>2. d \in Seq(S) /\ \A i \in 1 .. Len(d) : d[i].kind \in Signal
  BY <1>1, OfKindsIn
<1>3. DOMAIN d = 1 .. Len(d)
  BY <1>2
<1>4. PICK k : k = SkillsOn(s)
  OBVIOUS
<1>5. k = [i \in DOMAIN d |-> SkillFor(d[i])]
  BY <1>1, <1>4 DEF SkillsOn
<1>6. ASSUME NEW i \in DOMAIN d
      PROVE  (IF k[i].kind = "modulator" THEN "mapper" ELSE k[i].kind) = d[i].kind
  <2>1. d[i].kind \in Signal
    BY <1>2, <1>3
  <2>2. d[i].kind # "modulator"
    BY <2>1 DEF Signal
  <2>3. k[i] = SkillFor(d[i])
    BY <1>5
  <2>4. CASE d[i].kind = "mapper"
    <3>1. SkillFor(d[i]).kind = "modulator"
      BY <2>4 DEF SkillFor, Modulator, Skill
    <3> QED
      BY <2>3, <2>4, <3>1
  <2>5. CASE d[i].kind # "mapper"
    <3>1. SkillFor(d[i]).kind = d[i].kind
      BY <2>5 DEF SkillFor, Skill
    <3> QED
      BY <2>2, <2>3, <3>1
  <2> QED
    BY <2>4, <2>5
<1>7. KindsOf(k) = [i \in DOMAIN d |-> IF k[i].kind = "modulator" THEN "mapper" ELSE k[i].kind]
  BY <1>5 DEF KindsOf
<1>8. KindsOf(k) = KindList(d)
  BY <1>6, <1>7 DEF KindList
<1> QED
  BY <1>1, <1>4, <1>8

LEMMA KindListJoins ==
  ASSUME NEW S, NEW a \in Seq(S), NEW b \in Seq(S)
  PROVE  KindList(Joint(a, b)) = Joint(KindList(a), KindList(b))
<1> DEFINE K == {x.kind : x \in S}
<1>1. PICK c : c = a \o b
  OBVIOUS
<1>2. /\ c \in Seq(S) /\ Len(c) = Len(a) + Len(b) /\ Len(a) \in Nat /\ Len(b) \in Nat
      /\ \A i \in 1 .. Len(a) : c[i] = a[i]
      /\ \A i \in 1 .. Len(b) : c[Len(a) + i] = b[i]
  BY <1>1
<1>3. ASSUME NEW s \in Seq(S)
      PROVE  /\ KindList(s) \in Seq(K) /\ Len(KindList(s)) = Len(s)
             /\ \A i \in 1 .. Len(s) : KindList(s)[i] = s[i].kind
  <2>1. DOMAIN s = 1 .. Len(s) /\ Len(s) \in Nat /\ \A i \in 1 .. Len(s) : s[i].kind \in K
    BY ElementsIn
  <2>2. KindList(s) \in [1 .. Len(s) -> K]
    BY <2>1 DEF KindList
  <2> HIDE DEF K
  <2>3. KindList(s) \in Seq(K) /\ Len(KindList(s)) = Len(s)
    BY <2>1, <2>2
  <2> QED
    BY <2>1, <2>3 DEF KindList
<1>4. PICK u, v : u = KindList(a) /\ v = KindList(b)
  OBVIOUS
<1> HIDE DEF K
<1>5. /\ u \in Seq(K) /\ v \in Seq(K) /\ Len(u) = Len(a) /\ Len(v) = Len(b)
      /\ \A i \in 1 .. Len(a) : u[i] = a[i].kind
      /\ \A i \in 1 .. Len(b) : v[i] = b[i].kind
  BY <1>3, <1>4
<1>6. PICK w : w = Joint(u, v)
  OBVIOUS
<1>61. /\ w \in Seq(K) /\ Len(w) = Len(u) + Len(v)
       /\ \A i \in 1 .. Len(u) : w[i] = u[i]
       /\ \A i \in 1 .. Len(v) : w[Len(u) + i] = v[i]
  <2>1. u \in Seq(K) /\ v \in Seq(K)
    BY <1>5
  <2> QED
    BY <1>6, <2>1 DEF Joint
<1>62. /\ Len(w) = Len(a) + Len(b)
       /\ \A i \in 1 .. Len(a) : w[i] = u[i]
       /\ \A i \in 1 .. Len(b) : w[Len(a) + i] = v[i]
  BY <1>5, <1>61
<1>7. ASSUME NEW i \in 1 .. Len(c) PROVE KindList(c)[i] = w[i]
  <2>1. KindList(c)[i] = c[i].kind
    BY <1>2, <1>3
  <2>2. CASE i <= Len(a)
    <3>1. i \in 1 .. Len(a)
      BY <1>2, <2>2
    <3> QED
      BY <1>2, <1>5, <1>62, <2>1, <3>1
  <2>3. CASE i > Len(a)
    <3>1. PICK j \in 1 .. Len(b) : i = Len(a) + j
      <4>1. /\ i \in Nat /\ Len(a) \in Nat /\ Len(b) \in Nat
            /\ i <= Len(a) + Len(b) /\ i > Len(a)
        BY <1>2, <2>3
      <4>2. i - Len(a) \in 1 .. Len(b) /\ i = Len(a) + (i - Len(a))
        BY <4>1
      <4> QED
        BY <4>2
    <3> QED
      BY <1>2, <1>5, <1>62, <2>1, <3>1
  <2> QED
    BY <1>2, <2>2, <2>3
<1>8. KindList(c) \in Seq(K) /\ Len(KindList(c)) = Len(w)
  BY <1>2, <1>3, <1>62
<1>9. KindList(c) = w
  BY <1>2, <1>61, <1>7, <1>8, <1>62, SeqEqual
<1> QED
  BY <1>1, <1>4, <1>6, <1>9 DEF Joint

(* A path cut at one of its blocks.                                            *)
Cut(path, c, f, g) ==
  /\ SubSeq(path, 1, c) = f \o <<path[c]>>
  /\ SubSeq(path, c + 1, Len(path)) = g
  /\ path = (f \o <<path[c]>>) \o g
  /\ \A i \in 1 .. Len(f) : i # c /\ i \in 1 .. Len(path) /\ f[i] = path[i]
  /\ \A i \in 1 .. Len(g) : c + i # c /\ c + i \in 1 .. Len(path) /\ g[i] = path[c + i]

LEMMA CutAt ==
  ASSUME NEW S, NEW path \in Seq(S), NEW c \in 1 .. Len(path)
  PROVE  \E f, g \in Seq(S) : Cut(path, c, f, g)
<1> DEFINE k == Len(path)
           f == SubSeq(path, 1, c - 1)
           g == SubSeq(path, c + 1, k)
           h == SubSeq(path, 1, c)
<1>1. k \in Nat /\ c \in Nat /\ c >= 1 /\ c <= k /\ path[c] \in S /\ \A i \in 1 .. k : path[i] \in S
  OBVIOUS
<1>2. f \in Seq(S) /\ Len(f) = c - 1 /\ \A i \in 1 .. c - 1 : f[i] = path[i]
  BY <1>1
<1>3. g \in Seq(S) /\ Len(g) = k - c /\ \A i \in 1 .. k - c : g[i] = path[c + i]
  BY <1>1
<1>4. h \in Seq(S) /\ Len(h) = c /\ \A i \in 1 .. c : h[i] = path[i]
  BY <1>1
<1> HIDE DEF f, g, h
<1>5. PICK p : p = f \o <<path[c]>>
  OBVIOUS
<1>6. p \in Seq(S) /\ Len(p) = c /\ \A i \in 1 .. c - 1 : p[i] = f[i]
  BY <1>1, <1>2, <1>5
<1>61. p[c] = path[c]
  BY <1>1, <1>2, <1>5
<1>7. \A i \in 1 .. c : p[i] = h[i]
  <2> SUFFICES ASSUME NEW i \in 1 .. c PROVE p[i] = path[i]
    BY <1>4
  <2>1. i = c \/ i \in 1 .. c - 1
    BY <1>1
  <2> QED
    BY <2>1, <1>2, <1>6, <1>61
<1>8. p = h
  BY <1>4, <1>6, <1>7, SeqEqual
<1>9. PICK q : q = p \o g
  OBVIOUS
<1>10. /\ q \in Seq(S) /\ Len(q) = k
       /\ \A i \in 1 .. c : q[i] = p[i]
       /\ \A i \in 1 .. k - c : q[c + i] = g[i]
  BY <1>1, <1>3, <1>6, <1>9
<1>11. \A i \in 1 .. k : q[i] = path[i]
  <2> SUFFICES ASSUME NEW i \in 1 .. k PROVE q[i] = path[i]
    OBVIOUS
  <2>1. CASE i <= c
    <3>1. i \in 1 .. c
      BY <1>1, <2>1
    <3> QED
      BY <1>4, <1>8, <1>10, <3>1
  <2>2. CASE i > c
    <3>1. i - c \in 1 .. k - c /\ i = c + (i - c)
      BY <1>1, <2>2
    <3>2. PICK j \in 1 .. k - c : i = c + j
      BY <3>1
    <3> QED
      BY <1>3, <1>10, <3>2
  <2> QED
    BY <1>1, <2>1, <2>2
<1>12. q = path
  BY <1>10, <1>11, SeqEqual
<1>13. \A i \in 1 .. Len(f) : i # c /\ i \in 1 .. Len(path) /\ f[i] = path[i]
  BY <1>1, <1>2
<1>14. \A i \in 1 .. Len(g) : c + i # c /\ c + i \in 1 .. Len(path) /\ g[i] = path[c + i]
  BY <1>1, <1>3
<1>15. SubSeq(path, 1, c) = p /\ SubSeq(path, c + 1, Len(path)) = g
  BY <1>8 DEF h, g
<1> QED
  BY <1>1, <1>2, <1>3, <1>5, <1>9, <1>12, <1>13, <1>14, <1>15 DEF Cut

(* What the importer makes of the blocks before a path's one channel and after *)
(* it is what the path draws.                                                  *)
LEMMA KindsAgree ==
  ASSUME NEW S, NEW path \in Seq(S), NEW c, Channels(path) = {c}
  PROVE  Kinds(path) = KindsOf(SkillsOn(BeforeChannel(path))) \o <<"channel">>
                         \o KindsOf(SkillsOn(AfterChannel(path)))
<1> DEFINE both == Signal \cup {"channel"}
<1>1. Len(path) \in Nat /\ DOMAIN path = 1 .. Len(path)
  BY ElementsIn
<1>2. /\ c \in 1 .. Len(path) /\ path[c].kind = "channel"
      /\ \A i \in 1 .. Len(path) : i # c => path[i].kind # "channel"
  BY <1>1 DEF Channels
<1>3. Min({c}) = c
  <2>1. {c} \subseteq Nat /\ {c} # {}
    BY <1>1, <1>2
  <2> QED
    BY <2>1, MinIs
<1>4. PICK f \in Seq(S), g \in Seq(S) : Cut(path, c, f, g)
  BY <1>2, CutAt
<1>5. PICK x \in S : x = path[c]
  BY <1>2
<1>6. PICK e : e = <<x>>
  OBVIOUS
<1>61. e \in Seq(S)
  BY <1>6
<1>7. PICK h : h = Joint(f, e)
  OBVIOUS
<1>71. h \in Seq(S)
  BY <1>61, <1>7 DEF Joint
<1>8. BeforeChannel(path) = h /\ AfterChannel(path) = g /\ path = Joint(h, g)
  BY <1>3, <1>4, <1>5, <1>6, <1>7 DEF BeforeChannel, AfterChannel, Joint, Cut
<1>9. x.kind = "channel" /\ "channel" \in both /\ "channel" \notin Signal
  BY <1>2, <1>5 DEF Signal
<1>10. /\ \A i \in 1 .. Len(f) : f[i].kind \in both <=> f[i].kind \in Signal
       /\ \A i \in 1 .. Len(g) : g[i].kind \in both <=> g[i].kind \in Signal
  BY <1>2, <1>4 DEF Cut
<1> HIDE DEF both
<1>11. OfKinds(f, both) = OfKinds(f, Signal) /\ OfKinds(g, both) = OfKinds(g, Signal)
  BY <1>10, OfKindsSame
<1>12. OfKinds(e, both) = e /\ OfKinds(e, Signal) = <<>>
  BY <1>6, <1>9, OfKindsOne
<1>13. PICK df, dg : df = OfKinds(f, Signal) /\ dg = OfKinds(g, Signal)
  OBVIOUS
<1>131. df \in Seq(S) /\ dg \in Seq(S)
  BY <1>13, OfKindsIn
<1>14. OfKinds(h, Signal) = df
  <2>1. OfKinds(Joint(f, e), Signal) = Joint(OfKinds(f, Signal), OfKinds(e, Signal))
    BY <1>61, OfKindsJoin
  <2>2. Joint(df, <<>>) = df
    BY <1>131 DEF Joint
  <2> QED
    BY <2>1, <2>2, <1>7, <1>12, <1>13
<1>15. PICK dh : dh = Joint(df, e)
  OBVIOUS
<1>151. dh \in Seq(S)
  BY <1>61, <1>131, <1>15 DEF Joint
<1>16. OfKinds(h, both) = dh
  <2>1. OfKinds(Joint(f, e), both) = Joint(OfKinds(f, both), OfKinds(e, both))
    BY <1>61, OfKindsJoin
  <2> QED
    BY <2>1, <1>7, <1>11, <1>12, <1>13, <1>15
<1>17. OfKinds(path, both) = Joint(dh, dg)
  <2>1. OfKinds(Joint(h, g), both) = Joint(OfKinds(h, both), OfKinds(g, both))
    BY <1>71, OfKindsJoin
  <2> QED
    BY <2>1, <1>8, <1>11, <1>13, <1>16
<1>18. Kinds(path) = KindList(Joint(dh, dg))
  BY <1>17 DEF Kinds, KindList, both
<1>19. /\ KindList(Joint(dh, dg)) = Joint(KindList(dh), KindList(dg))
       /\ KindList(Joint(df, e)) = Joint(KindList(df), KindList(e))
  BY <1>61, <1>131, <1>151, KindListJoins
<1>20. KindList(e) = <<"channel">>
  BY <1>6, <1>9 DEF KindList
<1>21. KindList(df) = KindsOf(SkillsOn(h)) /\ KindList(dg) = KindsOf(SkillsOn(g))
  BY <1>71, <1>13, <1>14, SkillsKinds
<1> QED
  BY <1>8, <1>15, <1>18, <1>19, <1>20, <1>21 DEF Joint

-------------------------------------------------------------------------------
(* What a document is read as.                                                 *)

LEMMA AlongIs ==
  ASSUME NEW doc, WellDrawn(doc), NEW names \in Trails(NamesIn(doc))
  PROVE  /\ Along(doc, names) \in Seq(ToSet(doc.blocks)) /\ Len(Along(doc, names)) = Len(names)
         /\ \A i \in 1 .. Len(names) : /\ Along(doc, names)[i] \in ToSet(doc.blocks)
                                       /\ Along(doc, names)[i].name = names[i]
<1>1. /\ Len(names) \in Nat /\ DOMAIN names = 1 .. Len(names)
      /\ \A i \in 1 .. Len(names) : names[i] \in NamesIn(doc)
  BY TrailIs
<1>2. ASSUME NEW i \in 1 .. Len(names)
      PROVE  BlockAt(doc, names[i]) \in ToSet(doc.blocks) /\ BlockAt(doc, names[i]).name = names[i]
  <2>1. PICK n \in NamesIn(doc) : n = names[i]
    BY <1>1
  <2> QED
    BY <2>1, BlockAtIs
<1>3. PICK p : p = Along(doc, names)
  OBVIOUS
<1>4. p = [i \in 1 .. Len(names) |-> BlockAt(doc, names[i])]
  BY <1>1, <1>3 DEF Along
<1>5. p \in [1 .. Len(names) -> ToSet(doc.blocks)]
  BY <1>2, <1>4
<1>6. p \in Seq(ToSet(doc.blocks)) /\ Len(p) = Len(names)
  BY <1>1, <1>4, <1>5
<1> QED
  BY <1>2, <1>3, <1>4, <1>6

(* A path through a drawing passes its one channel once.                       *)
LEMMA OneChannel ==
  ASSUME NEW doc, WellDrawn(doc), NEW names \in Trails(NamesIn(doc)), Distinct(names),
         NEW path, path = Along(doc, names), Whole(path)
  PROVE  \E c : Channels(path) = {c}
<1>1. /\ path \in Seq(ToSet(doc.blocks)) /\ Len(path) = Len(names)
      /\ \A i \in 1 .. Len(names) : path[i] \in ToSet(doc.blocks) /\ path[i].name = names[i]
  BY AlongIs
<1>2. DOMAIN path = 1 .. Len(names)
  BY <1>1
<1>3. PICK c \in 1 .. Len(names) : path[c].kind = "channel"
  BY <1>2 DEF Whole
<1>4. ASSUME NEW i \in 1 .. Len(names), path[i].kind = "channel" PROVE i = c
  <2>1. path[i].name = path[c].name
    BY <1>1, <1>3, <1>4 DEF WellDrawn, Landmarks
  <2> QED
    BY <1>1, <2>1 DEF Distinct
<1> QED
  BY <1>2, <1>3, <1>4 DEF Channels

LEMMA MaxIs ==
  ASSUME NEW n \in Nat, NEW T, T \subseteq 1 .. n, T # {}
  PROVE  Max(T) \in T /\ \A k \in T : k <= Max(T)
<1> DEFINE U == {n - k : k \in T}
<1>1. U \subseteq Nat /\ U # {}
  <2>1. \A k \in T : k \in 1 .. n /\ n - k \in Nat
    OBVIOUS
  <2>2. U \subseteq Nat
    BY <2>1
  <2>3. PICK k \in T : TRUE
    OBVIOUS
  <2>4. n - k \in U
    OBVIOUS
  <2> QED
    BY <2>2, <2>4
<1>2. \E u \in U : \A k \in U : u <= k
  <2> HIDE DEF U
  <2> QED
    BY <1>1, LeastNumber
<1>21. PICK u \in U : \A k \in U : u <= k
  BY <1>2
<1>3. PICK t \in T : u = n - t
  OBVIOUS
<1>4. \A k \in T : t >= k
  <2> SUFFICES ASSUME NEW k \in T PROVE t >= k
    OBVIOUS
  <2>1. n - k \in U
    OBVIOUS
  <2>2. u <= n - k
    BY <1>21, <2>1
  <2> QED
    BY <1>3, <2>2
<1>5. Max(T) \in T /\ \A k \in T : Max(T) >= k
  BY <1>4, Zenon DEF Max
<1>6. PICK m \in T : m = Max(T) /\ \A k \in T : m >= k
  BY <1>5
<1> QED
  BY <1>6

(* The last setting that can be read is the one the last block it was typed    *)
(* into holds.                                                                 *)
LEMMA TypedIs ==
  ASSUME NEW path, Len(path) \in Nat, DOMAIN path = 1 .. Len(path), NEW kind, NEW key
  PROVE  Typed(path, kind, key) =
           IF Readable(path, kind, key) = {} THEN {}
           ELSE {path[Max(Readable(path, kind, key))].settings[key]}
<1>1. PICK T : T = Readable(path, kind, key)
  OBVIOUS
<1>2. T \subseteq 1 .. Len(path)
  BY <1>1 DEF Readable
<1>3. Typed(path, kind, key) = {path[i].settings[key] : i \in {j \in T : \A k \in T : k <= j}}
  BY <1>1 DEF Typed, Readable
<1>4. CASE T = {}
  BY <1>1, <1>3, <1>4
<1>5. CASE T # {}
  <2>1. PICK m \in T : m = Max(T) /\ \A k \in T : k <= m
    BY <1>2, <1>5, MaxIs
  <2>2. ASSUME NEW j \in T, \A k \in T : k <= j PROVE j = m
    <3>1. m <= j /\ j <= m /\ m \in Nat /\ j \in Nat
      BY <1>2, <2>1, <2>2
    <3> QED
      BY <3>1
  <2>3. {j \in T : \A k \in T : k <= j} = {m}
    BY <2>1, <2>2
  <2> QED
    BY <1>1, <1>3, <1>5, <2>1, <2>3
<1> QED
  BY <1>4, <1>5

LEMMA LastTyped ==
  ASSUME NEW path, Len(path) \in Nat, DOMAIN path = 1 .. Len(path), NEW kind, NEW key, NEW default
  PROVE  Typed(path, kind, key) \subseteq {LastSetting(path, kind, key, default)}
BY TypedIs DEF LastSetting

(* A loaded flowgraph's modulation is the one the last mapper was typed with.  *)
LEMMA ModTyped ==
  ASSUME NEW path, Len(path) \in Nat, DOMAIN path = 1 .. Len(path), Mappers(path) # {},
         \A i \in Mappers(path) : MapperMod(path[i]) # {}
  PROVE  Typed(path, "mapper", "points") = {Points(SkillFor(path[Max(Mappers(path))]).mod)}
<1>1. \A i \in Mappers(path) : "points" \in DOMAIN path[i].settings
  BY DEF MapperMod
<1>2. Readable(path, "mapper", "points") = Mappers(path)
  BY <1>1 DEF Readable, Mappers
<1>3. Mappers(path) \subseteq 1 .. Len(path)
  BY DEF Mappers
<1>4. PICK m : m = Max(Mappers(path))
  OBVIOUS
<1>5. m \in Mappers(path)
  BY <1>3, <1>4, MaxIs
<1>6. PICK b : b = path[m]
  OBVIOUS
<1>7. MapperMod(b) # {} /\ b.kind = "mapper"
  BY <1>5, <1>6 DEF Mappers
<1>8. PICK x : x = CHOOSE y \in MapperMod(b) : TRUE
  OBVIOUS
<1>9. x \in MapperMod(b)
  BY <1>7, <1>8
<1>10. b.settings["points"] = Points(x)
  BY <1>9 DEF MapperMod
<1>11. SkillFor(b).mod = x
  BY <1>7, <1>8 DEF SkillFor, Modulator, Skill
<1>12. Typed(path, "mapper", "points") = {path[m].settings["points"]}
  BY <1>2, <1>4, TypedIs
<1> QED
  BY <1>4, <1>6, <1>10, <1>11, <1>12

LEMMA SkillsOnIs ==
  ASSUME NEW S, NEW s \in Seq(S)
  PROVE  SkillsOn(s) \in Seq({SkillFor(x) : x \in S})
<1>1. PICK d : d = OfKinds(s, Signal)
  OBVIOUS
<1>2. d \in Seq(S)
  BY <1>1, OfKindsIn
<1>3. Len(d) \in Nat /\ DOMAIN d = 1 .. Len(d) /\ \A i \in 1 .. Len(d) : d[i] \in S
  BY <1>2
<1>4. PICK n \in Nat : n = Len(d)
  BY <1>3
<1> DEFINE K == {SkillFor(x) : x \in S}
<1>5. SkillsOn(s) = [i \in 1 .. n |-> SkillFor(d[i])]
  BY <1>1, <1>3, <1>4 DEF SkillsOn
<1>6. \A i \in 1 .. n : SkillFor(d[i]) \in K
  BY <1>3, <1>4
<1> HIDE DEF K
<1>7. SkillsOn(s) \in Seq(K)
  BY <1>5, <1>6
<1> QED
  BY <1>7 DEF K

LEMMA FrontIs ==
  ASSUME NEW S, NEW s \in Seq(S), NEW x
  PROVE  Front(Append(s, x)) = s
<1> DEFINE T == S \cup {x}
<1>1. PICK t : t = Append(s, x)
  OBVIOUS
<1>2. s \in Seq(T) /\ x \in T
  OBVIOUS
<1> HIDE DEF T
<1>3. /\ t \in Seq(T) /\ Len(t) = Len(s) + 1 /\ Len(s) \in Nat
      /\ \A i \in 1 .. Len(s) : t[i] = s[i]
  BY <1>1, <1>2
<1>4. PICK u : u = SubSeq(t, 1, Len(s))
  OBVIOUS
<1>5. u \in Seq(T) /\ Len(u) = Len(s) /\ \A i \in 1 .. Len(s) : u[i] = t[i]
  BY <1>3, <1>4
<1>6. u = s
  BY <1>2, <1>3, <1>5, SeqEqual
<1>7. Front(t) = SubSeq(t, 1, Len(t) - 1)
  BY DEF Front
<1>8. Len(t) - 1 = Len(s)
  BY <1>3
<1> QED
  BY <1>1, <1>4, <1>6, <1>7, <1>8

LEMMA AfterIs ==
  ASSUME NEW S, NEW path \in Seq(S)
  PROVE  AfterChannel(path) \in Seq(S)
<1>1. CASE Channels(path) = {}
  BY <1>1 DEF AfterChannel
<1>2. CASE Channels(path) # {}
  <2>1. Channels(path) \subseteq 1 .. Len(path) /\ Len(path) \in Nat
    BY DEF Channels
  <2>2. PICK m \in 1 .. Len(path) : m = Min(Channels(path))
    BY <1>2, <2>1, MinIs
  <2>3. AfterChannel(path) = SubSeq(path, m + 1, Len(path))
    BY <1>2, <2>2 DEF AfterChannel
  <2> QED
    BY <2>1, <2>2, <2>3
<1> QED
  BY <1>1, <1>2

(* What a supported, well drawn document is loaded as is what it draws.        *)
LEMMA LoadFaithful ==
  ASSUME Supported(imported), WellDrawn(imported), spec = LoadGrc(imported)
  PROVE  ImportFaithful
<1>1. PICK names : names = PathNames(imported)
  OBVIOUS
<1>2. PICK path : path = Along(imported, names)
  OBVIOUS
<1>3. ASSUME Whole(path), LeadsOn(imported, names)
      PROVE  /\ Kinds(path) = KindsOf(spec.tx) \o <<"channel">> \o KindsOf(Front(spec.rx))
             /\ Typed(path, "pulse_shape", "sps") \subseteq {spec.sps}
             /\ Typed(path, "pulse_shape", "rolloff") \subseteq {spec.rolloff}
             /\ Typed(path, "symbol_sync", "loop_bw") \subseteq {spec.loopBw}
             /\ Typed(path, "mapper", "points") = {Points(spec.mod)}
  <2>1. Whole(Along(imported, names))
    BY <1>2, <1>3
  <2>2. /\ names \in Trails(NamesIn(imported)) /\ Distinct(names)
        /\ OrderedChain(imported) = path
    BY <1>1, <1>2, <1>3, <2>1, ChainIsPath
  <2>3. path \in Seq(ToSet(imported.blocks))
    BY <1>2, <2>2, AlongIs
  <2>4. Len(path) \in Nat /\ DOMAIN path = 1 .. Len(path)
    BY <2>3, ElementsIn
  <2>5. PICK c : Channels(path) = {c}
    BY <1>2, <1>3, <2>2, OneChannel
  <2>6. Kinds(path) = KindsOf(SkillsOn(BeforeChannel(path))) \o <<"channel">>
                         \o KindsOf(SkillsOn(AfterChannel(path)))
    BY <2>3, <2>5, KindsAgree
  <2>7. PICK m : m = SkillFor(path[Max(Mappers(path))]).mod
    OBVIOUS
  <2>8. /\ spec.mod = m /\ spec.tx = SkillsOn(BeforeChannel(path))
        /\ spec.rx = Append(SkillsOn(AfterChannel(path)), Demod(m))
        /\ spec.sps = LastSetting(path, "pulse_shape", "sps", 4)
        /\ spec.rolloff = ReadRolloff(path)
        /\ spec.loopBw = LastSetting(path, "symbol_sync", "loop_bw", None)
    BY <2>2, <2>7 DEF LoadGrc
  <2>9. Front(spec.rx) = SkillsOn(AfterChannel(path))
    <3>1. AfterChannel(path) \in Seq(ToSet(imported.blocks))
      BY <2>3, AfterIs
    <3>2. PICK s : s = SkillsOn(AfterChannel(path))
      OBVIOUS
    <3>3. s \in Seq({SkillFor(x) : x \in ToSet(imported.blocks)})
      BY <3>1, <3>2, SkillsOnIs
    <3>4. Front(Append(s, Demod(m))) = s
      BY <3>3, FrontIs
    <3> QED
      BY <2>8, <3>2, <3>4
  <2>10. Mappers(path) # {} /\ \A i \in Mappers(path) : MapperMod(path[i]) # {}
    BY <2>2 DEF Supported
  <2>11. Typed(path, "mapper", "points") = {Points(spec.mod)}
    BY <2>4, <2>7, <2>8, <2>10, ModTyped
  <2>12. Typed(path, "pulse_shape", "sps") \subseteq {spec.sps}
    BY <2>4, <2>8, LastTyped
  <2>13. Typed(path, "pulse_shape", "rolloff") \subseteq {spec.rolloff}
    BY <2>4, <2>8, LastTyped DEF ReadRolloff
  <2>14. Typed(path, "symbol_sync", "loop_bw") \subseteq {spec.loopBw}
    BY <2>4, <2>8, LastTyped
  <2> QED
    BY <2>6, <2>8, <2>9, <2>11, <2>12, <2>13, <2>14
<1> QED
  BY <1>1, <1>2, <1>3 DEF ImportFaithful

-------------------------------------------------------------------------------
(* What is drawn of a specification.                                           *)

LEMMA JointIs ==
  ASSUME NEW S, NEW a \in Seq(S), NEW b \in Seq(S)
  PROVE  /\ Joint(a, b) \in Seq(S) /\ Len(Joint(a, b)) = Len(a) + Len(b)
         /\ Len(a) \in Nat /\ Len(b) \in Nat
BY DEF Joint

LEMMA JointAt ==
  ASSUME NEW S, NEW a \in Seq(S), NEW b \in Seq(S), NEW i \in 1 .. Len(Joint(a, b))
  PROVE  \/ i \in 1 .. Len(a) /\ Joint(a, b)[i] = a[i]
         \/ i - Len(a) \in 1 .. Len(b) /\ Joint(a, b)[i] = b[i - Len(a)]
<1>1. PICK c : c = Joint(a, b)
  OBVIOUS
<1>2. /\ Len(a) \in Nat /\ Len(b) \in Nat /\ Len(c) = Len(a) + Len(b)
      /\ \A k \in 1 .. Len(a) : c[k] = a[k]
      /\ \A k \in 1 .. Len(b) : c[Len(a) + k] = b[k]
  BY <1>1 DEF Joint
<1>3. i \in Nat /\ i >= 1 /\ i <= Len(a) + Len(b)
  BY <1>1, <1>2
<1>4. CASE i <= Len(a)
  BY <1>1, <1>2, <1>3, <1>4
<1>5. CASE i > Len(a)
  <2>1. i - Len(a) \in 1 .. Len(b) /\ i = Len(a) + (i - Len(a))
    BY <1>2, <1>3, <1>5
  <2>2. PICK j \in 1 .. Len(b) : i = Len(a) + j /\ j = i - Len(a)
    BY <2>1
  <2> QED
    BY <1>1, <1>2, <2>2
<1> QED
  BY <1>2, <1>3, <1>4, <1>5

LEMMA JointSet ==
  ASSUME NEW S, NEW a \in Seq(S), NEW b \in Seq(S)
  PROVE  ToSet(Joint(a, b)) = ToSet(a) \cup ToSet(b)
<1>1. PICK c : c = Joint(a, b)
  OBVIOUS
<1>2. /\ Len(a) \in Nat /\ Len(b) \in Nat /\ Len(c) = Len(a) + Len(b)
      /\ \A k \in 1 .. Len(a) : c[k] = a[k]
      /\ \A k \in 1 .. Len(b) : c[Len(a) + k] = b[k]
      /\ DOMAIN c = 1 .. Len(c) /\ DOMAIN a = 1 .. Len(a) /\ DOMAIN b = 1 .. Len(b)
  BY <1>1 DEF Joint
<1>3. ASSUME NEW x \in ToSet(c) PROVE x \in ToSet(a) \cup ToSet(b)
  <2>1. PICK i \in 1 .. Len(c) : x = c[i]
    BY <1>2, <1>3 DEF ToSet
  <2>2. \/ i \in 1 .. Len(a) /\ c[i] = a[i]
        \/ i - Len(a) \in 1 .. Len(b) /\ c[i] = b[i - Len(a)]
    BY <1>1, JointAt
  <2> QED
    BY <1>2, <2>1, <2>2 DEF ToSet
<1>4. ASSUME NEW x \in ToSet(a) PROVE x \in ToSet(c)
  <2>1. PICK i \in 1 .. Len(a) : x = a[i]
    BY <1>2, <1>4 DEF ToSet
  <2>2. i \in 1 .. Len(c)
    BY <1>2
  <2> QED
    BY <1>2, <2>1, <2>2 DEF ToSet
<1>5. ASSUME NEW x \in ToSet(b) PROVE x \in ToSet(c)
  <2>1. PICK i \in 1 .. Len(b) : x = b[i]
    BY <1>2, <1>5 DEF ToSet
  <2>2. Len(a) + i \in 1 .. Len(c)
    BY <1>2
  <2> QED
    BY <1>2, <2>1, <2>2 DEF ToSet
<1> QED
  BY <1>1, <1>3, <1>4, <1>5

LEMMA InsertIs ==
  ASSUME NEW S, NEW s \in Seq(S), NEW x \in S, NEW c \in 1 .. Len(s) + 1
  PROVE  InsertAt(s, c, x) \in Seq(S) /\ ToSet(InsertAt(s, c, x)) = ToSet(s) \cup {x}
<1> DEFINE f == SubSeq(s, 1, c - 1)
           g == SubSeq(s, c, Len(s))
<1>1. Len(s) \in Nat /\ c \in Nat /\ c >= 1 /\ c <= Len(s) + 1
  OBVIOUS
<1>2. f \in Seq(S) /\ Len(f) = c - 1 /\ \A i \in 1 .. c - 1 : f[i] = s[i]
  BY <1>1
<1>3. g \in Seq(S) /\ Len(g) = Len(s) - c + 1 /\ \A i \in 1 .. Len(s) - c + 1 : g[i] = s[c + i - 1]
  BY <1>1
<1> HIDE DEF f, g
<1>4. PICK e : e = <<x>>
  OBVIOUS
<1>5. e \in Seq(S) /\ ToSet(e) = {x}
  BY <1>4 DEF ToSet
<1>6. PICK h, q : h = Joint(f, e) /\ q = Joint(h, g)
  OBVIOUS
<1>61. InsertAt(s, c, x) = q
  BY <1>4, <1>6 DEF InsertAt, Joint, f, g
<1>7. h \in Seq(S) /\ ToSet(h) = ToSet(f) \cup {x}
  <2>1. Joint(f, e) \in Seq(S)
    BY <1>2, <1>5, JointIs
  <2>2. ToSet(Joint(f, e)) = ToSet(f) \cup ToSet(e)
    BY <1>2, <1>5, JointSet
  <2> QED
    BY <1>5, <1>6, <2>1, <2>2
<1>8. q \in Seq(S) /\ ToSet(q) = ToSet(f) \cup {x} \cup ToSet(g)
  <2>1. Joint(h, g) \in Seq(S)
    BY <1>3, <1>7, JointIs
  <2>2. ToSet(Joint(h, g)) = ToSet(h) \cup ToSet(g)
    BY <1>3, <1>7, JointSet
  <2> QED
    BY <1>6, <1>7, <2>1, <2>2
<1>9. DOMAIN s = 1 .. Len(s) /\ DOMAIN f = 1 .. c - 1 /\ DOMAIN g = 1 .. Len(s) - c + 1
  BY <1>2, <1>3
<1>10. ToSet(f) \cup ToSet(g) \subseteq ToSet(s)
  <2>1. \A i \in 1 .. c - 1 : i \in 1 .. Len(s)
    BY <1>1
  <2>2. \A i \in 1 .. Len(s) - c + 1 : c + i - 1 \in 1 .. Len(s)
    BY <1>1
  <2>3. ToSet(f) \subseteq ToSet(s)
    BY <1>2, <1>9, <2>1 DEF ToSet
  <2>4. ToSet(g) \subseteq ToSet(s)
    BY <1>3, <1>9, <2>2 DEF ToSet
  <2> QED
    BY <2>3, <2>4
<1>11. ASSUME NEW y \in ToSet(s) PROVE y \in ToSet(f) \cup ToSet(g)
  <2>1. PICK i \in 1 .. Len(s) : y = s[i]
    BY <1>9, <1>11 DEF ToSet
  <2>2. CASE i < c
    <3>1. i \in 1 .. c - 1
      BY <1>1, <2>2
    <3> QED
      BY <1>2, <1>9, <2>1, <3>1 DEF ToSet
  <2>3. CASE i >= c
    <3>1. i - c + 1 \in 1 .. Len(s) - c + 1 /\ i = c + (i - c + 1) - 1
      BY <1>1, <2>3
    <3>2. PICK j \in 1 .. Len(s) - c + 1 : i = c + j - 1
      BY <3>1
    <3> QED
      BY <1>3, <1>9, <2>1, <3>2 DEF ToSet
  <2> QED
    BY <1>1, <2>2, <2>3
<1> QED
  BY <1>61, <1>8, <1>10, <1>11

LEMMA PlacedIs ==
  ASSUME NEW chain \in Seq(Skills \ {Channel})
  PROVE  Placed(chain) \in Seq(Skills \ {Channel})
BY WhereIn DEF Placed

LEMMA Places ==
  ASSUME NEW n \in Nat, NEW m \in Nat, NEW i \in 1 .. n + m + 3
  PROVE  \/ i = 1 \/ i = n + 2 \/ i = n + m + 3
         \/ \E j \in 1 .. n : i = 1 + j
         \/ \E j \in 1 .. m : i = n + 2 + j
<1>1. CASE i \in 2 .. n + 1
  <2>1. i - 1 \in 1 .. n /\ i = 1 + (i - 1)
    BY <1>1
  <2> QED
    BY <2>1
<1>2. CASE i \in n + 3 .. n + m + 2
  <2>1. i - (n + 2) \in 1 .. m /\ i = n + 2 + (i - (n + 2))
    BY <1>2
  <2> QED
    BY <2>1
<1>3. i = 1 \/ i \in 2 .. n + 1 \/ i = n + 2 \/ i \in n + 3 .. n + m + 2 \/ i = n + m + 3
  OBVIOUS
<1> QED
  BY <1>1, <1>2, <1>3

LEMMA PlacesIn ==
  ASSUME NEW n \in Nat, NEW m \in Nat
  PROVE  /\ 1 \in 1 .. n + m + 3 /\ n + 2 \in 1 .. n + m + 3 /\ n + m + 3 \in 1 .. n + m + 3
         /\ \A i \in 1 .. n : 1 + i \in 1 .. n + m + 3 /\ (1 + i) - 1 = i
         /\ \A i \in 1 .. m : n + 2 + i \in 1 .. n + m + 3 /\ (n + 2 + i) - 1 = n + 1 + i
OBVIOUS

(* What a sequence c of two others is.                                         *)
Joins(S, c, a, b) ==
  /\ c \in Seq(S) /\ Len(a) \in Nat /\ Len(b) \in Nat /\ Len(c) = Len(a) + Len(b)
  /\ \A i \in 1 .. Len(a) : c[i] = a[i]
  /\ \A i \in 1 .. Len(b) : c[Len(a) + i] = b[i]

LEMMA JointGives ==
  ASSUME NEW S, NEW a \in Seq(S), NEW b \in Seq(S)
  PROVE  Joins(S, Joint(a, b), a, b)
BY DEF Joint, Joins

Source == Skill("source", None)
Sink == Skill("sink", None)
Drawable == Skills \cup {Source, Sink}

(* What is drawn, one after the other.                                         *)
DrawnAs(d, t, r, n, m) ==
  /\ n \in Nat /\ m \in Nat /\ n = Len(t) /\ m = Len(r)
  /\ d \in Seq(Drawable) /\ Len(d) = n + m + 3
  /\ d[1] = Source /\ d[n + 2] = Channel /\ d[n + m + 3] = Sink
  /\ \A i \in 1 .. n : d[1 + i] = t[i]
  /\ \A i \in 1 .. m : d[n + 2 + i] = r[i]

LEMMA DrawnInOrder ==
  ASSUME NEW s, ValidateSpec(s), NEW t, NEW r, t = Placed(s.tx), r = Placed(s.rx)
  PROVE  DrawnAs(Drawn(s), t, r, Len(t), Len(r))
<1>1. t \in Seq(Skills \ {Channel}) /\ r \in Seq(Skills \ {Channel})
  BY PlacedIs DEF ValidateSpec, ValidateChain
<1>2. t \in Seq(Drawable) /\ r \in Seq(Drawable) /\ Source \in Drawable /\ Sink \in Drawable
  BY <1>1 DEF Drawable
<1>3. Channel \in Drawable
  BY DEF Drawable, Skills
<1>4. PICK a, c, z : a = <<Source>> /\ c = <<Channel>> /\ z = <<Sink>>
  OBVIOUS
<1>5. /\ a \in Seq(Drawable) /\ Len(a) = 1 /\ a[1] = Source
      /\ c \in Seq(Drawable) /\ Len(c) = 1 /\ c[1] = Channel
      /\ z \in Seq(Drawable) /\ Len(z) = 1 /\ z[1] = Sink
  BY <1>2, <1>3, <1>4
<1>6. PICK n, m : n = Len(t) /\ m = Len(r)
  OBVIOUS
<1>7. PICK d1, d2, d3, d4 :
        d1 = Joint(a, t) /\ d2 = Joint(d1, c) /\ d3 = Joint(d2, r) /\ d4 = Joint(d3, z)
  OBVIOUS
<1>8. Drawn(s) = d4
  BY <1>4, <1>7 DEF Drawn, Joint, Source, Sink
<1>9. /\ d1 \in Seq(Drawable) /\ n \in Nat /\ Len(d1) = 1 + n
      /\ d1[1] = Source /\ \A i \in 1 .. n : d1[1 + i] = t[i]
  <2>1. a \in Seq(Drawable) /\ t \in Seq(Drawable)
    BY <1>2, <1>5
  <2>2. Joins(Drawable, d1, a, t)
    BY <1>7, <2>1, JointGives
  <2>3. 1 \in 1 .. Len(a)
    BY <1>5
  <2> QED
    BY <1>5, <1>6, <2>2, <2>3 DEF Joins
<1>10. /\ d2 \in Seq(Drawable) /\ Len(d2) = n + 2 /\ d2[n + 2] = Channel
       /\ \A i \in 1 .. n + 1 : d2[i] = d1[i]
  <2>1. /\ d2 \in Seq(Drawable) /\ Len(d2) = Len(d1) + 1 /\ \A i \in 1 .. Len(d1) : d2[i] = d1[i]
        /\ \A i \in 1 .. 1 : d2[Len(d1) + i] = c[i]
    <3>1. d1 \in Seq(Drawable) /\ c \in Seq(Drawable)
      BY <1>5, <1>9
    <3>2. Joins(Drawable, d2, d1, c)
      BY <1>7, <3>1, JointGives
    <3> QED
      BY <1>5, <3>2 DEF Joins
  <2>2. d2[Len(d1) + 1] = c[1]
    BY <2>1
  <2>3. Len(d1) = n + 1 /\ Len(d1) + 1 = n + 2
    BY <1>9
  <2> QED
    BY <1>5, <2>1, <2>2, <2>3
<1>11. /\ d3 \in Seq(Drawable) /\ m \in Nat /\ Len(d3) = n + 2 + m
       /\ \A i \in 1 .. n + 2 : d3[i] = d2[i]
       /\ \A i \in 1 .. m : d3[n + 2 + i] = r[i]
  <2>1. d2 \in Seq(Drawable) /\ r \in Seq(Drawable)
    BY <1>2, <1>10
  <2>2. Joins(Drawable, d3, d2, r)
    BY <1>7, <2>1, JointGives
  <2> QED
    BY <1>6, <1>10, <2>2 DEF Joins
<1>12. /\ d4 \in Seq(Drawable) /\ Len(d4) = n + m + 3 /\ d4[n + m + 3] = Sink
       /\ \A i \in 1 .. n + m + 2 : d4[i] = d3[i]
  <2>1. /\ d4 \in Seq(Drawable) /\ Len(d4) = Len(d3) + 1 /\ \A i \in 1 .. Len(d3) : d4[i] = d3[i]
        /\ \A i \in 1 .. 1 : d4[Len(d3) + i] = z[i]
    <3>1. d3 \in Seq(Drawable) /\ z \in Seq(Drawable)
      BY <1>5, <1>11
    <3>2. Joins(Drawable, d4, d3, z)
      BY <1>7, <3>1, JointGives
    <3> QED
      BY <1>5, <3>2 DEF Joins
  <2>2. d4[Len(d3) + 1] = z[1]
    BY <2>1
  <2>3. Len(d3) = n + m + 2 /\ Len(d3) + 1 = n + m + 3
    BY <1>9, <1>11
  <2> QED
    BY <1>5, <2>1, <2>2, <2>3
<1>13. d4[1] = Source /\ d4[n + 2] = Channel
  <2>1. 1 \in 1 .. n + 1 /\ 1 \in 1 .. n + 2 /\ n + 2 \in 1 .. n + 2
    BY <1>9
  <2>2. 1 \in 1 .. n + m + 2 /\ n + 2 \in 1 .. n + m + 2
    BY <1>9, <1>11
  <2> QED
    BY <1>9, <1>10, <1>11, <1>12, <2>1, <2>2
<1>14. ASSUME NEW i \in 1 .. n PROVE d4[1 + i] = t[i]
  <2>1. 1 + i \in 1 .. n + 1 /\ 1 + i \in 1 .. n + 2 /\ 1 + i \in 1 .. n + m + 2
    BY <1>9, <1>11
  <2>2. d4[1 + i] = d3[1 + i] /\ d3[1 + i] = d2[1 + i] /\ d2[1 + i] = d1[1 + i]
    BY <1>10, <1>11, <1>12, <2>1
  <2> QED
    BY <1>9, <2>2
<1>15. ASSUME NEW i \in 1 .. m PROVE d4[n + 2 + i] = r[i]
  <2>1. n + 2 + i \in 1 .. n + m + 2
    BY <1>9, <1>11
  <2> QED
    BY <1>11, <1>12, <2>1
<1>16. DrawnAs(d4, t, r, n, m)
  BY <1>6, <1>9, <1>11, <1>12, <1>13, <1>14, <1>15 DEF DrawnAs
<1> QED
  BY <1>6, <1>8, <1>16

(* Where the landmarks of a drawing are: first, after the transmit chain, last.*)
Sketch(d, n) ==
  /\ n \in Nat /\ Len(d) \in Nat /\ n + 3 <= Len(d)
  /\ \A i \in 1 .. Len(d) :
       /\ d[i].kind = "source" <=> i = 1
       /\ d[i].kind = "channel" <=> i = n + 2
       /\ d[i].kind = "sink" <=> i = Len(d)

LEMMA DrawnIs ==
  ASSUME NEW s, ValidateSpec(s)
  PROVE  Sketch(Drawn(s), Len(Placed(s.tx)))
<1> DEFINE Placeable == Skills \ {Channel}
<1>1. PICK t, r, n, m : t = Placed(s.tx) /\ r = Placed(s.rx) /\ n = Len(t) /\ m = Len(r)
  OBVIOUS
<1>2. t \in Seq(Placeable) /\ r \in Seq(Placeable)
  BY <1>1, PlacedIs DEF ValidateSpec, ValidateChain
<1>3. \A x \in Placeable : x.kind \notin {"source", "channel", "sink"}
  BY DEF Skills, Skill, Modulator, Demod, PulseShape, MatchedFilter, SymbolSync, Costas, Agc, Channel
<1> HIDE DEF Placeable
<1>4. /\ n \in Nat /\ m \in Nat
      /\ \A i \in 1 .. n : t[i].kind \notin {"source", "channel", "sink"}
      /\ \A i \in 1 .. m : r[i].kind \notin {"source", "channel", "sink"}
  BY <1>1, <1>2, <1>3
<1>5. PICK d : d = Drawn(s)
  OBVIOUS
<1>6. DrawnAs(d, t, r, n, m)
  BY <1>1, <1>5, DrawnInOrder
<1>7. /\ Len(d) = n + m + 3 /\ d[1] = Source /\ d[n + 2] = Channel /\ d[n + m + 3] = Sink
      /\ \A i \in 1 .. n : d[1 + i] = t[i]
      /\ \A i \in 1 .. m : d[n + 2 + i] = r[i]
  BY <1>6 DEF DrawnAs
<1>8. Source.kind = "source" /\ Channel.kind = "channel" /\ Sink.kind = "sink"
  BY DEF Source, Channel, Sink, Skill
<1>9. ASSUME NEW i \in 1 .. n + m + 3
      PROVE  /\ d[i].kind = "source" <=> i = 1
             /\ d[i].kind = "channel" <=> i = n + 2
             /\ d[i].kind = "sink" <=> i = n + m + 3
  <2>1. CASE i = 1
    <3>1. i # n + 2 /\ i # n + m + 3
      BY <1>4, <2>1
    <3> QED
      BY <1>7, <1>8, <2>1, <3>1
  <2>2. CASE i = n + 2
    <3>1. i # 1 /\ i # n + m + 3
      BY <1>4, <2>2
    <3> QED
      BY <1>7, <1>8, <2>2, <3>1
  <2>3. CASE i = n + m + 3
    <3>1. i # 1 /\ i # n + 2
      BY <1>4, <2>3
    <3> QED
      BY <1>7, <1>8, <2>3, <3>1
  <2>4. ASSUME NEW j \in 1 .. n, i = 1 + j
        PROVE  i # 1 /\ i # n + 2 /\ i # n + m + 3 /\ d[i].kind \notin {"source", "channel", "sink"}
    <3>1. i # 1 /\ i # n + 2 /\ i # n + m + 3
      BY <1>4, <2>4
    <3> QED
      BY <1>4, <1>7, <2>4, <3>1
  <2>5. ASSUME NEW j \in 1 .. m, i = n + 2 + j
        PROVE  i # 1 /\ i # n + 2 /\ i # n + m + 3 /\ d[i].kind \notin {"source", "channel", "sink"}
    <3>1. i # 1 /\ i # n + 2 /\ i # n + m + 3
      BY <1>4, <2>5
    <3> QED
      BY <1>4, <1>7, <2>5, <3>1
  <2> QED
    BY <1>4, <2>1, <2>2, <2>3, <2>4, <2>5, Places
<1>10. n + m + 3 \in Nat /\ n + 3 <= n + m + 3
  BY <1>4
<1> QED
  BY <1>1, <1>4, <1>5, <1>7, <1>9, <1>10 DEF Sketch

LEMMA NodeIs ==
  ASSUME NEW s, NEW x, NEW name
  PROVE  LET b == NodeFor(s, x, name) IN
           /\ b = Block(b.name, b.kind, b.settings)
           /\ b.name = name /\ b.kind = IF x.kind = "modulator" THEN "mapper" ELSE x.kind
<1>1. CASE x.kind = "modulator"
  BY <1>1 DEF NodeFor, Block
<1>2. CASE x.kind = "pulse_shape"
  BY <1>2 DEF NodeFor, Block
<1>3. CASE x.kind = "matched_filter"
  BY <1>3 DEF NodeFor, Block
<1>4. CASE x.kind = "symbol_sync"
  BY <1>4 DEF NodeFor, Block
<1>5. CASE x.kind \notin {"modulator", "pulse_shape", "matched_filter", "symbol_sync"}
  <2>1. NodeFor(s, x, name) = Block(name, x.kind, Nothing)
    BY <1>5 DEF NodeFor
  <2> QED
    BY <1>5, <2>1 DEF Block
<1> QED
  BY <1>1, <1>2, <1>3, <1>4, <1>5

(* The blocks of the signal path, from the source to the sink.                 *)
Nodes(s) == [i \in 1 .. Len(Drawn(s)) |-> NodeFor(s, Drawn(s)[i], i - 1)]
NoiseBlock == Block(Noise, "noise", Nothing)

LEMMA NodesAre ==
  ASSUME NEW s, ValidateSpec(s), NEW k, k = Len(Drawn(s))
  PROVE  /\ k \in Nat /\ k >= 3 /\ DOMAIN Nodes(s) = 1 .. k /\ Len(Nodes(s)) = k
         /\ Nodes(s) \in Seq({Nodes(s)[i] : i \in 1 .. k})
         /\ \A i \in 1 .. k :
              /\ Nodes(s)[i] = NodeFor(s, Drawn(s)[i], i - 1)
              /\ Nodes(s)[i].name = i - 1
              /\ Nodes(s)[i].kind = IF Drawn(s)[i].kind = "modulator" THEN "mapper" ELSE Drawn(s)[i].kind
<1>1. k \in Nat /\ k >= 3
  BY DrawnIs DEF Sketch
<1>2. Nodes(s) = [i \in 1 .. k |-> NodeFor(s, Drawn(s)[i], i - 1)]
  BY DEF Nodes
<1>3. \A i \in 1 .. k : Nodes(s)[i] = NodeFor(s, Drawn(s)[i], i - 1)
  BY <1>2
<1>4. PICK p : p = Nodes(s)
  OBVIOUS
<1>5. p = [i \in 1 .. k |-> p[i]] /\ DOMAIN p = 1 .. k
  BY <1>2, <1>4
<1>6. p \in Seq({p[i] : i \in 1 .. k}) /\ Len(p) = k
  BY <1>1, <1>5
<1> QED
  BY <1>1, <1>3, <1>4, <1>5, <1>6, NodeIs

LEMMA InsertLength ==
  ASSUME NEW S, NEW s \in Seq(S), NEW x \in S, NEW c \in 1 .. Len(s) + 1
  PROVE  Len(InsertAt(s, c, x)) = Len(s) + 1
<1> DEFINE f == SubSeq(s, 1, c - 1)
           g == SubSeq(s, c, Len(s))
<1>1. Len(s) \in Nat /\ c \in Nat /\ c >= 1 /\ c <= Len(s) + 1
  OBVIOUS
<1>2. f \in Seq(S) /\ Len(f) = c - 1
  BY <1>1
<1>3. g \in Seq(S) /\ Len(g) = Len(s) - c + 1
  BY <1>1
<1>4. InsertAt(s, c, x) = f \o <<x>> \o g
  BY DEF InsertAt
<1> HIDE DEF f, g
<1>5. Len(f \o <<x>> \o g) = Len(f) + 1 + Len(g)
  BY <1>2, <1>3
<1> QED
  BY <1>1, <1>2, <1>3, <1>4, <1>5

(* The blocks and wires that an export lists.                                  *)
LEMMA BuiltOf ==
  ASSUME NEW s, ValidateSpec(s), NEW k, k = Len(Drawn(s)), NEW doc, doc = BuildGrc(s)
  PROVE  /\ doc = [id |-> doc.id, blocks |-> doc.blocks, wires |-> doc.wires]
         /\ doc.blocks \in Seq(ToSet(doc.blocks)) /\ doc.wires \in Seq(ToSet(doc.wires))
         /\ ToSet(doc.blocks) = {Nodes(s)[i] : i \in 1 .. k} \cup {NoiseBlock}
         /\ Len(doc.blocks) = k + 1
         /\ ToSet(doc.wires) = {Wire(i - 1, i) : i \in 1 .. k - 1} \cup {Wire(Noise, Len(Placed(s.tx)) + 1)}
<1> DEFINE hiss == Wire(Noise, Len(Placed(s.tx)) + 1)
           wires == [i \in 1 .. k - 1 |-> Wire(i - 1, i)]
           B == {Nodes(s)[i] : i \in 1 .. k} \cup {NoiseBlock}
           W == {Wire(i - 1, i) : i \in 1 .. k - 1} \cup {hiss}
<1>1. PICK n : n = Len(Placed(s.tx))
  OBVIOUS
<1>2. n \in Nat /\ k \in Nat /\ n + 3 <= k
  BY <1>1, DrawnIs DEF Sketch
<1>3. /\ doc.blocks = InsertAt(Nodes(s), n + 2, NoiseBlock)
      /\ doc.wires = InsertAt(wires, n + 2, hiss)
  <2>1. (n + 1) + 1 = n + 2
    BY <1>2
  <2> QED
    BY <1>1, <2>1 DEF BuildGrc, Nodes, NoiseBlock
<1>4. PICK path : path = Nodes(s)
  OBVIOUS
<1>5. Nodes(s) \in Seq({Nodes(s)[i] : i \in 1 .. k}) /\ Len(Nodes(s)) = k /\ DOMAIN Nodes(s) = 1 .. k
  BY NodesAre
<1>6. path \in Seq(B) /\ NoiseBlock \in B /\ n + 2 \in 1 .. Len(path) + 1
  BY <1>2, <1>4, <1>5
<1>7. ToSet(path) = {Nodes(s)[i] : i \in 1 .. k}
  BY <1>4, <1>5 DEF ToSet
<1>8. DOMAIN wires = 1 .. k - 1 /\ k - 1 \in Nat /\ wires = [i \in 1 .. k - 1 |-> wires[i]]
  BY <1>2
<1>9. hiss \in W /\ \A i \in 1 .. k - 1 : wires[i] \in W /\ wires[i] = Wire(i - 1, i)
  OBVIOUS
<1>10. ToSet(wires) = {Wire(i - 1, i) : i \in 1 .. k - 1}
  BY <1>8, <1>9 DEF ToSet
<1> HIDE DEF wires, hiss, B, W
<1>11. wires \in Seq(W) /\ Len(wires) = k - 1
  BY <1>8, <1>9
<1>12. doc.blocks \in Seq(B) /\ ToSet(doc.blocks) = ToSet(path) \cup {NoiseBlock}
  BY <1>3, <1>4, <1>6, InsertIs
<1>13. doc.wires \in Seq(W) /\ ToSet(doc.wires) = ToSet(wires) \cup {hiss}
  <2>1. n + 2 \in 1 .. Len(wires) + 1
    BY <1>2, <1>11
  <2> QED
    BY <1>3, <1>9, <1>11, <2>1, InsertIs
<1>14. Len(doc.blocks) = k + 1
  <2>1. Len(InsertAt(path, n + 2, NoiseBlock)) = Len(path) + 1
    BY <1>6, InsertLength
  <2> QED
    BY <1>3, <1>4, <1>5, <2>1
<1>15. B = ToSet(doc.blocks) /\ W = ToSet(doc.wires)
  BY <1>7, <1>10, <1>12, <1>13 DEF B, W
<1>16. doc = [id |-> doc.id, blocks |-> doc.blocks, wires |-> doc.wires]
  BY DEF BuildGrc
<1> QED
  BY <1>1, <1>7, <1>10, <1>12, <1>13, <1>14, <1>15, <1>16 DEF hiss

(* What an export draws is well drawn.                                         *)
LEMMA WellBuilt ==
  ASSUME NEW s, ValidateSpec(s)
  PROVE  WellDrawn(BuildGrc(s))
<1>25. PICK doc : doc = BuildGrc(s)
  OBVIOUS
<1>26. PICK n, k : n = Len(Placed(s.tx)) /\ k = Len(Drawn(s))
  OBVIOUS
<1>27. /\ n \in Nat /\ k \in Nat /\ n + 3 <= k
      /\ \A i \in 1 .. k : /\ Drawn(s)[i].kind = "source" <=> i = 1
                           /\ Drawn(s)[i].kind = "channel" <=> i = n + 2
                           /\ Drawn(s)[i].kind = "sink" <=> i = k
  BY <1>26, DrawnIs DEF Sketch
<1>28. PICK path, noise, hiss : path = Nodes(s) /\ noise = NoiseBlock /\ hiss = Wire(Noise, n + 1)
  OBVIOUS
<1>29. \A i \in 1 .. k : /\ path[i] = Block(path[i].name, path[i].kind, path[i].settings)
                        /\ path[i].name = i - 1
                        /\ path[i].kind = IF Drawn(s)[i].kind = "modulator" THEN "mapper" ELSE Drawn(s)[i].kind
  <2>1. \A i \in 1 .. k : path[i] = NodeFor(s, Drawn(s)[i], i - 1)
    BY <1>26, <1>28, NodesAre
  <2> QED
    BY <2>1, NodeIs
<1>31. noise = Block(noise.name, noise.kind, noise.settings) /\ noise.name = -1 /\ noise.kind = "noise"
  BY <1>28 DEF NoiseBlock, Block, Noise
<1>7. hiss = Wire(hiss.from, hiss.to) /\ hiss.from = -1 /\ hiss.to = n + 1
  BY <1>28 DEF Wire, Noise
<1>34. PICK bs, ws : bs = doc.blocks /\ ws = doc.wires
  OBVIOUS
<1>36. /\ doc = [id |-> doc.id, blocks |-> bs, wires |-> ws]
       /\ bs \in Seq(ToSet(bs)) /\ ws \in Seq(ToSet(ws))
       /\ ToSet(bs) = {path[i] : i \in 1 .. k} \cup {noise}
       /\ ToSet(ws) = {Wire(i - 1, i) : i \in 1 .. k - 1} \cup {hiss}
  <2>1. /\ doc = [id |-> doc.id, blocks |-> doc.blocks, wires |-> doc.wires]
        /\ doc.blocks \in Seq(ToSet(doc.blocks)) /\ doc.wires \in Seq(ToSet(doc.wires))
        /\ ToSet(doc.blocks) = {Nodes(s)[i] : i \in 1 .. k} \cup {NoiseBlock}
        /\ ToSet(doc.wires) = {Wire(i - 1, i) : i \in 1 .. k - 1} \cup {Wire(Noise, Len(Placed(s.tx)) + 1)}
    BY <1>25, <1>26, BuiltOf
  <2> QED
    BY <1>26, <1>28, <1>34, <2>1
<1>37. PICK wires : wires = [i \in 1 .. k - 1 |-> Wire(i - 1, i)]
  OBVIOUS
<1>30. \A i \in 1 .. k - 1 : wires[i].from = i - 1 /\ wires[i].to = i /\ wires[i] = Wire(wires[i].from, wires[i].to)
  BY <1>37 DEF Wire
<1>39. \A b \in ToSet(bs) : b = noise \/ \E i \in 1 .. k : b = path[i]
  BY <1>36
<1>40. \A w \in ToSet(ws) : w = hiss \/ \E i \in 1 .. k - 1 : w = wires[i]
  BY <1>36, <1>37
<1>38. Listed(doc)
  <2>1. \A b \in ToSet(bs) : b = Block(b.name, b.kind, b.settings)
    BY <1>29, <1>31, <1>39
  <2>2. \A w \in ToSet(ws) : w = Wire(w.from, w.to)
    BY <1>30, <1>7, <1>40
  <2> QED
    BY <1>34, <1>36, <2>1, <2>2 DEF Listed
<1>41. ASSUME NEW a \in ToSet(bs), NEW b \in ToSet(bs), a.name = b.name PROVE a = b
  <2>1. a = noise \/ \E i \in 1 .. k : a = path[i]
    BY <1>39
  <2>2. b = noise \/ \E i \in 1 .. k : b = path[i]
    BY <1>39
  <2>3. ASSUME NEW i \in 1 .. k, NEW j \in 1 .. k, a = path[i], b = path[j] PROVE a = b
    <3>1. i - 1 = j - 1
      BY <1>29, <1>41, <2>3
    <3>2. i = j
      BY <3>1
    <3> QED
      BY <2>3, <3>2
  <2>4. \A i \in 1 .. k : path[i].name # noise.name
    <3>1. \A i \in 1 .. k : i - 1 # -1
      OBVIOUS
    <3> QED
      BY <1>29, <1>31, <3>1
  <2> QED
    BY <1>41, <2>1, <2>2, <2>3, <2>4
<1>42. ASSUME NEW a \in ToSet(bs), a.kind \in Landmarks
       PROVE  \E i \in 1 .. k : a = path[i] /\ Drawn(s)[i].kind = a.kind
  <2>1. a # noise
    BY <1>31, <1>42 DEF Landmarks
  <2>2. PICK i \in 1 .. k : a = path[i]
    BY <1>39, <2>1
  <2>3. a.kind # "mapper"
    BY <1>42 DEF Landmarks
  <2> QED
    BY <1>29, <2>2, <2>3
<1>43. ASSUME NEW a \in ToSet(bs), NEW b \in ToSet(bs), a.kind \in Landmarks, a.kind = b.kind
       PROVE  a.name = b.name
  <2>1. PICK i \in 1 .. k : a = path[i] /\ Drawn(s)[i].kind = a.kind
    BY <1>42, <1>43
  <2>2. PICK j \in 1 .. k : b = path[j] /\ Drawn(s)[j].kind = a.kind
    BY <1>42, <1>43
  <2>3. i = j
    BY <1>27, <1>43, <2>1, <2>2 DEF Landmarks
  <2> QED
    BY <2>1, <2>2, <2>3
<1>18. \E b \in ToSet(bs) : b.kind = "sink"
  <2>1. k \in 1 .. k
    BY <1>27
  <2>2. path[k] \in ToSet(bs)
    BY <1>36, <2>1
  <2>3. Drawn(s)[k].kind = "sink"
    BY <1>27, <2>1
  <2>4. path[k].kind = "sink"
    BY <1>29, <2>1, <2>3
  <2> QED
    BY <2>2, <2>4
<1>19. \A i \in 1 .. k : i - 1 \in NamesIn(doc)
  BY <1>29, <1>34, <1>36 DEF NamesIn
<1>20. noise.name \in NamesIn(doc)
  BY <1>34, <1>36 DEF NamesIn
<1>21. ASSUME NEW w \in ToSet(ws) PROVE w.from \in NamesIn(doc) /\ w.to \in NamesIn(doc)
  <2>1. CASE w = hiss
    <3>1. n + 2 \in 1 .. k /\ (n + 2) - 1 = n + 1
      BY <1>27
    <3> QED
      BY <1>31, <1>7, <1>19, <1>20, <2>1, <3>1
  <2>2. ASSUME NEW i \in 1 .. k - 1, w = wires[i] PROVE w.from \in NamesIn(doc) /\ w.to \in NamesIn(doc)
    <3>1. i \in 1 .. k /\ i + 1 \in 1 .. k /\ (i + 1) - 1 = i
      BY <1>27
    <3>2. i - 1 \in NamesIn(doc)
      BY <1>19, <3>1
    <3>3. i \in NamesIn(doc)
      BY <1>19, <3>1
    <3> QED
      BY <1>30, <2>2, <3>2, <3>3
  <2> QED
    BY <1>40, <2>1, <2>2
<1>22. ASSUME NEW w \in ToSet(ws), NEW b \in ToSet(bs), b.kind = "source" PROVE w.to # b.name
  <2>1. PICK i \in 1 .. k : b = path[i] /\ Drawn(s)[i].kind = "source"
    BY <1>42, <1>22 DEF Landmarks
  <2>2. b.name = 0
    <3>1. i = 1
      BY <1>27, <2>1
    <3>2. b.name = i - 1
      BY <1>29, <2>1
    <3> QED
      BY <3>1, <3>2
  <2>3. n + 1 # 0 /\ \A j \in 1 .. k - 1 : j # 0
    BY <1>27
  <2>4. CASE w = hiss
    BY <1>7, <2>2, <2>3, <2>4
  <2>5. CASE \E j \in 1 .. k - 1 : w = wires[j]
    BY <1>30, <2>2, <2>3, <2>5
  <2> QED
    BY <1>40, <2>4, <2>5
<1>23. ASSUME NEW w \in ToSet(ws), NEW b \in ToSet(bs), b.kind = "sink" PROVE w.from # b.name
  <2>1. PICK i \in 1 .. k : b = path[i] /\ Drawn(s)[i].kind = "sink"
    BY <1>42, <1>23 DEF Landmarks
  <2>2. b.name = k - 1
    <3>1. i = k
      BY <1>27, <2>1
    <3>2. b.name = i - 1
      BY <1>29, <2>1
    <3> QED
      BY <3>1, <3>2
  <2>3. CASE w = hiss
    <3>1. -1 # k - 1
      BY <1>27
    <3> QED
      BY <1>7, <2>2, <2>3, <3>1
  <2>4. ASSUME NEW j \in 1 .. k - 1, w = wires[j] PROVE w.from # b.name
    <3>1. w.from = j - 1
      BY <1>30, <2>4
    <3>2. j - 1 # k - 1
      BY <1>27
    <3> QED
      BY <2>2, <3>1, <3>2
  <2> QED
    BY <1>40, <2>3, <2>4
<1>24. WellDrawn(doc)
  BY <1>34, <1>38, <1>41, <1>43, <1>18, <1>21, <1>22, <1>23 DEF WellDrawn
<1> QED
  BY <1>25, <1>24

(* An export's path is walked from end to end.                                 *)
LEMMA BuiltChain ==
  ASSUME NEW s, ValidateSpec(s), NEW doc, doc = BuildGrc(s)
  PROVE  Starts(doc) # {} /\ OrderedChain(doc) = Nodes(s)
<1> DEFINE N == NamesIn(doc)
           m == Len(doc.blocks)
           next == [n \in N |-> Outgoing(doc, n)]
<1>25. PICK k : k = Len(Drawn(s))
  OBVIOUS
<1>26. /\ k \in Nat /\ k >= 3 /\ DOMAIN Nodes(s) = 1 .. k
      /\ \A i \in 1 .. k :
           /\ Nodes(s)[i].name = i - 1
           /\ Nodes(s)[i].kind = IF Drawn(s)[i].kind = "modulator" THEN "mapper" ELSE Drawn(s)[i].kind
  BY <1>25, NodesAre
<1>27. /\ ToSet(doc.blocks) = {Nodes(s)[i] : i \in 1 .. k} \cup {NoiseBlock}
      /\ m = k + 1
      /\ ToSet(doc.wires) = {Wire(i - 1, i) : i \in 1 .. k - 1} \cup {Wire(Noise, Len(Placed(s.tx)) + 1)}
  BY <1>25, BuiltOf
<1>28. WellDrawn(doc)
  BY WellBuilt
<1>29. NoiseBlock.name = -1 /\ NoiseBlock.kind = "noise"
  BY DEF NoiseBlock, Block, Noise
<1>30. \A i \in 1 .. k : Nodes(s)[i].kind # "noise"
  <2>1. PICK d : d = Drawn(s)
    OBVIOUS
  <2>2. d \in Seq(Drawable)
    BY <2>1, DrawnInOrder DEF DrawnAs
  <2>3. \A x \in Drawable : x.kind # "noise"
    BY DEF Drawable, Source, Sink, Skills, Skill, Modulator, Demod, PulseShape, MatchedFilter,
           SymbolSync, Costas, Agc, Channel
  <2>4. \A i \in 1 .. k : d[i] \in Drawable
    BY <1>25, <2>1, <2>2
  <2> QED
    BY <1>26, <2>1, <2>3, <2>4
<1>31. \A b \in ToSet(doc.blocks) : b.kind = "noise" => b.name = -1
  BY <1>27, <1>29, <1>30
<1>32. /\ \A w \in DOMAIN doc.wires :
           (\E i \in 1 .. k - 1 : doc.wires[w].from = i - 1 /\ doc.wires[w].to = i) \/ doc.wires[w].from = -1
      /\ \A i \in 1 .. k - 1 : \E w \in DOMAIN doc.wires : doc.wires[w].from = i - 1 /\ doc.wires[w].to = i
  <2>1. \A a, b : Wire(a, b).from = a /\ Wire(a, b).to = b
    BY DEF Wire
  <2>2. \A w \in DOMAIN doc.wires : doc.wires[w] \in ToSet(doc.wires)
    BY DEF ToSet
  <2>3. \A x \in ToSet(doc.wires) : \E w \in DOMAIN doc.wires : doc.wires[w] = x
    BY DEF ToSet
  <2>4. \A w \in DOMAIN doc.wires :
           (\E i \in 1 .. k - 1 : doc.wires[w].from = i - 1 /\ doc.wires[w].to = i) \/ doc.wires[w].from = -1
    BY <1>27, <2>1, <2>2 DEF Noise
  <2>5. ASSUME NEW i \in 1 .. k - 1
        PROVE  \E w \in DOMAIN doc.wires : doc.wires[w].from = i - 1 /\ doc.wires[w].to = i
    <3>1. Wire(i - 1, i) \in ToSet(doc.wires)
      BY <1>27
    <3>2. PICK w \in DOMAIN doc.wires : doc.wires[w] = Wire(i - 1, i)
      BY <2>3, <3>1
    <3> QED
      BY <2>1, <3>2
  <2> QED
    BY <2>4, <2>5
<1>33. DOMAIN doc.wires \subseteq Nat
  BY <1>28, ListsAre DEF WellDrawn
<1>34. ASSUME NEW i \in 1 .. k PROVE i - 1 \in N /\ BlockAt(doc, i - 1) = Nodes(s)[i]
  <2>1. Nodes(s)[i] \in ToSet(doc.blocks) /\ Nodes(s)[i].name = i - 1
    BY <1>26, <1>27
  <2>2. ASSUME NEW b \in ToSet(doc.blocks), b.name = i - 1 PROVE b = Nodes(s)[i]
    <3>1. b # NoiseBlock
      BY <1>29, <2>2
    <3>2. PICK j \in 1 .. k : b = Nodes(s)[j]
      BY <1>27, <3>1
    <3>3. j - 1 = i - 1
      BY <1>26, <2>2, <3>2
    <3>4. j = i
      BY <3>3
    <3> QED
      BY <3>2, <3>4
  <2>3. i - 1 \in N
    BY <2>1 DEF NamesIn
  <2>4. BlockAt(doc, i - 1) \in ToSet(doc.blocks) /\ BlockAt(doc, i - 1).name = i - 1
    BY <2>3, BlockAtIs
  <2> QED
    BY <2>2, <2>3, <2>4
<1>35. ASSUME NEW i \in 1 .. k - 1 PROVE Outgoing(doc, i - 1) = {i}
  <2> DEFINE out == {x \in SignalWires(doc) : doc.wires[x].from = i - 1}
  <2>1. \A w \in out : doc.wires[w].to = i
    <3> SUFFICES ASSUME NEW w \in out PROVE doc.wires[w].to = i
      OBVIOUS
    <3>1. w \in DOMAIN doc.wires /\ doc.wires[w].from = i - 1
      BY DEF SignalWires
    <3>2. i - 1 # -1
      OBVIOUS
    <3>3. PICK j \in 1 .. k - 1 : doc.wires[w].from = j - 1 /\ doc.wires[w].to = j
      BY <1>32, <3>1, <3>2
    <3>4. j = i
      BY <3>1, <3>3
    <3> QED
      BY <3>3, <3>4
  <2>2. PICK v \in DOMAIN doc.wires : doc.wires[v].from = i - 1 /\ doc.wires[v].to = i
    BY <1>32
  <2>3. v \in out
    <3>1. i - 1 # -1
      OBVIOUS
    <3> QED
      BY <1>31, <2>2, <3>1 DEF SignalWires
  <2>4. out \subseteq Nat
    BY <1>33 DEF SignalWires
  <2>5. Outgoing(doc, i - 1) = {doc.wires[w].to : w \in First(out)}
    BY DEF Outgoing
  <2> HIDE DEF out
  <2>6. PICK first \in out : First(out) = {first}
    BY <2>3, <2>4, MinIs
  <2> QED
    BY <2>1, <2>5, <2>6
<1>36. Outgoing(doc, k - 1) = {}
  <2>1. \A w \in DOMAIN doc.wires : doc.wires[w].from # k - 1
    <3>1. -1 # k - 1 /\ \A i \in 1 .. k - 1 : i - 1 # k - 1
      BY <1>26
    <3> QED
      BY <1>32, <3>1
  <2>2. {x \in SignalWires(doc) : doc.wires[x].from = k - 1} = {}
    BY <2>1 DEF SignalWires
  <2> QED
    BY <2>2 DEF Outgoing, First
<1>37. PICK q : q = [i \in 1 .. k |-> i - 1]
  OBVIOUS
<1>38. q \in Trails(N) /\ Len(q) = k /\ DOMAIN q = 1 .. k /\ \A i \in 1 .. k : q[i] = i - 1
  <2>1. q \in [1 .. k -> N]
    BY <1>34, <1>37
  <2>2. q \in Seq(N) /\ Len(q) = k
    BY <1>26, <1>37, <2>1
  <2>3. q # <<>>
    BY <1>26, <2>2
  <2> QED
    BY <1>37, <2>2, <2>3 DEF Trails
<1>39. OneWay(0, next, q)
  <2>1. 1 \in 1 .. k /\ k \in 1 .. k
    BY <1>26
  <2>2. q[1] = 0 /\ q[k] = k - 1
    BY <1>38, <2>1
  <2>3. Distinct(q)
    BY <1>38 DEF Distinct
  <2>4. k - 1 \in N /\ next[k - 1] = {}
    BY <1>34, <1>36, <2>1
  <2>5. ASSUME NEW i \in 1 .. k - 1 PROVE next[q[i]] = {q[i + 1]}
    <3>1. i \in 1 .. k /\ i + 1 \in 1 .. k
      BY <1>26
    <3>2. q[i] = i - 1 /\ q[i + 1] = i /\ i - 1 \in N
      BY <1>34, <1>38, <3>1
    <3> QED
      BY <1>35, <3>2
  <2> QED
    BY <1>38, <2>2, <2>3, <2>4, <2>5 DEF OneWay
<1>40. Follow(0, next, m) = q
  <2>1. next \in [N -> SUBSET N]
    BY <1>28, WaysStay
  <2>2. 0 \in N
    <3>1. 1 \in 1 .. k /\ 1 - 1 = 0
      BY <1>26
    <3> QED
      BY <1>34, <3>1
  <2>3. m \in Nat /\ Len(q) <= m + 1
    BY <1>26, <1>27, <1>38
  <2> HIDE DEF N, next, m
  <2> QED
    BY <1>38, <1>39, <2>1, <2>2, <2>3, FollowThrough
<1>41. Along(doc, q) = Nodes(s)
  <2>1. Along(doc, q) = [i \in 1 .. k |-> BlockAt(doc, q[i])]
    BY <1>38 DEF Along
  <2>2. \A i \in 1 .. k : BlockAt(doc, q[i]) = Nodes(s)[i]
    BY <1>34, <1>38
  <2>3. PICK p : p = Nodes(s)
    OBVIOUS
  <2>4. p = [i \in 1 .. k |-> p[i]]
    BY <1>25, <2>3 DEF Nodes
  <2> QED
    BY <2>1, <2>2, <2>3, <2>4
<1>42. Starts(doc) # {} /\ doc.blocks[Min(Starts(doc))].name = 0
  <2>1. 1 \in 1 .. k
    BY <1>26
  <2>2. Drawn(s)[1].kind = "source"
    BY <1>25, <2>1, DrawnIs DEF Sketch
  <2>3. Nodes(s)[1] \in ToSet(doc.blocks) /\ Nodes(s)[1].kind = "source" /\ Nodes(s)[1].name = 0
    BY <1>26, <1>27, <2>1, <2>2
  <2> QED
    BY <1>28, <2>3, StartIs
<1>43. OrderedChain(doc) = Along(doc, Follow(0, next, m))
  BY <1>42 DEF OrderedChain
<1> QED
  BY <1>40, <1>41, <1>42, <1>43

-------------------------------------------------------------------------------
(* What an export is read back as.                                             *)

(* The flowgraph of one transmit and one receive chain: bits are decided once, *)
(* at the end of the receive chain.                                            *)
OneDecision(s) ==
  /\ \A i \in 1 .. Len(s.tx) : s.tx[i].kind # "demod"
  /\ \A i \in 1 .. Len(s.rx) - 1 : s.rx[i].kind # "demod"

LEMMA SkillsAre ==
  ASSUME NEW x \in Skills
  PROVE  /\ x = Skill(x.kind, x.mod)
         /\ x.kind \in {"modulator", "demod"} => x.mod \in Modulations
         /\ x.kind \notin {"modulator", "demod"} => x.mod = None
         /\ x.kind \in {"modulator", "demod", "channel"} \cup (Signal \ {"mapper"})
         /\ x.kind = "channel" <=> x = Channel
BY DEF Skills, Skill, Modulator, Demod, PulseShape, MatchedFilter, SymbolSync, Costas, Agc, Channel,
       Signal

(* A chain that decides bits at its end at most modulates at its start at most. *)
LEMMA PlainChain ==
  ASSUME NEW chain, NEW first \in {"bits", "complex"}, NEW last, ValidateChain(chain, first, last),
         \A i \in 1 .. Len(chain) - 1 : chain[i].kind # "demod"
  PROVE  /\ chain \in Seq(Skills \ {Channel}) /\ Len(chain) \in Nat /\ Len(chain) >= 1
         /\ \A i \in 1 .. Len(chain) : chain[i] \in Skills \ {Channel}
         /\ \A i \in 1 .. Len(chain) : chain[i].kind = "modulator" <=> i = 1 /\ first = "bits"
         /\ Gives(chain[Len(chain)]) = last
<1>1. chain \in Seq(Skills \ {Channel}) /\ chain # <<>>
  BY DEF ValidateChain
<1>2. Len(chain) \in Nat /\ Len(chain) >= 1 /\ \A i \in 1 .. Len(chain) : chain[i] \in Skills \ {Channel}
  BY <1>1
<1>3. ASSUME NEW i \in 1 .. Len(chain)
      PROVE  Takes(chain[i]) = IF i = 1 THEN first ELSE "complex"
  <2>1. CASE i = 1
    BY <2>1 DEF ValidateChain
  <2>2. CASE i # 1
    <3>1. i - 1 \in 1 .. Len(chain) - 1
      BY <1>2, <2>2
    <3>2. chain[i - 1].kind # "demod"
      BY <3>1
    <3>3. Gives(chain[i - 1]) = "complex"
      BY <3>2 DEF Gives
    <3> QED
      BY <2>2, <3>3 DEF ValidateChain
  <2> QED
    BY <2>1, <2>2
<1>4. \A i \in 1 .. Len(chain) : chain[i].kind = "modulator" <=> Takes(chain[i]) = "bits"
  BY DEF Takes
<1>5. Gives(chain[Len(chain)]) = last
  BY DEF ValidateChain, Last
<1> QED
  BY <1>1, <1>2, <1>3, <1>4, <1>5

LEMMA SubIs ==
  ASSUME NEW S, NEW s \in Seq(S), NEW a \in Nat, NEW b \in Nat, 1 <= a, a <= b + 1, b <= Len(s)
  PROVE  /\ SubSeq(s, a, b) \in Seq(S) /\ Len(SubSeq(s, a, b)) = b - a + 1
         /\ \A i \in 1 .. b - a + 1 : SubSeq(s, a, b)[i] = s[a + i - 1]
OBVIOUS

LEMMA WholeSub ==
  ASSUME NEW S, NEW s \in Seq(S)
  PROVE  SubSeq(s, 1, Len(s)) = s
<1>1. PICK t : t = SubSeq(s, 1, Len(s))
  OBVIOUS
<1>2. t \in Seq(S) /\ Len(t) = Len(s) /\ \A i \in 1 .. Len(s) : t[i] = s[i]
  BY <1>1
<1> QED
  BY <1>1, <1>2, SeqEqual

(* The two chains of a validated flowgraph with one decision.                  *)
LEMMA ChainsAre ==
  ASSUME NEW s, ValidateSpec(s), OneDecision(s), NEW n, n = Len(s.tx), NEW m, m = Len(s.rx) - 1
  PROVE  /\ n \in Nat /\ n >= 1 /\ m \in Nat /\ Len(s.rx) = m + 1
         /\ s.tx \in Seq(Skills) /\ s.rx \in Seq(Skills)
         /\ Placed(s.tx) = s.tx /\ Placed(s.rx) = SubSeq(s.rx, 1, m)
         /\ \A i \in 1 .. n : /\ s.tx[i] \in Skills \ {Channel} /\ s.tx[i].kind # "demod"
                              /\ s.tx[i].kind = "modulator" <=> i = 1
         /\ \A i \in 1 .. m : s.rx[i] \in Skills \ {Channel} /\ s.rx[i].kind \notin {"modulator", "demod"}
         /\ s.tx[1] = Modulator(s.mod) /\ s.rx[m + 1] = Demod(s.mod)
<1>1. PICK t, r : t = s.tx /\ r = s.rx
  OBVIOUS
<1>2. ValidateChain(t, "bits", "complex") /\ ValidateChain(r, "complex", "bits")
  BY <1>1 DEF ValidateSpec
<1>3. /\ \A i \in 1 .. Len(t) : t[i].kind # "demod"
      /\ \A i \in 1 .. Len(r) - 1 : r[i].kind # "demod"
  BY <1>1 DEF OneDecision
<1>4. /\ t \in Seq(Skills \ {Channel}) /\ n \in Nat /\ n >= 1 /\ n = Len(t)
      /\ \A i \in 1 .. n : t[i] \in Skills \ {Channel} /\ (t[i].kind = "modulator" <=> i = 1)
  <2>1. \A i \in 1 .. Len(t) - 1 : t[i].kind # "demod"
    BY <1>3
  <2> QED
    BY <1>1, <1>2, <2>1, PlainChain
<1>5. /\ r \in Seq(Skills \ {Channel}) /\ m \in Nat /\ Len(r) = m + 1
      /\ \A i \in 1 .. m + 1 : r[i] \in Skills \ {Channel} /\ r[i].kind # "modulator"
      /\ Gives(r[m + 1]) = "bits"
  <2>1. /\ r \in Seq(Skills \ {Channel}) /\ Len(r) \in Nat /\ Len(r) >= 1
        /\ \A i \in 1 .. Len(r) : r[i] \in Skills \ {Channel} /\ r[i].kind # "modulator"
        /\ Gives(r[Len(r)]) = "bits"
    BY <1>2, <1>3, PlainChain
  <2>2. Len(r) = m + 1 /\ m \in Nat
    BY <1>1, <2>1
  <2> QED
    BY <2>1, <2>2
<1>6. \A i \in 1 .. m + 1 : r[i].kind = "demod" <=> i = m + 1
  <2>1. r[m + 1].kind = "demod"
    BY <1>5 DEF Gives
  <2>2. \A i \in 1 .. m + 1 : i \in 1 .. m \/ i = m + 1
    BY <1>5
  <2>3. \A i \in 1 .. m : i # m + 1
    BY <1>5
  <2>4. \A i \in 1 .. m : r[i].kind # "demod"
    BY <1>3, <1>5
  <2> QED
    BY <2>1, <2>2, <2>3, <2>4
<1>7. t \in Seq(Skills) /\ r \in Seq(Skills)
  BY <1>4, <1>5
<1>8. Placed(t) = t
  <2> DEFINE T == {x \in ToSet(t) : x.kind # "demod"}
  <2>1. \A i \in 1 .. Len(t) : t[i] \in T <=> i \in 1 .. n
    BY <1>3, <1>4, <1>7, ElementsIn
  <2>a. 1 \in Nat /\ 1 <= 1 /\ 1 <= n + 1 /\ n <= Len(t)
    BY <1>4
  <2>2. Placed(t) = Where(t, T)
    BY DEF Placed
  <2> HIDE DEF T
  <2>3. Where(t, T) = SubSeq(t, 1, n)
    BY <1>4, <1>7, <2>1, <2>a, WherePart
  <2> QED
    BY <1>4, <1>7, <2>2, <2>3, WholeSub
<1>9. Placed(r) = SubSeq(r, 1, m)
  <2> DEFINE T == {x \in ToSet(r) : x.kind # "demod"}
  <2>1. \A i \in 1 .. m + 1 : r[i] \in ToSet(r)
    BY <1>5, <1>7, ElementsIn
  <2>2. \A i \in 1 .. m + 1 : i \in 1 .. m <=> i # m + 1
    BY <1>5
  <2>3. \A i \in 1 .. Len(r) : r[i] \in T <=> i \in 1 .. m
    BY <1>5, <1>6, <2>1, <2>2
  <2>4. Placed(r) = Where(r, T)
    BY DEF Placed
  <2> HIDE DEF T
  <2>5. 1 \in Nat /\ 1 <= 1 /\ 1 <= m + 1 /\ m <= Len(r)
    BY <1>5
  <2>6. Where(r, T) = SubSeq(r, 1, m)
    BY <1>5, <1>7, <2>3, <2>5, WherePart
  <2> QED
    BY <2>4, <2>6
<1>10. Head(OfKinds(t, {"modulator"})).mod = s.mod /\ Last(OfKinds(r, {"demod"})).mod = s.mod
  BY <1>1 DEF ValidateSpec
<1>11. t[1] = Modulator(s.mod)
  <2>1. \A i \in 1 .. Len(t) : t[i].kind \in {"modulator"} <=> i \in 1 .. 1
    BY <1>4
  <2>a. 1 \in Nat /\ 1 <= 1 /\ 1 <= 1 + 1 /\ 1 <= Len(t)
    BY <1>4
  <2>2. OfKinds(t, {"modulator"}) = SubSeq(t, 1, 1)
    BY <1>7, <2>1, <2>a, OfKindsPart
  <2>3. PICK u : u = SubSeq(t, 1, 1)
    OBVIOUS
  <2>4. u \in Seq(Skills) /\ Len(u) = 1 /\ u[1] = t[1]
    BY <1>4, <1>7, <2>3
  <2>5. Head(u) = t[1]
    BY <2>4
  <2>6. 1 \in 1 .. n
    BY <1>4
  <2>7. t[1].mod = s.mod /\ t[1].kind = "modulator" /\ t[1] \in Skills
    BY <1>4, <1>10, <2>2, <2>3, <2>5, <2>6
  <2> QED
    BY <2>7, SkillsAre DEF Modulator
<1>12. r[m + 1] = Demod(s.mod)
  <2>1. \A i \in 1 .. m + 1 : i \in m + 1 .. m + 1 <=> i = m + 1
    BY <1>5
  <2>2. \A i \in 1 .. Len(r) : r[i].kind \in {"demod"} <=> i \in m + 1 .. m + 1
    BY <1>5, <1>6, <2>1
  <2>3. m + 1 \in Nat /\ 1 <= m + 1 /\ m + 1 <= (m + 1) + 1 /\ m + 1 <= Len(r)
    BY <1>5
  <2>4. OfKinds(r, {"demod"}) = SubSeq(r, m + 1, m + 1)
    BY <1>7, <2>2, <2>3, OfKindsPart
  <2>5. PICK u : u = SubSeq(r, m + 1, m + 1)
    OBVIOUS
  <2>6. u \in Seq(Skills) /\ Len(u) = 1 /\ u[1] = r[m + 1]
    BY <1>5, <1>7, <2>5
  <2>7. Last(u) = r[m + 1]
    BY <2>6 DEF Last
  <2>8. m + 1 \in 1 .. m + 1
    BY <1>5
  <2>9. r[m + 1].mod = s.mod /\ r[m + 1].kind = "demod" /\ r[m + 1] \in Skills
    BY <1>5, <1>6, <1>10, <2>4, <2>5, <2>7, <2>8
  <2> QED
    BY <2>9, SkillsAre DEF Demod
<1>13. \A i \in 1 .. m : i \in 1 .. m + 1 /\ i # m + 1
  BY <1>5
<1> QED
  BY <1>1, <1>3, <1>4, <1>5, <1>6, <1>7, <1>8, <1>9, <1>11, <1>12, <1>13

(* No two constellations have as many points.                                  *)
LEMMA PointsTell ==
  ASSUME NEW a \in Modulations, NEW b \in Modulations, Points(a) = Points(b)
  PROVE  a = b
<1>1. \A m \in {"bpsk", "qpsk", "psk8", "qam16", "qam32", "qam64", "qam256"} :
        Points(m) = CASE m = "bpsk" -> 2 [] m = "qpsk" -> 4 [] m = "psk8" -> 8 [] m = "qam16" -> 16
                      [] m = "qam32" -> 32 [] m = "qam64" -> 64 [] OTHER -> 256
  BY DEF Points
<1>2. Modulations = {"bpsk", "qpsk", "psk8", "qam16", "qam32", "qam64", "qam256"}
  BY DEF Modulations, Bits
<1> QED
  BY <1>1, <1>2

(* A block is read back as the skill it was drawn for.                         *)
LEMMA SkillBack ==
  ASSUME NEW s, s.mod \in Modulations, NEW x \in Skills \ {Channel}, x.kind # "demod",
         x.kind = "modulator" => x = Modulator(s.mod), NEW name, NEW b, b = NodeFor(s, x, name)
  PROVE  /\ b.kind \in Signal /\ SkillFor(b) = x
         /\ x.kind = "modulator" => MapperMod(b) = {s.mod}
<1>1. b.kind = IF x.kind = "modulator" THEN "mapper" ELSE x.kind
  BY NodeIs
<1>2. b.kind \in Signal
  BY <1>1, SkillsAre DEF Signal
<1>3. CASE x.kind = "modulator"
  <2>1. b.settings = Setting("points", Points(s.mod))
    BY <1>3 DEF NodeFor, Block
  <2>2. "points" \in DOMAIN b.settings /\ b.settings["points"] = Points(s.mod)
    BY <2>1 DEF Setting
  <2>3. \A m \in Modulations : b.settings["points"] = Points(m) <=> m = s.mod
    BY <2>2, PointsTell
  <2>4. MapperMod(b) = {s.mod}
    BY <2>2, <2>3 DEF MapperMod
  <2>5. (CHOOSE m \in {s.mod} : TRUE) = s.mod
    OBVIOUS
  <2>6. SkillFor(b) = Modulator(s.mod)
    BY <1>1, <1>3, <2>4, <2>5, Zenon DEF SkillFor
  <2> QED
    BY <1>2, <1>3, <2>4, <2>6
<1>4. CASE x.kind # "modulator"
  <2>1. b.kind = x.kind /\ b.kind # "mapper"
    BY <1>1, <1>4, SkillsAre DEF Signal
  <2>2. x = Skill(x.kind, None)
    BY <1>4, SkillsAre
  <2> QED
    BY <1>2, <1>4, <2>1, <2>2 DEF SkillFor
<1> QED
  BY <1>3, <1>4

(* What is read off some blocks, of which those from a to b are skills.        *)
ReadsPart(c, a, b, t) ==
  /\ a \in Nat /\ b \in Nat /\ 1 <= a /\ a <= b + 1 /\ b <= Len(c)
  /\ \A i \in 1 .. Len(c) : c[i].kind \in Signal <=> i \in a .. b
  /\ Len(t) = b - a + 1 /\ \A i \in 1 .. Len(t) : SkillFor(c[a + i - 1]) = t[i]

LEMMA SkillsPart ==
  ASSUME NEW S, NEW c \in Seq(S), NEW T, NEW t \in Seq(T), NEW a, NEW b, ReadsPart(c, a, b, t)
  PROVE  SkillsOn(c) = t
<1>0. /\ a \in Nat /\ b \in Nat /\ 1 <= a /\ a <= b + 1 /\ b <= Len(c)
      /\ \A i \in 1 .. Len(c) : c[i].kind \in Signal <=> i \in a .. b
      /\ Len(t) = b - a + 1 /\ \A i \in 1 .. b - a + 1 : SkillFor(c[a + i - 1]) = t[i]
  BY DEF ReadsPart
<1>1. PICK u : u = SubSeq(c, a, b)
  OBVIOUS
<1>2. OfKinds(c, Signal) = u
  BY <1>0, <1>1, OfKindsPart
<1>3. u \in Seq(S) /\ Len(u) = b - a + 1 /\ \A i \in 1 .. b - a + 1 : u[i] = c[a + i - 1]
  BY <1>0, <1>1, SubIs
<1>4. DOMAIN u = 1 .. Len(t) /\ \A i \in 1 .. Len(t) : SkillFor(u[i]) = t[i]
  BY <1>0, <1>3
<1>5. SkillsOn(c) = [i \in DOMAIN u |-> SkillFor(u[i])]
  BY <1>2 DEF SkillsOn
<1>6. t = [i \in 1 .. Len(t) |-> t[i]]
  OBVIOUS
<1>7. [i \in DOMAIN u |-> SkillFor(u[i])] = [i \in 1 .. Len(t) |-> t[i]]
  BY <1>4
<1> QED
  BY <1>5, <1>6, <1>7

(* Where every block that can be read says the same, it is read.               *)
AllSay(path, kind, key, v) == \A i \in Readable(path, kind, key) : path[i].settings[key] = v

LEMMA OneSetting ==
  ASSUME NEW n \in Nat, NEW path, DOMAIN path = 1 .. n, NEW kind, NEW key, NEW default, NEW v,
         AllSay(path, kind, key, v)
  PROVE  /\ LastSetting(path, kind, key, default) = IF Readable(path, kind, key) = {} THEN default ELSE v
         /\ FirstSetting(path, kind, key, default) = IF Readable(path, kind, key) = {} THEN default ELSE v
<1>1. PICK R : R = Readable(path, kind, key)
  OBVIOUS
<1>2. R \subseteq 1 .. n /\ R \subseteq Nat
  BY <1>1 DEF Readable
<1>3. R # {} => Max(R) \in R /\ Min(R) \in R
  BY <1>2, MaxIs, MinIs
<1> QED
  BY <1>1, <1>3 DEF AllSay, LastSetting, FirstSetting

(* The signal path of an export, block by block.                               *)
PathOf(path, s, n, m) ==
  /\ n \in Nat /\ m \in Nat /\ Len(path) = n + m + 3 /\ DOMAIN path = 1 .. n + m + 3
  /\ path[1].kind = "source" /\ path[n + 2].kind = "channel" /\ path[n + m + 3].kind = "sink"
  /\ \A i \in 1 .. n : /\ path[1 + i] = NodeFor(s, s.tx[i], i) /\ path[1 + i].kind \in Signal
                       /\ SkillFor(path[1 + i]) = s.tx[i]
  /\ \A i \in 1 .. m : /\ path[n + 2 + i] = NodeFor(s, s.rx[i], n + 1 + i)
                       /\ path[n + 2 + i].kind \in Signal /\ SkillFor(path[n + 2 + i]) = s.rx[i]

LEMMA PathIs ==
  ASSUME NEW s, ValidateSpec(s), OneDecision(s), NEW n, n = Len(s.tx), NEW m, m = Len(s.rx) - 1
  PROVE  PathOf(Nodes(s), s, n, m)
<1>1. /\ n \in Nat /\ n >= 1 /\ m \in Nat /\ Len(s.rx) = m + 1 /\ s.rx \in Seq(Skills)
      /\ Placed(s.tx) = s.tx /\ Placed(s.rx) = SubSeq(s.rx, 1, m)
      /\ \A i \in 1 .. n : /\ s.tx[i] \in Skills \ {Channel} /\ s.tx[i].kind # "demod"
                           /\ s.tx[i].kind = "modulator" <=> i = 1
      /\ \A i \in 1 .. m : s.rx[i] \in Skills \ {Channel} /\ s.rx[i].kind \notin {"modulator", "demod"}
      /\ s.tx[1] = Modulator(s.mod)
  BY ChainsAre
<1>a. n \in Nat /\ m \in Nat
  BY <1>1
<1>2. PICK r : r = SubSeq(s.rx, 1, m)
  OBVIOUS
<1>3. Len(r) = m /\ \A i \in 1 .. m : r[i] = s.rx[i]
  BY <1>1, <1>2
<1>4. PICK d : d = Drawn(s)
  OBVIOUS
<1>5. DrawnAs(d, s.tx, r, n, m)
  <2>1. PICK t : t = s.tx /\ t = Placed(s.tx)
    BY <1>1
  <2>2. r = Placed(s.rx)
    BY <1>1, <1>2
  <2>3. DrawnAs(Drawn(s), t, r, Len(t), Len(r))
    BY <2>1, <2>2, DrawnInOrder
  <2> QED
    BY <1>3, <1>4, <2>1, <2>3
<1>6. /\ Len(d) = n + m + 3 /\ d[1] = Source /\ d[n + 2] = Channel /\ d[n + m + 3] = Sink
      /\ \A i \in 1 .. n : d[1 + i] = s.tx[i]
      /\ \A i \in 1 .. m : d[n + 2 + i] = s.rx[i]
  BY <1>3, <1>5 DEF DrawnAs
<1>7. PICK path : path = Nodes(s)
  OBVIOUS
<1>8. /\ DOMAIN path = 1 .. n + m + 3 /\ Len(path) = n + m + 3
      /\ \A i \in 1 .. n + m + 3 :
           /\ path[i] = NodeFor(s, d[i], i - 1)
           /\ path[i].kind = IF d[i].kind = "modulator" THEN "mapper" ELSE d[i].kind
  <2>1. Len(Drawn(s)) = n + m + 3
    BY <1>4, <1>6
  <2>2. PICK k : k = Len(Drawn(s))
    OBVIOUS
  <2>3. /\ DOMAIN path = 1 .. k /\ Len(path) = k
        /\ \A i \in 1 .. k :
             /\ path[i] = NodeFor(s, d[i], i - 1)
             /\ path[i].kind = IF d[i].kind = "modulator" THEN "mapper" ELSE d[i].kind
    BY <1>4, <1>7, <2>2, NodesAre
  <2> QED
    BY <2>1, <2>2, <2>3
<1>9. path[1].kind = "source" /\ path[n + 2].kind = "channel" /\ path[n + m + 3].kind = "sink"
  <2>1. 1 \in 1 .. n + m + 3 /\ n + 2 \in 1 .. n + m + 3 /\ n + m + 3 \in 1 .. n + m + 3
    BY <1>a, PlacesIn
  <2>2. Source.kind = "source" /\ Channel.kind = "channel" /\ Sink.kind = "sink"
    BY DEF Source, Channel, Sink, Skill
  <2> QED
    BY <1>6, <1>8, <2>1, <2>2
<1>10. s.mod \in Modulations
  BY DEF ValidateSpec
<1>11. ASSUME NEW i \in 1 .. n
       PROVE  /\ path[1 + i] = NodeFor(s, s.tx[i], i) /\ path[1 + i].kind \in Signal
              /\ SkillFor(path[1 + i]) = s.tx[i]
  <2>1. 1 + i \in 1 .. n + m + 3 /\ (1 + i) - 1 = i
    BY <1>a, PlacesIn
  <2>2. path[1 + i] = NodeFor(s, s.tx[i], i)
    BY <1>6, <1>8, <2>1
  <2>3. s.tx[i].kind = "modulator" => s.tx[i] = Modulator(s.mod)
    BY <1>1
  <2>4. PICK x \in Skills \ {Channel} : x = s.tx[i] /\ x.kind # "demod"
    BY <1>1
  <2>5. NodeFor(s, x, i).kind \in Signal /\ SkillFor(NodeFor(s, x, i)) = x
    BY <1>10, <2>3, <2>4, SkillBack
  <2> QED
    BY <2>2, <2>4, <2>5
<1>12. ASSUME NEW i \in 1 .. m
       PROVE  /\ path[n + 2 + i] = NodeFor(s, s.rx[i], n + 1 + i) /\ path[n + 2 + i].kind \in Signal
              /\ SkillFor(path[n + 2 + i]) = s.rx[i]
  <2>1. n + 2 + i \in 1 .. n + m + 3 /\ (n + 2 + i) - 1 = n + 1 + i
    BY <1>a, PlacesIn
  <2>2. path[n + 2 + i] = NodeFor(s, s.rx[i], n + 1 + i)
    BY <1>6, <1>8, <2>1
  <2>3. PICK x \in Skills \ {Channel} : x = s.rx[i] /\ x.kind \notin {"modulator", "demod"}
    BY <1>1
  <2>4. NodeFor(s, x, n + 1 + i).kind \in Signal /\ SkillFor(NodeFor(s, x, n + 1 + i)) = x
    BY <1>10, <2>3, SkillBack
  <2> QED
    BY <2>2, <2>3, <2>4
<1> QED
  BY <1>1, <1>7, <1>8, <1>9, <1>11, <1>12 DEF PathOf

(* The chains that are read back are the ones that were drawn.                 *)
LEMMA ChainsBack ==
  ASSUME NEW s, ValidateSpec(s), OneDecision(s), NEW path, path = Nodes(s)
  PROVE  /\ SkillsOn(BeforeChannel(path)) = s.tx
         /\ Append(SkillsOn(AfterChannel(path)), Demod(s.mod)) = s.rx
<1>1. PICK n, m : n = Len(s.tx) /\ m = Len(s.rx) - 1
  OBVIOUS
<1>2. /\ n \in Nat /\ m \in Nat /\ Len(s.rx) = m + 1 /\ s.rx \in Seq(Skills) /\ s.tx \in Seq(Skills)
      /\ s.rx[m + 1] = Demod(s.mod)
  BY <1>1, ChainsAre
<1>3. PathOf(path, s, n, m)
  BY <1>1, PathIs
<1>4. PICK k \in Nat : k = n + m + 3
  BY <1>2
<1>5. /\ Len(path) = k /\ DOMAIN path = 1 .. k
      /\ path[1].kind = "source" /\ path[n + 2].kind = "channel" /\ path[k].kind = "sink"
      /\ \A i \in 1 .. n : path[1 + i].kind \in Signal /\ SkillFor(path[1 + i]) = s.tx[i]
      /\ \A i \in 1 .. m : path[n + 2 + i].kind \in Signal /\ SkillFor(path[n + 2 + i]) = s.rx[i]
  BY <1>3, <1>4 DEF PathOf
<1>6. \A i \in 1 .. k : \/ i = 1 \/ i = n + 2 \/ i = k
                        \/ \E j \in 1 .. n : i = 1 + j
                        \/ \E j \in 1 .. m : i = n + 2 + j
  BY <1>2, <1>4, Places
<1>7. "source" \notin Signal /\ "channel" \notin Signal /\ "sink" \notin Signal
  BY DEF Signal
<1>8. Channels(path) = {n + 2}
  <2>1. n + 2 \in 1 .. k
    BY <1>2, <1>4
  <2>2. \A i \in 1 .. k : path[i].kind = "channel" => i = n + 2
    BY <1>5, <1>6, <1>7
  <2> QED
    BY <1>5, <2>1, <2>2 DEF Channels
<1>9. Min(Channels(path)) = n + 2 /\ Channels(path) # {}
  <2>1. {n + 2} \subseteq Nat /\ {n + 2} # {}
    BY <1>2
  <2>2. Min({n + 2}) \in {n + 2}
    BY <2>1, MinIs
  <2> QED
    BY <1>8, <2>2
<1> DEFINE S == {path[i] : i \in 1 .. k}
<1>10. path \in Seq(S)
  <2>1. path \in Seq({Nodes(s)[i] : i \in 1 .. Len(Drawn(s))}) /\ DOMAIN path = 1 .. Len(Drawn(s))
    BY NodesAre
  <2>2. 1 .. Len(Drawn(s)) = 1 .. k
    BY <1>5, <2>1
  <2> QED
    BY <2>1, <2>2
<1> HIDE DEF S
<1>11. PICK f, g : f = SubSeq(path, 1, n + 2) /\ g = SubSeq(path, n + 3, k)
  OBVIOUS
<1>12. BeforeChannel(path) = f /\ AfterChannel(path) = g
  <2>1. (n + 2) + 1 = n + 3
    BY <1>2
  <2> QED
    BY <1>5, <1>9, <1>11, <2>1 DEF BeforeChannel, AfterChannel
<1>13. f \in Seq(S) /\ Len(f) = n + 2 /\ \A i \in 1 .. n + 2 : f[i] = path[i]
  BY <1>2, <1>4, <1>5, <1>10, <1>11
<1>14. g \in Seq(S) /\ Len(g) = m + 1 /\ \A i \in 1 .. m + 1 : g[i] = path[n + 2 + i]
  BY <1>2, <1>4, <1>5, <1>10, <1>11
<1>15. SkillsOn(f) = s.tx
  <2>1. ASSUME NEW i \in 1 .. n + 2 PROVE f[i].kind \in Signal <=> i \in 2 .. n + 1
    <3>1. CASE i = 1 \/ i = n + 2
      BY <1>2, <1>5, <1>7, <1>13, <3>1
    <3>2. CASE i \in 2 .. n + 1
      <4>1. i - 1 \in 1 .. n /\ 1 + (i - 1) = i
        BY <1>2, <3>2
      <4> QED
        BY <1>5, <1>13, <3>2, <4>1
    <3>3. i = 1 \/ i = n + 2 \/ i \in 2 .. n + 1
      BY <1>2
    <3> QED
      BY <3>1, <3>2, <3>3
  <2>2. ASSUME NEW i \in 1 .. n PROVE SkillFor(f[2 + i - 1]) = s.tx[i]
    <3>1. 2 + i - 1 = 1 + i /\ 1 + i \in 1 .. n + 2
      BY <1>2
    <3> QED
      BY <1>5, <1>13, <3>1
  <2>3. 2 \in Nat /\ 1 <= 2 /\ n + 1 \in Nat /\ 2 <= (n + 1) + 1 /\ n + 1 <= Len(f) /\ (n + 1) - 2 + 1 = n
    BY <1>2, <1>13
  <2>4. ReadsPart(f, 2, n + 1, s.tx)
    BY <1>1, <1>13, <2>1, <2>2, <2>3 DEF ReadsPart
  <2> QED
    BY <1>2, <1>13, <2>4, SkillsPart
<1>16. PICK r : r = SubSeq(s.rx, 1, m)
  OBVIOUS
<1>17. r \in Seq(Skills) /\ Len(r) = m /\ \A i \in 1 .. m : r[i] = s.rx[i]
  BY <1>2, <1>16
<1>18. SkillsOn(g) = r
  <2>1. ASSUME NEW i \in 1 .. m + 1 PROVE g[i].kind \in Signal <=> i \in 1 .. m
    <3>1. CASE i = m + 1
      <4>1. n + 2 + i = k /\ i \notin 1 .. m
        BY <1>2, <1>4, <3>1
      <4> QED
        BY <1>5, <1>7, <1>14, <4>1
    <3>2. CASE i \in 1 .. m
      BY <1>5, <1>14, <3>2
    <3>3. i = m + 1 \/ i \in 1 .. m
      BY <1>2
    <3> QED
      BY <3>1, <3>2, <3>3
  <2>2. ASSUME NEW i \in 1 .. m PROVE SkillFor(g[1 + i - 1]) = r[i]
    <3>1. 1 + i - 1 = i /\ i \in 1 .. m + 1
      BY <1>2
    <3> QED
      BY <1>5, <1>14, <1>17, <3>1
  <2>3. 1 \in Nat /\ 1 <= 1 /\ 1 <= m + 1 /\ m <= Len(g) /\ m - 1 + 1 = m
    BY <1>2, <1>14
  <2>4. ReadsPart(g, 1, m, r)
    BY <1>14, <1>17, <1>2, <2>1, <2>2, <2>3 DEF ReadsPart
  <2> QED
    BY <1>14, <1>17, <2>4, SkillsPart
<1>19. Append(r, Demod(s.mod)) = s.rx
  <2>1. PICK x \in Skills : x = s.rx[m + 1] /\ x = Demod(s.mod)
    <3>1. m + 1 \in 1 .. Len(s.rx)
      BY <1>2
    <3>2. s.rx[m + 1] \in Skills
      BY <1>2, <3>1
    <3> QED
      BY <1>2, <3>2
  <2>2. PICK t : t = Append(r, x)
    OBVIOUS
  <2>3. t \in Seq(Skills) /\ Len(t) = m + 1 /\ t[m + 1] = x /\ \A i \in 1 .. m : t[i] = r[i]
    BY <1>2, <1>17, <2>2
  <2>4. ASSUME NEW i \in 1 .. m + 1 PROVE t[i] = s.rx[i]
    <3>1. i \in 1 .. m \/ i = m + 1
      BY <1>2
    <3> QED
      BY <1>17, <2>1, <2>3, <3>1
  <2>5. t = s.rx
    BY <1>2, <2>3, <2>4, SeqEqual
  <2> QED
    BY <2>1, <2>2, <2>5
<1> QED
  BY <1>12, <1>15, <1>18, <1>19

(* A skill is drawn in one of the two chains.                                  *)
Draws(s, kind) ==
  \/ \E i \in 1 .. Len(s.tx) : s.tx[i].kind = kind
  \/ \E i \in 1 .. Len(s.rx) : s.rx[i].kind = kind

(* What its blocks can be read as.                                             *)
Tells(s, kind, key, v) ==
  \A x, name : LET b == NodeFor(s, x, name) IN
    x.kind = kind => key \in DOMAIN b.settings /\ b.settings[key] = v

LEMMA NodeTells ==
  ASSUME NEW s
  PROVE  /\ Tells(s, "pulse_shape", "sps", s.sps)
         /\ Tells(s, "pulse_shape", "rolloff", s.rolloff)
         /\ Tells(s, "matched_filter", "rolloff", s.rolloff)
         /\ Tells(s, "symbol_sync", "loop_bw", IF s.loopBw = None THEN 126 ELSE s.loopBw)
<1>1. ASSUME NEW x, NEW name, x.kind = "pulse_shape"
      PROVE  LET b == NodeFor(s, x, name) IN
             /\ "sps" \in DOMAIN b.settings /\ b.settings["sps"] = s.sps
             /\ "rolloff" \in DOMAIN b.settings /\ b.settings["rolloff"] = s.rolloff
  <2>1. NodeFor(s, x, name).settings =
          [k \in {"sps", "rolloff"} |-> IF k = "sps" THEN s.sps ELSE s.rolloff]
    BY <1>1 DEF NodeFor, Block
  <2> QED
    BY <2>1
<1>2. ASSUME NEW x, NEW name, x.kind = "matched_filter"
      PROVE  LET b == NodeFor(s, x, name) IN
             "rolloff" \in DOMAIN b.settings /\ b.settings["rolloff"] = s.rolloff
  BY <1>2 DEF NodeFor, Block, Setting
<1>3. ASSUME NEW x, NEW name, x.kind = "symbol_sync"
      PROVE  LET b == NodeFor(s, x, name) IN
             /\ "loop_bw" \in DOMAIN b.settings
             /\ b.settings["loop_bw"] = IF s.loopBw = None THEN 126 ELSE s.loopBw
  <2>1. NodeFor(s, x, name).settings = Setting("loop_bw", IF s.loopBw = None THEN 126 ELSE s.loopBw)
    BY <1>3 DEF NodeFor, Block
  <2> QED
    BY <2>1 DEF Setting
<1> QED
  BY <1>1, <1>2, <1>3 DEF Tells

(* A setting that a kind of skill tells is read back where one is drawn.       *)
LEMMA SettingsBack ==
  ASSUME NEW s, ValidateSpec(s), OneDecision(s), NEW path, path = Nodes(s),
         NEW kind \in {"pulse_shape", "matched_filter", "symbol_sync"}, NEW key, NEW v, NEW default,
         Tells(s, kind, key, v)
  PROVE  /\ LastSetting(path, kind, key, default) = IF Draws(s, kind) THEN v ELSE default
         /\ FirstSetting(path, kind, key, default) = IF Draws(s, kind) THEN v ELSE default
<1>1. PICK n, m : n = Len(s.tx) /\ m = Len(s.rx) - 1
  OBVIOUS
<1>2. n \in Nat /\ m \in Nat /\ Len(s.rx) = m + 1 /\ s.rx[m + 1].kind = "demod"
  <2>1. n \in Nat /\ m \in Nat /\ Len(s.rx) = m + 1 /\ s.rx[m + 1] = Demod(s.mod)
    BY <1>1, ChainsAre
  <2>2. Demod(s.mod).kind = "demod"
    BY DEF Demod, Skill
  <2> QED
    BY <2>1, <2>2
<1>3. PathOf(path, s, n, m)
  BY <1>1, PathIs
<1>4. /\ Len(path) = n + m + 3 /\ DOMAIN path = 1 .. n + m + 3 /\ Len(path) \in Nat
      /\ path[1].kind = "source" /\ path[n + 2].kind = "channel" /\ path[n + m + 3].kind = "sink"
      /\ \A i \in 1 .. n : path[1 + i] = NodeFor(s, s.tx[i], i)
      /\ \A i \in 1 .. m : path[n + 2 + i] = NodeFor(s, s.rx[i], n + 1 + i)
  BY <1>2, <1>3 DEF PathOf
<1>5. \A x, name : NodeFor(s, x, name).kind = kind <=> x.kind = kind
  BY NodeIs
<1>6. PICK R : R = Readable(path, kind, key)
  OBVIOUS
<1>7. /\ \A i \in 1 .. n : (1 + i \in R <=> s.tx[i].kind = kind) /\ (1 + i \in R => path[1 + i].settings[key] = v)
      /\ \A i \in 1 .. m : /\ n + 2 + i \in R <=> s.rx[i].kind = kind
                           /\ n + 2 + i \in R => path[n + 2 + i].settings[key] = v
  <2>1. ASSUME NEW i \in DOMAIN path, NEW x, NEW name, path[i] = NodeFor(s, x, name)
        PROVE  (i \in R <=> x.kind = kind) /\ (i \in R => path[i].settings[key] = v)
    BY <1>5, <1>6, <2>1 DEF Readable, Tells
  <2>2. /\ \A i \in 1 .. n : 1 + i \in DOMAIN path
        /\ \A i \in 1 .. m : n + 2 + i \in DOMAIN path
    BY <1>2, <1>4, PlacesIn
  <2> QED
    BY <1>4, <2>1, <2>2
<1>8. \A i \in R : (\E j \in 1 .. n : i = 1 + j) \/ (\E j \in 1 .. m : i = n + 2 + j)
  <2> SUFFICES ASSUME NEW i \in R
               PROVE  (\E j \in 1 .. n : i = 1 + j) \/ (\E j \in 1 .. m : i = n + 2 + j)
    OBVIOUS
  <2>1. i \in 1 .. n + m + 3 /\ path[i].kind = kind
    BY <1>4, <1>6 DEF Readable
  <2>2. i # 1 /\ i # n + 2 /\ i # n + m + 3
    BY <1>4, <2>1
  <2> QED
    BY <1>2, <2>1, <2>2, Places
<1>9. \A i \in R : path[i].settings[key] = v
  BY <1>7, <1>8
<1>10. R # {} <=> Draws(s, kind)
  <2>1. ASSUME NEW i \in 1 .. Len(s.rx), s.rx[i].kind = kind PROVE i \in 1 .. m
    <3>1. i # m + 1
      BY <1>2, <2>1
    <3> QED
      BY <1>2, <3>1
  <2>2. \A i \in 1 .. m : i \in 1 .. Len(s.rx)
    BY <1>2
  <2> QED
    BY <1>1, <1>7, <1>8, <2>1, <2>2 DEF Draws
<1>11. AllSay(path, kind, key, v)
  BY <1>6, <1>9 DEF AllSay
<1>12. /\ LastSetting(path, kind, key, default) = IF Readable(path, kind, key) = {} THEN default ELSE v
       /\ FirstSetting(path, kind, key, default) = IF Readable(path, kind, key) = {} THEN default ELSE v
  <2>1. PICK l \in Nat : DOMAIN path = 1 .. l
    BY <1>4
  <2> QED
    BY <1>11, <2>1, OneSetting
<1> QED
  BY <1>6, <1>10, <1>12

(* What an export is read back as: the structure it was drawn from, where a    *)
(* setting that no block carries is the importer's own.                        *)
ReadBack(s) ==
  [id |-> FlowId(s.id), mod |-> s.mod, coding |-> None, tx |-> s.tx, rx |-> s.rx,
   sps |-> IF Draws(s, "pulse_shape") THEN s.sps ELSE 4,
   rolloff |-> IF Draws(s, "pulse_shape") \/ Draws(s, "matched_filter") THEN s.rolloff ELSE 35,
   loopBw |-> IF ~ Draws(s, "symbol_sync") THEN None ELSE IF s.loopBw = None THEN 126 ELSE s.loopBw]

(* The round trip: every validated flowgraph that decides its bits once, at    *)
(* the end, is exported as a file that load_grc supports, reads as the same    *)
(* chains, modulation and settings, and validates again (grc_export.py         *)
(* build_grc against grc_import.py load_grc).                                  *)
THEOREM ExportsReadBack ==
  ASSUME NEW s, ValidateSpec(s), OneDecision(s)
  PROVE  /\ Supported(BuildGrc(s)) /\ LoadGrc(BuildGrc(s)) = ReadBack(s)
         /\ ValidateSpec(ReadBack(s))
<1>1. PICK doc : doc = BuildGrc(s)
  OBVIOUS
<1>2. PICK path : path = Nodes(s)
  OBVIOUS
<1>3. Starts(doc) # {} /\ OrderedChain(doc) = path
  BY <1>1, <1>2, BuiltChain
<1>4. PICK n, m : n = Len(s.tx) /\ m = Len(s.rx) - 1
  OBVIOUS
<1>5. /\ n \in Nat /\ n >= 1 /\ m \in Nat /\ s.tx[1] = Modulator(s.mod)
      /\ \A i \in 1 .. n : s.tx[i].kind = "modulator" <=> i = 1
      /\ \A i \in 1 .. m : s.rx[i].kind # "modulator"
      /\ s.tx[1] \in Skills \ {Channel}
  BY <1>4, ChainsAre
<1>6. PathOf(path, s, n, m)
  BY <1>2, <1>4, PathIs
<1>7. /\ Len(path) = n + m + 3 /\ DOMAIN path = 1 .. n + m + 3
      /\ path[1].kind = "source" /\ path[n + 2].kind = "channel" /\ path[n + m + 3].kind = "sink"
      /\ \A i \in 1 .. n : path[1 + i] = NodeFor(s, s.tx[i], i) /\ path[1 + i].kind \in Signal
      /\ \A i \in 1 .. m : path[n + 2 + i] = NodeFor(s, s.rx[i], n + 1 + i) /\ path[n + 2 + i].kind \in Signal
  BY <1>6 DEF PathOf
<1>8. \A i \in DOMAIN path : \/ i = 1 \/ i = n + 2 \/ i = n + m + 3
                             \/ \E j \in 1 .. n : i = 1 + j
                             \/ \E j \in 1 .. m : i = n + 2 + j
  BY <1>5, <1>7, Places
<1>9. \A i \in DOMAIN path : path[i].kind \in Signal \cup Structural \cup {"channel"}
  <2>1. "source" \in Structural /\ "sink" \in Structural
    BY DEF Structural
  <2> QED
    BY <1>7, <1>8, <2>1
<1>10. s.mod \in Modulations
  BY DEF ValidateSpec
<1>11. 2 \in DOMAIN path /\ path[2] = NodeFor(s, s.tx[1], 1)
  <2>1. 1 \in 1 .. n /\ 1 + 1 = 2 /\ 2 \in 1 .. n + m + 3
    BY <1>5
  <2> QED
    BY <1>7, <2>1
<1>12. path[2].kind = "mapper" /\ MapperMod(path[2]) = {s.mod} /\ SkillFor(path[2]) = Modulator(s.mod)
  <2>1. PICK x \in Skills \ {Channel} : x = s.tx[1] /\ x = Modulator(s.mod)
    BY <1>5
  <2>2. x.kind = "modulator"
    BY <2>1 DEF Modulator, Skill
  <2>3. MapperMod(NodeFor(s, x, 1)) = {s.mod} /\ SkillFor(NodeFor(s, x, 1)) = x
    BY <1>10, <2>1, <2>2, SkillBack
  <2>4. NodeFor(s, x, 1).kind = "mapper"
    BY <2>2, NodeIs
  <2> QED
    BY <1>11, <2>1, <2>3, <2>4
<1>13. Mappers(path) = {2}
  <2>1. \A x, name : NodeFor(s, x, name).kind = "mapper" => x.kind \in {"modulator", "mapper"}
    BY NodeIs
  <2>2. \A i \in 1 .. n : s.tx[i].kind # "mapper"
    BY <1>4, ChainsAre, SkillsAre
  <2>3. \A i \in 1 .. m : s.rx[i].kind # "mapper"
    BY <1>4, ChainsAre, SkillsAre
  <2>4. ASSUME NEW i \in DOMAIN path, path[i].kind = "mapper" PROVE i = 2
    <3>1. \A j \in 1 .. m : i # n + 2 + j
      <4> SUFFICES ASSUME NEW j \in 1 .. m, i = n + 2 + j PROVE FALSE
        OBVIOUS
      <4>1. path[i] = NodeFor(s, s.rx[j], n + 1 + j)
        BY <1>7
      <4>2. s.rx[j].kind \in {"modulator", "mapper"}
        BY <2>1, <2>4, <4>1
      <4> QED
        BY <1>5, <2>3, <4>2
    <3>2. PICK j \in 1 .. n : i = 1 + j
      BY <1>7, <1>8, <2>4, <3>1
    <3>3. s.tx[j].kind = "modulator"
      BY <1>7, <2>1, <2>2, <2>4, <3>2
    <3> QED
      BY <1>5, <3>2, <3>3
  <2> QED
    BY <1>11, <1>12, <2>4 DEF Mappers
<1>14. Max(Mappers(path)) = 2
  <2>1. {2} \subseteq 1 .. 2 /\ {2} # {}
    OBVIOUS
  <2>2. Max({2}) \in {2}
    BY <2>1, MaxIs
  <2> QED
    BY <1>13, <2>2
<1>15. Supported(doc)
  BY <1>3, <1>9, <1>12, <1>13 DEF Supported
<1>16. SkillFor(path[Max(Mappers(path))]).mod = s.mod
  BY <1>12, <1>14 DEF Modulator, Skill
<1>17. /\ SkillsOn(BeforeChannel(path)) = s.tx
       /\ Append(SkillsOn(AfterChannel(path)), Demod(s.mod)) = s.rx
  BY <1>2, ChainsBack
<1>18. LastSetting(path, "pulse_shape", "sps", 4) = ReadBack(s).sps
  BY <1>2, NodeTells, SettingsBack DEF ReadBack
<1>19. ReadRolloff(path) = ReadBack(s).rolloff
  <2>1. \A default : LastSetting(path, "pulse_shape", "rolloff", default) =
                       IF Draws(s, "pulse_shape") THEN s.rolloff ELSE default
    BY <1>2, NodeTells, SettingsBack
  <2>2. FirstSetting(path, "matched_filter", "rolloff", 35) =
          IF Draws(s, "matched_filter") THEN s.rolloff ELSE 35
    BY <1>2, NodeTells, SettingsBack
  <2> QED
    BY <2>1, <2>2 DEF ReadRolloff, ReadBack
<1>20. LastSetting(path, "symbol_sync", "loop_bw", None) = ReadBack(s).loopBw
  BY <1>2, NodeTells, SettingsBack DEF ReadBack
<1>21. doc.id = FlowId(s.id)
  BY <1>1 DEF BuildGrc
<1>22. LoadGrc(doc) = ReadBack(s)
  <2>1. /\ ReadBack(s) = [ReadBack(s) EXCEPT !.sps = ReadBack(s).sps]
        /\ ReadBack(s).id = FlowId(s.id)
    BY DEF ReadBack
  <2> QED
    BY <1>3, <1>16, <1>17, <1>18, <1>19, <1>20, <1>21 DEF LoadGrc, ReadBack
<1>23. ValidateSpec(ReadBack(s))
  <2>1. /\ ReadBack(s).mod = s.mod /\ ReadBack(s).tx = s.tx /\ ReadBack(s).rx = s.rx
        /\ ReadBack(s).sps \in {s.sps, 4} /\ ReadBack(s).rolloff \in {s.rolloff, 35}
    BY DEF ReadBack
  <2>2. s.sps \in 1 .. 16 /\ s.rolloff \in 0 .. 100
    BY DEF ValidateSpec
  <2>3. ReadBack(s).sps \in 1 .. 16 /\ ReadBack(s).rolloff \in 0 .. 100
    BY <2>1, <2>2
  <2> QED
    BY <2>1, <2>3 DEF ValidateSpec
<1> QED
  BY <1>1, <1>15, <1>22, <1>23

-------------------------------------------------------------------------------
(* What the operator makes of a drawing.                                       *)

LEMMA OwnElements ==
  ASSUME NEW S, NEW s \in Seq(S)
  PROVE  s \in Seq(ToSet(s))
<1>1. Len(s) \in Nat /\ DOMAIN s = 1 .. Len(s) /\ \A i \in 1 .. Len(s) : s[i] \in ToSet(s)
  BY ElementsIn
<1>2. PICK n \in Nat : n = Len(s)
  BY <1>1
<1>3. s = [i \in 1 .. n |-> s[i]]
  BY <1>2
<1> QED
  BY <1>1, <1>2, <1>3

LEMMA AppendSet ==
  ASSUME NEW S, NEW s \in Seq(S), NEW x
  PROVE  Longer(s, x) \in Seq(S \cup {x}) /\ ToSet(Longer(s, x)) = ToSet(s) \cup {x}
<1> DEFINE T == S \cup {x}
<1>1. s \in Seq(T) /\ x \in T
  OBVIOUS
<1> HIDE DEF T
<1>2. ToSet(Append(s, x)) = ToSet(s) \cup {x}
  BY <1>1, AppendIs
<1>3. Append(s, x) \in Seq(T)
  BY <1>1
<1> QED
  BY <1>2, <1>3 DEF Longer, T

LEMMA ReplaceSet ==
  ASSUME NEW S, NEW s \in Seq(S), NEW i \in 1 .. Len(s), NEW x
  PROVE  ReplaceAt(s, i, x) \in Seq(S \cup {x}) /\ ToSet(ReplaceAt(s, i, x)) \subseteq ToSet(s) \cup {x}
<1> DEFINE T == S \cup {x}
<1>1. s \in Seq(T) /\ x \in T /\ Len(s) \in Nat /\ DOMAIN s = 1 .. Len(s)
  OBVIOUS
<1>2. PICK r : r = ReplaceAt(s, i, x)
  OBVIOUS
<1>3. r = [s EXCEPT ![i] = x]
  BY <1>2 DEF ReplaceAt
<1> HIDE DEF T
<1>4. r \in Seq(T)
  BY <1>1, <1>3
<1>5. DOMAIN r = DOMAIN s /\ \A j \in DOMAIN s : r[j] = x \/ r[j] = s[j]
  BY <1>1, <1>3
<1>6. ToSet(r) \subseteq ToSet(s) \cup {x}
  BY <1>5 DEF ToSet
<1> QED
  BY <1>2, <1>4, <1>6 DEF T

LEMMA ReverseSet ==
  ASSUME NEW S, NEW s \in Seq(S)
  PROVE  Reverse(s) \in Seq(S) /\ ToSet(Reverse(s)) = ToSet(s)
<1>1. PICK n \in Nat : n = Len(s)
  OBVIOUS
<1>2. DOMAIN s = 1 .. n /\ \A i \in 1 .. n : s[i] \in S
  BY <1>1
<1>3. PICK r : r = Reverse(s)
  OBVIOUS
<1>4. r = [i \in 1 .. n |-> s[(n - i) + 1]]
  BY <1>1, <1>3 DEF Reverse
<1>5. \A i \in 1 .. n : (n - i) + 1 \in 1 .. n /\ (n - ((n - i) + 1)) + 1 = i
  OBVIOUS
<1>6. r \in [1 .. n -> S]
  BY <1>2, <1>4, <1>5
<1>7. r \in Seq(S)
  BY <1>6
<1>8. DOMAIN r = 1 .. n
  BY <1>4
<1>9. \A i \in 1 .. n : r[i] = s[(n - i) + 1]
  BY <1>4
<1>10. ToSet(r) \subseteq ToSet(s)
  BY <1>2, <1>5, <1>8, <1>9 DEF ToSet
<1>11. ASSUME NEW x \in ToSet(s) PROVE x \in ToSet(r)
  <2>1. PICK i \in 1 .. n : x = s[i]
    BY <1>2, <1>11 DEF ToSet
  <2>2. PICK j \in 1 .. n : j = (n - i) + 1 /\ (n - j) + 1 = i
    BY <1>5
  <2>3. r[j] = x
    BY <1>9, <2>1, <2>2
  <2> QED
    BY <1>8, <2>3 DEF ToSet
<1> QED
  BY <1>3, <1>7, <1>10, <1>11

(* What an edit may make of a drawing: it keeps, drops or adds blocks, one of  *)
(* a name and a kind, and ends its wires where wires ended or at what it added.*)
Known(doc, b) == \E a \in ToSet(doc.blocks) : a.name = b.name /\ a.kind = b.kind
Redraws(doc, new, n, kind) ==
  /\ Listed(new)
  /\ \A b \in ToSet(new.blocks) :
       Known(doc, b) \/ (n \notin NamesIn(doc) /\ kind \notin Landmarks /\ b.name = n /\ b.kind = kind)
  /\ \E b \in ToSet(new.blocks) : b.kind = "sink"
  /\ \A w \in ToSet(new.wires) :
       /\ w.from \in NamesIn(new) /\ w.to \in NamesIn(new)
       /\ (w.from = n /\ n \notin NamesIn(doc)) \/ \E v \in ToSet(doc.wires) : v.from = w.from
       /\ (w.to = n /\ n \notin NamesIn(doc)) \/ \E v \in ToSet(doc.wires) : v.to = w.to

LEMMA Redrawn ==
  ASSUME NEW doc, WellDrawn(doc), NEW new, NEW n, NEW kind, Redraws(doc, new, n, kind)
  PROVE  WellDrawn(new)
<1>1. \A a \in ToSet(doc.blocks) : a.name \in NamesIn(doc)
  BY DEF NamesIn
<1>2. ASSUME NEW a \in ToSet(new.blocks), NEW b \in ToSet(new.blocks), a.name = b.name
      PROVE  a.kind = b.kind
  BY <1>1, <1>2 DEF Redraws, Known, WellDrawn
<1>3. ASSUME NEW a \in ToSet(new.blocks), NEW b \in ToSet(new.blocks), a.kind \in Landmarks, a.kind = b.kind
      PROVE  a.name = b.name
  <2>1. Known(doc, a) /\ Known(doc, b)
    BY <1>3 DEF Redraws
  <2> QED
    BY <1>3, <2>1 DEF Known, WellDrawn
<1>4. ASSUME NEW w \in ToSet(new.wires), NEW b \in ToSet(new.blocks)
      PROVE  /\ b.kind = "source" => w.to # b.name
             /\ b.kind = "sink" => w.from # b.name
  <2>1. ASSUME b.kind \in Landmarks
        PROVE  \E a \in ToSet(doc.blocks) : a.name = b.name /\ a.kind = b.kind
    BY <2>1 DEF Redraws, Known
  <2>2. ASSUME b.kind = "source" PROVE w.to # b.name
    <3>1. PICK a \in ToSet(doc.blocks) : a.name = b.name /\ a.kind = "source"
      BY <2>1, <2>2 DEF Landmarks
    <3>2. \A v \in ToSet(doc.wires) : v.to # a.name
      BY <3>1 DEF WellDrawn
    <3> QED
      BY <1>1, <3>1, <3>2 DEF Redraws
  <2>3. ASSUME b.kind = "sink" PROVE w.from # b.name
    <3>1. PICK a \in ToSet(doc.blocks) : a.name = b.name /\ a.kind = "sink"
      BY <2>1, <2>3 DEF Landmarks
    <3>2. \A v \in ToSet(doc.wires) : v.from # a.name
      BY <3>1 DEF WellDrawn
    <3> QED
      BY <1>1, <3>1, <3>2 DEF Redraws
  <2> QED
    BY <2>2, <2>3
<1> QED
  BY <1>2, <1>3, <1>4 DEF Redraws, WellDrawn

LEMMA BlockIs ==
  ASSUME NEW n, NEW kind, NEW v
  PROVE  /\ Block(n, kind, v) = Block(Block(n, kind, v).name, Block(n, kind, v).kind, Block(n, kind, v).settings)
         /\ Block(n, kind, v).name = n /\ Block(n, kind, v).kind = kind
BY DEF Block

LEMMA WireIs ==
  ASSUME NEW a, NEW b
  PROVE  /\ Wire(a, b) = Wire(Wire(a, b).from, Wire(a, b).to)
         /\ Wire(a, b).from = a /\ Wire(a, b).to = b
BY DEF Wire

(* Names stay where the blocks that bear them do.                              *)
LEMMA EndsStay ==
  ASSUME NEW doc, WellDrawn(doc), NEW new, NamesIn(doc) \subseteq NamesIn(new),
         NEW w \in ToSet(doc.wires)
  PROVE  w.from \in NamesIn(new) /\ w.to \in NamesIn(new)
BY DEF WellDrawn

Resetting(doc, i, v) == [doc EXCEPT !.blocks[i].settings = v]

LEMMA ResetDrawn ==
  ASSUME NEW doc, WellDrawn(doc), NEW i \in DOMAIN doc.blocks, NEW v
  PROVE  WellDrawn(Resetting(doc, i, v))
<1>1. PICK new : new = Resetting(doc, i, v)
  OBVIOUS
<1>2. PICK bs, S : bs = doc.blocks /\ S = ToSet(doc.blocks)
  OBVIOUS
<1>3. bs \in Seq(S) /\ i \in 1 .. Len(bs) /\ DOMAIN bs = 1 .. Len(bs)
  BY <1>2, ListsAre DEF WellDrawn, Listed
<1>4. PICK b : b = bs[i]
  OBVIOUS
<1>5. b \in S /\ b = Block(b.name, b.kind, b.settings)
  BY <1>2, <1>3, <1>4, ListsAre DEF WellDrawn, Listed
<1>6. PICK x : x = Block(b.name, b.kind, v)
  OBVIOUS
<1>7. [b EXCEPT !.settings = v] = x
  BY <1>5, <1>6 DEF Block
<1>8. PICK r : r = ReplaceAt(bs, i, x)
  OBVIOUS
<1>9. r \in Seq(S \cup {x}) /\ ToSet(r) \subseteq S \cup {x}
  BY <1>2, <1>3, <1>8, ReplaceSet
<1>10. r = [bs EXCEPT ![i] = x]
  BY <1>8 DEF ReplaceAt
<1>11. new = [id |-> doc.id, blocks |-> r, wires |-> doc.wires]
  <2>1. doc = [id |-> doc.id, blocks |-> bs, wires |-> doc.wires]
    BY <1>2 DEF WellDrawn, Listed
  <2>2. [bs EXCEPT ![i].settings = v] = r
    BY <1>3, <1>4, <1>7, <1>10
  <2>3. new = [doc EXCEPT !.blocks = [bs EXCEPT ![i].settings = v]]
    BY <1>1, <1>2 DEF Resetting
  <2> QED
    BY <2>1, <2>2, <2>3
<1>12. new.blocks = r /\ new.wires = doc.wires /\ new.id = doc.id
  BY <1>11
<1>13. x = Block(x.name, x.kind, x.settings) /\ x.name = b.name /\ x.kind = b.kind
  BY <1>6, BlockIs
<1>14. Listed(new)
  <2>1. \A y \in ToSet(r) : y = Block(y.name, y.kind, y.settings)
    BY <1>2, <1>9, <1>13 DEF WellDrawn, Listed
  <2>2. r \in Seq(ToSet(r))
    BY <1>9, OwnElements
  <2> QED
    BY <1>11, <1>12, <2>1, <2>2 DEF WellDrawn, Listed
<1>15. \A y \in ToSet(r) : Known(doc, y)
  BY <1>2, <1>5, <1>9, <1>13 DEF Known
<1>16. ASSUME NEW a \in S PROVE \E y \in ToSet(r) : y.name = a.name /\ y.kind = a.kind
  <2>1. PICK j \in 1 .. Len(bs) : a = bs[j]
    BY <1>2, <1>3 DEF ToSet
  <2>2. DOMAIN r = DOMAIN bs /\ (j = i => r[j] = x) /\ (j # i => r[j] = bs[j])
    BY <1>3, <1>10
  <2>3. r[j] \in ToSet(r)
    BY <1>3, <2>2 DEF ToSet
  <2> QED
    BY <1>4, <1>13, <2>1, <2>2, <2>3
<1>17. NamesIn(doc) \subseteq NamesIn(new)
  BY <1>2, <1>12, <1>16 DEF NamesIn
<1>18. \E y \in ToSet(r) : y.kind = "sink"
  BY <1>2, <1>16 DEF WellDrawn
<1>19. \A w \in ToSet(doc.wires) : w.from \in NamesIn(new) /\ w.to \in NamesIn(new)
  BY <1>17, EndsStay
<1>20. Redraws(doc, new, None, None)
  BY <1>12, <1>14, <1>15, <1>18, <1>19 DEF Redraws
<1> QED
  BY <1>1, <1>20, Redrawn

LEMMA ReversedDrawn ==
  ASSUME NEW doc, WellDrawn(doc)
  PROVE  WellDrawn(Reversed(doc))
<1>1. PICK new : new = Reversed(doc)
  OBVIOUS
<1>2. PICK rb, rw : rb = Reverse(doc.blocks) /\ rw = Reverse(doc.wires)
  OBVIOUS
<1>3. doc = [id |-> doc.id, blocks |-> doc.blocks, wires |-> doc.wires]
  BY DEF WellDrawn, Listed
<1>4. new = [id |-> doc.id, blocks |-> rb, wires |-> rw]
  BY <1>1, <1>2, <1>3 DEF Reversed
<1>5. new.blocks = rb /\ new.wires = rw /\ new.id = doc.id
  BY <1>4
<1>6. ToSet(rb) = ToSet(doc.blocks) /\ rb \in Seq(ToSet(doc.blocks))
  BY <1>2, ReverseSet DEF WellDrawn, Listed
<1>7. ToSet(rw) = ToSet(doc.wires) /\ rw \in Seq(ToSet(doc.wires))
  BY <1>2, ReverseSet DEF WellDrawn, Listed
<1>8. NamesIn(new) = NamesIn(doc)
  BY <1>5, <1>6 DEF NamesIn
<1> QED
  BY <1>1, <1>4, <1>5, <1>6, <1>7, <1>8 DEF WellDrawn, Listed

LEMMA NewNamesAre ==
  ASSUME NEW doc, NEW n \in NewNames(doc)
  PROVE  n \notin NamesIn(doc)
BY DEF NewNames

(* A drawing with one block more, and wires that end where wires ended or at it.*)
LEMMA Added ==
  ASSUME NEW doc, WellDrawn(doc), NEW n, n \notin NamesIn(doc), NEW kind, kind \notin Landmarks,
         NEW T, NEW ws \in Seq(T),
         \A w \in ToSet(ws) :
           /\ w = Wire(w.from, w.to)
           /\ w.from = n \/ \E v \in ToSet(doc.wires) : v.from = w.from
           /\ w.to = n \/ \E v \in ToSet(doc.wires) : v.to = w.to
  PROVE  WellDrawn([id |-> doc.id, blocks |-> Append(doc.blocks, Block(n, kind, Nothing)), wires |-> ws])
<1>1. PICK x : x = Block(n, kind, Nothing)
  OBVIOUS
<1>2. PICK bs, S : bs = doc.blocks /\ S = ToSet(doc.blocks)
  OBVIOUS
<1>3. PICK r : r = Longer(bs, x)
  OBVIOUS
<1>4. PICK new : new = [id |-> doc.id, blocks |-> r, wires |-> ws]
  OBVIOUS
<1>5. new.blocks = r /\ new.wires = ws /\ new.id = doc.id
  BY <1>4
<1>6. bs \in Seq(S)
  BY <1>2 DEF WellDrawn, Listed
<1>7. r \in Seq(S \cup {x}) /\ ToSet(r) = S \cup {x}
  BY <1>2, <1>3, <1>6, AppendSet
<1>8. x = Block(x.name, x.kind, x.settings) /\ x.name = n /\ x.kind = kind
  BY <1>1, BlockIs
<1>9. Listed(new)
  <2>1. \A y \in ToSet(r) : y = Block(y.name, y.kind, y.settings)
    BY <1>2, <1>7, <1>8 DEF WellDrawn, Listed
  <2>2. r \in Seq(ToSet(r)) /\ ws \in Seq(ToSet(ws))
    BY <1>7, OwnElements
  <2> QED
    BY <1>4, <1>5, <2>1, <2>2 DEF Listed
<1>10. NamesIn(doc) \subseteq NamesIn(new) /\ n \in NamesIn(new)
  BY <1>2, <1>5, <1>7, <1>8 DEF NamesIn
<1>11. \A v \in ToSet(doc.wires) : v.from \in NamesIn(new) /\ v.to \in NamesIn(new)
  BY <1>10, EndsStay
<1>12. \A y \in ToSet(r) : Known(doc, y) \/ y = x
  BY <1>2, <1>7 DEF Known
<1>13. \E y \in ToSet(r) : y.kind = "sink"
  BY <1>2, <1>7 DEF WellDrawn
<1>14. Redraws(doc, new, n, kind)
  BY <1>5, <1>8, <1>9, <1>10, <1>11, <1>12, <1>13 DEF Redraws
<1>15. WellDrawn(new)
  BY <1>14, Redrawn
<1> QED
  BY <1>1, <1>2, <1>3, <1>4, <1>15 DEF Longer

LEMMA InsertDrawn ==
  ASSUME NEW doc, WellDrawn(doc), NEW w \in DOMAIN doc.wires, NEW n, n \notin NamesIn(doc),
         NEW kind, kind \notin Landmarks
  PROVE  WellDrawn(InsertInto(doc, w, n, kind))
<1>1. PICK ws, T : ws = doc.wires /\ T = ToSet(doc.wires)
  OBVIOUS
<1>2. ws \in Seq(T) /\ w \in 1 .. Len(ws)
  BY <1>1, ListsAre DEF WellDrawn, Listed
<1>3. PICK v : v = ws[w]
  OBVIOUS
<1>4. v \in T
  BY <1>1, <1>3, ListsAre DEF WellDrawn
<1>5. PICK x, y : x = Wire(v.from, n) /\ y = Wire(n, v.to)
  OBVIOUS
<1>6. PICK r : r = ReplaceAt(ws, w, x)
  OBVIOUS
<1>7. r \in Seq(T \cup {x}) /\ ToSet(r) \subseteq T \cup {x}
  BY <1>1, <1>2, <1>6, ReplaceSet
<1>8. PICK q : q = Longer(r, y)
  OBVIOUS
<1>9. q \in Seq((T \cup {x}) \cup {y}) /\ ToSet(q) \subseteq (T \cup {x}) \cup {y}
  <2>1. Longer(r, y) \in Seq((T \cup {x}) \cup {y}) /\ ToSet(Longer(r, y)) = ToSet(r) \cup {y}
    BY <1>7, AppendSet
  <2> QED
    BY <1>7, <1>8, <2>1
<1>10. /\ x = Wire(x.from, x.to) /\ x.from = v.from /\ x.to = n
       /\ y = Wire(y.from, y.to) /\ y.from = n /\ y.to = v.to
  BY <1>5, WireIs
<1>11. \A z \in ToSet(q) :
         /\ z = Wire(z.from, z.to)
         /\ z.from = n \/ \E u \in ToSet(doc.wires) : u.from = z.from
         /\ z.to = n \/ \E u \in ToSet(doc.wires) : u.to = z.to
  <2> SUFFICES ASSUME NEW z \in ToSet(q)
               PROVE  /\ z = Wire(z.from, z.to)
                      /\ z.from = n \/ \E u \in T : u.from = z.from
                      /\ z.to = n \/ \E u \in T : u.to = z.to
    BY <1>1
  <2>1. z \in T \/ z = x \/ z = y
    BY <1>9
  <2>2. CASE z \in T
    BY <1>1, <2>2 DEF WellDrawn, Listed
  <2>3. CASE z = x
    BY <1>4, <1>10, <2>3
  <2>4. CASE z = y
    BY <1>4, <1>10, <2>4
  <2> QED
    BY <2>1, <2>2, <2>3, <2>4
<1>12. WellDrawn([id |-> doc.id, blocks |-> Append(doc.blocks, Block(n, kind, Nothing)), wires |-> q])
  BY <1>9, <1>11, Added
<1>13. doc = [id |-> doc.id, blocks |-> doc.blocks, wires |-> doc.wires]
  BY DEF WellDrawn, Listed
<1>14. InsertInto(doc, w, n, kind) =
         [id |-> doc.id, blocks |-> Append(doc.blocks, Block(n, kind, Nothing)), wires |-> q]
  <2>1. PICK bb : bb = Append(doc.blocks, Block(n, kind, Nothing))
    OBVIOUS
  <2>2. q = Append(ReplaceAt(doc.wires, w, Wire(doc.wires[w].from, n)), Wire(n, doc.wires[w].to))
    BY <1>1, <1>3, <1>5, <1>6, <1>8 DEF Longer
  <2>3. InsertInto(doc, w, n, kind) = [doc EXCEPT !.blocks = bb, !.wires = q]
    BY <2>1, <2>2, Zenon DEF InsertInto
  <2> QED
    BY <1>13, <2>1, <2>3
<1> QED
  BY <1>12, <1>14

LEMMA HangDrawn ==
  ASSUME NEW doc, WellDrawn(doc), NEW w \in DOMAIN doc.wires, NEW n, n \notin NamesIn(doc),
         NEW kind, kind \notin Landmarks, NEW first \in BOOLEAN
  PROVE  WellDrawn(Hang(doc, w, n, kind, first))
<1>1. PICK ws, T : ws = doc.wires /\ T = ToSet(doc.wires)
  OBVIOUS
<1>2. ws \in Seq(T)
  BY <1>1 DEF WellDrawn, Listed
<1>3. PICK v : v = ws[w]
  OBVIOUS
<1>4. v \in T
  BY <1>1, <1>3, ListsAre DEF WellDrawn
<1>5. PICK x : x = Wire(v.from, n)
  OBVIOUS
<1>6. PICK e : e = <<x>>
  OBVIOUS
<1>7. PICK q : q = IF first THEN Joint(e, ws) ELSE Longer(ws, x)
  OBVIOUS
<1>8. q \in Seq(T \cup {x}) /\ ToSet(q) = T \cup {x}
  <2>1. ASSUME first PROVE q \in Seq(T \cup {x}) /\ ToSet(q) = T \cup {x}
    <3>1. e \in Seq(T \cup {x}) /\ ws \in Seq(T \cup {x})
      BY <1>2, <1>6
    <3>2. ToSet(e) = {x}
      BY <1>6 DEF ToSet
    <3>3. Joint(e, ws) \in Seq(T \cup {x})
      BY <3>1, JointIs
    <3>4. ToSet(Joint(e, ws)) = ToSet(e) \cup ToSet(ws)
      BY <3>1, JointSet
    <3> QED
      BY <1>1, <1>7, <2>1, <3>2, <3>3, <3>4
  <2>2. ASSUME ~first PROVE q \in Seq(T \cup {x}) /\ ToSet(q) = T \cup {x}
    <3>1. Longer(ws, x) \in Seq(T \cup {x}) /\ ToSet(Longer(ws, x)) = ToSet(ws) \cup {x}
      BY <1>2, AppendSet
    <3> QED
      BY <1>1, <1>7, <2>2, <3>1
  <2> QED
    BY <2>1, <2>2
<1>9. x = Wire(x.from, x.to) /\ x.from = v.from /\ x.to = n
  BY <1>5, WireIs
<1>10. \A z \in ToSet(q) :
         /\ z = Wire(z.from, z.to)
         /\ z.from = n \/ \E u \in ToSet(doc.wires) : u.from = z.from
         /\ z.to = n \/ \E u \in ToSet(doc.wires) : u.to = z.to
  <2> SUFFICES ASSUME NEW z \in ToSet(q)
               PROVE  /\ z = Wire(z.from, z.to)
                      /\ z.from = n \/ \E u \in T : u.from = z.from
                      /\ z.to = n \/ \E u \in T : u.to = z.to
    BY <1>1
  <2>1. z \in T \/ z = x
    BY <1>8
  <2>2. CASE z \in T
    BY <1>1, <2>2 DEF WellDrawn, Listed
  <2>3. CASE z = x
    BY <1>4, <1>9, <2>3
  <2> QED
    BY <2>1, <2>2, <2>3
<1>11. WellDrawn([id |-> doc.id, blocks |-> Append(doc.blocks, Block(n, kind, Nothing)), wires |-> q])
  BY <1>8, <1>10, Added
<1>12. doc = [id |-> doc.id, blocks |-> doc.blocks, wires |-> doc.wires]
  BY DEF WellDrawn, Listed
<1>13. Hang(doc, w, n, kind, first) =
         [id |-> doc.id, blocks |-> Append(doc.blocks, Block(n, kind, Nothing)), wires |-> q]
  <2>1. PICK bb : bb = Append(doc.blocks, Block(n, kind, Nothing))
    OBVIOUS
  <2>2. q = IF first THEN <<Wire(doc.wires[w].from, n)>> \o doc.wires
                     ELSE Append(doc.wires, Wire(doc.wires[w].from, n))
    BY <1>1, <1>3, <1>5, <1>6, <1>7, Zenon DEF Joint, Longer
  <2>3. Hang(doc, w, n, kind, first) = [doc EXCEPT !.blocks = bb, !.wires = q]
    BY <2>1, <2>2, Zenon DEF Hang
  <2> QED
    BY <1>12, <2>1, <2>3
<1> QED
  BY <1>11, <1>13

(* A removed block was no landmark, so the wires left end where others did.    *)
LEMMA WithoutDrawn ==
  ASSUME NEW doc, WellDrawn(doc), NEW w \in DOMAIN doc.wires,
         BlockAt(doc, doc.wires[w].to).kind \in Signal, NEW v \in Leaving(doc, doc.wires[w].to)
  PROVE  WellDrawn(Without(doc, doc.wires[w].to, w, v))
<1>1. PICK bs, S, ws, T : bs = doc.blocks /\ S = ToSet(doc.blocks) /\ ws = doc.wires /\ T = ToSet(doc.wires)
  OBVIOUS
<1>2. /\ bs \in Seq(S) /\ ws \in Seq(T) /\ w \in 1 .. Len(ws)
      /\ doc = [id |-> doc.id, blocks |-> bs, wires |-> ws]
  BY <1>1, ListsAre DEF WellDrawn, Listed
<1>3. PICK a, b : a = ws[w] /\ b = ws[v]
  OBVIOUS
<1>4. a \in T /\ b \in T
  BY <1>1, <1>3, ListsAre DEF WellDrawn, Leaving
<1>5. PICK gone \in NamesIn(doc) : gone = a.to
  BY <1>1, <1>4 DEF WellDrawn
<1>6. PICK g \in S : g.name = gone /\ g.kind \in Signal
  BY <1>1, <1>3, <1>5, BlockAtIs
<1>7. \A s \in S : s.kind \in Landmarks => s.name # gone
  <2>1. g.kind \notin Landmarks
    BY <1>6 DEF Signal, Landmarks
  <2>2. \A s \in S : s.name = gone => s.kind = g.kind
    BY <1>1, <1>6 DEF WellDrawn
  <2> QED
    BY <2>1, <2>2
<1>8. PICK x : x = Wire(a.from, b.to)
  OBVIOUS
<1>9. x = Wire(x.from, x.to) /\ x.from = a.from /\ x.to = b.to
  BY <1>8, WireIs
<1>10. PICK joined : joined = ReplaceAt(ws, w, x)
  OBVIOUS
<1>11. joined \in Seq(T \cup {x}) /\ ToSet(joined) \subseteq T \cup {x}
  BY <1>1, <1>2, <1>10, ReplaceSet
<1>12. PICK left, ends : /\ left = {s \in ToSet(bs) : s.name # gone}
                         /\ ends = {z \in ToSet(joined) : gone \notin {z.from, z.to}}
  OBVIOUS
<1>13. PICK rb, rw : rb = Where(bs, left) /\ rw = Where(joined, ends)
  OBVIOUS
<1>14. rb \in Seq(S) /\ ToSet(rb) = {s \in S : s.name # gone}
  <2>1. Where(bs, left) \in Seq(S) /\ ToSet(Where(bs, left)) = ToSet(bs) \cap left
    BY <1>2, WhereIn
  <2> QED
    BY <1>1, <1>12, <1>13, <2>1
<1>15. rw \in Seq(T \cup {x}) /\ ToSet(rw) = {z \in ToSet(joined) : gone \notin {z.from, z.to}}
  <2>1. Where(joined, ends) \in Seq(T \cup {x}) /\ ToSet(Where(joined, ends)) = ToSet(joined) \cap ends
    BY <1>11, WhereIn
  <2> QED
    BY <1>12, <1>13, <2>1
<1>16. PICK new : new = [id |-> doc.id, blocks |-> rb, wires |-> rw]
  OBVIOUS
<1>17. new.blocks = rb /\ new.wires = rw /\ new.id = doc.id
  BY <1>16
<1>18. Without(doc, doc.wires[w].to, w, v) = new
  <2>1. Without(doc, gone, w, v) = [doc EXCEPT !.blocks = rb, !.wires = rw]
    BY <1>1, <1>3, <1>8, <1>10, <1>12, <1>13 DEF Without
  <2> QED
    BY <1>1, <1>2, <1>3, <1>5, <1>16, <2>1
<1>19. Listed(new)
  <2>1. \A s \in ToSet(rb) : s = Block(s.name, s.kind, s.settings)
    BY <1>1, <1>14 DEF WellDrawn, Listed
  <2>2. \A z \in ToSet(rw) : z = Wire(z.from, z.to)
    BY <1>1, <1>9, <1>11, <1>15 DEF WellDrawn, Listed
  <2>3. rb \in Seq(ToSet(rb)) /\ rw \in Seq(ToSet(rw))
    BY <1>14, <1>15, OwnElements
  <2> QED
    BY <1>16, <1>17, <2>1, <2>2, <2>3 DEF Listed
<1>20. \A s \in ToSet(rb) : Known(doc, s)
  BY <1>1, <1>14 DEF Known
<1>21. \E s \in ToSet(rb) : s.kind = "sink"
  BY <1>1, <1>7, <1>14 DEF WellDrawn, Landmarks
<1>22. \A m \in NamesIn(doc) : m # gone => m \in NamesIn(new)
  BY <1>1, <1>14, <1>17 DEF NamesIn
<1>23. ASSUME NEW z \in ToSet(rw)
       PROVE  /\ z.from \in NamesIn(new) /\ z.to \in NamesIn(new)
              /\ \E u \in T : u.from = z.from
              /\ \E u \in T : u.to = z.to
  <2>1. (z \in T \/ z = x) /\ z.from # gone /\ z.to # gone
    BY <1>11, <1>15
  <2>2. \E u \in T : u.from = z.from
    BY <1>4, <1>9, <2>1
  <2>3. \E u \in T : u.to = z.to
    BY <1>4, <1>9, <2>1
  <2>4. z.from \in NamesIn(doc) /\ z.to \in NamesIn(doc)
    BY <1>1, <2>2, <2>3 DEF WellDrawn
  <2> QED
    BY <1>22, <2>1, <2>2, <2>3, <2>4
<1>24. Redraws(doc, new, None, None)
  BY <1>1, <1>17, <1>19, <1>20, <1>21, <1>23 DEF Redraws
<1> QED
  BY <1>18, <1>24, Redrawn

(* Whatever the operator does to a well drawn document leaves it well drawn.   *)
LEMMA EditedDrawn ==
  ASSUME EditsAssumption, NEW doc, WellDrawn(doc), NEW new \in Edited(doc)
  PROVE  WellDrawn(new)
<1> DEFINE blocks == DOMAIN doc.blocks
           wires == {w \in DOMAIN doc.wires : doc.wires[w].from # Noise}
           To(w) == doc.wires[w].to
           removable == {x \in wires : BlockAt(doc, To(x)).kind \in Signal}
           Sets(i) == {SetValue(doc, i, k, Tuned[k]) : k \in DOMAIN doc.blocks[i].settings \ {"points"}}
           Losses(w) == {Without(doc, To(w), w, v) : v \in Leaving(doc, To(w))}
           set == UNION {Sets(i) : i \in blocks}
           illegible == {Illegible(doc, i) : i \in {j \in blocks : doc.blocks[j].kind = "pulse_shape"}}
           inserted == {InsertInto(doc, w, n, k) : w \in wires, n \in NewNames(doc), k \in Inserts}
           removed == UNION {Losses(w) : w \in removable}
           hung == {Hang(doc, w, n, k, f) : w \in wires, n \in NewNames(doc), k \in Hangs, f \in BOOLEAN}
<1>1. new \in set \cup illegible \cup inserted \cup removed \cup hung \cup {Reversed(doc)}
  BY DEF Edited
<1>2. \A k \in Inserts \cup Hangs : k \notin Landmarks
  BY DEF EditsAssumption, Landmarks
<1>3. ASSUME new \in set PROVE WellDrawn(new)
  <2>1. PICK i \in blocks : new \in Sets(i)
    BY <1>3
  <2>2. PICK k : new = SetValue(doc, i, k, Tuned[k])
    BY <2>1
  <2>3. PICK v : v = Entered(doc.blocks[i].settings, k, Tuned[k])
    OBVIOUS
  <2>4. new = Resetting(doc, i, v)
    BY <2>2, <2>3 DEF SetValue, Resetting
  <2> QED
    BY <2>4, ResetDrawn
<1>4. ASSUME new \in illegible PROVE WellDrawn(new)
  <2>1. PICK i \in blocks : new = Illegible(doc, i)
    BY <1>4
  <2>2. new = Resetting(doc, i, Nothing)
    BY <2>1 DEF Illegible, Resetting
  <2> QED
    BY <2>2, ResetDrawn
<1>5. ASSUME new \in inserted PROVE WellDrawn(new)
  <2>1. PICK w \in wires, n \in NewNames(doc), k \in Inserts : new = InsertInto(doc, w, n, k)
    BY <1>5
  <2> QED
    BY <1>2, <2>1, InsertDrawn, NewNamesAre
<1>6. ASSUME new \in removed PROVE WellDrawn(new)
  <2>1. PICK w \in removable : new \in Losses(w)
    BY <1>6
  <2>2. PICK v \in Leaving(doc, doc.wires[w].to) : new = Without(doc, doc.wires[w].to, w, v)
    BY <2>1
  <2>3. w \in DOMAIN doc.wires /\ BlockAt(doc, doc.wires[w].to).kind \in Signal
    OBVIOUS
  <2> QED
    BY <2>2, <2>3, WithoutDrawn
<1>7. ASSUME new \in hung PROVE WellDrawn(new)
  <2>1. PICK w \in wires, n \in NewNames(doc), k \in Hangs, f \in BOOLEAN : new = Hang(doc, w, n, k, f)
    BY <1>7
  <2> QED
    BY <1>2, <2>1, HangDrawn, NewNamesAre
<1>8. ASSUME new = Reversed(doc) PROVE WellDrawn(new)
  BY <1>8, ReversedDrawn
<1> HIDE DEF set, illegible, inserted, removed, hung
<1> QED
  BY <1>1, <1>3, <1>4, <1>5, <1>6, <1>7, <1>8

-------------------------------------------------------------------------------
(* What an import was read from.                                               *)

(* Every document in a file is well drawn, whoever wrote it last.              *)
DocsDrawn ==
  \A e \in Exps : \A n \in DOMAIN files[e] : files[e][n] # None => WellDrawn(files[e][n])

(* What is built was validated, and until the next build or reset, what was    *)
(* imported is what its document is read as, though the file may have changed. *)
ImportRead ==
  /\ spec # None => ValidateSpec(spec)
  /\ imported # None => spec = LoadGrc(imported) /\ Supported(imported) /\ WellDrawn(imported)

ImportInv == FilesInv /\ DocsDrawn /\ ImportRead

LEMMA DocsWritten ==
  ASSUME FilesInv, DocsDrawn, NEW e \in Exps, NEW n, NEW doc, Write(e, n, doc),
         doc # None => WellDrawn(doc)
  PROVE  DocsDrawn'
<1> DEFINE g == Entered(files[e], n, doc)
<1>1. /\ DOMAIN g = {n} \cup DOMAIN files[e] /\ g[n] = doc
      /\ \A m \in DOMAIN files[e] \ {n} : g[m] = files[e][m]
  BY DEF Entered
<1>2. files' = [files EXCEPT ![e] = g]
  BY DEF Write
<1> HIDE DEF g
<1>3. files'[e] = g /\ \A x \in Exps \ {e} : files'[x] = files[x]
  BY <1>2 DEF FilesInv, FilesTyped
<1>4. ASSUME NEW x \in Exps, NEW m \in DOMAIN files'[x], files'[x][m] # None
      PROVE  WellDrawn(files'[x][m])
  <2>1. CASE x # e
    BY <1>3, <1>4, <2>1 DEF DocsDrawn
  <2>2. CASE x = e /\ m = n
    BY <1>1, <1>3, <1>4, <2>2
  <2>3. CASE x = e /\ m # n
    BY <1>1, <1>3, <1>4, <2>3 DEF DocsDrawn
  <2> QED
    BY <2>1, <2>2, <2>3
<1> QED
  BY <1>4 DEF DocsDrawn

LEMMA DocsStay ==
  ASSUME DocsDrawn, UNCHANGED files
  PROVE  DocsDrawn'
BY DEF DocsDrawn

LEMMA ExportRanDraws ==
  ASSUME ImportInv, NEW written \in BOOLEAN, ExportRan(written)
  PROVE  DocsDrawn'
<1>1. CASE spec = None
  BY <1>1, DocsStay DEF ExportRan, graphs, ImportInv
<1>2. CASE spec # None
  <2>1. PICK e, doc : e = current /\ doc = BuildGrc(spec)
    OBVIOUS
  <2>2. e \in Exps
    BY <2>1 DEF ExportRan, ImportInv, FilesInv, Selected
  <2>3. WellDrawn(doc)
    BY <1>2, <2>1, WellBuilt DEF ImportInv, ImportRead
  <2>4. UNCHANGED files \/ \E n : Write(e, n, IF written THEN doc ELSE None)
    BY <1>2, <2>1 DEF ExportRan
  <2>5. CASE UNCHANGED files
    BY <2>5, DocsStay DEF ImportInv
  <2>6. CASE \E n : Write(e, n, IF written THEN doc ELSE None)
    <3>1. PICK n, x : Write(e, n, x) /\ x = IF written THEN doc ELSE None
      BY <2>6
    <3>2. x # None => WellDrawn(x)
      BY <2>3, <3>1
    <3> QED
      BY <2>2, <3>1, <3>2, DocsWritten DEF ImportInv
  <2> QED
    BY <2>4, <2>5, <2>6
<1> QED
  BY <1>1, <1>2

LEMMA ExportDraws ==
  ASSUME ImportInv, NEW written \in BOOLEAN, ExportFlowgraph(written)
  PROVE  DocsDrawn'
<1>1. PICK e, n, x : /\ e = current /\ n = Plain(spec) /\ Write(e, n, x)
                     /\ x = IF written THEN BuildGrc(spec) ELSE None
  BY DEF ExportFlowgraph
<1>2. e \in Exps
  BY <1>1 DEF ExportFlowgraph, Ready, ImportInv, FilesInv, Selected
<1>3. WellDrawn(BuildGrc(spec))
  BY WellBuilt DEF ExportFlowgraph, ImportInv, ImportRead
<1>4. x # None => WellDrawn(x)
  BY <1>1, <1>3
<1> QED
  BY <1>1, <1>2, <1>4, DocsWritten DEF ImportInv

LEMMA EditDraws ==
  ASSUME ImportInv, NEW e \in Exps, NEW n \in DOMAIN files[e], OperatorEdit(e, n)
  PROVE  DocsDrawn'
<1>1. PICK old : old = files[e][n] /\ old # None
  BY DEF OperatorEdit
<1>2. WellDrawn(old)
  BY <1>1 DEF ImportInv, DocsDrawn
<1>3. PICK doc \in Edited(old) : Write(e, n, doc)
  BY <1>1 DEF OperatorEdit
<1>4. WellDrawn(doc)
  BY <1>2, EditsAssumption, EditedDrawn
<1> QED
  BY <1>3, <1>4, DocsWritten DEF ImportInv

LEMMA DocsStep == ImportInv /\ [Next]_vars => DocsDrawn'
<1> SUFFICES ASSUME ImportInv, [Next]_vars PROVE DocsDrawn'
  OBVIOUS
<1>1. \/ \E b \in BOOLEAN : ExportRan(b) \/ ExportFlowgraph(b)
      \/ \E e \in Exps : \E n \in DOMAIN files[e] : OperatorEdit(e, n)
      \/ UNCHANGED files
  BY DEF Next, vars, graphs, BuildFlowgraph, Fly, Record, ImportFlowgraph, Author, Authored,
     AuthorRaises, Promote, Retrial, StoreFull, Switch, Restart, DieAppending, Dead
<1>2. CASE \E b \in BOOLEAN : ExportRan(b) \/ ExportFlowgraph(b)
  BY <1>2, ExportRanDraws, ExportDraws
<1>3. CASE \E e \in Exps : \E n \in DOMAIN files[e] : OperatorEdit(e, n)
  BY <1>3, EditDraws
<1>4. CASE UNCHANGED files
  BY <1>4, DocsStay DEF ImportInv
<1> QED
  BY <1>1, <1>2, <1>3, <1>4

LEMMA ReadStep == ImportInv /\ [Next]_vars => ImportRead'
<1> SUFFICES ASSUME ImportInv, [Next]_vars PROVE ImportRead'
  OBVIOUS
<1>1. \/ \E s \in Structures : BuildFlowgraph(s)
      \/ \E e \in Exps : \E n \in DOMAIN files[e] : ImportFlowgraph(e, n)
      \/ spec' = None /\ imported' = None
      \/ UNCHANGED <<spec, imported>>
  BY DEF Next, vars, session, Fly, Record, ExportRan, ExportFlowgraph, OperatorEdit, Author, Authored,
     AuthorRaises, Promote, Retrial, StoreFull, Switch, ResetSession, Restart, DieAppending, Dead
<1>2. CASE \E s \in Structures : BuildFlowgraph(s)
  BY <1>2 DEF BuildFlowgraph, ImportRead
<1>3. CASE \E e \in Exps : \E n \in DOMAIN files[e] : ImportFlowgraph(e, n)
  <2>0. PICK e \in Exps : \E n \in DOMAIN files[e] : ImportFlowgraph(e, n)
    BY <1>3
  <2>1. PICK n \in DOMAIN files[e] : ImportFlowgraph(e, n)
    BY <2>0
  <2>2. PICK doc : doc = files[e][n] /\ doc # None
    BY <2>1 DEF ImportFlowgraph
  <2>3. WellDrawn(doc)
    BY <2>2 DEF ImportInv, DocsDrawn
  <2>4. Supported(doc) /\ ValidateSpec(LoadGrc(doc)) /\ spec' = LoadGrc(doc) /\ imported' = doc
    BY <2>1, <2>2 DEF ImportFlowgraph
  <2> QED
    BY <2>3, <2>4 DEF ImportRead
<1>4. CASE spec' = None /\ imported' = None
  BY <1>4 DEF ImportRead
<1>5. CASE UNCHANGED <<spec, imported>>
  BY <1>5 DEF ImportInv, ImportRead
<1> QED
  BY <1>1, <1>2, <1>3, <1>4, <1>5

(* What is drawn is what runs: for any structures, any edits and any number of *)
(* them, an imported flowgraph has the skills its file's wires draw from the   *)
(* source to the sink, in their order, and the settings typed last into them.  *)
THEOREM ImportsStayFaithful == Spec => []ImportFaithful
<1>1. Init => ImportInv
  <2>1. Init => DocsDrawn /\ ImportRead
    BY DEF Init, DocsDrawn, ImportRead
  <2> QED
    BY <2>1, FilesStart DEF ImportInv
<1>2. ImportInv /\ [Next]_vars => ImportInv'
  BY FilesStep, DocsStep, ReadStep DEF ImportInv
<1>3. ImportInv => ImportFaithful
  <2> SUFFICES ASSUME ImportInv, imported # None PROVE ImportFaithful
    BY DEF ImportFaithful
  <2> QED
    BY LoadFaithful DEF ImportInv, ImportRead
<1> QED
  BY <1>1, <1>2, <1>3, PTL DEF Spec
===============================================================================
