-------------------------------- MODULE Library --------------------------------
(* What an experiment keeps beside its numbers: the Companion files of the     *)
(* structures it ran, which the operator edits and hands back, and the skills  *)
(* the agent authored and promoted (tools/service.py, flowgraph/learned.py,    *)
(* control/skill_author.py). One agent calls the tools; the console switches   *)
(* experiments and the operator edits files while a tool is at work.           *)
EXTENDS Flowgraph

CONSTANTS Exps, Structures,      \* the flowgraphs the agent submits
          Names, Ladder,         \* skill names and the rungs a skill is sought on
          Targets, Gains,        \* targets, as error levels, and gates a client may ask for
          Levels, DefaultTarget, \* a trial's error level; _last_author_target at first
          Tuned, Inserts, Hangs, \* what the operator types into a block, inserts, hangs on a wire
          MaxEdits, MaxCalls,    \* bounds on edits; on runs, exports and edits, on searches and gates,
          MaxMixed               \* and on behaviours with both

(* The operator draws no second source, sink or channel.                       *)
ASSUME EditsAssumption == (Inserts \cup Hangs) \cap {"source", "sink", "channel"} = {}

VARIABLES
  current, spec,    \* the selected experiment, and _spec
  at, job,          \* where the agent's tool stands, and its locals
  proposal, authorTarget, learned,
  files,            \* experiment -> file name -> the document it holds, or None
  lines, ended,     \* experiment -> learned_skills.jsonl; does it end in a newline
  imported,         \* the document the built flowgraph was read from, or None
  kept, taken,      \* experiment -> graphs an export answered for; those since overwritten
  promoted,         \* experiment -> skills promote_skill said it kept
  edits, calls

session == <<current, spec, imported>>
skills == <<proposal, authorTarget, learned, lines, ended, promoted>>
graphs == <<files, kept, taken, edits>>
vars == <<session, at, job, skills, graphs, calls>>

NoJob == [skill |-> None, exp |-> None, moved |-> FALSE, min |-> 0]

Init ==
  /\ current = None /\ spec = None /\ imported = None
  /\ at = "idle" /\ job = NoJob
  /\ proposal = None /\ authorTarget = DefaultTarget /\ learned = {}
  /\ files = [e \in Exps |-> [n \in {} |-> None]]
  /\ lines = [e \in Exps |-> <<>>] /\ ended = [e \in Exps |-> TRUE]
  /\ kept = [e \in Exps |-> {}] /\ taken = [e \in Exps |-> {}]
  /\ promoted = [e \in Exps |-> {}] /\ edits = 0 /\ calls = [graph |-> 0, skill |-> 0]

Ready == at = "idle" /\ current # None
(* Calls on graphs and on skills meet only in resets: few behaviours mix many. *)
Call(what) ==
  /\ calls' = [calls EXCEPT ![what] = @ + 1]
  /\ calls'[what] <= MaxCalls[what] /\ calls'.graph * calls'.skill <= MaxMixed
Return == at' = "idle" /\ job' = NoJob

--------------------------------------------------------------------------------
(* Flowgraphs and their files.                                                 *)

BuildFlowgraph(s) ==
  /\ Ready /\ ValidateSpec(s)
  /\ spec' = s /\ imported' = None
  /\ UNCHANGED <<current, at, job, skills, graphs, calls>>

Fly ==
  /\ Ready /\ spec # None /\ at' = "flown" /\ Call("graph")
  /\ UNCHANGED <<session, job, skills, graphs>>

(* The row names the flowgraph built now. Without one the call fails, and what *)
(* it measured is in no ledger.                                                *)
Record ==
  /\ at = "flown"
  /\ IF spec = None THEN Return ELSE at' = "export" /\ UNCHANGED job
  /\ UNCHANGED <<session, skills, graphs, calls>>

Plain(s) == [stem |-> s.id, digest |-> <<>>]
Addressed(s) == [stem |-> s.id, digest |-> <<BuildGrc(s)>>]
Entered(f, key, value) == [k \in {key} \cup DOMAIN f |-> IF k = key THEN value ELSE f[k]]
Holds(e, n, doc) == n \in DOMAIN files[e] /\ files[e][n] = doc

(* A bug to catch: the automatic export writes over what has the name.         *)
PlainTarget(s) == IF Holds(current, Plain(s), BuildGrc(s)) THEN {} ELSE {Plain(s)}

(* The file an automatic export writes; none when the graph is already there,  *)
(* and none when a file has its content address, whatever that file holds.     *)
ExportTarget(s) ==
  LET there == DOMAIN files[current] IN
  IF Plain(s) \notin there THEN {Plain(s)}
  ELSE IF Holds(current, Plain(s), BuildGrc(s)) THEN {} ELSE {Addressed(s)} \ there

(* A file is truncated before it is written, so a write that fails leaves a    *)
(* file nothing can be read from.                                              *)
Write(e, n, doc) == files' = [files EXCEPT ![e] = Entered(@, n, doc)]
Overwritten(e, n, doc) == IF n \in DOMAIN files[e] THEN {files[e][n]} \ {doc} ELSE {}

ExportRan(written) ==
  /\ at = "export"
  /\ IF spec = None THEN UNCHANGED graphs
     ELSE LET doc == BuildGrc(spec)
              target == ExportTarget(spec)
          IN /\ IF target = {} THEN UNCHANGED files
                ELSE \E n \in target : Write(current, n, IF written THEN doc ELSE None)
             /\ kept' = [kept EXCEPT ![current] = IF written THEN @ \cup {doc} ELSE @]
             /\ taken' = [taken EXCEPT ![current] =
                  IF written THEN (IF target = {} THEN @ ELSE @ \ {doc}) ELSE @ \cup {doc}]
             /\ UNCHANGED edits
  /\ Return /\ UNCHANGED <<session, skills, calls>>

(* export_flowgraph writes over whatever has the structure's name.             *)
ExportFlowgraph(written) ==
  /\ Ready /\ spec # None /\ Call("graph")
  /\ LET doc == IF written THEN BuildGrc(spec) ELSE None IN
     /\ Write(current, Plain(spec), doc)
     /\ taken' = [taken EXCEPT ![current] = (@ \cup Overwritten(current, Plain(spec), doc)) \ {doc}]
  /\ UNCHANGED <<session, at, job, skills, kept, edits>>

ImportFlowgraph(e, n) ==
  /\ Ready /\ n \in DOMAIN files[e] /\ files[e][n] # None
  /\ Supported(files[e][n]) /\ ValidateSpec(LoadGrc(files[e][n]))
  /\ spec' = LoadGrc(files[e][n]) /\ imported' = files[e][n]
  /\ UNCHANGED <<current, at, job, skills, graphs, calls>>

--------------------------------------------------------------------------------
(* What the operator does to a file in Companion, which is not the project's.  *)

SetValue(doc, i, key, value) ==
  [doc EXCEPT !.blocks[i].settings = Entered(@, key, value)]
Illegible(doc, i) == [doc EXCEPT !.blocks[i].settings = Nothing]
Leaving(doc, n) == {w \in DOMAIN doc.wires : doc.wires[w].from = n}
(* The first free name from 100 up.                                            *)
NewNames(doc) ==
  {n \in 100 .. 100 + Len(doc.blocks) : n \notin NamesIn(doc) /\ 100 .. n - 1 \subseteq NamesIn(doc)}

(* A block put into a wire, a block removed and its neighbours joined, a block *)
(* hung on a wire's source beside the signal path, and the blocks and wires    *)
(* listed the other way round.                                                 *)
InsertInto(doc, w, n, kind) ==
  [doc EXCEPT !.blocks = Append(@, Block(n, kind, Nothing)),
              !.wires = Append(ReplaceAt(@, w, Wire(doc.wires[w].from, n)), Wire(n, doc.wires[w].to))]
Without(doc, gone, w, v) ==
  LET joined == ReplaceAt(doc.wires, w, Wire(doc.wires[w].from, doc.wires[v].to))
  IN [doc EXCEPT !.blocks = Where(@, {b \in ToSet(@) : b.name # gone}),
                 !.wires = Where(joined, {x \in ToSet(joined) : gone \notin {x.from, x.to}})]
Hang(doc, w, n, kind, first) ==
  LET wire == Wire(doc.wires[w].from, n) IN
  [doc EXCEPT !.blocks = Append(@, Block(n, kind, Nothing)),
              !.wires = IF first THEN <<wire>> \o @ ELSE Append(@, wire)]
Reversed(doc) == [doc EXCEPT !.blocks = Reverse(@), !.wires = Reverse(@)]

Edited(doc) ==
  LET blocks == DOMAIN doc.blocks
      wires == {w \in DOMAIN doc.wires : doc.wires[w].from # Noise}
      Removable(w) == BlockAt(doc, doc.wires[w].to).kind \in Signal
      To(w) == doc.wires[w].to
  IN (UNION {{SetValue(doc, i, k, Tuned[k]) : k \in DOMAIN doc.blocks[i].settings \ {"points"}} : i \in blocks})
       \cup {Illegible(doc, i) : i \in {j \in blocks : doc.blocks[j].kind = "pulse_shape"}}
       \cup {InsertInto(doc, w, n, k) : w \in wires, n \in NewNames(doc), k \in Inserts}
       \cup (UNION {{Without(doc, To(w), w, v) : v \in Leaving(doc, To(w))} : w \in {x \in wires : Removable(x)}})
       \cup {Hang(doc, w, n, k, f) : w \in wires, n \in NewNames(doc), k \in Hangs, f \in BOOLEAN}
       \cup {Reversed(doc)}

OperatorEdit(e, n) ==
  /\ edits < MaxEdits /\ Call("graph") /\ n \in DOMAIN files[e] /\ files[e][n] # None
  /\ \E doc \in Edited(files[e][n]) :
       /\ Write(e, n, doc)
       /\ taken' = [taken EXCEPT ![e] = @ \cup Overwritten(e, n, doc)]
  /\ edits' = edits + 1
  /\ UNCHANGED <<session, at, job, skills, kept>>

--------------------------------------------------------------------------------
(* Skills. A meeting rung's efficiency counts; the best must be coded and beat *)
(* the best uncoded one.                                                       *)

Best(rungs) == CHOOSE r \in rungs : \A x \in rungs : Efficiency(x) <= Efficiency(r)
BaseEfficiency(meeting) ==
  LET base == {r \in meeting : ~Coded(r)} IN IF base = {} THEN 0 ELSE Efficiency(Best(base))
Worth(meeting) ==
  /\ meeting # {} /\ Coded(Best(meeting))
  /\ Efficiency(Best(meeting)) > BaseEfficiency(meeting)
Gain(meeting) == Efficiency(Best(meeting)) - BaseEfficiency(meeting)

NamesOf(store) == {s.name : s \in store}

(* author_skill keeps the target before it measures anything.                  *)
Author(name, target) ==
  /\ Ready /\ Call("skill") /\ name \notin NamesOf(learned)
  /\ authorTarget' = target /\ at' = "bench"
  /\ job' = [NoJob EXCEPT !.exp = current,
               !.skill = [name |-> name, exp |-> current, target |-> target, gain |-> 0,
                          strayed |-> FALSE, orphaned |-> FALSE, test |-> None]]
  /\ UNCHANGED <<session, proposal, learned, lines, ended, promoted, graphs>>

Authored(meeting) ==
  /\ at = "bench"
  /\ proposal' = IF Worth(meeting)
                  THEN [job.skill EXCEPT !.gain = Gain(meeting), !.strayed = job.moved]
                  ELSE None
  /\ Return /\ UNCHANGED <<session, authorTarget, learned, lines, ended, promoted, graphs, calls>>

(* A radio that goes away, or a rung nobody knows: the call raises, and the    *)
(* proposal of an earlier call stays beside this one's target.                 *)
AuthorRaises ==
  /\ at = "bench"
  /\ proposal' = IF proposal = None THEN None
                  ELSE [proposal EXCEPT !.orphaned = @ \/ proposal.target # authorTarget]
  /\ Return /\ UNCHANGED <<session, authorTarget, learned, lines, ended, promoted, graphs, calls>>

Promote(min) ==
  /\ Ready /\ proposal # None /\ Call("skill")
  /\ proposal.name \notin NamesOf(learned) /\ proposal.gain >= min
  /\ at' = "retrial"
  /\ job' = [NoJob EXCEPT !.exp = current, !.min = min, !.skill = proposal]
  /\ UNCHANGED <<session, skills, graphs>>

Passes(level) == level <= authorTarget

(* learned_skills.jsonl is lines of pieces: one that was cut short has no      *)
(* newline, and what is appended next lands on the same line.                  *)
Put(e, piece, newline) ==
  /\ lines' = [lines EXCEPT ![e] =
       IF ended[e] THEN Append(@, <<piece>>) ELSE ReplaceAt(@, Len(@), Append(Last(@), piece))]
  /\ ended' = [ended EXCEPT ![e] = newline]
Loads(line) == Len(line) = 1 /\ Head(line).whole
Loaded(e) == {i \in DOMAIN lines[e] : Loads(lines[e][i])}
SkillAt(e, i) == Head(lines[e][i]).skill

(* A store keeps one skill of a name: the last line of a name wins, and what   *)
(* is added replaces what has its name.                                        *)
Stored(e) ==
  {SkillAt(e, i) : i \in {j \in Loaded(e) :
     \A k \in Loaded(e) : k > j => SkillAt(e, k).name # SkillAt(e, j).name}}

Tested(level) ==
  [job.skill EXCEPT !.test = [min |-> job.min, against |-> authorTarget, level |-> level,
                              moved |-> job.moved]]
Remember(s) ==
  learned' = IF job.moved THEN learned ELSE {l \in learned : l.name # s.name} \cup {s}

(* The store the call began with keeps the skill, in memory and on disk.       *)
Retrial(level) ==
  /\ at = "retrial"
  /\ IF Passes(level)
     THEN /\ Remember(Tested(level)) /\ Put(job.exp, [skill |-> Tested(level), whole |-> TRUE], TRUE)
          /\ promoted' = [promoted EXCEPT ![job.exp] = @ \cup {Tested(level)}]
          /\ proposal' = None
     ELSE UNCHANGED <<learned, lines, ended, promoted, proposal>>
  /\ Return /\ UNCHANGED <<session, authorTarget, graphs, calls>>

(* The disk takes part of the line: the call raises with the skill in memory.  *)
StoreFull(level) ==
  /\ at = "retrial" /\ Passes(level)
  /\ Remember(Tested(level)) /\ Put(job.exp, [skill |-> Tested(level), whole |-> FALSE], FALSE)
  /\ Return /\ UNCHANGED <<session, proposal, authorTarget, promoted, graphs, calls>>

--------------------------------------------------------------------------------
(* The console, and a daemon that dies.                                        *)

(* A bug to catch: a reset that leaves the last proposal.                      *)
ResetBuilt ==
  /\ spec' = None /\ imported' = None /\ UNCHANGED proposal

ResetSession ==
  /\ spec' = None /\ imported' = None /\ proposal' = None

Switch(e) ==
  /\ e # current /\ current' = e
  /\ ResetSession
  /\ learned' = Stored(e)
  /\ job' = IF at = "idle" THEN job ELSE [job EXCEPT !.moved = TRUE]
  /\ UNCHANGED <<at, authorTarget, lines, ended, promoted, graphs, calls>>

Dead ==
  /\ current' = None /\ spec' = None /\ imported' = None
  /\ proposal' = None /\ authorTarget' = DefaultTarget /\ learned' = {}
  /\ Return /\ UNCHANGED <<promoted, graphs, calls>>

Restart == current # None /\ Dead /\ UNCHANGED <<lines, ended>>

(* The daemon dies as it writes a skill's line, with or without all but the    *)
(* newline of it on disk.                                                      *)
DieAppending(level, whole) ==
  /\ at = "retrial" /\ Passes(level)
  /\ Put(job.exp, [skill |-> Tested(level), whole |-> whole], FALSE)
  /\ Dead

Next ==
  \/ \E s \in Structures : BuildFlowgraph(s)
  \/ Fly \/ Record
  \/ \E b \in BOOLEAN : ExportRan(b) \/ ExportFlowgraph(b)
  \/ \E e \in Exps : \E n \in DOMAIN files[e] : ImportFlowgraph(e, n) \/ OperatorEdit(e, n)
  \/ \E n \in Names, t \in Targets : Author(n, t)
  \/ \E m \in SUBSET Ladder : Authored(m)
  \/ AuthorRaises
  \/ \E g \in Gains : Promote(g)
  \/ \E l \in Levels : Retrial(l) \/ StoreFull(l)
  \/ \E e \in Exps : Switch(e)
  \/ Restart
  \/ \E l \in Levels, w \in BOOLEAN : DieAppending(l, w)

Spec == Init /\ [][Next]_vars

--------------------------------------------------------------------------------
(* What the library promises.                                                  *)

(* Every graph that an experiment's run was exported under is still in a file  *)
(* of that experiment, whatever structures shared its name, unless somebody    *)
(* wrote over it by name or its own write failed (service.py                   *)
(* _export_ran_flowgraph: every structure the ledger names stays               *)
(* downloadable).                                                              *)
EveryRunDownloadable ==
  \A e \in Exps : \A doc \in kept[e] \ taken[e] : \E n \in DOMAIN files[e] : files[e][n] = doc

(* A document's signal path as its wires draw it, from the sink back.          *)
Incoming(doc, n) ==
  {doc.wires[w].from : w \in First({x \in SignalWires(doc) : doc.wires[x].to = n})}
PathNames(doc) ==
  LET sink == CHOOSE b \in ToSet(doc.blocks) : b.kind = "sink"
      back == [n \in NamesIn(doc) |-> Incoming(doc, n)]
  IN Reverse(Follow(sink.name, back, Len(doc.blocks)))

(* A path that comes from a source through a channel, and where it forks, the  *)
(* wire listed first stays on it.                                              *)
Whole(path) ==
  /\ path[1].kind = "source"
  /\ \E i \in DOMAIN path : path[i].kind = "channel"
LeadsOn(doc, names) ==
  \A i \in 1 .. Len(names) - 1 :
    doc.wires[Min(Leaving(doc, names[i]))].to = names[i + 1]

Kinds(path) == LET drawn == OfKinds(path, Signal \cup {"channel"})
               IN [i \in DOMAIN drawn |-> drawn[i].kind]
KindsOf(chain) == [i \in DOMAIN chain |-> IF chain[i].kind = "modulator" THEN "mapper" ELSE chain[i].kind]
(* Of several blocks of a kind the last one counts.                            *)
Typed(path, kind, key) ==
  LET typed == {i \in DOMAIN path : path[i].kind = kind /\ key \in DOMAIN path[i].settings}
  IN {path[i].settings[key] : i \in {j \in typed : \A k \in typed : k <= j}}

(* What is drawn is what will run: an imported file's signal path, in the      *)
(* order its wires give, is the flowgraph's two chains, and the rates and loop *)
(* widths typed into its blocks are the flowgraph's (service.py                *)
(* import_flowgraph over grc_import.py). A transmit filter's rolloff stands    *)
(* for both; a fork whose first wire leaves the path is not followed back, and *)
(* a drawing with no channel is imported with a warning.                       *)
ImportFaithful ==
  imported # None =>
    LET names == PathNames(imported)
        path == Along(imported, names)
    IN Whole(path) /\ LeadsOn(imported, names) =>
         /\ Kinds(path) = KindsOf(spec.tx) \o <<"channel">> \o KindsOf(Front(spec.rx))
         /\ Typed(path, "pulse_shape", "sps") \subseteq {spec.sps}
         /\ Typed(path, "pulse_shape", "rolloff") \subseteq {spec.rolloff}
         /\ Typed(path, "symbol_sync", "loop_bw") \subseteq {spec.loopBw}
         /\ Typed(path, "mapper", "points") = {Points(spec.mod)}

(* A skill of an experiment's vocabulary was sought in that experiment, gained *)
(* what the gate asked, and met its own target again when it was promoted -    *)
(* unless a switch overlapped the search or a later search failed after it.    *)
(* One promote_skill said it kept is read back, unless its line was joined to  *)
(* one cut short, or a switch overlapped its own promotion, which leaves its   *)
(* name free, and a later line has that name (service.py author_skill and      *)
(* promote_skill, learned.py).                                                 *)
Earned(s, e) ==
  /\ s.exp = e \/ s.strayed
  /\ s.gain >= s.test.min /\ s.test.level <= s.test.against
  /\ s.test.against = s.target \/ s.orphaned
Joined(s, e) == \E line \in ToSet(lines[e]) : Len(line) > 1 /\ \E p \in ToSet(line) : p.skill = s

VocabularyTrue ==
  /\ \A e \in Exps : \A s \in Stored(e) \cup promoted[e] : Earned(s, e)
  /\ current # None => \A s \in learned : Earned(s, current)
  /\ \A e \in Exps : \A s \in promoted[e] :
       \/ s \in Stored(e) \/ Joined(s, e)
       \/ s.test.moved /\ s.name \in NamesOf(Stored(e))
===============================================================================
