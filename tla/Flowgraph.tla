------------------------------- MODULE Flowgraph -------------------------------
(* Flowgraph specifications and their Companion files: the skills table, the   *)
(* whole-graph validation, the ladder's efficiencies (flowgraph/spec.py,       *)
(* skills_registry.py, builder.py, control/objective.py) and the documents     *)
(* grc_export.py draws and grc_import.py reads. No state.                      *)
EXTENDS Integers, Sequences, SequencesExt, FiniteSetsExt

CONSTANTS None, DigitFirst   \* structure ids that begin with a digit

(* A constellation's bits per symbol, and its table's points.                  *)
Bits == [bpsk |-> 1, qpsk |-> 2, psk8 |-> 3, qam16 |-> 4, qam32 |-> 5, qam64 |-> 6, qam256 |-> 8]
Modulations == DOMAIN Bits
Points(m) ==
  [bpsk |-> 2, qpsk |-> 4, psk8 |-> 8, qam16 |-> 16, qam32 |-> 32, qam64 |-> 64, qam256 |-> 256][m]

(* The elements of a sequence that are in a set, in their order.               *)
Where(s, T) ==
  LET kept[i \in 0 .. Len(s)] ==
        IF i = 0 THEN <<>> ELSE IF s[i] \in T THEN Append(kept[i - 1], s[i]) ELSE kept[i - 1]
  IN kept[Len(s)]
OfKinds(s, kinds) == Where(s, {x \in ToSet(s) : x.kind \in kinds})

(* The least of some indices, as a set that is empty when there are none.      *)
First(S) == {i \in S : \A j \in S : i <= j}

--------------------------------------------------------------------------------
(* Skills.                                                                     *)

Skill(kind, mod) == [kind |-> kind, mod |-> mod]
Modulator(m) == Skill("modulator", m)
Demod(m) == Skill("demod", m)
PulseShape == Skill("pulse_shape", None)
MatchedFilter == Skill("matched_filter", None)
SymbolSync == Skill("symbol_sync", None)
Costas == Skill("costas", None)
Agc == Skill("agc", None)
Channel == Skill("channel", None)

Skills == {Modulator(m) : m \in Modulations} \cup {Demod(m) : m \in Modulations}
            \cup {PulseShape, MatchedFilter, SymbolSync, Costas, Agc, Channel}
Takes(s) == IF s.kind = "modulator" THEN "bits" ELSE "complex"
Gives(s) == IF s.kind = "demod" THEN "bits" ELSE "complex"

ValidateChain(chain, first, last) ==
  /\ chain \in Seq(Skills \ {Channel}) /\ chain # <<>>
  /\ \A i \in 1 .. Len(chain) :
       Takes(chain[i]) = IF i = 1 THEN first ELSE Gives(chain[i - 1])
  /\ Gives(Last(chain)) = last

(* A rolloff is in hundredths.                                                 *)
ValidateSpec(spec) ==
  /\ spec.mod \in Modulations
  /\ ValidateChain(spec.tx, "bits", "complex") /\ ValidateChain(spec.rx, "complex", "bits")
  /\ LET mods == OfKinds(spec.tx, {"modulator"})
         demods == OfKinds(spec.rx, {"demod"})
     IN mods # <<>> /\ Head(mods).mod = spec.mod /\ demods # <<>> /\ Last(demods).mod = spec.mod
  /\ spec.sps \in 1 .. 16 /\ spec.rolloff \in 0 .. 100

Link(id, m, coding) ==
  [id |-> id, mod |-> m, coding |-> coding,
   tx |-> <<Modulator(m), PulseShape>>, rx |-> <<MatchedFilter, SymbolSync, Demod(m)>>,
   sps |-> 4, rolloff |-> 35, loopBw |-> None]

--------------------------------------------------------------------------------
(* The ladder: a rung is a modulation and a code, its efficiency in hundredths *)
(* of a bit per symbol.                                                        *)

Rung(m, coding) == [mod |-> m, coding |-> coding]
Coded(rung) == rung.coding # None
CodeRate(coding) == CASE coding = "r12" -> 50 [] coding = "r34" -> 75 [] OTHER -> 100
Efficiency(rung) == Bits[rung.mod] * CodeRate(rung.coding)

--------------------------------------------------------------------------------
(* Companion documents: blocks in the order they are listed, named by number,  *)
(* and wires in theirs. A block's settings are the parameters that can be    *)
(* read back out of it: an expression a hand made unreadable has none.         *)

Block(name, kind, settings) == [name |-> name, kind |-> kind, settings |-> settings]
Setting(key, value) == [k \in {key} |-> value]
Nothing == [k \in {} |-> 0]
Noise == -1
Wire(from, to) == [from |-> from, to |-> to]

Signal == {"mapper", "pulse_shape", "matched_filter", "symbol_sync", "costas", "agc"}
Structural == {"source", "sink", "noise", "rotator", "variable", "null_sink", "throttle"}

(* What _node_for draws for a skill; the demodulators are not blocks.          *)
NodeFor(spec, s, name) ==
  CASE s.kind = "modulator" -> Block(name, "mapper", Setting("points", Points(spec.mod)))
    [] s.kind = "pulse_shape" ->
         Block(name, s.kind, [k \in {"sps", "rolloff"} |-> IF k = "sps" THEN spec.sps ELSE spec.rolloff])
    [] s.kind = "matched_filter" -> Block(name, s.kind, Setting("rolloff", spec.rolloff))
    [] s.kind = "symbol_sync" ->
         Block(name, s.kind, Setting("loop_bw", IF spec.loopBw = None THEN 126 ELSE spec.loopBw))
    [] OTHER -> Block(name, s.kind, Nothing)

(* The symbol decision belongs to the scoring layer: FRAMEWORK_REALIZED.        *)
Placed(chain) == Where(chain, {s \in ToSet(chain) : s.kind # "demod"})

(* A document's id is a Python identifier.                                     *)
FlowId(id) == IF id \in DigitFirst THEN "fg_" \o id ELSE id

(* What is drawn, from the source to the sink. The tuning a service holds never *)
(* has a freq_offset_hz (TUNABLE_KNOBS), so no document carries the rotator.   *)
Drawn(spec) ==
  <<Skill("source", None)>> \o Placed(spec.tx) \o <<Channel>>
    \o Placed(spec.rx) \o <<Skill("sink", None)>>

BuildGrc(spec) ==
  LET drawn == Drawn(spec)
      at == Len(Placed(spec.tx)) + 1
      path == [i \in 1 .. Len(drawn) |-> NodeFor(spec, drawn[i], i - 1)]
      wires == [i \in 1 .. Len(drawn) - 1 |-> Wire(i - 1, i)]
  IN [id |-> FlowId(spec.id),
      blocks |-> InsertAt(path, at + 1, Block(Noise, "noise", Nothing)),
      wires |-> InsertAt(wires, at + 1, Wire(Noise, at))]

--------------------------------------------------------------------------------
(* Reading a document back.                                                    *)

NamesIn(doc) == {b.name : b \in ToSet(doc.blocks)}
BlockAt(doc, n) == CHOOSE b \in ToSet(doc.blocks) : b.name = n
Along(doc, names) == [i \in DOMAIN names |-> BlockAt(doc, names[i])]

SignalWires(doc) ==
  LET noisy == {b.name : b \in {x \in ToSet(doc.blocks) : x.kind = "noise"}}
  IN {w \in DOMAIN doc.wires : doc.wires[w].from \notin noisy}

(* The first wire listed out of a block is the one that is followed.           *)
Outgoing(doc, n) ==
  {doc.wires[w].to : w \in First({x \in SignalWires(doc) : doc.wires[x].from = n})}

Unfed(doc) ==
  LET fed == {doc.wires[w].to : w \in SignalWires(doc)}
  IN {i \in DOMAIN doc.blocks : doc.blocks[i].name \notin fed}
Starts(doc) ==
  LET unfed == Unfed(doc)
      sources == {i \in unfed : doc.blocks[i].kind = "source"}
  IN IF sources # {} THEN sources ELSE unfed

(* A bug to catch: a walk in the order blocks are listed.                      *)
ListedChain(doc) == SelectSeq(doc.blocks, LAMBDA b : b.kind # "noise")

(* From a name on, as long as there is a next one not seen before.             *)
Follow(start, next, steps) ==
  LET walk[i \in 0 .. steps] ==
        IF i = 0 THEN <<start>>
        ELSE LET seen == walk[i - 1]
                 more == next[Last(seen)] \ ToSet(seen)
             IN IF more = {} THEN seen ELSE Append(seen, CHOOSE n \in more : TRUE)
  IN walk[steps]

OrderedChain(doc) ==
  LET start == doc.blocks[Min(Starts(doc))].name
      next == [n \in NamesIn(doc) |-> Outgoing(doc, n)]
  IN Along(doc, Follow(start, next, Len(doc.blocks)))

(* The last of some blocks a setting can be read from, or the first.           *)
Readable(chain, kind, key) ==
  {i \in DOMAIN chain : chain[i].kind = kind /\ key \in DOMAIN chain[i].settings}
LastSetting(chain, kind, key, default) ==
  LET from == Readable(chain, kind, key)
  IN IF from = {} THEN default ELSE chain[Max(from)].settings[key]
FirstSetting(chain, kind, key, default) ==
  LET from == Readable(chain, kind, key)
  IN IF from = {} THEN default ELSE chain[Min(from)].settings[key]

MapperMod(b) ==
  {m \in Modulations : "points" \in DOMAIN b.settings /\ b.settings["points"] = Points(m)}

SkillFor(b) ==
  IF b.kind = "mapper" THEN Modulator(CHOOSE m \in MapperMod(b) : TRUE) ELSE Skill(b.kind, None)
SkillsOn(chain) ==
  LET drawn == OfKinds(chain, Signal) IN [i \in DOMAIN drawn |-> SkillFor(drawn[i])]

Channels(chain) == {i \in DOMAIN chain : chain[i].kind = "channel"}
BeforeChannel(chain) ==
  IF Channels(chain) = {} THEN chain ELSE SubSeq(chain, 1, Min(Channels(chain)))
AfterChannel(chain) ==
  IF Channels(chain) = {} THEN <<>> ELSE SubSeq(chain, Min(Channels(chain)) + 1, Len(chain))
Mappers(chain) == {i \in DOMAIN chain : chain[i].kind = "mapper"}

(* load_grc raises UnsupportedFlowgraph on anything else.                      *)
Supported(doc) ==
  /\ Starts(doc) # {}
  /\ LET chain == OrderedChain(doc) IN
     /\ \A i \in DOMAIN chain : chain[i].kind \in Signal \cup Structural \cup {"channel"}
     /\ Mappers(chain) # {}
     /\ \A i \in Mappers(chain) : MapperMod(chain[i]) # {}

(* A pulse shape's rolloff counts before a matched filter's, wherever it lies. *)
ReadRolloff(chain) ==
  LastSetting(chain, "pulse_shape", "rolloff", FirstSetting(chain, "matched_filter", "rolloff", 35))

LoadGrc(doc) ==
  LET chain == OrderedChain(doc)
      m == SkillFor(chain[Max(Mappers(chain))]).mod
  IN [id |-> doc.id, mod |-> m, coding |-> None,
      tx |-> SkillsOn(BeforeChannel(chain)),
      rx |-> Append(SkillsOn(AfterChannel(chain)), Demod(m)),
      sps |-> LastSetting(chain, "pulse_shape", "sps", 4),
      rolloff |-> ReadRolloff(chain),
      loopBw |-> LastSetting(chain, "symbol_sync", "loop_bw", None)]
===============================================================================
