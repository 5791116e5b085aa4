# Verification of gr-autopilot

gr-autopilot lets an agent run a radio link: it builds a flowgraph structure,
measures it, tunes it, retunes or hops the link when something interferes, and
keeps every measurement in a ledger, while an operator drives a jammer the agent
must not know about. This directory holds TLA+ models of that program, the TLC
runs that check them and the theorems TLAPS proves about them.

## 1. Inventory

Paths are below `src/gr_autopilot/`.

| Component | State it keeps | Operations | Talks to |
|---|---|---|---|
| `tools/service.py` AutopilotService | current ledger, built structure, tuning, the agent's RF knobs, last result | start / switch / rename / delete / finish an experiment, build, run, BO run, sense, retune, hop, diagnose, annotate | ledger, backend, claims, operator's reset hook |
| `ledger/store.py`, `ledger/ledger.py` | iteration rows and `ended_at` in SQLite | append, next number, annotate, conclude, read | files |
| `ledger/manager.py` | directories below the runs directory | create, open, rename, delete, list | ledger, console polls |
| `link/hopping_backend.py` | hop plan, tuned and live channel | set_condition, run_link (hop cycle) | radio worker, on_dwell hook |
| `hardware/supervisor.py`, `radio_worker.py` | child process, lock, status, death reason | start, request, poll, stop | pipes, radios |
| `hardware/jammer.py`, `interferer.py` | config, intention, live interferer, follower thread, command queue | apply, status, follow, shutdown | the transmitter process, `current_link_freq` |
| `daemon.py` | signal handlers, reset hook, operator control | main, POST /control, device report | all of the above |
| `telemetry/` | snapshot file, control state | writer, polls, POST handlers (one thread per request) | service, jammer |
| `tools/mcp_stdio.py`, `mcp_http.py` | HTTP sessions, token counts | initialize, list, call, delete | service |
| `hardware/claim.py` | owner per device and role | reserve, claim, release | service |
| `control/` | ladder position, hopping flag, escalation level | adapt, probe, escalate | the tool surface |
| `flowgraph/`, `blocks/` | specs, skills, learned skills | validate, compile, export, import | service |
| `optimize/`, `scoring/`, `perception/`, `coding.py`, `modulation.py`, other `link/` backends | none that outlives a call | numerics and signal processing | service, controller |

### What is hard here

* The service has **no lock** and the HTTP server gives every request a thread. A
  measurement takes seconds, and what a handler reads before it (experiment,
  structure, tuning) it uses or reads again after it.
* A measurement is **many radio requests** (tune, capture, tune, capture,
  restore), each of which can report an error or lose the device for good; the
  worker's lock covers one request.
* The **ledger** reads a row's number and inserts the row in two statements, and
  a conclusion reads the rows and stamps the experiment in two.
* What a row **says** (centre frequency, hop plan, structure) is assembled from
  beliefs that other operations have to keep in step with the radios.
* The **jammer** is a process owned by one thread, driven by operator requests, a
  following thread, the experiment reset and signal handlers, and it can die.
* **Experiment directories** are created, renamed and deleted while pollers open
  them, and opening creates.

PROJECT.json lists each of these at its line.

### What makes each component correct

* Session: what is read as the last result, applied as tuning or written as a row
  belongs to the experiment, the structure and the channels it is said to belong
  to; a lost radio leaves an aborted row and nothing readable; every request
  returns.
* Ledger: rows are only added, numbered upwards; a report counts every row of the
  experiment it closes, and is raised once.
* Link: a hop cycle visits its channels in order and leaves the radios where it
  found them; the channel it names is the one it is on.
* Worker: a reply answers the request it is read for; nothing succeeds after a
  death; no request waits for ever.
* Jammer: at most one transmitter, none that the instrument does not own, none
  after shutdown or an experiment change; a dead one is reported.
* Daemon: what is measured is the bench that was declared; the interferer is keyed only on
  a bench that contains it; a check that passed heard it.
* Gateway: a refused request leaves the connection in step; a page is about one
  experiment and a snapshot about the one it lies with.
* Library: every structure that ran stays downloadable; an imported file runs as drawn; a
  learned skill passed its gate.
* Manager: no experiment is lost, doubled or brought back by a reader.

## 2. Modules

### Session (tools/service.py, ledger/, link/hopping_backend.py)

`Session.tla` is the daemon on a radio bench: AutopilotService over
HoppingBackend over a radio worker, writing one ledger per experiment.

| Code | Model |
|---|---|
| `self.ledger`, `_spec`, `_tuning`, `_last_result`, `_agent_rf` | `ledger`, `spec`, `tuning`, `last`, `agentHz`, `agentHop` |
| directories, rows, `MAX(seq)`, `ended_at`, the outcome last reported | `saved`, `log`, `top`, `concluded`, `report` |
| `HoppingBackend.hop_plan`, `_tuned_hz`, `live_channel_hz` | `plan`, `tuned`, `live` |
| the channel the next capture will really be taken on; the worker's state | `lo`, `radio` |
| a request's thread: where it waits, and its locals | `at[c]`, `job[c]` |
| start/switch: `manager.*`, `_reset_session`, `_adopt` | `Change`, `Reset` (+ `Tune`), `Adopt` |
| `build_flowgraph`, `set_center_freq`, `set_hop_plan`, `clear_hop_plan`, `sense_spectrum`, `diagnose_signal` | `Build`, `Retune`, `HopOn`, `HopOff`, `Sense`, `Diagnose` |
| `run_flowgraph`, `start_bo_run` | `StartRun`, `Apply`, `Tune`, `Fly`, `Hop`, `Capture`, `Grade`, `Search` |
| `next_iteration` then `append`, for a run, an aborted run and a decision | `Number`, then `RecordRun`, `RecordLost`, `RecordDecision` |
| `annotate_ledger` | `Annotate` |
| `finish_experiment`, `_run_outcome`, `end_experiment` | `Finish`, `Outcome`, `Conclude` |

A step lasts until the thread waits: for a radio request or a database statement.
Between two waits a thread is not interrupted in a way another thread could tell,
with one simplification: the few assignments of `_reset_session` are one step.
`row` locals bound before a wait (the ledger of a decision or an aborted row) are
kept in the job; those read again after it (ledger, structure and channel of a
run's row) are read by the later action. `set_condition` on a Pluto only stores the
value, so a retune cannot report an error and can only find the radio gone;
a capture can do both. `DeviceUnavailable` is caught in `run_flowgraph` (aborted
row) and swallowed in `_reset_session`; everywhere else, and for every
`WorkerError`, the request ends where it is (`Lost`, `Done`).

A *measurement* is abstracted to the experiment and structure it was started for,
the number of captures it was to take and the channel of each one it took: what a
row may be wrong about. Bits, metrics and knob values are left out. `Room` bounds
rows when an operation starts, so no operation is cut off by the bound.

Left out: `set_tx_power` (refused on a radio bench), claims, skill authoring and
promotion, rename and delete (planned, ExperimentManager), import and export, read-only tools,
and topology findings (a daemon that has any ends at start-up, see `Daemon`).

**RunJournal.tla** is the abstract ledger: an experiment is a growing journal whose
rows follow one another (a row's number is above all before it; a note carries
the number it speaks of), that a row reopens, and whose conclusion reports all
of it. `Session` implements it by `Ledger == INSTANCE RunJournal WITH journal <- ...`.

### Jammer (`Jammer.tla`)

`hardware/jammer.py`, the process handling of `hardware/interferer.py`, and from
`daemon.py` what reaches them: `OperatorControl`, `_on_reset`, the exit handlers.

| Variable | Code |
|---|---|
| `asked` | `ControlState._state["jammer"]` |
| `lock`, `itf`, `cfg`, `intended`, `error` | `_lock`, `_itf`, `_cfg` (frequency and follow), `_intended`, `_error` |
| `follower`, `halted` | `_follow_thread`, `_follow_stop` |
| `queue`, `retired` | `_cmds` and whether `_serve_commands` has returned |
| `proc`, `parked`, `chases` | an interferer object's `_proc`, `center_freq_hz`, class |
| `link` | `current_link_freq()` |
| `at`, `job`, `slot` | where each thread waits, its locals, its `_submit` slot |

A command is `Post` (the control state takes it), `Poll` (the control state's
`get` asks the instrument for a status *before* the instrument sees the command),
`Enter` (the lock; `is_armed` decides what is wanted), `Decide` (`is_armed` again),
then `Halt`, `Join`, `Close`, `Closing` for a disarm and `Arm`, `Starting`, `Undo`
for an arm, and `Leave`. Where the code waits, another thread can act; a transmitter
can die between any two actions. `Join` passes when the follower has ended or waits
for the lock the joiner holds, which is when only the three seconds end the wait.
The follower is `Look`, `Chase`, `Chased`. The owner runs the head of `queue`; a
retune is a stop and, as the same item, a start. `RunRetire` ends every transmitter
still running, because `PR_SET_PDEATHSIG` follows the thread that launched it.

Left out: gain and kind (parameters like the frequency), the wave files, the
30 and 3 seconds themselves. A wait may run out only where the owner is slow
(`"slow"` in `Faults`) or gone. There is one HackRF: a launch fails while another
process has claimed it.

The queue is first in, first out and filled under the lock, so a command whose
caller gave up still runs before anything sent later. That is what makes the
time-outs harmless: `DisarmedIsSilent` fails as soon as giving up also takes the
command back.

### Experiment archive (`Archive.tla`, `Shelf.tla`)

`ExperimentManager` under the service's start, switch, rename and delete, with the
console's polls, which open databases (and so make them), and the TelemetryWriter,
which makes directories. `dir` maps a slug to the database in its directory, `rows` is
each database's length, `row` the databases that hold an experiment, `here` the
service's `ledger`. A request is `Ask`, `Seek` (the exists test), `Move`, `OpenLedger`,
`Describe`, `Poll` or `Remove`, and `Adopt`, which comes after the seconds a reset
takes. A run is `AppendRow` and `Emit`. What `Session` does between a switch's open and
its adoption is one wait here; what this module does is one step (`Change`) there.

`Shelf` is the abstract archive: experiments under one name each, histories that
only grow, and a delete that never takes the one being written.

### Radio worker (`RadioWorker.tla`, `Pluto.tla`, `RadioLink.tla`)

`Pluto` is the backend inside the worker process: `condition`, the flowgraph `_tb`,
both local oscillators, the waveform the transmitter repeats, the capture gate and
the sink behind it. A call is a `stage` that `Transmit` or `Sweep`/`Listen` starts,
`Open` and `Shut` take through a capture, and `Judge`/`AfterCapture` end; `Sample` is
the receiver, which never stops. Samples are counted, not looked at: whether a full
capture holds a decodable frame is a choice (`AfterCapture`).

`RadioWorker` extends it with the daemon's end. `child` is the process, `held` whether
`_proc` is set, `status` the reason in `_status`, `inq`/`outq` the pipes, `lock` the
request lock, `at`/`job` the HTTP threads. A request is `Ask`, `Enter` (lock,
`is_running`), `Write`, `Read` (a line, end of file, or the timeout), and for a silent
worker `AskToClose` and `StopWorker`; `Collect` is `_collect_death`. The child is
`Receive`, `Begin`, `Work`, `Reply`. `Probe` and `Return` are the poller's two ways to
fill `devices`. Faults: a radio unplugged (libiio then ends the process: `Abort`), a
child that does not answer in time or ever, the daemon exiting without the lock.

`RadioLink` is what the session may assume of all this: one fate per request, and no
measurement once the device is lost. `RadioWorker` implements it
(`ImplementsRadioLink`); `Session`'s `Lost` and `Done` are its two kinds of failure.

### Daemon (`Daemon.tla`, `Topology.tla`)

`Topology` is `hardware/topology.py` without state: what a declaration must say to be
loaded (`Loadable`), whether it contains an interferer (`JammerPermitted`), and where a
manifest contradicts it (`Contradicted`, `Findings`). A fact nobody declared, or that a
radio does not report, is `None` and contradicts nothing.

`Daemon` is `daemon.main` in the order of its statements, one action per part that can
fail: `ParseArgs`, `LoadTopology`, `OpenRadios` (the worker), `Build` (detection, or the
made-up manifests it falls back on), `VerifyIdentity` (which a contradicted bench does not
survive: `daemon.py:407` raises), `AllowJammer`, then with
`--verify-path` the check of `path_check.py` (`CheckLink`, `Key`, one `Sense` per reading,
`Release` for its `finally` and verdict), then serving.

| Variable | Code |
|---|---|
| `asked`, `topology` | `args`, the loaded declaration |
| `bench`, `replugs` | which radio stands at which address now, and how often that changed |
| `worker` | the radios the supervisor's child opened, and whether it still runs |
| `devices`, `findings` | `service.devices`, `service.topology_findings` |
| `jammer` | the instrument: allowed, keyed, shut down, and the operator's last word |
| `path`, `trial` | `PathReport` with its margins; the radios of the last graded trial |

`Replug` swaps or pulls a radio between any two steps. A worker that loses one ends for
good; a radio put in its place is not opened. The jammer's threads are in `Jammer` and the
worker's pipe in `RadioWorker`; here each is what the other parts see of it.

### Gateway (`Gateway.tla`)

The daemon's one port: `telemetry/server.py` with a thread per keep-alive connection,
`mcp_http.py` behind `/mcp`, and the telemetry hook of `run_flowgraph` with its
`TelemetryWriter`.

| Variable | Code |
|---|---|
| `conn` | the connection, and whether bytes of a body lie unread in it |
| `at`, `job` | where its thread stands; the request and the handler's locals |
| `session`, `issued`, `sessions` | the id a client presents, ids made, `McpEndpoint._sessions` |
| `current`, `built`, `result` | the service's ledger, whether it has a `_spec`, and whose trial `_last_result` is |
| `tmp`, `snap` | `telemetry.tmp` and `telemetry.json` of each experiment |

`Receive` reads a request; `Refuse` is `_refuse`, which drains, closes or fails to drain,
`Serve` a route that takes the body its verb and length say (`Body`, `Taken`).
`McpRefuse`, `Initialize`, `EndSession` and `BuildFlowgraph` are what `/mcp` does in one
step. What takes seconds has its own: `RunFlowgraph` (the checks), `Grade` (the result is
kept) or `LoseRadio`, `Record` (the flowgraph is read again); `Switch` (the experiment is
opened), `Reset` (result and flowgraph are dropped), `Adopt` (the new ledger). Nothing
locks the service, so anything may come between. `PickWriter`, `Look`, `Open`, `Fill` and
`Swap` are the hook, with a step wherever it touches a file or a field that others touch;
`FindLedger`, `FindSnapshot`, `Read`, `Head` are `GET /data`. A file's content is the
experiment it draws, or `None` while its text is not whole, and a thread that opened
`telemetry.tmp` goes on writing to that file after another one renamed it.
`start_experiment` is a `Switch` to an experiment that is not current.

### Library (`Library.tla`, `Flowgraph.tla`)

`Flowgraph` has no state: the skills and `validate_spec`, the ladder's efficiencies, the
Companion document that `build_grc` draws (`BuildGrc`) and the structure that `load_grc`
reads back (`LoadGrc`, refused where not `Supported`). A document is the list of its
blocks, each with the settings that can be read from it, and the list of its wires;
geometry and wording are left out. `OrderedChain` is the walk over the wires.

`Library` is what an experiment keeps beside its numbers.

| Variable | Code |
|---|---|
| `current`, `spec`, `imported` | `service.ledger`, `_spec`, the document the structure was read from |
| `files` | the `.grc` files in the experiment's directory; `None` is one cut short |
| `proposal`, `authorTarget`, `learned` | `_last_proposal`, `_last_author_target`, `_learned` |
| `lines`, `ended` | `learned_skills.jsonl` and whether it ends in a newline |
| `kept`, `taken`, `promoted` | what a client was told: exported, overwritten, kept |

A run is `Fly`, `Record`, `ExportRan` (`_export_ran_flowgraph`: its own name, or a content
address when another graph has the name); an asked export overwrites. `OperatorEdit` is
Companion: a value typed, a block made unreadable, inserted, removed or hung on a wire, or
everything listed the other way round. `Author`, `Authored`, `AuthorRaises` and `Promote`,
`Retrial`, `StoreFull` are the two skill tools around the trials that take time; `Switch`
comes from the console in the middle of them, `Restart` and `DieAppending` end the daemon.
A store reads one skill of a name, its last whole line (`Stored`), and an addition replaces
what has its name (`Remember`). A promotion that a switch overlaps writes to the store it
began with, so back in that experiment the name is still free: `VocabularyTrue` says that
only then, or on a line cut short, is a skill that was said to be kept not read back.

`OrderedChain` follows the first wire out of each block not seen before (`Follow`).
`PathNames` reads the same drawing from the sink back, and `ImportFaithful` speaks of the
drawings on which that path is whole (it reaches a source and has a channel) and on which
the first wire out of each block leads on; on others, a fork, the code takes one branch and
says nothing. `EditsAssumption`: nobody draws a second source, sink or channel.

### Mission (`Mission.tla`, `Controllers.tla`, `Band.tla`)

`Band` is the band a simulated link is in: a channel has a level, a jammer takes some
away on its channel, or, if it follows, wherever the link is for as much of a dwell as
its latency leaves (`Dwells`, the jammed share of a trial, as `_run_hopped` splits its
bits). What a jammer takes from a link is what a monitor senses over the noise, both being
10 log10(1 + INR), and a channel is occupied only where that exceeds `Margin`, the 3 dB of
`SENSE_MARGIN_DB`. A rung needs a level; `Errors` gives the error rate of bits graded some
levels over or under it, any function that does not grow with the level. A trial's errors
are those of its jammed and its clean bits counted together, and are compared with the
target and with what the agent tries to rescue. A phase error costs levels that the BO
inner loop gives back. An emitter sits on one candidate: a noise jammer wide enough to
reach into two is left out.

`Controllers` are the controllers that run from start to end over one backend: two-loop
rate adaptation, avoidance (sensed or blind), hopping, power, the hardware hop probe.
They are operators, checked in every state `Mission` reaches.

`Mission` is `AutonomousAgent`, one action per choice of `adapt`: a rung of
`_amc_search` (`TryRung`), dropping a hop plan, sensing, the next clear channel, the next
hop rate, giving up. `link` is what the tools left the radios on; `centre` and `hopping`
are what the agent thinks. `Lapse` is a tool call that raises. With `foe` set, the
framework's rounds drive it: `Round` places the jammer, `Judge` is `escalate` and the
verdict.

## 3. Runs

`MC*.tla` give the model-checking modules their small sets; each `.cfg` picks from them.

| Run | Instance | Shows |
|---|---|---|
| `session_channels` | 1 client, 2 experiments, 2 structures, 3 channels, plans of one and of two, no faults, 3 rows, BO budget 1 | rows name the channel and hop set really measured; radios return home; tuning fits |
| `session_faults` | 1 client, 2 experiments, errors and lost radios, BO budget 2, notes on 1 and 3 | the last result is current, an abort leaves none, the ledger is a RunJournal, every request returns (fair) |
| `session_concurrent` | 2 clients, faults, 1 row | types and non-None dereferences, only whole flights are graded |
| `session_race` | 2 clients | **violated** `LastResultIsCurrent` |

Bounds. Two experiments and two structures are what it takes to mix one up with
the other; two channels tell *tuned* from *measured*, a third makes a one-channel
plan differ from both; a plan of two is the shortest cycle, with a middle that a
fault can hit. Two rows make one row follow another, a third a BO run's rows as well. The concurrent run needs no
more than one row: every race it is after is between two requests. Experiments,
structures and clients are symmetric where no cfg names one and no liveness is
checked.

Fairness. `FairSpec` gives each client weak fairness on `Resume`: the thread of a
request that is being served keeps running, and `_readline` bounds every radio
request by a timeout. Nothing makes a client send a request.

Why only one client in two of the runs: with two, `LastResultIsCurrent`
and `TuningFitsStructure` really fail (`session_race` shows the first), because nothing
serialises requests; the rows of such runs are in section 6.
`session_channels` has no faults because an error in mid-cycle skips the LO
restore (`hopping_backend.py:148`) and `LinkReturnsHome` fails.

| Run | Instance | Shows |
|---|---|---|
| `jammer` | 1 caller, the exit handler, 2 followers, 2 units, 2 channels, `_cfg` starting on one; arm and chase, move, disarm, out of range; dies, refuses, slow | nothing stays keyed that is not the instrument's or has its close queued; disarmed means silent |
| `jammer_live` | the same actors, arm and chase or disarm; dies; no slow owner | an armed jammer without an error is where the report says; no launch meets a HackRF the daemon itself holds; every command returns; after a shutdown nothing is keyed, ever |

Bounds. Two units are the one in use and the one replacing it, two followers the
one stopped and the one started beside it (`Spare` keeps one for every command).
`Backlog` bounds the commands whose callers gave up: one is enough to have the
queue differ from what the callers know. One caller, the follower and the exit
handler already compete for the lock. `ParkedWhereTold` and `NeverContends` are
asked only of an owner that keeps up: with a slow one they fail, since a command
can arm again while a retune nobody waits for is still to finish.

Fairness. `FairSpec` gives strong fairness to taking the lock (an `RLock` is handed
on, its holders let go again and again), weak fairness to a thread that is running
and to the owner. No command need be sent, the link need not move, nothing need die.
`CommandsReturn` holds because the join has a timeout: without it the command and
the follower wait for each other (the mutant `JoinForever`).

The passing runs may stop (`CHECK_DEADLOCK FALSE`): after a shutdown there is no owner
and nobody has to ask for anything.

| Run | Instance | Shows |
|---|---|---|
| `archive` | an operator (start, switch, rename, delete), a measuring agent, a poller; 3 names, 2 of them saved, 4 databases | the current experiment is on disk under its name; no row is lost or buried; the archive is a `Shelf` |

Bounds. Three names are the current experiment, one to switch to and one to rename to.
`MaxMade` stops new lifecycle requests, not the ones in progress. `MaxRows` 1: a row is
there or it is lost. `Reuse = FALSE` leaves out asking again for a name that was given
up: then a directory left by a late TelemetryWriter swallows the moved one
(`manager.py:181`) and `RowsSurvive` really fails.

| Run | Instance | Shows |
|---|---|---|
| `worker` | an agent (trial, retune, sweeps of two and one, an object the protocol cannot carry) and a poller; 2 channels, 2 radios, every fault | replies go to their request; trials fly their condition, sweeps are silent, the gate is closed between captures; the worker is a `RadioLink`; every request returns |

Bounds. Two threads are one that holds the lock and one that waits; two channels tell
a trial's from a sweep's; `Window` 1 makes empty, full and overfull sinks differ. A
worker is started once (nothing in the daemon starts it again), so one death is every
death. `CHECK_DEADLOCK FALSE`: nobody has to send a request.

Fairness. `FairSpec`: a thread's own steps and the child's are weakly fair (they run),
taking the lock is strongly fair (it is let go after every request). No radio fails and
no request is sent because of fairness.

| Run | Instance | Shows |
|---|---|---|
| `daemon` | 2 addresses, 2 declared radios and a reflashed spare, 3 benches, 8 usable and 7 unusable declarations, every command line option, 2 swaps, 4 margins, 3 senses | a trial, a BO run's too, flies on the declared radios; the interferer is keyed only on a contained bench and by the check or the operator; a passed check heard it every time |

Bounds. A spare with another serial and chip contradicts every declaration that names one
of the two. Two swaps are one between opening and reading and one between reading and
using, or two radios exchanged through an empty address. The margins are silence, the
two sides of the spread around the threshold, and a loud one; with three senses the median
differs from every other statistic of them. The theorems hold without these bounds.
`CHECK_DEADLOCK FALSE`: a daemon ends.

| Run | Instance | Shows |
|---|---|---|
| `gateway` | an agent with every kind of request (sizes at, between and above the two limits, chunked, without token, from elsewhere, on verbs that read no body) and a console that may also measure what the agent built; 2 experiments, 2 sessions, a token | a refusal never leaves bytes on an open connection; a page, and the trial drawn in a snapshot, are of the experiment they name unless a switch came in between; a snapshot is whole unless two writers overlapped |

Bounds. Sizes are counted in units of 64 KiB: 1 is `_MAX_BODY`, 16 the endpoint's limit.
Two clients overlap every pair of handlers; two experiments are the one named and the
other, and exchanging them changes nothing (`SYMMETRY`; the run has no liveness).
`CHECK_DEADLOCK FALSE`: nobody has to send a request.

| Run | Instance | Shows |
|---|---|---|
| `library` | 2 experiments, 2 structures of one name and an invalid one, a ladder of 3 rungs, 2 targets, gates and error levels; 1 edit, up to 3 calls on graphs and 4 on skills | every exported run's graph is still in a file; an import runs what is drawn; every skill of the vocabulary was earned where it is used, and one said to be kept is read back unless joined to a line cut short or, after a switch in mid-promotion, replaced by name |

Bounds. Two graphs of one name and an operator's third need both kinds of file names.
One edit of each kind on each block and wire is what the walk has to cope with. Two
targets tell an old proposal's from the last one's, two gates lie on both sides of the one
gain there is. Four calls on skills are author, author that fails, promote, and one more
after a restart; or two promotions of one name, a switch and its return in the first: without
its last disjunct `VocabularyTrue` is violated there. Calls on files and on skills share
only the reset, so `MaxMixed` keeps behaviours with many of both out. `CHECK_DEADLOCK FALSE`: the calls run out.

| Run | Instance | Shows |
|---|---|---|
| `mission` | 3 channels, 3 hop rates, 4 rungs one of them coded, every world of 4 levels, 3 jammer strengths (one of them under the sensing margin) and 4 latencies; or a race against one of 7 jammers | a report is the link it leaves; a restored link carries its best rung and nothing is given up while a setting within reach would work; verdicts stand; least power; probe and analysis agree |

Within reach are every channel and every hop rate, with one exception, which is the code's:
`adapt` tries other channels only when some channel senses occupied, so a fixed jammer on
the agent's own channel that stays under the margin, yet costs a marginal link its last
rung, is `Overlooked` and the agent gives up on that channel and the hop rates (section 6).
The run has such worlds: a clean level of 1, a jammer that takes 1, a margin of 1.

Bounds. `BitErrorRates` makes each mixture occur: one of three channels jammed by a level
meets, by two levels of which one is a phase error's is rescuable, by more fails; a follower
that catches a fifth of each dwell likewise. Three rates make a follower that every hop
beats, one that none does and those between; the jammers' floors lie on both sides of the fastest dwell, so that all of
"agent", "jammer" and the raised error occur, and `MaxRounds` lets the longest race end.
`Lapses` leaves out the stage in which a failing call really breaks `ReportNamesTheLink`
(section 6). No liveness: every loop of `adapt` is bounded by its lists, and the run has
`CHECK_DEADLOCK FALSE` because a race ends.

## 4. Proofs

**SessionProofs** proves `Spec => []TypeOK` for any number of clients and any
faults. `TypeOK` is not inductive: a thread carries locals from one wait to the
next. `TypeInv` adds `JobsFit`: at each place, the locals fit what the next step
does with them (`Fit`: a hop has channels left, a tune has somewhere to go, a
record has an experiment), and the places only reached with an experiment have
one (`NeedsLedger`). One lemma per action.

On top of `TypeInv`, the same module proves `WholeFlightsOnly` for
any number of clients. `FlightInv` adds `Flights`: at each place, what a thread
has flown and what it still has to fly make up its plan, which only its own thread
touches; a fault takes the thread out of its flight.

Its second part assumes `Alone` (any two clients are the same one) and proves
`LastResultIsCurrent` and `TuningFitsStructure`, with faults, hop plans and any number of rows, channels
and experiments. The strengthening `SerialInv` says what the one thread's locals
agree with: the session's experiment and structure while it measures (`Steady`),
the next number while it is about to record, the row count while it is about to
conclude; and that `top` bounds the numbers in a log (`Rows`). From the same
invariant, `LedgerStep` shows what any step can do to the ledger, `ShownAppend`
that showing a log commutes with appending to it, and `SessionIsARunJournal`
that Session implements RunJournal.

From there, the link. `Planned` (the backend's plan is the agent's hop set) and `Course`
(on a hop cycle the channels flown, the one under way and those left make up the plan)
give `RealHopsFlewTheirPlan`, whatever fails. `Believed` (the channel a row would name is
the one last tuned to) and `Home` (where the radios are at each place of a call, and where
a hop cycle will put them back) give `CentreIsMeasured` and `LinkReturnsHome`; these
need more. `CentreWasMeasured` assumes that no request fails with an error, which in
mid-cycle skips the way back, and that a daemon started in an experiment declares no
channel, since nothing tunes it (section 6). `LinkComesHome` assumes no faults.
`AbortLeavesNoResult` holds whatever fails, by `NothingLeft`: after an abort the last
result is None unless a run that was graded since is about to be recorded. That `Alone`
is needed TLC shows on `session_race` with two clients for the three properties of the link.

**DaemonProofs** proves the three properties of `Daemon` for every set of radios,
addresses, declarations and command lines, any number of swaps and senses, and every
threshold, from `ThresholdAssumption`, `BenchAssumption` and `NoneIsNoFlag`. None of them
is inductive. `DaemonInv` adds `Interlocked` (where the program is while the interferer is
allowed or keyed), `Identified` (a worker that still runs holds the radios at the
addresses, so manifests read from the addresses are its own, and past the identity check
they contradict nothing, for the daemon dies of what they contradict) and `Checked` (a verdict is about the senses that are kept). One lemma
per part, one step per action. `PassedHeard` needs one more idea: half of the senses
reaching the margin means that one does, and the spread bounds every other from it.

**GatewayProofs** proves `PageIsTrue` and `InStep` for any number of connections,
experiments and kinds of request and any two limits, from `RequestAssumption` (what a
request may hold), `LimitAssumption` and `NoneAssumption`. `PageIsTrue` is not inductive: that a snapshot which does not parse was
crossed depends on who still has which file open. `GatewayInv` adds `OwnResult` (a result
nobody overtook since its trial began is the current experiment's), `Fresh` (a thread
nobody overtook holds what is current), `FilesTrue` (a whole text that nobody overtook is
of its own experiment, in either file) and `Alone` (a file one writer alone has had is
torn only while that writer is at `fill`; whoever writes to a file that is in place has
marked it crossed). `Swap` is the hard step, for it renames the file under every other
writer that has it open. `InStep`
needs that what `_refuse` does not drain it closes on (`RefusedWhole`).

**JammerProofs**, for any number of callers, followers, units and channels and any
faults, proves `TypeOK`, `NoOrphanTransmitter` and `DisarmedIsSilent`, and for an owner
that answers in time (`"slow" \notin Faults`) `NeverContends` and `ParkedWhereTold`. The
argument: the lock leaves one thread among the places of a command (`JammerInv`'s
types); whoever waits for an answer holds the lock and all that stands behind its item in
the owner's queue only retires (`QueueInv`); whatever is keyed or about to be launched
is the instrument's, about to be, or has its close behind it (`Tended`, `Launching`);
what is not wanted is not (`Wanted`). With an answering owner `PromptInv` adds that
nothing is left in the queue by a caller that gave up (`Attended`) and that the
instrument's parameters are the transmitter's (`Faithful`). The hypothesis is needed: with `"slow"`
TLC finds both properties violated, by a retune that launches after the caller that gave up
on it, and by `_arm` giving up after the configuration was stored.

**WorkerProofs** has no hypothesis beyond the constants' types and proves `TypeOK`,
`TrialFliesItsCondition`, `SweepIsSilent`, `GateClosedBetweenCaptures`, `RepliesMatch` and that
RadioWorker implements RadioLink, for any threads, devices, requests and faults.
`WorkerInv` is `PlutoInv` (the flowgraph fits the stage of the call: candidates only
during a sweep, a capture is set up before it is armed, the gate is open during one
only), `Owners` (a thread is inside a request exactly when it has the lock), `Wire` (at
most one exchange is in the pipe and it is the waiting lock holder's; when nobody waits,
the pipe is clean or the worker is down) and `Books` (nobody asks before the worker is
up; dead, silent or stopped stays so). `Wire` is what makes `RepliesMatch` hold without
request numbers: a reader that gives up stops the worker before it lets go of the lock.
For the refinement, each step changes at most one request's fate, and a device that is
lost stays lost.

**ArchiveProofs** proves `CurrentIsThere`, `RowsSurvive` and that Archive implements
Shelf, for any number of names, databases, rows, measuring agents and polling consoles, with
one operator (`OneOperator`: at most one thread asks to start, switch, rename or
delete, and a name given up is not asked for again). `ArchiveInv` is `Disk` (a database
that was made is in one directory or was deleted), `Leftovers` (a directory without a
database belongs to a name given up or to the experiment being started; a poll finds the
database it saw or its name was given up) and `Operation` (what the operator counts on at
each place: the name it found free is still free, the directory it moves is the current
one's). Both halves of the hypothesis are needed. With two operators TLC shows a console deleting
the experiment that a start has opened and not adopted (`CurrentIsThere`) and a start
interleaved with a switch or a rename onto its name (`RowsSurvive`): the manager takes no lock. With
`Reuse` both fail as described under `archive`.

**LibraryProofs** proves `EveryRunDownloadable` and `VocabularyTrue` without further
hypotheses.
`FilesInv`: every graph an export answered for is in a file or was written over by name
(`Safe`), and so is the graph each content-addressed file is named after; the second is
what lets `_export_ran_flowgraph` return when such a file exists, without reading it.
`VocabularyInv`: while a search or a retrial waits, its skill is at home in the
experiment it began in or marked as strayed, and aimed at the target that stands or
marked as orphaned (`JobFits`, `ProposalFits`); every piece of every line in every store
was earned, cut short or not (`LinesEarned`); and what was promised is on a line by itself or
on one that others were joined to (`PromisesTold`), which no append takes back. That a line
by itself is read is a second invariant, `NamesInv`: of two lines of one name the earlier was
written by a promotion that a switch overlapped (`Repeats`), because the store in use knows
every other name in its file (`Learned`), so that a promotion under way found its name free
(`Free`). `LastIsRead` finds the last line of a name by the least-number principle.

`ImportsStayFaithful` assumes of the operator what `EditsAssumption` names: nobody draws a
second source, sink or channel (the code takes the first of each and is not the judge of
such a drawing). The argument has three parts. *The walk* (`FollowThrough`,
`ChainIsPath`): a path read from the sink back (`PathNames`), which is whole and on which
every first wire leads on, is what the walk from the source finds, block for block; both
walks stop at a block seen before, so a wire drawn backwards does not hold them up.
*The reading* (`KindsAgree`, `OneChannel`, `TypedIs`, `ModTyped`, `LoadFaithful`): on such
a path the chains before and after the channel are the kinds drawn, and the setting that
counts is the one typed last. *The documents* (`WellDrawn`): a name
is of one kind, source, sink and channel occur once, wires run between listed blocks, and
nothing feeds the source or is fed by the sink. A document the daemon draws from a
validated structure is well drawn (`DrawnIs`, `WellBuilt`), and each of the operator's
edits leaves it so (`EditedDrawn`): `ImportInv` says so of every file and of the document
the current structure was read from. It holds for any number of edits; only the run
needs `MaxEdits`.

`ExportsReadBack` is the round trip that `ImportFaithful` does not promise: that an
unedited export is supported at all, and what it loads as (`ReadBack`). `BuiltChain`: the
walk over an export's wires passes its blocks from the source to the sink, although the
noise source is listed and wired between them. `ChainsBack`: each block's skill is the one
it was drawn for, since no two constellations have as many points (`PointsTell`).
`SettingsBack`: a setting comes back where a block carries it, and is the importer's own
default where none does: a structure without a pulse shape comes back with 4 samples per
symbol, whatever it had; coding is in no document. The hypothesis `OneDecision` excludes
structures that decide bits in the middle of a chain and modulate again, which validate:
the decisions are not drawn, so what is read back need not validate.

**MissionProofs** proves the five properties of `mission` for any channels, hop rates,
ladders, jammers and conditions. `ReportNamesTheLink`, `ChoosesWell` and `VerdictsStand`
assume `NoLapseInHop`: no tool call fails between `set_hop_plan` and the end of its search.
Without it the first is false (section 6). The invariant is `TypeInv`, `Aware` (the agent
knows its channel always, its hop plan between epochs), `BestSoFar` (of the rungs tried,
`best` is the most efficient that the link carries), `Tried` (what is no longer on the list
has failed: a channel is occupied, failed, still to be tried or being tried) and `Racing`.
An occupied channel is never tried, yet nothing is lost: when the others have failed, a
link at rest on it fails as well, for all of its bits are jammed (`JammedFails`). Where none
is occupied the others are not tried either, and `UnseenFails` says when they fail with the
agent's own: unless it overlooks a jammer there (`Sites`). What is compared is the
jammed share of two trials in conditions otherwise alike: the smaller share has no more
errors (`SmallerShare`, `FewerErrors`, from `Errors` not growing with the level and the
jammed level being the lower), so it carries what the larger does (`CarriesMore`). The same
lemma shows that a follower at its slower floor is still out-hopped, although a hop
that is caught in part may meet the target. Nothing is assumed of how steep `Errors` is.

`LeastPower` and `ProbeSeesTheEvasion` need types only. They are about recursive
functions, so the module first proves a least-number principle from the library's
`WFMin` (`LeastNumber`), from it induction over a set of numbers (`Upward`) and that a
function defined step by step on 0 .. m is what its steps say (`RecursionIn`); with these,
that every halving keeps a failing lower and a meeting upper end, a power of two apart.
The library's own induction theorems take an operator as a parameter and cannot be used.
The probe rests on `SameRemainder`: numbers with one remainder differ by a multiple.

Liveness (`RequestsReturn`, `CommandsReturn`, `ShutdownSilences`) and
everything about ENABLED stay with TLC.

## 5. Not modelled

* **Numerics**: waveforms, synchronisation, decoding, the convolutional code, metrics, the
  surrogate model of the Bayesian search, statistics of sensed power. A trial's outcome, a
  reading or a metric is a choice among the cases the control tells apart.
* **Claims** (`hardware/claim.py`): one dictionary written by one request at a time.
* **The rest of the MCP surface**: the stdio loop, token counts, the manifest and prompts.
* **Wording**: rendered ledger rows, compact tables, tool descriptions and prompts,
  logging, the wiki, the console, a document's layout. No part of the program reads them
  back.
* **Scripts**: campaign drivers and figures over the same service and link.
* **Type invariants** are checked for `Session`; `Jammer`'s and `RadioWorker`'s `TypeOK`
  and `Daemon`'s `Shapes` are proved, not run, and the proofs of `Mission`, `Library` and
  `Archive` state their own.

## 6. Disagreements without a run

The violation runs show the rest. These were shown by runs or instances that the project
no longer keeps, so that its runs stay few:

* A daemon started with `--experiment` runs no `_reset_session`, so nothing tunes the
  radios to the declared channel (`service.py:129-150`; `_link_freq_hz`'s comment at
  514-515 says the reset already did). `session_channels` with `StartupExp = e1`
  violates `CentreIsMeasured`.
* Two requests at once: a run whose capture is over when another thread builds or switches
  files its row under the new structure or in the new experiment (`service.py:645` reads
  `self.ledger` and `self._spec` again); a row that comes between `finish_experiment`'s
  reading of the rows and its stamp (381-395) is in no outcome and reopens nothing; two
  rows take one number between `next_iteration` and the insert (`ledger/store.py:121`). With
  two clients `session_faults` violates `IsARunJournal`.
* A hop plan of one channel is recorded as hopping and passed through untuned
  (`hopping_backend.py:117`, against `service.py:456-460`).
* `live_channel_hz` does not follow a retune made while a hop plan is set
  (`hopping_backend.py:89`, against its module comment at 14-16).
* A health poll whose worker dies under it reports both radios as gone, the healthy
  one too (`supervisor.py:311-314`, against 290-292).
* A jammer that dies between `POST /control`'s first status and `apply`'s `is_armed`
  (`jammer.py:130`) turns a parameter change into a disarm: `_intended` becomes False and
  the death is never reported, against the module comment at 20-23.
* A tool call that raises between `set_hop_plan` and the end of its search
  (`mission.py:152-155`) leaves `_hopping` False on a hopping link: the next epoch
  adapts on the hop plan and reports a single channel. `mission` with `"hopped"` in
  `Lapses` violates `ReportNamesTheLink`.
* A follower too weak to break the link makes `escalate` return None to an agent that
  is not hopping; the announcement then formats a hop rate of None (`arms_race.py:113`)
  and raises, against `escalate`'s docstring ("it concedes -> the agent wins").
* A fixed jammer on the agent's channel that adds no more than 3 dB, on a link with less
  than that to spare, is not sensed (`interference_sim.py:79,96`): `mission.py:132-160`
  takes it for a follower (148: "sensed clear yet still broken -> reactive follower"), tries
  no other channel and says "no countermeasure worked (SNR-limited)" although a retune
  would carry a rung. `mission` violates `ChoosesWell` with `Sites` always every channel.
* `hw_hopping.py:13-15` says a follower one or more dwells behind is evaded as long as
  consecutive channels differ; a follower a whole number of cycles behind is not
  (`ProbeSeesTheEvasion` leaves it out). Line 14 puts the knee at `tau == dwell`;
  rounding puts it at half a dwell.
* `_on_reset` reads `is_armed` without the instrument's lock (`daemon.py:440`). Between the
  stop and the start of a follower's chase (`interferer.py:236-238`) nothing runs, so the
  reset passes and the transmitter is keyed again in the new experiment, against the
  comment at 437 ("must not inherit a keyed interferer").
* A frequency that is not a number makes `dumps` raise ValueError (`supervisor.py:255`),
  which is taken for a broken pipe: `_collect_death` reads the stderr of a live worker to
  its end with the lock held, against 228 ("a read must never wait for ever").
  `RadioWorker` has the request (`"nan"`); put among the agent's, `RequestsReturn` fails.
* `delete_experiment` refuses only the ledger that is current now (`service.py:347`); a
  switch that has opened the database adopts it seconds later (306-318), against 342-345.
* With `--verify-path` a passed check may hold a sense below the 10 dB margin: 4, 10 and 10
  have their median and their spread within bounds (`path_check.py:157-160`).
* On a bench that contradicts its declaration the daemon does not refuse experiments: the
  text of `daemon.py:405-407` joins `Finding` objects as if they were strings, and the
  TypeError ends `main`, against that text ("Experiments are refused until this is
  resolved") and `service.py:157-160`. `VerifyIdentity` ends the daemon. Only this keeps
  `start_bo_run` off such a bench: it does not ask (`service.py:1186`), unlike
  `run_flowgraph`. With an identity check that goes on to serve, `daemon` violates
  `MeasuresDeclaredBench`.
* Two trials graded at once write through one temporary file: `telemetry.json` can then be
  half a text, against `writer.py:3-5` ("never reads a half-written snapshot").
* A chunked body is never read by a served route, nor is the body of a GET or DELETE: the next
  request on the connection is read out of it (`server.py`, `mcp_http.py`).
* `import_flowgraph` after `export_flowgraph` runs another loop bandwidth than before:
  `gr_spec.py:49` runs 2*pi*0.01 by default, `gr_blocks.py:45` draws 2*pi*0.02, against
  `grc_export.py:8-10` ("the same loop bandwidth"). A tuned rolloff is not what is drawn,
  and coding is in no document.
* An import follows the first wire out of each block (`grc_import.py:91-114`): a branch
  listed first cuts the signal path short, and an unknown block on a branch listed later is
  passed over, against 15-16 ("reported by name rather than ignored"). A receive filter's
  rolloff is ignored when the transmit filter has one, against 11-13.
* `export_flowgraph` writes over `<structure>.grc`, which the automatic export keeps
  (`service.py:678-681`: "a hand edit is never lost"); a content-addressed file whose first
  write failed is taken for the graph ever after.
* `author_skill` that raises leaves its target beside an older proposal, which
  `promote_skill` then tests against it; one that overlaps a switch leaves the old
  experiment's proposal in the new one. A promoted skill appended after a line cut short
  is lost at the next reload (`learned.py:50-53` reads such a line as one bad line). So is
  one whose promotion a switch overlapped, once its name, which the reopened store does not
  know, is authored and promoted again: of two lines of a name `learned.py:55` keeps the last,
  against `promote_skill`'s docstring ("PERSIST it into the agent's vocabulary").
* `validate_spec` accepts a modulator in the receive chain (no kinds are demanded of the
  middle of a chain, only types that fit).
* 32-QAM: eight pairs of neighbours inside the cross's grid, (1,3)-(3,3) and (3,1)-(5,1) in
  each quadrant, differ in three bits, against `modulation.py:10-12` and the test comment
  at `tests/test_modulation.py:41-43`.
* A trial that a switch and a build overtake is drawn as the next experiment's: the reset
  drops the result (`service.py:250`), the trial still out stores its own (640), and the
  hook asks for the file afterwards (`daemon.py:87`), against 81-83. `gateway` violates
  `PageIsTrue` without the words "unless another was selected".

## 7. Plan

Every safety property of the runs is a theorem now, and what an import makes of an export
is one as well. What could follow is `RadioWorker` under `Session`: the composition of the
two through `RadioLink`, so that a session's fates of a request are those the worker's
pipe allows.
