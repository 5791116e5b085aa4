-------------------------------- MODULE Gateway --------------------------------
(* The daemon's one port (telemetry/server.py, tools/mcp_http.py,              *)
(* telemetry/writer.py): a thread per connection reads requests off a          *)
(* keep-alive stream, refuses or serves them, opens and ends tool sessions,    *)
(* builds, measures and selects experiments for one service without a lock,    *)
(* draws a snapshot after every graded trial, and assembles the console's page *)
(* from the ledger, the snapshot and the experiment that are current when it   *)
(* asks for each.                                                              *)
EXTENDS Naturals, FiniteSets

CONSTANTS Clients, Exps, None,
          Requests,             \* client -> what it may send
          MaxBody, McpMaxBody,  \* _MAX_BODY and mcp_http.MAX_BODY
          TokenSet,             \* the daemon was given a --token
          MaxSessions

Paths == {"mcp", "experiments", "control", "data", "other"}

(* A result is a trial of the experiment that was current when it began. A     *)
(* file is the trial that is drawn in it, or None while its text is not whole. *)
(* moved: another experiment was selected after the trial began and before its *)
(* drawing had the result and the file's name; crossed: a second writer has    *)
(* opened the file, or put it in place.                                        *)
Result == [exp : Exps, moved : BOOLEAN]
File == [exp : Exps \cup {None}, moved : BOOLEAN, crossed : BOOLEAN]

(* A body has a length or comes in chunks.                                     *)
ASSUME RequestAssumption ==
  \A c \in Clients : \A r \in Requests[c] :
    /\ r.path \in Paths /\ r.exp \in Exps \cup {None}
    /\ r.call = "switch" => r.exp \in Exps
    /\ r.size \in Nat /\ r.chunked \in BOOLEAN /\ (r.chunked => r.size = 0)

ASSUME LimitAssumption == MaxBody \in Nat /\ McpMaxBody \in Nat

ASSUME NoneAssumption == None \notin Exps \cup Result \cup File

VARIABLES
  conn,      \* client -> is its stream open, and does an unread body lie in it
  at, job,   \* client -> where its thread stands, and the thread's locals
  session,   \* client -> the session id it presents, or 0
  issued,    \* session ids given out so far
  sessions,  \* the ids the endpoint knows
  current,   \* the selected experiment, or None
  built,     \* is a flowgraph built
  result,    \* the last graded trial, or None
  tmp, snap  \* experiment -> what telemetry.tmp and telemetry.json hold

vars == <<conn, at, job, session, issued, sessions, current, built, result, tmp, snap>>
service == <<current, built, result>>
files == <<tmp, snap>>
mcp == <<session, issued, sessions>>

(* moved: the selected experiment changed while the thread was at this.        *)
Idle == [request |-> None, trial |-> None, rows |-> None, dir |-> None, drawn |-> None,
         file |-> None, shown |-> None, moved |-> FALSE]

Init ==
  /\ conn = [c \in Clients |-> [open |-> TRUE, unread |-> FALSE]]
  /\ at = [c \in Clients |-> "idle"] /\ job = [c \in Clients |-> Idle]
  /\ session = [c \in Clients |-> 0] /\ issued = 0 /\ sessions = {}
  /\ current \in Exps \cup {None} /\ built = FALSE /\ result = None
  /\ tmp = [e \in Exps |-> None] /\ snap = [e \in Exps |-> None]

Goto(c, place, j) == at' = [at EXCEPT ![c] = place] /\ job' = [job EXCEPT ![c] = j]
Answer(c) == Goto(c, "idle", Idle)

--------------------------------------------------------------------------------
(* Requests. size is the Content-Length; a chunked body has none.              *)

Authorized(r) == ~TokenSet \/ r.local \/ r.token
CrossOrigin(r) == r.origin = "elsewhere"
OriginOk(r) == r.origin \in {"none", "loopback"}

(* What _refuse turns away: some posts, before their body has been read, and a *)
(* reading of the operator's settings.                                         *)
Refused(r) ==
  \/ /\ r.verb = "POST"
     /\ \/ r.path = "mcp" /\ r.size > McpMaxBody
        \/ r.path \in {"experiments", "control"}
             /\ (CrossOrigin(r) \/ ~Authorized(r) \/ r.size > MaxBody)
        \/ r.path \in {"data", "other"}
  \/ r.verb = "GET" /\ r.path = "control" /\ ~Authorized(r)

(* How much of its body a request puts on the stream, and how much of that the *)
(* route of a request that is served takes off it: a post as many bytes as its *)
(* length says, the other verbs none.                                          *)
Body(r) == IF r.chunked THEN 1 ELSE r.size
Taken(r) == IF r.verb = "POST" THEN r.size ELSE 0

(* The stream serves one request at a time; what is left of a body is taken    *)
(* for the next request line, which ends the connection.                       *)
Receive(c) ==
  /\ at[c] = "idle" /\ conn[c].open
  /\ \/ /\ conn[c].unread
        /\ conn' = [conn EXCEPT ![c].open = FALSE]
        /\ UNCHANGED <<at, job>>
     \/ /\ ~conn[c].unread
        /\ \E r \in Requests[c] : Goto(c, "route", [Idle EXCEPT !.request = r])
        /\ UNCHANGED conn
  /\ UNCHANGED <<mcp, service, files>>

Reconnect(c) ==
  /\ at[c] = "idle" /\ ~conn[c].open
  /\ conn' = [conn EXCEPT ![c] = [open |-> TRUE, unread |-> FALSE]]
  /\ UNCHANGED <<at, job, mcp, service, files>>

(* A refusal drains a body that is short, which may fail and then closes, and  *)
(* closes on one that is long or has no length.                                *)
RefuseUpTo(c, limit) ==
  /\ at[c] = "route" /\ Refused(job[c].request)
  /\ LET r == job[c].request
         drained == IF r.size <= MaxBody THEN r.size ELSE 0
         closes == r.size > limit \/ (r.size = 0 /\ r.chunked)
     IN \E fails \in BOOLEAN :
          /\ fails => drained > 0
          /\ conn' = [conn EXCEPT ![c] = [open |-> ~closes /\ ~fails, unread |-> Body(r) > drained]]
  /\ Answer(c)
  /\ UNCHANGED <<mcp, service, files>>

(* Mutant: it closes on what the tool endpoint would not take.                 *)
RefuseByToolLimit(c) == RefuseUpTo(c, McpMaxBody)
Refuse(c) == RefuseUpTo(c, MaxBody)

(* The handler a request comes to, or "idle" when it is answered outright.     *)
Handler(r) ==
  CASE r.path = "mcp" /\ r.verb \in {"POST", "DELETE"} -> "mcp"
    [] r.path = "experiments" /\ r.verb = "POST" -> "experiments"
    [] r.path = "data" /\ r.verb = "GET" -> "ledger"
    [] OTHER -> "idle"

Serve(c) ==
  /\ at[c] = "route" /\ ~Refused(job[c].request)
  /\ LET r == job[c].request
     IN /\ conn' = [conn EXCEPT ![c].unread = Body(r) > Taken(r)]
        /\ \/ Handler(r) = "idle" /\ Answer(c)
           \/ Handler(r) # "idle" /\ Goto(c, Handler(r), job[c])
  /\ UNCHANGED <<mcp, service, files>>

--------------------------------------------------------------------------------
(* The tool endpoint and what it calls.                                        *)

(* An empty body does not parse, and a chunked one looks empty.                *)
McpRefused(c, r) ==
  \/ ~OriginOk(r) \/ ~Authorized(r)
  \/ r.verb = "POST" /\ r.size = 0
  \/ r.verb = "POST" /\ r.call # "initialize" /\ session[c] \notin sessions

McpRefuse(c) ==
  /\ at[c] = "mcp" /\ McpRefused(c, job[c].request)
  /\ Answer(c)
  /\ UNCHANGED <<conn, mcp, service, files>>

Accepted(c, call) ==
  /\ at[c] = "mcp" /\ ~McpRefused(c, job[c].request)
  /\ job[c].request.call = call

Initialize(c) ==
  /\ Accepted(c, "initialize") /\ issued < MaxSessions
  /\ issued' = issued + 1 /\ sessions' = sessions \cup {issued + 1}
  /\ session' = [session EXCEPT ![c] = issued + 1]
  /\ Answer(c)
  /\ UNCHANGED <<conn, service, files>>

(* The client goes on presenting the id it gave up.                            *)
EndSession(c) ==
  /\ Accepted(c, "end")
  /\ sessions' = sessions \ {session[c]}
  /\ Answer(c)
  /\ UNCHANGED <<conn, session, issued, service, files>>

(* switch_experiment: the current one is answered as it is; another is opened, *)
(* the session reset, and only when the radios have been its ledger adopted.   *)
Asks(c, e) ==
  \/ Accepted(c, "switch") /\ job[c].request.exp = e
  \/ at[c] = "experiments" /\ job[c].request.exp = e /\ e # None

Switch(c) ==
  /\ \E e \in Exps :
       /\ Asks(c, e)
       /\ \/ e = current /\ Answer(c)
          \/ e # current /\ Goto(c, "reset", [Idle EXCEPT !.dir = e])
  /\ UNCHANGED <<conn, mcp, service, files>>

Reset(c) ==
  /\ at[c] = "reset"
  /\ built' = FALSE /\ result' = None
  /\ Goto(c, "adopt", job[c])
  /\ UNCHANGED <<conn, mcp, current, files>>

(* Every other thread at work, and a trial graded since the reset, is overtaken.*)
Adopt(c) ==
  /\ at[c] = "adopt"
  /\ LET e == job[c].dir
     IN /\ current' = e
        /\ job' = [d \in Clients |->
             IF d = c THEN Idle ELSE [job[d] EXCEPT !.moved = @ \/ e # current]]
        /\ result' = IF result = None THEN None
                     ELSE [result EXCEPT !.moved = @ \/ e # current]
  /\ at' = [at EXCEPT ![c] = "idle"]
  /\ UNCHANGED <<conn, mcp, built, files>>

(* No action, or no such experiment: a 400.                                    *)
BadOrder(c) ==
  /\ at[c] = "experiments" /\ job[c].request.exp = None
  /\ Answer(c)
  /\ UNCHANGED <<conn, mcp, service, files>>

(* Without an experiment it is refused.                                        *)
BuildFlowgraph(c) ==
  /\ Accepted(c, "build")
  /\ built' = (built \/ current # None)
  /\ Answer(c)
  /\ UNCHANGED <<conn, mcp, current, result, files>>

(* run_flowgraph asks for an experiment and a flowgraph, measures for seconds, *)
(* keeps the result, and reads the flowgraph again for the row and the answer. *)
RunFlowgraph(c) ==
  /\ Accepted(c, "run")
  /\ \/ (current = None \/ ~built) /\ Answer(c)
     \/ current # None /\ built /\ Goto(c, "measure", [Idle EXCEPT !.trial = current])
  /\ UNCHANGED <<conn, mcp, service, files>>

Grade(c) ==
  /\ at[c] = "measure"
  /\ result' = [exp |-> job[c].trial, moved |-> job[c].moved]
  /\ Goto(c, "record", Idle)
  /\ UNCHANGED <<conn, mcp, current, built, files>>

(* A radio went away; the aborted row needs the flowgraph too.                 *)
LoseRadio(c) ==
  /\ at[c] = "measure"
  /\ result' = IF built THEN None ELSE result
  /\ Answer(c)
  /\ UNCHANGED <<conn, mcp, current, built, files>>

(* Only a call that succeeds is drawn.                                         *)
Record(c) ==
  /\ at[c] = "record"
  /\ \/ ~built /\ Answer(c)
     \/ built /\ Goto(c, "writer", Idle)
  /\ UNCHANGED <<conn, mcp, service, files>>

--------------------------------------------------------------------------------
(* attach_telemetry's hook and TelemetryWriter.write, in the order they touch  *)
(* what others touch.                                                          *)

(* Mutant: one writer, made for the first experiment that is drawn.            *)
FirstDir(c) == IF \E e \in Exps : snap[e] # None THEN CHOOSE e \in Exps : snap[e] # None ELSE current
WriterDir(c) == current

PickWriter(c) ==
  /\ at[c] = "writer"
  /\ Goto(c, "look", [Idle EXCEPT !.dir = WriterDir(c)])
  /\ UNCHANGED <<conn, mcp, service, files>>

(* No result or no flowgraph, because a reset took it: nothing is drawn.       *)
Look(c) ==
  /\ at[c] = "look"
  /\ \/ (result = None \/ ~built) /\ Answer(c)
     \/ /\ result # None /\ built
        /\ Goto(c, "open", [job[c] EXCEPT !.drawn = [result EXCEPT !.moved = @ \/ job[c].moved]])
  /\ UNCHANGED <<conn, mcp, service, files>>

Blank(old) == [exp |-> None, moved |-> FALSE, crossed |-> old # None]

(* Opening the temporary file empties it, another writer's too.                *)
Open(c) ==
  /\ at[c] = "open"
  /\ LET e == job[c].dir IN tmp' = [tmp EXCEPT ![e] = Blank(tmp[e])]
  /\ Goto(c, "fill", [job[c] EXCEPT !.file = "tmp"])
  /\ UNCHANGED <<conn, mcp, service, snap>>

(* Over what another writer has put there since, the shorter text leaves the   *)
(* longer one's tail.                                                          *)
Drawings(c, old) ==
  LET text == [old EXCEPT !.exp = job[c].drawn.exp, !.moved = job[c].drawn.moved]
  IN IF old.exp = None THEN {text} ELSE {text, [old EXCEPT !.exp = None]}

(* The text goes to the file that was opened, wherever it lies by now.         *)
Fill(c) ==
  /\ at[c] = "fill"
  /\ LET e == job[c].dir
     IN \/ job[c].file = "tmp" /\ UNCHANGED snap
             /\ \E text \in Drawings(c, tmp[e]) : tmp' = [tmp EXCEPT ![e] = text]
        \/ job[c].file = "snap" /\ UNCHANGED tmp
             /\ \E text \in Drawings(c, snap[e]) : snap' = [snap EXCEPT ![e] = text]
        \/ job[c].file = "gone" /\ UNCHANGED <<tmp, snap>>
  /\ Goto(c, "swap", job[c])
  /\ UNCHANGED <<conn, mcp, service>>

(* Path.replace takes whatever is called tmp, another writer's file too; it    *)
(* fails, and the hook swallows that, when nothing is.                         *)
Swap(c) ==
  /\ at[c] = "swap"
  /\ LET e == job[c].dir
         moved(f) == IF f = "tmp" THEN "snap" ELSE "gone"
     IN \/ tmp[e] = None /\ Answer(c) /\ UNCHANGED <<tmp, snap>>
        \/ /\ tmp[e] # None
           /\ snap' = [snap EXCEPT ![e] = [tmp[e] EXCEPT !.crossed = @ \/ job[c].file # "tmp"]]
           /\ tmp' = [tmp EXCEPT ![e] = None]
           /\ at' = [at EXCEPT ![c] = "idle"]
           /\ job' = [d \in Clients |->
                IF d = c THEN Idle
                ELSE IF at[d] \in {"fill", "swap"} /\ job[d].dir = e
                     THEN [job[d] EXCEPT !.file = moved(@)] ELSE job[d]]
  /\ UNCHANGED <<conn, mcp, service>>

--------------------------------------------------------------------------------
(* GET /data: where the ledger is, where the snapshot is, what it holds, and   *)
(* which experiment is current.                                                *)

FindLedger(c) ==
  /\ at[c] = "ledger"
  /\ Goto(c, "snapshot", [Idle EXCEPT !.rows = current])
  /\ UNCHANGED <<conn, mcp, service, files>>

FindSnapshot(c) ==
  /\ at[c] = "snapshot"
  /\ Goto(c, "read", [job[c] EXCEPT !.dir = current])
  /\ UNCHANGED <<conn, mcp, service, files>>

(* _read_json: a text that does not parse is no snapshot.                      *)
ReadJson(e) ==
  IF e = None \/ snap[e] = None \/ snap[e].exp = None THEN None ELSE snap[e]

Read(c) ==
  /\ at[c] = "read"
  /\ Goto(c, "head", [job[c] EXCEPT !.shown = ReadJson(job[c].dir)])
  /\ UNCHANGED <<conn, mcp, service, files>>

(* The page that is answered: what was found, under the current experiment.    *)
Page(c) ==
  [rows |-> job[c].rows, dir |-> job[c].dir, snapshot |-> job[c].shown, head |-> current]

Head(c) ==
  /\ at[c] = "head"
  /\ Answer(c)
  /\ UNCHANGED <<conn, mcp, service, files>>

--------------------------------------------------------------------------------
Next ==
  \E c \in Clients :
    \/ Receive(c) \/ Reconnect(c) \/ Refuse(c) \/ Serve(c)
    \/ McpRefuse(c) \/ Initialize(c) \/ EndSession(c)
    \/ Switch(c) \/ Reset(c) \/ Adopt(c) \/ BadOrder(c)
    \/ BuildFlowgraph(c) \/ RunFlowgraph(c) \/ Grade(c) \/ LoseRadio(c) \/ Record(c)
    \/ PickWriter(c) \/ Look(c) \/ Open(c) \/ Fill(c) \/ Swap(c)
    \/ FindLedger(c) \/ FindSnapshot(c) \/ Read(c) \/ Head(c)

Spec == Init /\ [][Next]_vars

--------------------------------------------------------------------------------
(* A request that is refused leaves its connection in step, whatever its size: *)
(* what is unread on a stream that stays open was left by a request that was   *)
(* served, and that had a body of no length or was no post.                    *)
InStep ==
  [][\A c \in Clients :
       conn'[c].open /\ conn'[c].unread /\ ~conn[c].unread =>
         LET r == job[c].request IN ~Refused(r) /\ (r.chunked \/ r.verb # "POST")]_vars

(* The console is never told of a mixture: the rows, the snapshot and the      *)
(* heading of a page belong to one experiment unless another was selected      *)
(* while it was put together; a snapshot draws a trial of the experiment it    *)
(* lies with unless another was selected after the trial began and before its  *)
(* drawing had the result; and it is whole unless two writers of it overlapped.*)
PageIsTrue ==
  /\ \A c \in Clients : at[c] = "head" =>
       LET page == Page(c)
       IN /\ ~job[c].moved => page.rows = page.head /\ page.dir = page.head
          /\ page.snapshot # None /\ ~page.snapshot.moved => page.snapshot.exp = page.dir
  /\ \A e \in Exps : snap[e] # None /\ snap[e].exp = None => snap[e].crossed
===============================================================================
