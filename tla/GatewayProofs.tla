------------------------------ MODULE GatewayProofs ----------------------------
(* Theorems about Gateway, for any number of connections and experiments.      *)
EXTENDS Gateway, TLAPS

Places == Paths \cup {"idle", "route", "reset", "adopt", "measure", "record",
                      "writer", "look", "open", "fill", "swap",
                      "ledger", "snapshot", "read", "head"}
Asked == UNION {Requests[c] : c \in Clients}
Jobs == [request : Asked \cup {None}, trial : Exps \cup {None}, rows : Exps \cup {None},
         dir : Exps \cup {None}, drawn : Result \cup {None}, file : {None, "tmp", "snap", "gone"},
         shown : File \cup {None}, moved : BOOLEAN]

(* What a thread must hold to stand at a place.                                *)
Footing(c, p, j) ==
  /\ p \in Paths \cup {"route"} => j.request \in Requests[c]
  /\ p \in {"measure", "record", "writer"} => current # None
  /\ p = "measure" => j.trial \in Exps
  /\ p \in {"reset", "adopt"} => j.dir \in Exps

Threads ==
  /\ at \in [Clients -> Places] /\ job \in [Clients -> Jobs]
  /\ \A c \in Clients : Footing(c, at[c], job[c])

Stores ==
  /\ conn \in [Clients -> [open : BOOLEAN, unread : BOOLEAN]]
  /\ current \in Exps \cup {None} /\ built \in BOOLEAN /\ result \in Result \cup {None}
  /\ tmp \in [Exps -> File \cup {None}] /\ snap \in [Exps -> File \cup {None}]

Shapes == Threads /\ Stores

(* A thread, and a trial, that nobody overtook have what is current.           *)
OwnResult == result # None /\ ~result.moved => result.exp = current

Fresh(c) ==
  /\ at[c] = "measure" /\ ~job[c].moved => job[c].trial = current
  /\ at[c] \in {"snapshot", "read", "head"} /\ ~job[c].moved => job[c].rows = current
  /\ at[c] \in {"read", "head", "look"} /\ ~job[c].moved => job[c].dir = current
  /\ at[c] \in {"look", "open", "fill", "swap"} => job[c].dir \in Exps
  /\ at[c] \in {"open", "fill", "swap"} =>
       job[c].drawn \in Result /\ (~job[c].drawn.moved => job[c].drawn.exp = job[c].dir)

OwnTrial(f, e) == f # None /\ f.exp # None /\ ~f.moved => f.exp = e

Found(c) ==
  at[c] = "head" =>
    /\ OwnTrial(job[c].shown, job[c].dir)
    /\ job[c].shown # None => job[c].shown.exp # None

(* Who has the temporary file open, and who writes to one that is in place. A  *)
(* file that one writer alone has had is whole once that writer has filled it. *)
Has(c, e, file) == at[c] \in {"fill", "swap"} /\ job[c].file = file /\ job[c].dir = e

Alone(e) ==
  /\ \A c \in Clients : Has(c, e, "tmp") =>
       /\ tmp[e] # None
       /\ tmp[e].crossed \/ (tmp[e].exp = None <=> at[c] = "fill")
  /\ \A c, d \in Clients : Has(c, e, "tmp") /\ Has(d, e, "tmp") => c = d \/ tmp[e].crossed
  /\ \A c \in Clients : Has(c, e, "snap") => snap[e] # None /\ snap[e].crossed
  /\ snap[e] # None /\ snap[e].exp = None => snap[e].crossed

FilesTrue == \A e \in Exps : OwnTrial(tmp[e], e) /\ OwnTrial(snap[e], e)

GatewayInv ==
  /\ Shapes /\ OwnResult
  /\ \A c \in Clients : Fresh(c) /\ Found(c)
  /\ FilesTrue
  /\ \A e \in Exps : Alone(e)

--------------------------------------------------------------------------------
(* A thread that goes on alone leaves the others where they are.               *)
LEMMA GoneOn ==
  ASSUME Shapes, NEW c \in Clients, NEW p, NEW j, Goto(c, p, j)
  PROVE  /\ at'[c] = p /\ job'[c] = j
         /\ \A d \in Clients \ {c} : at'[d] = at[d] /\ job'[d] = job[d]
BY DEF Goto, Shapes, Threads

LEMMA IdleFits == Idle \in Jobs /\ ~Idle.moved
BY DEF Idle, Jobs

(* Whoever selects another experiment overtakes everybody else.                *)
LEMMA Overtaken ==
  ASSUME Shapes, NEW c \in Clients, Adopt(c)
  PROVE  /\ at' \in [Clients -> Places] /\ job' \in [Clients -> Jobs]
         /\ at'[c] = "idle" /\ job'[c] = Idle /\ current' \in Exps
         /\ \A d \in Clients \ {c} :
              /\ at'[d] = at[d] /\ job'[d].trial = job[d].trial /\ job'[d].rows = job[d].rows
              /\ job'[d].dir = job[d].dir /\ job'[d].file = job[d].file
              /\ job'[d].drawn = job[d].drawn /\ job'[d].shown = job[d].shown
              /\ job'[d].request = job[d].request
              /\ ~job'[d].moved => ~job[d].moved /\ current' = current
<1>1. at' \in [Clients -> Places] /\ at'[c] = "idle"
  BY DEF Adopt, Shapes, Threads, Places
<1>2. current' \in Exps
  BY DEF Adopt, Shapes, Threads, Footing
<1>3. \A d \in Clients : [job[d] EXCEPT !.moved = @ \/ job[c].dir # current] \in Jobs
  BY DEF Shapes, Threads, Jobs
<1>4. job' \in [Clients -> Jobs] /\ job'[c] = Idle
  BY <1>3, IdleFits DEF Adopt
<1>5. ASSUME NEW d \in Clients \ {c}
      PROVE  /\ at'[d] = at[d] /\ job'[d].trial = job[d].trial /\ job'[d].rows = job[d].rows
             /\ job'[d].dir = job[d].dir /\ job'[d].file = job[d].file
             /\ job'[d].drawn = job[d].drawn /\ job'[d].shown = job[d].shown
             /\ job'[d].request = job[d].request
             /\ ~job'[d].moved => ~job[d].moved /\ current' = current
  BY DEF Adopt, Shapes, Threads, Jobs
<1> QED
  BY <1>1, <1>2, <1>4, <1>5

LEMMA GoneOnFits ==
  ASSUME Shapes, NEW c \in Clients, NEW p \in Places, NEW j \in Jobs, Goto(c, p, j),
         Footing(c, p, j), current' = current
  PROVE  Threads'
<1>1. at' \in [Clients -> Places] /\ job' \in [Clients -> Jobs]
  BY DEF Goto, Shapes, Threads
<1>2. ASSUME NEW d \in Clients
      PROVE  Footing(d, at[d], job[d])'
  <2>1. CASE d = c
    BY <2>1, GoneOn DEF Footing
  <2>2. CASE d # c
    BY <2>2, GoneOn DEF Shapes, Threads, Footing
  <2> QED
    BY <2>1, <2>2
<1> QED
  BY <1>1, <1>2 DEF Threads

LEMMA AnsweredFits ==
  ASSUME Shapes, NEW c \in Clients, Answer(c), current' = current
  PROVE  Threads'
BY GoneOnFits, IdleFits DEF Answer, Places, Paths, Footing

LEMMA Holds ==
  ASSUME Shapes, NEW c \in Clients
  PROVE  /\ job[c] \in Jobs /\ current \in Exps \cup {None}
         /\ Footing(c, at[c], job[c])
BY DEF Shapes, Threads, Stores

LEMMA Handlers ==
  ASSUME NEW r
  PROVE  Handler(r) \in {"mcp", "experiments", "ledger", "idle"}
BY DEF Handler

LEMMA RequestsKept ==
  ASSUME Shapes, NEW c \in Clients,
         \/ Receive(c) \/ Reconnect(c) \/ Refuse(c) \/ Serve(c)
         \/ McpRefuse(c) \/ Initialize(c) \/ EndSession(c) \/ BadOrder(c)
  PROVE  Shapes'
<1>1. CASE Receive(c)
  <2>1. ASSUME NEW r \in Requests[c], Goto(c, "route", [Idle EXCEPT !.request = r]),
               current' = current
        PROVE  Threads'
    <3>1. [Idle EXCEPT !.request = r] \in Jobs /\ [Idle EXCEPT !.request = r].request = r
      BY IdleFits DEF Jobs, Asked
    <3> QED
      BY <2>1, <3>1, GoneOnFits DEF Places, Paths, Footing
  <2>2. Threads'
    BY <1>1, <2>1 DEF Receive, service, Shapes, Threads, Footing
  <2>3. Stores'
    BY <1>1 DEF Receive, service, files, Shapes, Stores
  <2> QED
    BY <2>2, <2>3 DEF Shapes
<1>2. CASE Reconnect(c)
  BY <1>2 DEF Reconnect, service, files, Shapes, Stores, Threads, Footing
<1>3. CASE Refuse(c)
  <2>1. Threads'
    BY <1>3, AnsweredFits DEF Refuse, RefuseUpTo, service
  <2>2. conn' \in [Clients -> [open : BOOLEAN, unread : BOOLEAN]]
    <3> DEFINE r == job[c].request
               closes == r.size > MaxBody \/ (r.size = 0 /\ r.chunked)
               left == Body(r) > IF r.size <= MaxBody THEN r.size ELSE 0
    <3>1. PICK fails \in BOOLEAN :
            conn' = [conn EXCEPT ![c] = [open |-> ~closes /\ ~fails, unread |-> left]]
      BY <1>3 DEF Refuse, RefuseUpTo
    <3>2. (~closes /\ ~fails) \in BOOLEAN /\ left \in BOOLEAN
      OBVIOUS
    <3> HIDE DEF closes, left
    <3> QED
      BY <3>1, <3>2 DEF Shapes, Stores
  <2> QED
    BY <1>3, <2>1, <2>2 DEF Refuse, RefuseUpTo, service, files, Shapes, Stores
<1>4. CASE Serve(c)
  <2>1. job[c] \in Jobs /\ job[c].request \in Requests[c]
    BY <1>4, Holds DEF Serve, Footing
  <2>2. \/ \E p \in {"mcp", "experiments", "ledger"} : Goto(c, p, job[c])
        \/ Answer(c)
    BY <1>4, Handlers DEF Serve
  <2>3. current' = current
    BY <1>4 DEF Serve, service
  <2>4. Threads'
    BY <2>1, <2>2, <2>3, GoneOnFits, AnsweredFits DEF Places, Paths, Footing
  <2>5. conn' \in [Clients -> [open : BOOLEAN, unread : BOOLEAN]]
    <3>1. conn' = [conn EXCEPT ![c].unread = Body(job[c].request) > Taken(job[c].request)]
      BY <1>4 DEF Serve
    <3>2. (Body(job[c].request) > Taken(job[c].request)) \in BOOLEAN
      OBVIOUS
    <3> QED
      BY <3>1, <3>2 DEF Shapes, Stores
  <2> QED
    BY <1>4, <2>4, <2>5 DEF Serve, service, files, Shapes, Stores
<1>5. CASE McpRefuse(c) \/ Initialize(c) \/ EndSession(c) \/ BadOrder(c)
  <2>1. Answer(c) /\ UNCHANGED <<conn, service, files>>
    BY <1>5 DEF McpRefuse, Initialize, EndSession, BadOrder
  <2> QED
    BY <2>1, AnsweredFits DEF service, files, Shapes, Stores
<1> QED
  BY <1>1, <1>2, <1>3, <1>4, <1>5

LEMMA TrialsKept ==
  ASSUME Shapes, NEW c \in Clients,
         Switch(c) \/ Reset(c) \/ Adopt(c) \/ BuildFlowgraph(c) \/ RunFlowgraph(c)
           \/ Grade(c) \/ LoseRadio(c) \/ Record(c)
  PROVE  Shapes'
<1>0. /\ job[c] \in Jobs /\ current \in Exps \cup {None} /\ built \in BOOLEAN
      /\ result \in Result \cup {None} /\ Footing(c, at[c], job[c])
  BY Holds DEF Shapes, Stores
<1>1. CASE Switch(c)
  <2>1. PICK e \in Exps : Answer(c) \/ Goto(c, "reset", [Idle EXCEPT !.dir = e])
    BY <1>1 DEF Switch
  <2>2. [Idle EXCEPT !.dir = e] \in Jobs /\ [Idle EXCEPT !.dir = e].dir = e
    BY IdleFits DEF Jobs
  <2>3. Threads'
    BY <1>1, <2>1, <2>2, GoneOnFits, AnsweredFits DEF Switch, service, Places, Paths, Footing
  <2> QED
    BY <1>1, <2>3 DEF Switch, service, files, Shapes, Stores
<1>2. CASE Reset(c)
  <2>1. Threads'
    BY <1>0, <1>2, GoneOnFits DEF Reset, Places, Paths, Footing
  <2> QED
    BY <1>2, <2>1 DEF Reset, files, Shapes, Stores
<1>3. CASE Adopt(c)
  <2>1. at' \in [Clients -> Places] /\ job' \in [Clients -> Jobs] /\ current' \in Exps
    BY <1>3, Overtaken
  <2>2. ASSUME NEW d \in Clients PROVE Footing(d, at[d], job[d])'
    <3>1. CASE d = c
      BY <1>3, <2>1, <3>1, Overtaken, NoneAssumption DEF Footing, Paths
    <3>2. CASE d # c
      BY <1>3, <2>1, <3>2, Overtaken, Holds, NoneAssumption DEF Footing
    <3> QED
      BY <3>1, <3>2
  <2>3. result' \in Result \cup {None}
    BY <1>0, <1>3 DEF Adopt, Result
  <2> QED
    BY <1>3, <2>1, <2>2, <2>3 DEF Adopt, files, Shapes, Stores, Threads
<1>4. CASE BuildFlowgraph(c)
  <2>1. Threads'
    BY <1>4, AnsweredFits DEF BuildFlowgraph
  <2> QED
    BY <1>0, <1>4, <2>1 DEF BuildFlowgraph, files, Shapes, Stores
<1>5. CASE RunFlowgraph(c)
  <2>1. current # None => [Idle EXCEPT !.trial = current] \in Jobs
                           /\ [Idle EXCEPT !.trial = current].trial = current
    BY <1>0, IdleFits DEF Jobs
  <2>2. Threads'
    BY <1>0, <1>5, <2>1, GoneOnFits, AnsweredFits DEF RunFlowgraph, service, Places, Paths, Footing
  <2> QED
    BY <1>5, <2>2 DEF RunFlowgraph, service, files, Shapes, Stores
<1>6. CASE Grade(c)
  <2>1. [exp |-> job[c].trial, moved |-> job[c].moved] \in Result
    BY <1>0, <1>6 DEF Grade, Footing, Jobs, Result
  <2>2. Threads'
    BY <1>0, <1>6, IdleFits, GoneOnFits DEF Grade, Places, Paths, Footing
  <2> QED
    BY <1>6, <2>1, <2>2 DEF Grade, files, Shapes, Stores
<1>7. CASE LoseRadio(c)
  <2>1. Threads'
    BY <1>7, AnsweredFits DEF LoseRadio
  <2> QED
    BY <1>0, <1>7, <2>1 DEF LoseRadio, files, Shapes, Stores
<1>8. CASE Record(c)
  <2>1. Threads'
    BY <1>0, <1>8, IdleFits, GoneOnFits, AnsweredFits DEF Record, service, Places, Paths, Footing
  <2> QED
    BY <1>8, <2>1 DEF Record, service, files, Shapes, Stores
<1> QED
  BY <1>1, <1>2, <1>3, <1>4, <1>5, <1>6, <1>7, <1>8

LEMMA LooksFit ==
  ASSUME Shapes, NEW c \in Clients,
         PickWriter(c) \/ Look(c) \/ FindLedger(c) \/ FindSnapshot(c) \/ Read(c) \/ Head(c)
  PROVE  Shapes'
<1>0. job[c] \in Jobs /\ current \in Exps \cup {None} /\ result \in Result \cup {None}
  BY Holds DEF Shapes, Stores
<1>1. CASE PickWriter(c)
  <2>1. [Idle EXCEPT !.dir = WriterDir(c)] \in Jobs
    BY <1>0, IdleFits DEF WriterDir, Jobs
  <2> QED
    BY <1>1, <2>1, GoneOnFits DEF PickWriter, service, files, Shapes, Stores, Places, Paths, Footing
<1>2. CASE Look(c)
  <2>1. result # None =>
          [job[c] EXCEPT !.drawn = [result EXCEPT !.moved = @ \/ job[c].moved]] \in Jobs
    <3>1. result # None => [result EXCEPT !.moved = @ \/ job[c].moved] \in Result
      BY <1>0 DEF Jobs, Result
    <3> QED
      BY <1>0, <3>1 DEF Jobs
  <2>2. Threads'
    BY <1>2, <2>1, GoneOnFits, AnsweredFits DEF Look, service, Places, Paths, Footing
  <2> QED
    BY <1>2, <2>2 DEF Look, service, files, Shapes, Stores
<1>3. CASE FindLedger(c)
  <2>1. [Idle EXCEPT !.rows = current] \in Jobs
    BY <1>0, IdleFits DEF Jobs
  <2> QED
    BY <1>3, <2>1, GoneOnFits DEF FindLedger, service, files, Shapes, Stores, Places, Paths, Footing
<1>4. CASE FindSnapshot(c)
  <2>1. [job[c] EXCEPT !.dir = current] \in Jobs
    BY <1>0 DEF Jobs
  <2> QED
    BY <1>4, <2>1, GoneOnFits DEF FindSnapshot, service, files, Shapes, Stores, Places, Paths, Footing
<1>5. CASE Read(c)
  <2>1. ReadJson(job[c].dir) \in File \cup {None}
    BY <1>0 DEF ReadJson, Jobs, Shapes, Stores
  <2>2. [job[c] EXCEPT !.shown = ReadJson(job[c].dir)] \in Jobs
    BY <1>0, <2>1 DEF Jobs
  <2> QED
    BY <1>5, <2>2, GoneOnFits DEF Read, service, files, Shapes, Stores, Places, Paths, Footing
<1>6. CASE Head(c)
  BY <1>6, AnsweredFits DEF Head, service, files, Shapes, Stores
<1> QED
  BY <1>1, <1>2, <1>3, <1>4, <1>5, <1>6

--------------------------------------------------------------------------------
(* The three steps that touch the files.                                       *)
LEMMA Texts ==
  ASSUME Shapes, NEW c \in Clients, Fresh(c), at[c] = "fill", NEW old \in File,
         NEW text \in Drawings(c, old)
  PROVE  /\ text \in File /\ text.crossed = old.crossed
         /\ text.exp = None => old.exp # None
         /\ OwnTrial(old, job[c].dir) => OwnTrial(text, job[c].dir)
<1>1. /\ job[c].drawn \in Result /\ job[c].drawn.exp \in Exps
      /\ ~job[c].drawn.moved => job[c].drawn.exp = job[c].dir
  BY DEF Fresh, Result
<1> DEFINE whole == [old EXCEPT !.exp = job[c].drawn.exp, !.moved = job[c].drawn.moved]
           torn == [old EXCEPT !.exp = None]
<1>2. /\ whole \in File /\ whole.exp = job[c].drawn.exp /\ whole.moved = job[c].drawn.moved
      /\ whole.crossed = old.crossed
  BY <1>1 DEF File, Result
<1>3. torn \in File /\ torn.exp = None /\ torn.crossed = old.crossed
  BY DEF File
<1>4. text = whole \/ (text = torn /\ old.exp # None)
  BY DEF Drawings
<1> HIDE DEF whole, torn
<1> QED
  BY <1>1, <1>2, <1>3, <1>4, NoneAssumption DEF OwnTrial

LEMMA Blanks ==
  ASSUME NEW old \in File \cup {None}
  PROVE  /\ Blank(old) \in File /\ Blank(old).exp = None /\ ~Blank(old).moved
         /\ Blank(old).crossed <=> old # None
BY DEF Blank, File

LEMMA OpenKeeps ==
  ASSUME GatewayInv, NEW c \in Clients, Open(c)
  PROVE  Shapes' /\ FilesTrue' /\ \A e \in Exps : Alone(e)'
<1> DEFINE e == job[c].dir
           j == [job[c] EXCEPT !.file = "tmp"]
<1>1. /\ Shapes /\ FilesTrue /\ at[c] = "open" /\ e \in Exps /\ job[c] \in Jobs
      /\ tmp \in [Exps -> File \cup {None}] /\ snap \in [Exps -> File \cup {None}]
  BY Holds DEF GatewayInv, Fresh, Open, Shapes, Stores
<1>2. /\ j \in Jobs /\ j.file = "tmp" /\ j.dir = e
      /\ Goto(c, "fill", j) /\ tmp' = [tmp EXCEPT ![e] = Blank(tmp[e])]
      /\ UNCHANGED <<conn, current, built, result, snap>>
  BY <1>1 DEF Open, Jobs, service
<1> HIDE DEF e, j
<1>3. Threads'
  BY <1>1, <1>2, GoneOnFits DEF Places, Paths, Footing
<1>4. Blank(tmp[e]) \in File /\ Blank(tmp[e]).exp = None /\ (Blank(tmp[e]).crossed <=> tmp[e] # None)
  BY <1>1, Blanks
<1>5. Stores'
  BY <1>1, <1>2, <1>4 DEF Shapes, Stores
<1>6. FilesTrue'
  BY <1>1, <1>2, <1>4 DEF FilesTrue, OwnTrial
<1>7. ASSUME NEW f \in Exps PROVE Alone(f)'
  <2>0. Alone(f)
    BY DEF GatewayInv
  <2>1. /\ at'[c] = "fill" /\ job'[c] = j
        /\ \A d \in Clients \ {c} : at'[d] = at[d] /\ job'[d] = job[d]
    BY <1>1, <1>2, GoneOn
  <2>2. \A d \in Clients, file \in {"tmp", "snap"} :
          Has(d, f, file)' <=> Has(d, f, file) \/ (d = c /\ f = e /\ file = "tmp")
    BY <1>1, <1>2, <2>1 DEF Has
  <2>3. CASE f = e
    <3>1. tmp'[f] = Blank(tmp[e]) /\ tmp'[f] # None /\ snap'[f] = snap[f]
      BY <1>1, <1>2, <1>4, <2>3, NoneAssumption
    <3>2. ASSUME NEW d \in Clients, Has(d, f, "tmp")'
          PROVE  /\ tmp'[f].crossed \/ (tmp'[f].exp = None <=> at'[d] = "fill")
                 /\ d # c => tmp'[f].crossed
      BY <1>4, <2>0, <2>1, <2>2, <2>3, <3>1, <3>2 DEF Alone
    <3> QED
      BY <2>0, <2>2, <3>1, <3>2 DEF Alone
  <2>4. CASE f # e
    <3>1. tmp'[f] = tmp[f] /\ snap'[f] = snap[f]
      BY <1>1, <1>2, <2>4
    <3>2. \A d \in Clients : Has(d, f, "tmp") => at'[d] = at[d]
      BY <1>1, <2>1 DEF Has
    <3> QED
      BY <2>0, <2>2, <2>4, <3>1, <3>2 DEF Alone
  <2> QED
    BY <2>3, <2>4
<1> QED
  BY <1>3, <1>5, <1>6, <1>7 DEF Shapes

LEMMA FillKeeps ==
  ASSUME GatewayInv, NEW c \in Clients, Fill(c)
  PROVE  Shapes' /\ FilesTrue' /\ \A e \in Exps : Alone(e)'
<1> DEFINE e == job[c].dir
<1>1. /\ Shapes /\ FilesTrue /\ Fresh(c) /\ at[c] = "fill" /\ e \in Exps /\ job[c] \in Jobs
      /\ tmp \in [Exps -> File \cup {None}] /\ snap \in [Exps -> File \cup {None}]
  BY Holds DEF GatewayInv, Fresh, Fill, Shapes, Stores
<1>2. Goto(c, "swap", job[c]) /\ UNCHANGED <<conn, current, built, result>>
  BY DEF Fill, service
<1>3. Threads'
  BY <1>1, <1>2, GoneOnFits DEF Places, Paths, Footing
<1>4. /\ at'[c] = "swap" /\ job'[c] = job[c]
      /\ \A d \in Clients \ {c} : at'[d] = at[d] /\ job'[d] = job[d]
  BY <1>1, <1>2, GoneOn
<1>5. \A d \in Clients, f \in Exps, file \in {"tmp", "snap"} : Has(d, f, file)' <=> Has(d, f, file)
  BY <1>1, <1>4 DEF Has
<1>6. CASE /\ job[c].file = "tmp" /\ UNCHANGED snap
           /\ \E text \in Drawings(c, tmp[e]) : tmp' = [tmp EXCEPT ![e] = text]
  <2>1. Has(c, e, "tmp") /\ tmp[e] \in File
    BY <1>1, <1>6 DEF Has, GatewayInv, Alone
  <2>2. PICK text \in Drawings(c, tmp[e]) : tmp' = [tmp EXCEPT ![e] = text]
    BY <1>6
  <2>3. /\ text \in File /\ text.crossed = tmp[e].crossed
        /\ text.exp = None => tmp[e].exp # None
        /\ OwnTrial(tmp[e], e) => OwnTrial(text, e)
    BY <1>1, <2>1, Texts
  <2>4. Stores' /\ FilesTrue'
    BY <1>1, <1>2, <1>6, <2>2, <2>3 DEF Shapes, Stores, FilesTrue
  <2>5. ASSUME NEW f \in Exps PROVE Alone(f)'
    <3>0. Alone(f)
      BY DEF GatewayInv
    <3>1. CASE f # e
      <4>1. tmp'[f] = tmp[f] /\ snap'[f] = snap[f]
        BY <1>1, <1>6, <2>2, <3>1
      <4>2. \A d \in Clients : Has(d, f, "tmp") => at'[d] = at[d]
        BY <1>4, <3>1 DEF Has
      <4> QED
        BY <1>5, <3>0, <4>1, <4>2 DEF Alone
    <3>2. CASE f = e
      <4>1. tmp'[f] = text /\ text # None /\ snap'[f] = snap[f]
        BY <1>1, <1>6, <2>2, <2>3, <3>2, NoneAssumption
      <4>2. ASSUME ~text.crossed, NEW d \in Clients, Has(d, f, "tmp")
            PROVE  d = c /\ text.exp # None
        BY <1>1, <2>1, <2>3, <3>0, <3>2, <4>2 DEF Alone
      <4>3. ASSUME NEW d \in Clients, Has(d, f, "tmp")
            PROVE  text.crossed \/ (text.exp = None <=> at'[d] = "fill")
        BY <1>4, <4>2, <4>3
      <4>4. ASSUME NEW d \in Clients, NEW b \in Clients, Has(d, f, "tmp"), Has(b, f, "tmp")
            PROVE  d = b \/ text.crossed
        BY <4>2, <4>4
      <4> QED
        BY <1>5, <3>0, <4>1, <4>3, <4>4 DEF Alone
    <3> QED
      BY <3>1, <3>2
  <2> QED
    BY <1>3, <2>4, <2>5 DEF Shapes
<1>7. CASE /\ job[c].file = "snap" /\ UNCHANGED tmp
           /\ \E text \in Drawings(c, snap[e]) : snap' = [snap EXCEPT ![e] = text]
  <2>1. Has(c, e, "snap") /\ snap[e] \in File /\ snap[e].crossed
    BY <1>1, <1>7 DEF Has, GatewayInv, Alone
  <2>2. PICK text \in Drawings(c, snap[e]) : snap' = [snap EXCEPT ![e] = text]
    BY <1>7
  <2>3. text \in File /\ text.crossed /\ (OwnTrial(snap[e], e) => OwnTrial(text, e))
    BY <1>1, <2>1, Texts
  <2>4. Stores' /\ FilesTrue'
    BY <1>1, <1>2, <1>7, <2>2, <2>3 DEF Shapes, Stores, FilesTrue
  <2>5. ASSUME NEW f \in Exps PROVE Alone(f)'
    <3>0. Alone(f) /\ tmp'[f] = tmp[f]
      BY <1>7 DEF GatewayInv
    <3>1. \A d \in Clients : Has(d, f, "tmp") => at'[d] = at[d]
      BY <1>4, <1>7 DEF Has
    <3>2. snap'[f] = IF f = e THEN text ELSE snap[f]
      BY <1>1, <2>2
    <3>3. f = e => snap'[f] # None /\ snap'[f].crossed
      BY <2>3, <3>2, NoneAssumption
    <3> QED
      BY <1>5, <3>0, <3>1, <3>2, <3>3 DEF Alone
  <2> QED
    BY <1>3, <2>4, <2>5 DEF Shapes
<1>8. CASE job[c].file = "gone" /\ UNCHANGED <<tmp, snap>>
  <2>1. \A d \in Clients, f \in Exps : Has(d, f, "tmp") => at'[d] = at[d]
    BY <1>4, <1>8 DEF Has
  <2>2. ASSUME NEW f \in Exps PROVE Alone(f)'
    BY <1>5, <1>8, <2>1 DEF GatewayInv, Alone
  <2> QED
    BY <1>1, <1>2, <1>3, <1>8, <2>2 DEF Shapes, Stores, FilesTrue
<1> QED
  BY <1>6, <1>7, <1>8 DEF Fill

LEMMA SwapKeeps ==
  ASSUME GatewayInv, NEW c \in Clients, Swap(c)
  PROVE  /\ Shapes' /\ FilesTrue' /\ \A e \in Exps : Alone(e)'
         /\ \A d \in Clients : at'[d] # "idle" =>
              /\ at'[d] = at[d] /\ job'[d].dir = job[d].dir /\ job'[d].drawn = job[d].drawn
              /\ job'[d].moved = job[d].moved /\ job'[d].rows = job[d].rows
              /\ job'[d].trial = job[d].trial /\ job'[d].shown = job[d].shown
<1>0. at[c] = "swap" /\ job[c].dir \in Exps
  BY DEF GatewayInv, Fresh, Swap
<1>e. PICK e \in Exps : e = job[c].dir
  BY <1>0
<1> DEFINE New(f) == IF f = "tmp" THEN "snap" ELSE "gone"
<1>1. /\ Shapes /\ FilesTrue /\ Fresh(c) /\ at[c] = "swap" /\ job[c] \in Jobs
      /\ tmp \in [Exps -> File \cup {None}] /\ snap \in [Exps -> File \cup {None}]
      /\ at \in [Clients -> Places] /\ job \in [Clients -> Jobs]
  BY Holds DEF GatewayInv, Fresh, Swap, Shapes, Stores, Threads
<1>2. UNCHANGED <<conn, current, built, result>>
  BY DEF Swap, service
<1>3. CASE tmp[e] = None /\ Answer(c) /\ UNCHANGED <<tmp, snap>>
  <2>1. Threads'
    BY <1>1, <1>2, <1>3, AnsweredFits
  <2>2. /\ at'[c] = "idle"
        /\ \A d \in Clients \ {c} : at'[d] = at[d] /\ job'[d] = job[d]
    BY <1>1, <1>3, GoneOn DEF Answer
  <2>3. ASSUME NEW f \in Exps PROVE Alone(f)'
    <3>1. \A d \in Clients, file \in {"tmp", "snap"} :
            Has(d, f, file)' => Has(d, f, file) /\ at'[d] = at[d]
      BY <2>2 DEF Has
    <3> QED
      BY <1>3, <3>1 DEF GatewayInv, Alone
  <2> QED
    BY <1>1, <1>2, <1>3, <2>1, <2>2, <2>3 DEF Shapes, Stores, FilesTrue
<1>4. CASE /\ tmp[e] # None
           /\ snap' = [snap EXCEPT ![e] = [tmp[e] EXCEPT !.crossed = @ \/ job[c].file # "tmp"]]
           /\ tmp' = [tmp EXCEPT ![e] = None]
           /\ at' = [at EXCEPT ![c] = "idle"]
           /\ job' = [d \in Clients |->
                IF d = c THEN Idle
                ELSE IF at[d] \in {"fill", "swap"} /\ job[d].dir = e
                     THEN [job[d] EXCEPT !.file = New(@)] ELSE job[d]]
  <2> DEFINE placed == [tmp[e] EXCEPT !.crossed = @ \/ job[c].file # "tmp"]
  <2>1. /\ tmp[e] \in File /\ placed \in File /\ placed.exp = tmp[e].exp
        /\ placed.moved = tmp[e].moved
        /\ placed.crossed <=> tmp[e].crossed \/ job[c].file # "tmp"
    BY <1>1, <1>4 DEF File
  <2>2. ASSUME NEW d \in Clients, d # c
        PROVE  /\ at'[d] = at[d] /\ job'[d] \in Jobs
               /\ job'[d].dir = job[d].dir /\ job'[d].drawn = job[d].drawn
               /\ job'[d].moved = job[d].moved /\ job'[d].rows = job[d].rows
               /\ job'[d].request = job[d].request /\ job'[d].trial = job[d].trial
               /\ job'[d].shown = job[d].shown
               /\ IF at[d] \in {"fill", "swap"} /\ job[d].dir = e
                  THEN job'[d].file # "tmp" /\ (job'[d].file = "snap" => job[d].file = "tmp")
                  ELSE job'[d].file = job[d].file
    <3>1. job[d] \in Jobs /\ at'[d] = at[d]
      BY <1>1, <1>4, <2>2
    <3>2. CASE at[d] \in {"fill", "swap"} /\ job[d].dir = e
      <4>1. job'[d] = [job[d] EXCEPT !.file = New(@)]
        BY <1>4, <2>2, <3>2
      <4>2. New(job[d].file) \in {"snap", "gone"} /\ (New(job[d].file) = "snap" => job[d].file = "tmp")
        OBVIOUS
      <4> HIDE DEF New
      <4> QED
        BY <3>1, <3>2, <4>1, <4>2 DEF Jobs
    <3>3. CASE ~(at[d] \in {"fill", "swap"} /\ job[d].dir = e)
      <4>1. job'[d] = job[d]
        BY <1>4, <2>2, <3>3
      <4> QED
        BY <3>1, <3>3, <4>1
    <3> QED
      BY <3>2, <3>3
  <2>3. at'[c] = "idle" /\ job'[c] = Idle
    BY <1>1, <1>4
  <2>4. Threads'
    <3>1. at' \in [Clients -> Places]
      BY <1>1, <1>4 DEF Places
    <3>2. job' \in [Clients -> Jobs]
      <4>1. \A d \in Clients : job'[d] \in Jobs
        BY <2>2, <2>3, IdleFits
      <4> QED
        BY <1>4, <4>1
    <3>3. ASSUME NEW d \in Clients
          PROVE  Footing(d, at[d], job[d])'
      <4>1. CASE d = c
        BY <2>3, <4>1 DEF Paths, Footing
      <4>2. CASE d # c
        BY <1>1, <1>2, <2>2, <4>2 DEF Shapes, Threads, Footing
      <4> QED
        BY <4>1, <4>2
    <3> QED
      BY <3>1, <3>2, <3>3 DEF Threads
  <2> HIDE DEF placed
  <2>5. /\ snap' = [snap EXCEPT ![e] = placed]
    BY <1>4 DEF placed
  <2>6. Stores'
    BY <1>1, <1>2, <1>4, <2>1, <2>5 DEF Shapes, Stores
  <2>7. FilesTrue'
    BY <1>1, <1>4, <2>1, <2>5 DEF FilesTrue, OwnTrial
  <2>10. ASSUME NEW d \in Clients, NEW f \in Exps, NEW file \in {"tmp", "snap"}, Has(d, f, file)'
         PROVE  /\ d # c /\ at'[d] = at[d]
                /\ f # e => Has(d, f, file)
                /\ f = e => file = "snap" /\ Has(d, e, "tmp")
    <3>1. d # c
      BY <2>3, <2>10 DEF Has
    <3>2. at[d] \in {"fill", "swap"} /\ job[d].dir = f /\ job'[d].file = file /\ at'[d] = at[d]
      BY <2>2, <2>10, <3>1 DEF Has
    <3>3. CASE f # e
      BY <2>2, <3>1, <3>2, <3>3 DEF Has
    <3>4. CASE f = e
      BY <2>2, <3>1, <3>2, <3>4 DEF Has
    <3> QED
      BY <3>1, <3>2, <3>3, <3>4
  <2>8. ASSUME NEW f \in Exps, f # e PROVE Alone(f)'
    <3>1. tmp'[f] = tmp[f] /\ snap'[f] = snap[f]
      BY <1>1, <1>4, <2>5, <2>8
    <3> QED
      BY <2>8, <2>10, <3>1 DEF GatewayInv, Alone
  <2>9. Alone(e)'
    <3>0. Alone(e) /\ placed # None
      BY <1>1, <2>1, NoneAssumption DEF GatewayInv
    <3>1. snap'[e] = placed
      BY <1>1, <2>5
    <3>2. ASSUME NEW d \in Clients PROVE ~Has(d, e, "tmp")'
      BY <1>1, <2>10
    <3>3. ASSUME NEW d \in Clients, Has(d, e, "snap")' PROVE placed.crossed
      <4>1. d # c /\ Has(d, e, "tmp")
        BY <1>1, <2>10, <3>3
      <4>3. CASE job[c].file = "tmp"
        <5>1. Has(c, e, "tmp")
          BY <1>e, <1>1, <4>3 DEF Has
        <5> QED
          BY <2>1, <3>0, <4>1, <5>1 DEF Alone
      <4> QED
        BY <2>1, <4>3
    <3>4. placed.exp = None => placed.crossed
      <4>1. CASE job[c].file = "tmp"
        <5>1. Has(c, e, "tmp")
          BY <1>e, <1>1, <4>1 DEF Has
        <5> QED
          BY <1>1, <2>1, <3>0, <5>1 DEF Alone
      <4> QED
        BY <2>1, <4>1
    <3> QED
      BY <3>0, <3>1, <3>2, <3>3, <3>4 DEF Alone
  <2> QED
    BY <2>2, <2>3, <2>4, <2>6, <2>7, <2>8, <2>9 DEF Shapes
<1> QED
  BY <1>e, <1>3, <1>4 DEF Swap

--------------------------------------------------------------------------------
(* The steps that leave the files alone.                                       *)
ThreadsTrue == \A c \in Clients : Fresh(c) /\ Found(c)

LEMMA FilesLeft ==
  ASSUME GatewayInv, UNCHANGED files,
         \A d \in Clients : at'[d] \in {"fill", "swap"} =>
           at'[d] = at[d] /\ job'[d].dir = job[d].dir /\ job'[d].file = job[d].file
  PROVE  FilesTrue' /\ \A e \in Exps : Alone(e)'
<1>1. FilesTrue'
  BY DEF GatewayInv, FilesTrue, files
<1>2. ASSUME NEW e \in Exps PROVE Alone(e)'
  <2>1. \A d \in Clients, file \in {"tmp", "snap"} :
          Has(d, e, file)' => Has(d, e, file) /\ at'[d] = at[d]
    BY DEF Has
  <2> QED
    BY <2>1 DEF GatewayInv, Alone, files
<1> QED
  BY <1>1, <1>2

LEMMA ThreadKept ==
  ASSUME Shapes, ThreadsTrue, NEW c \in Clients, NEW p, NEW j, Goto(c, p, j), current' = current
  PROVE  \A d \in Clients \ {c} : Fresh(d)' /\ Found(d)'
BY GoneOn DEF ThreadsTrue, Fresh, Found

LEMMA MovesKeep ==
  ASSUME GatewayInv, NEW c \in Clients, NEW p, NEW j, Goto(c, p, j), p \notin {"fill", "swap"},
         UNCHANGED <<current, files>>, Fresh(c)', Found(c)'
  PROVE  ThreadsTrue' /\ FilesTrue' /\ \A e \in Exps : Alone(e)'
<1>1. ThreadsTrue'
  BY ThreadKept DEF GatewayInv, ThreadsTrue
<1>2. \A d \in Clients : at'[d] \in {"fill", "swap"} => at'[d] = at[d] /\ job'[d] = job[d]
  BY GoneOn DEF GatewayInv
<1> QED
  BY <1>1, <1>2, FilesLeft

LEMMA AnswersKeep ==
  ASSUME GatewayInv, NEW c \in Clients, Answer(c), UNCHANGED <<current, files>>
  PROVE  ThreadsTrue' /\ FilesTrue' /\ \A e \in Exps : Alone(e)'
<1>1. at'[c] = "idle"
  BY GoneOn DEF Answer, GatewayInv
<1> QED
  BY <1>1, MovesKeep DEF Answer, Fresh, Found

(* A thread that has yet to look for anything, or to draw, owes nothing.       *)
LEMMA BareKeeps ==
  ASSUME GatewayInv, NEW c \in Clients, NEW j, UNCHANGED <<current, files>>,
         NEW p \in Paths \cup {"route", "reset", "adopt", "record", "ledger", "writer"},
         Goto(c, p, j)
  PROVE  ThreadsTrue' /\ FilesTrue' /\ \A e \in Exps : Alone(e)'
<1>1. at'[c] = p
  BY GoneOn DEF GatewayInv
<1> QED
  BY <1>1, MovesKeep DEF Fresh, Found, Paths

LEMMA AdoptKeeps ==
  ASSUME GatewayInv, NEW c \in Clients, Adopt(c)
  PROVE  ThreadsTrue' /\ FilesTrue' /\ \A e \in Exps : Alone(e)'
<1>1. /\ Shapes /\ UNCHANGED files
      /\ at'[c] = "idle"
      /\ \A d \in Clients \ {c} :
           /\ at'[d] = at[d] /\ job'[d].trial = job[d].trial /\ job'[d].rows = job[d].rows
           /\ job'[d].dir = job[d].dir /\ job'[d].file = job[d].file
           /\ job'[d].drawn = job[d].drawn /\ job'[d].shown = job[d].shown
           /\ ~job'[d].moved => ~job[d].moved /\ current' = current
  BY Overtaken DEF GatewayInv, Adopt
<1>2. ASSUME NEW d \in Clients PROVE Fresh(d)' /\ Found(d)'
  <2>1. CASE d = c
    BY <1>1, <2>1 DEF Fresh, Found
  <2>2. CASE d # c
    BY <1>1, <2>2 DEF GatewayInv, Fresh, Found
  <2> QED
    BY <2>1, <2>2
<1> QED
  BY <1>1, <1>2, FilesLeft DEF ThreadsTrue

(* A result that nobody overtook is the current experiment's.                  *)
LEMMA ResultKept ==
  ASSUME GatewayInv, NEW c \in Clients,
         Grade(c) \/ Adopt(c) \/ (current' = current /\ result' \in {None, result})
  PROVE  OwnResult'
<1>1. CASE Grade(c)
  <2>1. result' = [exp |-> job[c].trial, moved |-> job[c].moved] /\ current' = current
    BY <1>1 DEF Grade
  <2>2. ~job[c].moved => job[c].trial = current
    BY <1>1 DEF GatewayInv, Fresh, Grade
  <2> QED
    BY <2>1, <2>2 DEF OwnResult
<1>2. CASE Adopt(c)
  <2>1. result # None => result' = [result EXCEPT !.moved = @ \/ job[c].dir # current]
    BY <1>2 DEF Adopt
  <2>2. result = None => result' = None
    BY <1>2 DEF Adopt
  <2>3. current' = job[c].dir /\ result \in Result \cup {None}
    BY <1>2 DEF Adopt, GatewayInv, Shapes, Stores
  <2>4. CASE result = None
    BY <2>2, <2>4 DEF OwnResult
  <2>5. CASE result # None
    <3>1. result'.exp = result.exp /\ (result'.moved <=> result.moved \/ job[c].dir # current)
      BY <2>1, <2>3, <2>5 DEF Result
    <3> QED
      BY <2>3, <2>5, <3>1 DEF OwnResult, GatewayInv
  <2> QED
    BY <2>4, <2>5
<1>3. CASE current' = current /\ result' \in {None, result}
  BY <1>3 DEF GatewayInv, OwnResult
<1> QED
  BY <1>1, <1>2, <1>3

(* The hook before it opens a file, and the page that is put together.         *)
LEMMA LooksKeep ==
  ASSUME GatewayInv, NEW c \in Clients,
         PickWriter(c) \/ Look(c) \/ FindLedger(c) \/ FindSnapshot(c) \/ Read(c)
  PROVE  ThreadsTrue' /\ FilesTrue' /\ \A e \in Exps : Alone(e)'
<1>0. /\ Shapes /\ OwnResult /\ Fresh(c) /\ job[c] \in Jobs /\ current \in Exps \cup {None}
      /\ at[c] = "writer" => current # None
      /\ result \in Result \cup {None}
  BY Holds DEF GatewayInv, Shapes, Stores, Footing
<1>1. CASE PickWriter(c)
  <2> DEFINE j == [Idle EXCEPT !.dir = WriterDir(c)]
  <2>1. Goto(c, "look", j) /\ UNCHANGED <<current, files>> /\ j.dir = current /\ current \in Exps
    BY <1>0, <1>1 DEF PickWriter, service, WriterDir, Idle
  <2> HIDE DEF j
  <2>2. at'[c] = "look" /\ job'[c] = j
    BY <1>0, <2>1, GoneOn
  <2>3. Fresh(c)' /\ Found(c)'
    BY <2>1, <2>2 DEF Fresh, Found
  <2> QED
    BY <2>1, <2>3, MovesKeep
<1>2. CASE Look(c) /\ Answer(c)
  BY <1>2, AnswersKeep DEF Look, service
<1>3. CASE /\ Look(c) /\ result # None
           /\ Goto(c, "open", [job[c] EXCEPT !.drawn = [result EXCEPT !.moved = @ \/ job[c].moved]])
  <2> DEFINE drawn == [result EXCEPT !.moved = @ \/ job[c].moved]
             j == [job[c] EXCEPT !.drawn = drawn]
  <2>1. drawn \in Result /\ drawn.exp = result.exp /\ (drawn.moved <=> result.moved \/ job[c].moved)
    BY <1>0, <1>3 DEF Result, Jobs
  <2>2. /\ Goto(c, "open", j) /\ UNCHANGED <<current, files>> /\ at[c] = "look"
        /\ j.dir = job[c].dir /\ j.drawn = drawn
    BY <1>0, <1>3 DEF Look, service, Jobs
  <2> HIDE DEF j, drawn
  <2>3. job[c].dir \in Exps /\ (~drawn.moved => drawn.exp = job[c].dir)
    BY <1>0, <1>3, <2>1, <2>2 DEF Fresh, OwnResult
  <2>4. at'[c] = "open" /\ job'[c] = j
    BY <1>0, <2>2, GoneOn
  <2>5. Fresh(c)' /\ Found(c)'
    BY <2>1, <2>2, <2>3, <2>4 DEF Fresh, Found
  <2> QED
    BY <2>2, <2>5, MovesKeep
<1>4. CASE FindLedger(c)
  <2> DEFINE j == [Idle EXCEPT !.rows = current]
  <2>1. Goto(c, "snapshot", j) /\ UNCHANGED <<current, files>> /\ j.rows = current
    BY <1>4 DEF FindLedger, service, Idle
  <2> HIDE DEF j
  <2>2. at'[c] = "snapshot" /\ job'[c] = j
    BY <1>0, <2>1, GoneOn
  <2>3. Fresh(c)' /\ Found(c)'
    BY <2>1, <2>2 DEF Fresh, Found
  <2> QED
    BY <2>1, <2>3, MovesKeep
<1>5. CASE FindSnapshot(c)
  <2> DEFINE j == [job[c] EXCEPT !.dir = current]
  <2>1. /\ Goto(c, "read", j) /\ UNCHANGED <<current, files>> /\ at[c] = "snapshot"
        /\ j.dir = current /\ j.rows = job[c].rows /\ j.moved = job[c].moved
    BY <1>0, <1>5 DEF FindSnapshot, service, Jobs
  <2> HIDE DEF j
  <2>2. at'[c] = "read" /\ job'[c] = j
    BY <1>0, <2>1, GoneOn
  <2>3. Fresh(c)' /\ Found(c)'
    BY <1>0, <2>1, <2>2 DEF Fresh, Found
  <2> QED
    BY <2>1, <2>3, MovesKeep
<1>6. CASE Read(c)
  <2> DEFINE seen == ReadJson(job[c].dir)
             j == [job[c] EXCEPT !.shown = seen]
  <2>1. /\ Goto(c, "head", j) /\ UNCHANGED <<current, files>> /\ at[c] = "read"
        /\ j.dir = job[c].dir /\ j.rows = job[c].rows /\ j.moved = job[c].moved
        /\ j.shown = seen
    BY <1>0, <1>6 DEF Read, service, Jobs
  <2>2. seen \in File \cup {None} /\ OwnTrial(seen, job[c].dir) /\ (seen # None => seen.exp # None)
    <3>1. CASE seen = None
      BY <3>1 DEF OwnTrial
    <3>2. CASE seen # None
      <4>1. job[c].dir \in Exps /\ seen = snap[job[c].dir] /\ seen.exp # None
        BY <1>0, <3>2 DEF ReadJson, Jobs
      <4> QED
        BY <4>1 DEF GatewayInv, FilesTrue, Shapes, Stores
    <3> QED
      BY <3>1, <3>2
  <2> HIDE DEF j, seen
  <2>3. at'[c] = "head" /\ job'[c] = j
    BY <1>0, <2>1, GoneOn
  <2>4. Fresh(c)' /\ Found(c)'
    BY <1>0, <2>1, <2>2, <2>3 DEF Fresh, Found
  <2> QED
    BY <2>1, <2>4, MovesKeep
<1> QED
  BY <1>1, <1>2, <1>3, <1>4, <1>5, <1>6 DEF Look

LEMMA TurnsKeep ==
  ASSUME GatewayInv, NEW c \in Clients,
         \/ Receive(c) \/ Reconnect(c) \/ Refuse(c) \/ Serve(c)
         \/ McpRefuse(c) \/ Initialize(c) \/ EndSession(c) \/ BadOrder(c)
         \/ Switch(c) \/ Reset(c) \/ BuildFlowgraph(c) \/ RunFlowgraph(c)
         \/ Grade(c) \/ LoseRadio(c) \/ Record(c) \/ Head(c)
  PROVE  ThreadsTrue' /\ FilesTrue' /\ \A e \in Exps : Alone(e)'
<1>0. Shapes /\ UNCHANGED <<current, files>>
  BY DEF GatewayInv, Receive, Reconnect, Refuse, RefuseUpTo, Serve, McpRefuse, Initialize,
         EndSession, BadOrder, Switch, Reset, BuildFlowgraph, RunFlowgraph, Grade, LoseRadio,
         Record, Head, service
<1>1. CASE Answer(c)
  BY <1>0, <1>1, AnswersKeep
<1>2. CASE UNCHANGED <<at, job>>
  <2>1. ThreadsTrue'
    BY <1>0, <1>2 DEF GatewayInv, ThreadsTrue, Fresh, Found
  <2> QED
    BY <1>0, <1>2, <2>1, FilesLeft
<1>3. ASSUME NEW j, NEW p \in Paths \cup {"route", "reset", "adopt", "record", "ledger", "writer"},
             Goto(c, p, j)
      PROVE  ThreadsTrue' /\ FilesTrue' /\ \A e \in Exps : Alone(e)'
  BY <1>0, <1>3, BareKeeps
<1>4. CASE RunFlowgraph(c) /\ Goto(c, "measure", [Idle EXCEPT !.trial = current])
  <2> DEFINE j == [Idle EXCEPT !.trial = current]
  <2>1. Goto(c, "measure", j) /\ j.trial = current
    BY <1>4 DEF Idle
  <2> HIDE DEF j
  <2>2. at'[c] = "measure" /\ job'[c] = j
    BY <1>0, <2>1, GoneOn
  <2>3. Fresh(c)' /\ Found(c)'
    BY <1>0, <2>1, <2>2 DEF Fresh, Found
  <2> QED
    BY <1>0, <2>1, <2>3, MovesKeep
<1>5. CASE Serve(c)
  <2>1. Answer(c) \/ (Goto(c, Handler(job[c].request), job[c]) /\ Handler(job[c].request) # "idle")
    BY <1>5 DEF Serve
  <2>2. Handler(job[c].request) # "idle" => Handler(job[c].request) \in Paths \cup {"ledger"}
    BY Handlers DEF Paths
  <2> QED
    BY <1>1, <1>3, <2>1, <2>2
<1>6. CASE Switch(c)
  <2>1. PICK e \in Exps : Answer(c) \/ Goto(c, "reset", [Idle EXCEPT !.dir = e])
    BY <1>6 DEF Switch
  <2> QED
    BY <1>1, <1>3, <2>1
<1> QED
  BY <1>1, <1>2, <1>3, <1>4, <1>5, <1>6
     DEF Receive, Reconnect, Refuse, RefuseUpTo, McpRefuse, Initialize, EndSession, BadOrder,
         Reset, BuildFlowgraph, RunFlowgraph, Grade, LoseRadio, Record, Head

LEMMA WriterKeeps ==
  ASSUME GatewayInv, NEW c \in Clients, Open(c) \/ Fill(c) \/ Swap(c)
  PROVE  GatewayInv'
<1>0. Shapes /\ ThreadsTrue /\ current' = current /\ Fresh(c) /\ OwnResult'
  BY DEF GatewayInv, ThreadsTrue, OwnResult, Open, Fill, Swap, service
<1>1. CASE Open(c)
  <2> DEFINE j == [job[c] EXCEPT !.file = "tmp"]
  <2>1. Goto(c, "fill", j) /\ at[c] = "open" /\ j.dir = job[c].dir /\ j.drawn = job[c].drawn
    BY <1>0, <1>1, Holds DEF Open, Jobs
  <2> HIDE DEF j
  <2>2. at'[c] = "fill" /\ job'[c] = j
    BY <1>0, <2>1, GoneOn
  <2>3. Fresh(c)' /\ Found(c)'
    BY <1>0, <2>1, <2>2 DEF Fresh, Found
  <2> QED
    BY <1>0, <1>1, <2>1, <2>3, ThreadKept, OpenKeeps DEF GatewayInv
<1>2. CASE Fill(c)
  <2>1. Goto(c, "swap", job[c]) /\ at[c] = "fill"
    BY <1>2 DEF Fill
  <2>2. at'[c] = "swap" /\ job'[c] = job[c]
    BY <1>0, <2>1, GoneOn
  <2>3. Fresh(c)' /\ Found(c)'
    BY <1>0, <2>1, <2>2 DEF Fresh, Found
  <2> QED
    BY <1>0, <1>2, <2>1, <2>3, ThreadKept, FillKeeps DEF GatewayInv
<1>3. CASE Swap(c)
  <2>1. ASSUME NEW d \in Clients PROVE Fresh(d)' /\ Found(d)'
    <3>1. CASE at'[d] = "idle"
      BY <3>1 DEF Fresh, Found
    <3>2. CASE at'[d] # "idle"
      <4>1. /\ at'[d] = at[d] /\ job'[d].dir = job[d].dir /\ job'[d].drawn = job[d].drawn
            /\ job'[d].moved = job[d].moved /\ job'[d].rows = job[d].rows
            /\ job'[d].trial = job[d].trial /\ job'[d].shown = job[d].shown
        BY <1>3, <3>2, SwapKeeps
      <4>2. Fresh(d) /\ Found(d)
        BY DEF GatewayInv
      <4> QED
        BY <1>0, <4>1, <4>2 DEF Fresh, Found
    <3> QED
      BY <3>1, <3>2
  <2> QED
    BY <1>0, <1>3, <2>1, SwapKeeps DEF GatewayInv
<1> QED
  BY <1>1, <1>2, <1>3

--------------------------------------------------------------------------------
LEMMA StepKeeps ==
  ASSUME GatewayInv, [Next]_vars
  PROVE  GatewayInv'
<1>1. ASSUME NEW c \in Clients,
             \/ Receive(c) \/ Reconnect(c) \/ Refuse(c) \/ Serve(c)
             \/ McpRefuse(c) \/ Initialize(c) \/ EndSession(c) \/ BadOrder(c)
      PROVE  GatewayInv'
  <2>1. OwnResult'
    BY <1>1, ResultKept DEF Receive, Reconnect, Refuse, RefuseUpTo, Serve, McpRefuse, Initialize,
       EndSession, BadOrder, service
  <2> QED
    BY <1>1, <2>1, RequestsKept, TurnsKeep DEF GatewayInv, ThreadsTrue
<1>2. ASSUME NEW c \in Clients,
             Switch(c) \/ Reset(c) \/ BuildFlowgraph(c) \/ RunFlowgraph(c)
               \/ Grade(c) \/ LoseRadio(c) \/ Record(c)
      PROVE  GatewayInv'
  <2>1. OwnResult'
    BY <1>2, ResultKept DEF Switch, Reset, BuildFlowgraph, RunFlowgraph, LoseRadio, Record, service
  <2> QED
    BY <1>2, <2>1, TrialsKept, TurnsKeep DEF GatewayInv, ThreadsTrue
<1>3. ASSUME NEW c \in Clients, Adopt(c)
      PROVE  GatewayInv'
  BY <1>3, ResultKept, TrialsKept, AdoptKeeps DEF GatewayInv, ThreadsTrue
<1>4. ASSUME NEW c \in Clients,
             PickWriter(c) \/ Look(c) \/ FindLedger(c) \/ FindSnapshot(c) \/ Read(c) \/ Head(c)
      PROVE  GatewayInv'
  <2>1. OwnResult'
    BY <1>4, ResultKept DEF PickWriter, Look, FindLedger, FindSnapshot, Read, Head, service
  <2> QED
    BY <1>4, <2>1, LooksFit, LooksKeep, TurnsKeep DEF GatewayInv, ThreadsTrue
<1>5. CASE UNCHANGED vars
  BY <1>5 DEF vars, GatewayInv, Shapes, Threads, Footing, Stores, OwnResult, Fresh, Found,
     FilesTrue, Alone, Has
<1> QED
  BY <1>1, <1>2, <1>3, <1>4, <1>5, WriterKeeps DEF Next

LEMMA StartsTrue == Init => GatewayInv
<1> SUFFICES ASSUME Init PROVE GatewayInv
  OBVIOUS
<1>1. Shapes
  BY IdleFits DEF Init, Shapes, Threads, Footing, Stores, Places, Paths
<1> QED
  BY <1>1 DEF Init, GatewayInv, OwnResult, Fresh, Found, FilesTrue, OwnTrial, Alone, Has

(* The console is never told of a mixture, however many connections write,     *)
(* select and read at once (telemetry/server.py's /data over                   *)
(* telemetry/writer.py): rows, snapshot and heading are of one experiment      *)
(* unless another was selected meanwhile, and only two writers that overlapped *)
(* can leave a snapshot that does not parse.                                   *)
THEOREM PagesStayTrue == Spec => []PageIsTrue
<1>1. GatewayInv => PageIsTrue
  <2> SUFFICES ASSUME GatewayInv PROVE PageIsTrue
    OBVIOUS
  <2>1. ASSUME NEW c \in Clients, at[c] = "head"
        PROVE  LET page == Page(c)
               IN /\ ~job[c].moved => page.rows = page.head /\ page.dir = page.head
                  /\ page.snapshot # None /\ ~page.snapshot.moved => page.snapshot.exp = page.dir
    <3>1. Fresh(c) /\ Found(c)
      BY DEF GatewayInv
    <3> QED
      BY <2>1, <3>1 DEF Fresh, Found, OwnTrial, Page
  <2> QED
    BY <2>1 DEF PageIsTrue, GatewayInv, Alone
<1> QED
  BY <1>1, StartsTrue, StepKeeps, PTL DEF Spec

(* What a refusal does not drain it closes on.                                 *)
LEMMA RefusedWhole ==
  ASSUME NEW c \in Clients, Refuse(c), conn \in [Clients -> [open : BOOLEAN, unread : BOOLEAN]],
         job[c].request \in Requests[c]
  PROVE  /\ ~(conn'[c].open /\ conn'[c].unread)
         /\ \A d \in Clients \ {c} : conn'[d] = conn[d]
<1> DEFINE r == job[c].request
           drained == IF r.size <= MaxBody THEN r.size ELSE 0
<1>1. r.size \in Nat /\ (r.chunked => r.size = 0)
  BY RequestAssumption
<1>2. PICK fails \in BOOLEAN :
        conn' = [conn EXCEPT ![c] = [open |-> ~(r.size > MaxBody \/ (r.size = 0 /\ r.chunked)) /\ ~fails,
                                     unread |-> Body(r) > drained]]
  BY DEF Refuse, RefuseUpTo
<1>3. conn'[c].open => r.size <= MaxBody /\ ~r.chunked
  <2>1. conn'[c].open => ~(r.size > MaxBody) /\ ~(r.size = 0 /\ r.chunked)
    BY <1>2
  <2>2. ~(r.size > MaxBody) => r.size <= MaxBody
    BY <1>1, LimitAssumption
  <2> QED
    BY <1>1, <2>1, <2>2
<1>4. conn'[c].unread => Body(r) > drained
  BY <1>2
<1>5. ~r.chunked /\ r.size <= MaxBody => ~(Body(r) > drained)
  BY <1>1 DEF Body
<1>6. \A d \in Clients \ {c} : conn'[d] = conn[d]
  BY <1>2
<1> QED
  BY <1>3, <1>4, <1>5, <1>6

(* A request that is refused leaves its keep-alive stream in step, whatever    *)
(* its size and the limits: an open stream comes to hold an unread body only   *)
(* behind a request that was served, and was chunked or no post.               *)
THEOREM StreamsStayInStep == Spec => InStep
<1>1. ASSUME GatewayInv, [Next]_vars, NEW c \in Clients,
             conn'[c].open, conn'[c].unread, ~conn[c].unread
      PROVE  LET r == job[c].request IN ~Refused(r) /\ (r.chunked \/ r.verb # "POST")
  <2>1. conn \in [Clients -> [open : BOOLEAN, unread : BOOLEAN]]
    BY <1>1 DEF GatewayInv, Shapes, Stores
  <2>2. conn' # conn
    BY <1>1
  <2>3. PICK d \in Clients : Receive(d) \/ Reconnect(d) \/ Refuse(d) \/ Serve(d)
    BY <1>1, <2>2 DEF Next, vars, McpRefuse, Initialize, EndSession, Switch, Reset, Adopt,
         BadOrder, BuildFlowgraph, RunFlowgraph, Grade, LoseRadio, Record, PickWriter, Look,
         Open, Fill, Swap, FindLedger, FindSnapshot, Read, Head
  <2>4. ~Receive(d)
    BY <1>1, <2>1, <2>2 DEF Receive
  <2>5. ~Reconnect(d)
    BY <1>1, <2>1 DEF Reconnect
  <2>6. at[d] = "route" => job[d].request \in Requests[d]
    BY <1>1, Holds DEF GatewayInv, Footing
  <2>7. ~Refuse(d)
    BY <1>1, <2>1, <2>6, RefusedWhole DEF Refuse, RefuseUpTo
  <2>8. CASE Serve(d)
    <3>1. conn' = [conn EXCEPT ![d].unread = Body(job[d].request) > Taken(job[d].request)]
      BY <2>8 DEF Serve
    <3>2. d = c
      BY <1>1, <2>1, <3>1
    <3>3. Body(job[c].request) > Taken(job[c].request)
      BY <1>1, <2>1, <3>1, <3>2
    <3>4. job[c].request.size \in Nat /\ ~Refused(job[c].request)
      BY <2>6, <2>8, <3>2, RequestAssumption DEF Serve
    <3>5. job[c].request.chunked \/ job[c].request.verb # "POST"
      BY <3>3, <3>4 DEF Body, Taken
    <3> QED
      BY <3>4, <3>5
  <2> QED
    BY <2>3, <2>4, <2>5, <2>7, <2>8
<1>2. GatewayInv /\ [Next]_vars =>
        [\A c \in Clients :
           conn'[c].open /\ conn'[c].unread /\ ~conn[c].unread =>
             LET r == job[c].request IN ~Refused(r) /\ (r.chunked \/ r.verb # "POST")]_vars
  BY <1>1
<1> QED
  BY <1>2, StartsTrue, StepKeeps, PTL DEF Spec, InStep
===============================================================================
