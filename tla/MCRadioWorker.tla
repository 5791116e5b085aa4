----------------------------- MODULE MCRadioWorker ----------------------------
(* Small instances of RadioWorker for TLC.                                     *)
EXTENDS RadioWorker, TLC

CONSTANTS c1, c2, f1, f2, tx, rx

TwoClients == {c1, c2}
TwoChans == {f1, f2}
TwoRoles == {tx, rx}

Req(kind, freqs) == [kind |-> kind, freqs |-> freqs]

(* The agent: a trial, a retune, a sweep, a sweep of one channel, an object    *)
(* the protocol cannot carry. The console: a health poll.                      *)
Agent == {Req("run", <<>>), Req("tune", <<f2>>), Req("sense", <<f1, f2>>),
          Req("sense", <<f1>>), Req("alien", <<>>)}
Console == {Health}

Asked == (c1 :> Agent) @@ (c2 :> Console)
===============================================================================
