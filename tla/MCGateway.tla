------------------------------- MODULE MCGateway -------------------------------
(* A small instance of Gateway for TLC.                                        *)
EXTENDS Gateway, TLC

CONSTANTS agent, portal, e1, e2

TwoClients == {agent, portal}
TwoExps == {e1, e2}

Request(verb, path, call, exp, size) ==
  [verb |-> verb, path |-> path, call |-> call, exp |-> exp, size |-> size, chunked |-> FALSE,
   origin |-> "none", local |-> TRUE, token |-> FALSE]
Post(path, call) == Request("POST", path, call, None, 1)
Choose(path, call, e) == Request("POST", path, call, e, 1)

Tools ==
  {Post("mcp", call) : call \in {"initialize", "build", "run"}}
    \cup {Request("DELETE", "mcp", "end", None, 0)}
    \cup {Choose("mcp", "switch", e) : e \in TwoExps}
Console == {Request("GET", "data", None, None, 0)} \cup {Choose("experiments", None, e) : e \in TwoExps}

(* Sizes are in units of 64 KiB: one is the most do_POST reads, sixteen the    *)
(* most the tool endpoint does; a caller from elsewhere, and one without the   *)
(* token; bodies without a length.                                             *)
Others ==
  {[Post(p, "run") EXCEPT !.size = 2] : p \in {"mcp", "control", "other"}}
    \cup {[Post("mcp", "run") EXCEPT !.size = 17], Post("experiments", None)}
    \cup {[Post(p, "run") EXCEPT !.size = 0, !.chunked = TRUE] : p \in {"mcp", "other"}}
    \cup {[Post(p, "run") EXCEPT !.local = FALSE, !.token = p = "mcp"] : p \in {"mcp", "control"}}
    \cup {[Post(p, "run") EXCEPT !.origin = "elsewhere"] : p \in {"mcp", "control"}}
    \cup {[Request("GET", "control", None, None, 2) EXCEPT !.local = FALSE]}
    \cup {Request("DELETE", "mcp", "end", None, 1), Request("GET", "other", None, None, 1)}

Traffic ==
  (agent :> Tools \cup Others) @@ (portal :> Console \cup {Post("mcp", call) : call \in {"initialize", "run"}})
Same == Permutations(TwoExps)
===============================================================================
