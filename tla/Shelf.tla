-------------------------------- MODULE Shelf ---------------------------------
(* What the archive promises: experiments stand under one name each, a name    *)
(* is given to an experiment once at a time, a history only grows, and only a  *)
(* delete takes one away, never the one that is being written.                 *)
EXTENDS Naturals, Sequences

CONSTANTS Names, None

VARIABLES place,    \* name -> the experiment that stands there, or None
          written,  \* the length of each history started so far
          chosen    \* the experiment the session writes into, or None

shelfVars == <<place, written, chosen>>

ShelfInit ==
  /\ place \in [Names -> {None} \cup DOMAIN written]
  /\ \A e \in DOMAIN written : written[e] = 0
  /\ chosen = None

(* A database is given out when it is made, and stands on the shelf once it    *)
(* holds its experiment.                                                       *)
Make == written' = Append(written, 0) /\ UNCHANGED <<place, chosen>>

Create(n, e) ==
  /\ place[n] = None
  /\ written' \in {written, Append(written, 0)}
  /\ e \in DOMAIN written' /\ \A m \in Names : place[m] # e
  /\ place' = [place EXCEPT ![n] = e]
  /\ UNCHANGED chosen

Rename(old, new) ==
  /\ place[old] # None /\ place[new] = None
  /\ place' = [place EXCEPT ![old] = None, ![new] = place[old]]
  /\ UNCHANGED <<written, chosen>>

Take(n) ==
  /\ place[n] \notin {None, chosen}
  /\ place' = [place EXCEPT ![n] = None]
  /\ UNCHANGED <<written, chosen>>

Choose(n) ==
  /\ place[n] # None
  /\ chosen' = place[n]
  /\ UNCHANGED <<place, written>>

Write(e) ==
  /\ e \in DOMAIN written
  /\ written' = [written EXCEPT ![e] = @ + 1]
  /\ UNCHANGED <<place, chosen>>

ShelfNext ==
  \/ Make
  \/ \E n \in Names :
       \/ Take(n) \/ Choose(n)
       \/ \E new \in Names : Rename(n, new)
       \/ \E e \in 1 .. Len(written) + 1 : Create(n, e)
  \/ \E e \in DOMAIN written : Write(e)

ShelfSpec == ShelfInit /\ [][ShelfNext]_shelfVars
===============================================================================
