------------------------------ MODULE RadioLink -------------------------------
(* What the service may assume of a radio behind a worker process: a request   *)
(* is answered once, with its own answer, with an error, or with the loss of   *)
(* the device; and once the device is lost no request measures anything again. *)
CONSTANTS Clients

VARIABLES lost,    \* the device is gone for good
          reply    \* client -> the fate of its request

LinkInit == lost = FALSE /\ reply = [c \in Clients |-> "none"]

Fate(c, from, to) ==
  /\ reply[c] = from
  /\ reply' = [reply EXCEPT ![c] = to]

Ask(c) == Fate(c, "none", "pending") /\ UNCHANGED lost

Answer(c) == ~lost /\ Fate(c, "pending", "ok") /\ UNCHANGED lost

(* A request may be refused by a radio that is there, and by a lost one.       *)
Fail(c) == Fate(c, "pending", "failed") /\ UNCHANGED lost

Take(c) == (Fate(c, "ok", "none") \/ Fate(c, "failed", "none")) /\ UNCHANGED lost

Lose == lost' = TRUE /\ UNCHANGED reply

LinkNext == Lose \/ \E c \in Clients : Ask(c) \/ Answer(c) \/ Fail(c) \/ Take(c)

LinkSpec == LinkInit /\ [][LinkNext]_<<lost, reply>>
===============================================================================
