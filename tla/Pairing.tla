------------------------------- MODULE Pairing -------------------------------
(***************************************************************************)
(* What the room store promises, with no timers, sockets or generations: a *)
(* code names at most one rendezvous at a time, a rendezvous is opened by  *)
(* one peer, completed by exactly one other, and never changes hands.      *)
(* RoomStore implements this module (RoomStore!Contract).                  *)
(***************************************************************************)
CONSTANTS Codes, Peers

VARIABLES status,   \* [Codes -> {"free", "waiting", "paired", "closed"}]
          members   \* [Codes -> SUBSET Peers]

vars == <<status, members>>

Init == /\ status = [c \in Codes |-> "free"]
        /\ members = [c \in Codes |-> {}]

(* A peer opens a free code. *)
Open(c, p) ==
  /\ status[c] = "free"
  /\ status' = [status EXCEPT ![c] = "waiting"]
  /\ members' = [members EXCEPT ![c] = {p}]

(* A second, different peer completes the rendezvous. *)
Pair(c, p) ==
  /\ status[c] = "waiting"
  /\ p \notin members[c]
  /\ status' = [status EXCEPT ![c] = "paired"]
  /\ members' = [members EXCEPT ![c] = @ \cup {p}]

(* Rendezvous end: those in F become free codes, those in S stay closed.   *)
(* Nothing that is free is touched, and nobody enters or leaves otherwise. *)
Retire(F, S) ==
  /\ \A c \in F \cup S : status[c] # "free"
  /\ status' = [c \in Codes |-> IF c \in F THEN "free"
                                ELSE IF c \in S THEN "closed" ELSE status[c]]
  /\ members' = [c \in Codes |-> IF c \in F THEN {} ELSE members[c]]

Next == \/ \E c \in Codes, p \in Peers : Open(c, p) \/ Pair(c, p)
        \/ \E F \in SUBSET Codes, S \in SUBSET Codes : Retire(F, S)

Spec == Init /\ [][Next]_vars
=============================================================================
