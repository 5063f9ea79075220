-------------------------------- MODULE Bus --------------------------------
(***************************************************************************)
(* backend/internal/bus: the relay between the sessions of one room, in    *)
(* its single-process implementation (memory/memory.go).  Every operation  *)
(* runs under the bus's mutex.  One room is modelled, so the map of codes  *)
(* is the set of its subscribers.                                          *)
(***************************************************************************)
EXTENDS Naturals, Sequences

CONSTANTS Sessions,  \* WebSocket connections; each may subscribe once
          BusCap     \* capacity of a subscription's channel

ASSUME BusCapAssumption == BusCap \in Nat \ {0}

VARIABLES subs,   \* sessions with a live subscription
          inbox   \* [Sessions -> Seq(envelope)], the channel of each

busVars == <<subs, inbox>>

BusInit == subs = {} /\ inbox = [s \in Sessions |-> <<>>]

(* KindRelay and the rest; "superseded" is about the publisher's own peer. *)
Kinds == {"relay", "peer_joined", "peer_disconnected", "peer_reattached",
          "superseded", "room_closed"}

Subscribe(s) == subs' = subs \cup {s} /\ UNCHANGED inbox

(* The channel is closed; what it still holds is not read any more.        *)
Unsubscribe(s) == subs' = subs \ {s} /\ inbox' = [inbox EXCEPT ![s] = <<>>]

(* Every subscriber gets the envelope unless its channel is full; the      *)
(* sessions in deaf would drop it unread, and it is not kept for them.     *)
Publish(from, gen, kind, deaf) ==
  /\ inbox' = [s \in Sessions |->
       IF s \in subs \ deaf /\ Len(inbox[s]) < BusCap
       THEN Append(inbox[s], [from |-> from, gen |-> gen, kind |-> kind])
       ELSE inbox[s]]
  /\ UNCHANGED subs
=============================================================================
