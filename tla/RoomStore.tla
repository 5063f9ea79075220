------------------------------ MODULE RoomStore ------------------------------
(***************************************************************************)
(* backend/internal/rooms: the room lifecycle store, in its in-memory      *)
(* implementation (memory/memory.go).  Every operation runs under the      *)
(* store's mutex, so each is one action.                                   *)
(*                                                                         *)
(* The code stores instants and compares now.Sub(t) with a timer.  Here    *)
(* each instant is the age now - t, which Tick advances for all of them at *)
(* once; ages saturate at AgeCap, beyond every timer, so each comparison   *)
(* has the value it has in the code and time is never bounded.             *)
(* A token is known by the peer it was issued to: its hash matches a slot  *)
(* exactly when that slot is the peer's own.  Slot.InstanceID is never     *)
(* read and is left out.                                                   *)
(***************************************************************************)
EXTENDS Naturals, FiniteSets

CONSTANTS Codes,           \* room codes
          Peers,           \* server-issued peer identifiers
          WaitTTL,         \* Config: a waiting room is unjoinable after this
          SilenceTimeout,  \* Config: no message for this long is a disconnect
          ReattachGrace,   \* Config: a disconnected slot may be reclaimed within this
          MaxGen,          \* bound on Slot.Gen
          NoRoom, NoSlot   \* a missing map entry, a nil Slot

ASSUME TimersAssumption ==
  /\ WaitTTL \in Nat
  /\ SilenceTimeout \in Nat
  /\ ReattachGrace \in Nat
  /\ MaxGen \in Nat

AgeCap == WaitTTL + SilenceTimeout + ReattachGrace + 1

Age == 0 .. AgeCap

Slot == [peer : Peers, gen : Nat, connected : BOOLEAN,
         lastSeen : Age, disconnectedAt : Age]

Room == [state : {"waiting", "paired", "closed"}, createdAt : Age,
         creator : Slot, joiner : Slot \cup {NoSlot}]

ASSUME NullsAssumption == NoRoom \notin Room /\ NoSlot \notin Slot

VARIABLE rooms   \* [Codes -> Room \cup {NoRoom}], Store.rooms

Init == rooms = [c \in Codes |-> NoRoom]

-----------------------------------------------------------------------------
(* Slots *)

(* The slot Create and Join store: generation 1, connected, seen now. *)
NewSlot(p) == [peer |-> p, gen |-> 1, connected |-> TRUE,
               lastSeen |-> 0, disconnectedAt |-> 0]

(* Mutants: a slot still marked connected is never gone; or it is gone as  *)
(* soon as it is silent, without the grace.                                *)
GoneOnlyDisconnected(s) == ~s.connected /\ s.disconnectedAt > ReattachGrace

GoneWithoutGrace(s) == IF s.connected THEN s.lastSeen > SilenceTimeout
                       ELSE s.disconnectedAt > ReattachGrace

Gone(s) == IF s.connected THEN s.lastSeen > SilenceTimeout + ReattachGrace
           ELSE s.disconnectedAt > ReattachGrace

FindSlot(r, p) ==
  IF r.creator.peer = p THEN r.creator
  ELSE IF r.joiner # NoSlot /\ r.joiner.peer = p THEN r.joiner
  ELSE NoSlot

PartnerOf(r, p) == IF r.creator.peer = p THEN r.joiner ELSE r.creator

(* The room in which FindSlot(r, p), which exists, has become s. *)
WithSlot(r, p, s) == IF r.creator.peer = p THEN [r EXCEPT !.creator = s]
                     ELSE [r EXCEPT !.joiner = s]

(* The peers that hold a slot. *)
Members(r) == IF r = NoRoom THEN {}
              ELSE {r.creator.peer} \cup
                   (IF r.joiner = NoSlot THEN {} ELSE {r.joiner.peer})

(* A slot taken over by a new attachment, and one whose socket has ended. *)
Reclaimed(s) == [peer |-> s.peer, gen |-> s.gen + 1, connected |-> TRUE,
                 lastSeen |-> 0, disconnectedAt |-> 0]

Dropped(s) == [peer |-> s.peer, gen |-> s.gen, connected |-> FALSE,
               lastSeen |-> s.lastSeen, disconnectedAt |-> 0]

-----------------------------------------------------------------------------
(* What each call answers; "ok" is a nil error. *)

CreateResult(c) == IF rooms[c] = NoRoom THEN "ok" ELSE "ErrExists"

(* Mutant: Join does not test for a second peer. *)
JoinResultAdmitsThird(c) ==
  CASE rooms[c] = NoRoom -> "ErrNotFound"
    [] rooms[c] # NoRoom /\ rooms[c].state = "closed" -> "ErrClosed"
    [] OTHER -> "ok"

(* Mutant: Join does not test the age of the room. *)
JoinResultIgnoresTTL(c) ==
  CASE rooms[c] = NoRoom -> "ErrNotFound"
    [] rooms[c] # NoRoom /\ rooms[c].state = "closed" -> "ErrClosed"
    [] rooms[c] # NoRoom /\ rooms[c].state = "paired" -> "ErrFull"
    [] OTHER -> "ok"

JoinResult(c) ==
  CASE rooms[c] = NoRoom -> "ErrNotFound"
    [] rooms[c] # NoRoom /\ rooms[c].state = "closed" -> "ErrClosed"
    [] rooms[c] # NoRoom /\ rooms[c].state = "paired" -> "ErrFull"
    [] rooms[c] # NoRoom /\ rooms[c].state = "waiting" ->
         IF rooms[c].createdAt > WaitTTL THEN "ErrExpired" ELSE "ok"

(* Reattach answers "gone" where the code answers ErrNotFound after having *)
(* closed the room; an unknown peer and a foreign token look the same.     *)
ReattachResult(c, p, token) ==
  IF rooms[c] = NoRoom THEN "ErrNotFound"
  ELSE IF rooms[c].state = "closed" THEN "ErrClosed"
  ELSE IF FindSlot(rooms[c], p) = NoSlot \/ token # p THEN "ErrBadToken"
  ELSE IF Gone(FindSlot(rooms[c], p)) THEN "gone" ELSE "ok"

(* Mutant: the attachment's generation is not looked at. *)
HeartbeatResultUnfenced(c, p, gen) ==
  IF rooms[c] = NoRoom THEN "ErrNotFound"
  ELSE IF rooms[c].state = "closed" THEN "ErrClosed"
  ELSE IF FindSlot(rooms[c], p) = NoSlot THEN "ErrNotFound"
  ELSE IF rooms[c].state = "waiting"
  THEN IF rooms[c].createdAt > WaitTTL THEN "Expired" ELSE "ok"
  ELSE IF Gone(PartnerOf(rooms[c], p)) THEN "PartnerGone" ELSE "ok"

HeartbeatResult(c, p, gen) ==
  IF rooms[c] = NoRoom THEN "ErrNotFound"
  ELSE IF rooms[c].state = "closed" THEN "ErrClosed"
  ELSE IF FindSlot(rooms[c], p) = NoSlot THEN "ErrNotFound"
  ELSE IF FindSlot(rooms[c], p).gen # gen THEN "ErrStaleAttachment"
  ELSE IF rooms[c].state = "waiting"
  THEN IF rooms[c].createdAt > WaitTTL THEN "Expired" ELSE "ok"
  ELSE IF Gone(PartnerOf(rooms[c], p)) THEN "PartnerGone" ELSE "ok"

DisconnectResult(c, p, gen) ==
  IF rooms[c] = NoRoom THEN "ErrNotFound"
  ELSE IF FindSlot(rooms[c], p) = NoSlot THEN "ErrNotFound"
  ELSE IF FindSlot(rooms[c], p).gen # gen THEN "ErrStaleAttachment" ELSE "ok"

CloseResult(c) == IF rooms[c] = NoRoom THEN "ErrNotFound" ELSE "ok"

-----------------------------------------------------------------------------
(* What each call that is not refused does. *)

Create(c, p) ==
  /\ CreateResult(c) = "ok"
  /\ rooms' = [rooms EXCEPT ![c] = [state |-> "waiting", createdAt |-> 0,
                                    creator |-> NewSlot(p), joiner |-> NoSlot]]

(* Mutant: the room is not marked paired. *)
JoinStaysWaiting(c, p) ==
  /\ JoinResult(c) = "ok"
  /\ rooms' = [rooms EXCEPT ![c].joiner = NewSlot(p)]

Join(c, p) ==
  /\ JoinResult(c) = "ok"
  /\ rooms' = [rooms EXCEPT ![c].joiner = NewSlot(p), ![c].state = "paired"]

Reattach(c, p, token) ==
  /\ ReattachResult(c, p, token) = "ok"
  /\ rooms' = [rooms EXCEPT ![c] = WithSlot(rooms[c], p, Reclaimed(FindSlot(rooms[c], p)))]

(* The grace has passed: the call fails and closes the room. *)
ReattachGone(c, p, token) ==
  /\ ReattachResult(c, p, token) = "gone"
  /\ rooms' = [rooms EXCEPT ![c].state = "closed"]

(* Mutant: a heartbeat marks its slot connected again. *)
HeartbeatReconnects(c, p, gen) ==
  LET res == HeartbeatResult(c, p, gen)
      s   == FindSlot(rooms[c], p)
      r   == WithSlot(rooms[c], p, [s EXCEPT !.lastSeen = 0, !.connected = TRUE])
  IN /\ res \in {"ok", "Expired", "PartnerGone"}
     /\ rooms' = [rooms EXCEPT ![c] =
                    IF res = "PartnerGone" THEN [r EXCEPT !.state = "closed"] ELSE r]

Heartbeat(c, p, gen) ==
  LET res == HeartbeatResult(c, p, gen)
      s   == FindSlot(rooms[c], p)
      r   == WithSlot(rooms[c], p, [s EXCEPT !.lastSeen = 0])
  IN /\ res \in {"ok", "Expired", "PartnerGone"}
     /\ rooms' = [rooms EXCEPT ![c] =
                    IF res = "PartnerGone" THEN [r EXCEPT !.state = "closed"] ELSE r]

(* Mutant: the slot is given up as soon as its socket has ended. *)
DisconnectVacates(c, p, gen) ==
  /\ DisconnectResult(c, p, gen) = "ok"
  /\ rooms' = [rooms EXCEPT ![c] = WithSlot(rooms[c], p, NoSlot)]

(* A slot that is already disconnected keeps its first instant. *)
Disconnect(c, p, gen) ==
  /\ DisconnectResult(c, p, gen) = "ok"
  /\ LET s == FindSlot(rooms[c], p)
     IN rooms' = IF s.connected THEN [rooms EXCEPT ![c] = WithSlot(rooms[c], p, Dropped(s))]
                 ELSE rooms

Close(c) ==
  /\ CloseResult(c) = "ok"
  /\ rooms' = [rooms EXCEPT ![c].state = "closed"]

(* What Sweep makes of one map entry. *)
(* Mutant: it deletes a waiting room only when its creator is gone. *)
SweptKeepsWaiting(r) ==
  IF r = NoRoom \/ r.state = "closed" THEN NoRoom
  ELSE IF r.state = "waiting" THEN IF Gone(r.creator) THEN NoRoom ELSE r
  ELSE IF Gone(r.creator) /\ Gone(r.joiner) THEN NoRoom
  ELSE IF Gone(r.creator) \/ Gone(r.joiner) THEN [r EXCEPT !.state = "closed"] ELSE r

Swept(r) ==
  IF r = NoRoom \/ r.state = "closed" THEN NoRoom
  ELSE IF r.state = "waiting"
  THEN IF Gone(r.creator) \/ r.createdAt > WaitTTL + ReattachGrace THEN NoRoom ELSE r
  ELSE IF Gone(r.creator) /\ Gone(r.joiner) THEN NoRoom
  ELSE IF Gone(r.creator) \/ Gone(r.joiner) THEN [r EXCEPT !.state = "closed"] ELSE r

Sweep == rooms' = [c \in Codes |-> Swept(rooms[c])]

-----------------------------------------------------------------------------
(* The clock *)

Older(a) == IF a < AgeCap THEN a + 1 ELSE a

(* DisconnectedAt is the zero time while the slot is connected. *)
OlderSlot(s) == IF s = NoSlot THEN NoSlot
                ELSE [s EXCEPT !.lastSeen = Older(@),
                               !.disconnectedAt = IF s.connected THEN 0 ELSE Older(@)]

OlderRoom(r) == IF r = NoRoom THEN NoRoom
                ELSE [r EXCEPT !.createdAt = Older(@),
                               !.creator = OlderSlot(@), !.joiner = OlderSlot(@)]

Tick == rooms' = [c \in Codes |-> OlderRoom(rooms[c])]

-----------------------------------------------------------------------------
(* Callers: a new peer gets an identifier that no slot holds (newIdentity); *)
(* heartbeats and disconnects come with any generation, current or not.    *)
Fresh(p) == \A c \in Codes : p \notin Members(rooms[c])

BelowMaxGen(c, p) == /\ rooms[c] # NoRoom
                     /\ FindSlot(rooms[c], p) # NoSlot
                     /\ FindSlot(rooms[c], p).gen < MaxGen

Next ==
  \/ \E c \in Codes, p \in Peers : Fresh(p) /\ Create(c, p)
  \/ \E c \in Codes, p \in Peers : Fresh(p) /\ Join(c, p)
  \/ \E c \in Codes, p \in Peers, token \in Peers :
       BelowMaxGen(c, p) /\ Reattach(c, p, token)
  \/ \E c \in Codes, p \in Peers, token \in Peers : ReattachGone(c, p, token)
  \/ \E c \in Codes, p \in Peers, gen \in 1 .. MaxGen : Heartbeat(c, p, gen)
  \/ \E c \in Codes, p \in Peers, gen \in 1 .. MaxGen : Disconnect(c, p, gen)
  \/ \E c \in Codes : Close(c)
  \/ Sweep
  \/ Tick

Spec == Init /\ [][Next]_rooms

(* Time passes and the janitor's ticker fires; no peer has to do anything. *)
FairSpec == Spec /\ WF_rooms(Tick) /\ WF_rooms(Sweep)

-----------------------------------------------------------------------------
(* Properties *)

(* Every map entry is a room with well-formed slots and ages. *)
TypeOK == rooms \in [Codes -> Room \cup {NoRoom}]

(* The joiner's slot is there exactly from the pairing on (Sweep           *)
(* dereferences it without a test), belongs to someone else than the       *)
(* creator's, and was attached after the room was created.                 *)
RoomConsistent(r) ==
  /\ r.state = "waiting" => r.joiner = NoSlot
  /\ r.state = "paired" => r.joiner # NoSlot
  /\ r.joiner # NoSlot => /\ r.joiner.peer # r.creator.peer
                          /\ r.joiner.lastSeen <= r.createdAt
  /\ r.creator.lastSeen <= r.createdAt

(* Every room is consistent whatever the order of joins, closes, reattaches *)
(* and sweeps, and no peer holds slots in two rooms, so that FindSlot has   *)
(* one answer.                                                              *)
SlotsConsistent ==
  /\ \A c \in Codes : rooms[c] # NoRoom => RoomConsistent(rooms[c])
  /\ \A c, d \in Codes : c # d => Members(rooms[c]) \cap Members(rooms[d]) = {}

(* The store implements the pairing contract: whatever the interleaving of *)
(* joins, reattaches, heartbeats and sweeps, a code never has a third      *)
(* peer, a closed room is not revived and no slot changes hands.           *)
Status(r) == IF r = NoRoom THEN "free" ELSE r.state

Contract == INSTANCE Pairing WITH
  status  <- [c \in Codes |-> Status(rooms[c])],
  members <- [c \in Codes |-> Members(rooms[c])]

ImplementsPairing == Contract!Spec

(* Generations fence attachments: as long as a peer keeps its slot the     *)
(* generation does not go back, and within one generation a disconnected   *)
(* slot is not connected again, however late a heartbeat of it arrives.    *)
SlotMayBecome(s, t) == /\ t.gen >= s.gen
                       /\ t.gen = s.gen /\ ~s.connected => ~t.connected

AttachmentsAreFinal ==
  [][\A c \in Codes, p \in Peers :
       p \in Members(rooms[c]) \cap Members(rooms'[c]) =>
         SlotMayBecome(FindSlot(rooms[c], p), FindSlot(rooms'[c], p))]_rooms

(* The time a peer may be away: the grace after a recorded disconnect,     *)
(* silence and grace when no disconnect was recorded.                      *)
MayReturn(s) == IF s.connected THEN s.lastSeen <= SilenceTimeout + ReattachGrace
                ELSE s.disconnectedAt <= ReattachGrace

(* A pairing both of whose peers may still return is not taken from them:  *)
(* no sweep, heartbeat or reattach closes or deletes it, only Close does.  *)
(* A waiting room that can still be joined stays while its creator may     *)
(* return.                                                                 *)
PairingSurvivesGrace ==
  [][\A c \in Codes : rooms[c] # NoRoom =>
       LET r == rooms[c]
       IN /\ r.state = "paired" /\ MayReturn(r.creator) /\ MayReturn(r.joiner) =>
               rooms'[c] # NoRoom /\ (rooms'[c].state = "paired" \/ Close(c))
          /\ r.state = "waiting" /\ MayReturn(r.creator) /\ r.createdAt <= WaitTTL =>
               rooms'[c] # NoRoom /\ (rooms'[c].state # "closed" \/ Close(c))]_rooms

(* A peer that is away: disconnected, or silent for longer than the timeout. *)
Away(c, p) == /\ p \in Members(rooms[c])
              /\ LET s == FindSlot(rooms[c], p)
                 IN ~s.connected \/ s.lastSeen > SilenceTimeout

(* Nobody waits forever for a peer that is away: it comes back, or it      *)
(* loses its slot together with the room, even if its partner's heartbeats *)
(* never stop and the instance that served it never recorded a disconnect. *)
AwayPeersAreDropped == \A c \in Codes, p \in Peers : []<>~Away(c, p)

(* No code stays taken by a room nobody completed or by a closed one, even *)
(* if the creator keeps sending heartbeats.                                *)
UnpairedRoomsEnd ==
  \A c \in Codes : []<>(rooms[c] = NoRoom \/ rooms[c].state = "paired")
=============================================================================
