-------------------------- MODULE RoomStore_proofs --------------------------
(* Proofs about RoomStore, for every set of codes and peers, every timer   *)
(* and every bound on generations.                                         *)
EXTENDS RoomStore, TLAPS

(* Ages stay in their range, and a room or slot that grows older keeps its type. *)
LEMMA OlderType == \A a \in Age : Older(a) \in Age
BY TimersAssumption DEF Older, Age, AgeCap

(* An instant that is now has an age. *)
LEMMA ZeroAge == 0 \in Age
BY TimersAssumption DEF Age, AgeCap

(* Ageing a slot keeps its type and its owner. *)
LEMMA OlderSlotType ==
  ASSUME NEW s \in Slot
  PROVE  /\ OlderSlot(s) \in Slot
         /\ OlderSlot(s).peer = s.peer
<1>1. s # NoSlot
  BY NullsAssumption
<1> QED
  BY <1>1, OlderType, ZeroAge DEF OlderSlot, Slot

(* Ageing a room ages its fields and nothing else. *)
LEMMA OlderRoomType ==
  ASSUME NEW r \in Room
  PROVE  /\ OlderRoom(r) \in Room
         /\ OlderRoom(r).state = r.state
         /\ OlderRoom(r).creator = OlderSlot(r.creator)
         /\ OlderRoom(r).joiner = OlderSlot(r.joiner)
         /\ OlderRoom(r).createdAt = Older(r.createdAt)
<1>1. r # NoRoom
  BY NullsAssumption
<1>2. OlderSlot(NoSlot) = NoSlot
  BY DEF OlderSlot
<1>3. OlderSlot(r.joiner) \in Slot \cup {NoSlot}
  BY <1>2, OlderSlotType DEF Room
<1>4. OlderSlot(r.creator) \in Slot
  BY OlderSlotType DEF Room
<1> QED
  BY <1>1, <1>3, <1>4, OlderType DEF OlderRoom, Room

(* What Create and Join store is a slot. *)
LEMMA NewSlotType == \A p \in Peers : NewSlot(p) \in Slot
BY ZeroAge DEF NewSlot, Slot

(* FindSlot answers with a slot of that peer exactly for the members, and  *)
(* WithSlot puts one back.                                                 *)
LEMMA FindSlotType ==
  ASSUME NEW r \in Room, NEW p \in Peers
  PROVE  /\ FindSlot(r, p) # NoSlot <=> p \in Members(r)
         /\ FindSlot(r, p) # NoSlot => FindSlot(r, p) \in Slot /\ FindSlot(r, p).peer = p
<1>1. r # NoRoom /\ r.creator # NoSlot /\ r.creator \in Slot
  BY NullsAssumption DEF Room
<1>2. r.joiner # NoSlot => r.joiner \in Slot
  BY DEF Room
<1> QED
  BY <1>1, <1>2 DEF FindSlot, Members

(* WithSlot touches the slot of its peer, and no owner changes. *)
LEMMA WithSlotType ==
  ASSUME NEW r \in Room, NEW p \in Peers, NEW s \in Slot,
         FindSlot(r, p) # NoSlot, s.peer = p
  PROVE  /\ WithSlot(r, p, s) \in Room
         /\ WithSlot(r, p, s).state = r.state
         /\ WithSlot(r, p, s).createdAt = r.createdAt
         /\ WithSlot(r, p, s).creator = IF r.creator.peer = p THEN s ELSE r.creator
         /\ WithSlot(r, p, s).joiner = IF r.creator.peer = p THEN r.joiner ELSE s
BY DEF WithSlot, Room

(* What Reattach, Heartbeat and Disconnect write back is a slot. *)
LEMMA AttachmentType ==
  ASSUME NEW s \in Slot
  PROVE  /\ Reclaimed(s) \in Slot /\ Dropped(s) \in Slot
         /\ Reclaimed(s).peer = s.peer /\ Dropped(s).peer = s.peer
         /\ Reclaimed(s).lastSeen <= s.lastSeen /\ Dropped(s).lastSeen <= s.lastSeen
         /\ SlotMayBecome(s, Reclaimed(s)) /\ SlotMayBecome(s, Dropped(s))
<1>1. 0 <= s.lastSeen /\ s.lastSeen <= s.lastSeen
  BY DEF Slot, Age
<1>2. Reclaimed(s) \in Slot
  BY ZeroAge DEF Reclaimed, Slot
<1>3. Dropped(s) \in Slot
  BY ZeroAge DEF Dropped, Slot
<1>4. SlotMayBecome(s, Reclaimed(s))
  <2>1. s.gen + 1 >= s.gen /\ s.gen + 1 # s.gen
    BY DEF Slot
  <2>2. Reclaimed(s).gen = s.gen + 1
    BY DEF Reclaimed
  <2> QED
    BY <2>1, <2>2 DEF SlotMayBecome
<1>5. SlotMayBecome(s, Dropped(s))
  <2>1. s.gen >= s.gen
    BY DEF Slot
  <2>2. Dropped(s).gen = s.gen /\ Dropped(s).connected = FALSE
    BY DEF Dropped
  <2> QED
    BY <2>1, <2>2 DEF SlotMayBecome
<1> QED
  BY <1>1, <1>2, <1>3, <1>4, <1>5 DEF Reclaimed, Dropped

(* Sweep makes a room or nothing of a map entry. *)
LEMMA SweptType == \A r \in Room \cup {NoRoom} :
                     \/ Swept(r) = NoRoom
                     \/ Swept(r) = r
                     \/ /\ r \in Room
                        /\ r.state = "paired"
                        /\ Swept(r) = [r EXCEPT !.state = "closed"]
BY NullsAssumption DEF Swept, Room

-----------------------------------------------------------------------------
(* The inductive invariant is the type invariant with SlotsConsistent.     *)
IInv == TypeOK /\ SlotsConsistent

(* What may become of a room, short of its deletion, without a new peer:   *)
(* its state stays or is closed, and each member keeps its slot.           *)
Keeps(r, w) ==
  /\ w \in Room
  /\ RoomConsistent(w)
  /\ Members(w) = Members(r)
  /\ w.state \in {r.state, "closed"}
  /\ \A q \in Members(r) : SlotMayBecome(FindSlot(r, q), FindSlot(w, q))

(* A step in which no room is created and nobody joins. *)
Maintains ==
  /\ rooms' = [c \in Codes |-> rooms'[c]]
  /\ \A c \in Codes : \/ rooms'[c] = rooms[c]
                      \/ rooms[c] # NoRoom /\ rooms'[c] = NoRoom
                      \/ rooms[c] # NoRoom /\ Keeps(rooms[c], rooms'[c])

(* Members of a room are peers. *)
LEMMA MembersArePeers == \A r \in Room : Members(r) \subseteq Peers
BY NullsAssumption DEF Members, Room, Slot

(* A slot that is left alone is a legal successor of itself. *)
LEMMA SlotMayStay == \A s \in Slot : SlotMayBecome(s, s)
BY DEF SlotMayBecome, Slot

(* Rewriting the slot of p with an attachment no older than the slot's.    *)
LEMMA RewrittenSlot ==
  ASSUME NEW r \in Room, RoomConsistent(r), NEW p \in Peers,
         FindSlot(r, p) # NoSlot, NEW s \in Slot, s.peer = p,
         s.lastSeen <= FindSlot(r, p).lastSeen,
         SlotMayBecome(FindSlot(r, p), s)
  PROVE  Keeps(r, WithSlot(r, p, s)) /\ WithSlot(r, p, s).state = r.state
<1> DEFINE w == WithSlot(r, p, s)
<1>1. /\ w \in Room /\ w.state = r.state /\ w.createdAt = r.createdAt
      /\ w.creator = IF r.creator.peer = p THEN s ELSE r.creator
      /\ w.joiner = IF r.creator.peer = p THEN r.joiner ELSE s
  BY WithSlotType
<1> HIDE DEF w
<1>2. s # NoSlot /\ w # NoRoom /\ r # NoRoom
  BY <1>1, NullsAssumption
<1>3. r.creator.peer # p => r.joiner # NoSlot /\ r.joiner.peer = p
  BY DEF FindSlot
<1>4. Members(w) = Members(r)
  BY <1>1, <1>2, <1>3 DEF Members
<1>5. s.lastSeen <= r.createdAt
  BY <1>3 DEF RoomConsistent, FindSlot, Room, Slot, Age
<1>6. RoomConsistent(w)
  BY <1>1, <1>2, <1>3, <1>5 DEF RoomConsistent, Room
<1>7. ASSUME NEW q \in Members(r)
      PROVE  SlotMayBecome(FindSlot(r, q), FindSlot(w, q))
  <2>1. q \in Peers /\ FindSlot(r, q) \in Slot
    BY MembersArePeers, FindSlotType
  <2>2. CASE q = p
    <3>1. FindSlot(w, p) = s
      BY <1>1, <1>2, <1>3 DEF FindSlot
    <3> QED
      BY <2>2, <3>1
  <2>3. CASE q # p
    <3>1. FindSlot(w, q) = FindSlot(r, q)
      BY <1>1, <1>2, <1>3, <2>3 DEF FindSlot
    <3> QED
      BY <2>1, <3>1, SlotMayStay
  <2> QED
    BY <2>2, <2>3
<1> QED
  BY <1>1, <1>4, <1>6, <1>7 DEF Keeps, w

(* Closing a room, whatever asks for it. *)
LEMMA ClosedRoom ==
  ASSUME NEW r \in Room, RoomConsistent(r)
  PROVE  Keeps(r, [r EXCEPT !.state = "closed"])
<1> DEFINE k == [r EXCEPT !.state = "closed"]
<1>1. /\ k \in Room /\ k.state = "closed" /\ k.creator = r.creator
      /\ k.joiner = r.joiner /\ k.createdAt = r.createdAt
  BY DEF Room
<1> HIDE DEF k
<1>2. Members(k) = Members(r)
  BY <1>1, NullsAssumption DEF Members
<1>3. RoomConsistent(k)
  BY <1>1 DEF RoomConsistent
<1>4. \A q \in Members(r) : SlotMayBecome(FindSlot(r, q), FindSlot(k, q))
  <2>1. \A q \in Members(r) : FindSlot(k, q) = FindSlot(r, q)
    BY <1>1 DEF FindSlot
  <2>2. \A q \in Members(r) : FindSlot(r, q) \in Slot
    BY MembersArePeers, FindSlotType
  <2> QED
    BY <2>1, <2>2, SlotMayStay
<1> QED
  BY <1>1, <1>2, <1>3, <1>4 DEF Keeps, k

(* Two rewritings of a room that keep it, one after the other, keep it: *)
(* Heartbeat refreshes a slot and may then close the room.               *)
LEMMA KeepsTwice ==
  ASSUME NEW r, NEW w \in Room, NEW k,
         r \in Room, w.state = r.state, Keeps(r, w), Keeps(w, k)
  PROVE  Keeps(r, k)
<1>1. \A q \in Members(r) : /\ FindSlot(r, q) \in Slot
                            /\ FindSlot(w, q) \in Slot
                            /\ FindSlot(k, q) \in Slot
  BY MembersArePeers, FindSlotType DEF Keeps
<1>2. \A s, t, u \in Slot : SlotMayBecome(s, t) /\ SlotMayBecome(t, u) => SlotMayBecome(s, u)
  BY DEF SlotMayBecome, Slot
<1>3. \A q \in Members(r) : SlotMayBecome(FindSlot(r, q), FindSlot(k, q))
  BY <1>1, <1>2 DEF Keeps
<1> QED
  BY <1>3 DEF Keeps

-----------------------------------------------------------------------------
(* Every action but Create and Join maintains. *)

(* An action that rewrites one room, and keeps it, maintains the store. *)
LEMMA OneRoomMaintains ==
  ASSUME IInv, NEW c \in Codes, rooms[c] # NoRoom, NEW w, Keeps(rooms[c], w),
         rooms' = [rooms EXCEPT ![c] = w]
  PROVE  Maintains
<1>1. \A d \in Codes : rooms'[d] = IF d = c THEN w ELSE rooms[d]
  BY DEF IInv, TypeOK
<1>2. rooms' = [d \in Codes |-> rooms'[d]]
  BY DEF IInv, TypeOK
<1> QED
  BY <1>1, <1>2 DEF Maintains

(* Reattach maintains: it rewrites the slot of the caller. *)
LEMMA ReattachMaintains ==
  ASSUME IInv, NEW c \in Codes, NEW p \in Peers, NEW token \in Peers,
         Reattach(c, p, token)
  PROVE  Maintains
<1> DEFINE s == FindSlot(rooms[c], p)
           t == Reclaimed(s)
<1>1. rooms[c] \in Room /\ rooms[c] # NoRoom /\ s # NoSlot
  BY DEF Reattach, ReattachResult, IInv, TypeOK
<1>2. RoomConsistent(rooms[c])
  BY <1>1 DEF IInv, SlotsConsistent
<1>3. s \in Slot /\ s.peer = p
  BY <1>1, FindSlotType
<1>4. t \in Slot /\ t.peer = p /\ t.lastSeen <= s.lastSeen /\ SlotMayBecome(s, t)
  BY <1>3, AttachmentType
<1>5. rooms' = [rooms EXCEPT ![c] = WithSlot(rooms[c], p, t)]
  BY DEF Reattach
<1> HIDE DEF t
<1>6. Keeps(rooms[c], WithSlot(rooms[c], p, t))
  BY <1>1, <1>2, <1>4, RewrittenSlot
<1> QED
  BY <1>1, <1>5, <1>6, OneRoomMaintains

(* Close, and a Reattach after the grace, close a room that exists. *)
LEMMA CloseMaintains ==
  ASSUME IInv, NEW c \in Codes, rooms[c] # NoRoom,
         rooms' = [rooms EXCEPT ![c].state = "closed"]
  PROVE  Maintains
<1> DEFINE k == [rooms[c] EXCEPT !.state = "closed"]
<1>1. rooms[c] \in Room /\ RoomConsistent(rooms[c])
  BY DEF IInv, TypeOK, SlotsConsistent
<1>2. Keeps(rooms[c], k)
  BY <1>1, ClosedRoom
<1>3. rooms' = [rooms EXCEPT ![c] = k]
  OBVIOUS
<1> HIDE DEF k
<1> QED
  BY <1>2, <1>3, OneRoomMaintains

(* Heartbeat maintains, whether or not it finds the partner gone. *)
LEMMA HeartbeatMaintains ==
  ASSUME IInv, NEW c \in Codes, NEW p \in Peers, NEW gen \in Nat, Heartbeat(c, p, gen)
  PROVE  Maintains
<1> DEFINE s == FindSlot(rooms[c], p)
           t == [s EXCEPT !.lastSeen = 0]
           r == WithSlot(rooms[c], p, t)
           k == [r EXCEPT !.state = "closed"]
<1>1. rooms[c] \in Room /\ rooms[c] # NoRoom /\ s # NoSlot
  BY DEF Heartbeat, HeartbeatResult, IInv, TypeOK
<1>2. RoomConsistent(rooms[c])
  BY <1>1 DEF IInv, SlotsConsistent
<1>3. s \in Slot /\ s.peer = p
  BY <1>1, FindSlotType
<1>4. t \in Slot /\ t.peer = p /\ t.lastSeen <= s.lastSeen
  BY <1>3, ZeroAge DEF Slot, Age
<1>5. SlotMayBecome(s, t)
  BY <1>3 DEF SlotMayBecome, Slot
<1>6. rooms' = [rooms EXCEPT ![c] = r] \/ rooms' = [rooms EXCEPT ![c] = k]
  BY DEF Heartbeat
<1> HIDE DEF t
<1>7. Keeps(rooms[c], r) /\ r.state = rooms[c].state
  BY <1>1, <1>2, <1>4, <1>5, RewrittenSlot
<1> HIDE DEF r
<1>8. r \in Room /\ RoomConsistent(r)
  BY <1>7 DEF Keeps
<1>9. Keeps(r, k)
  BY <1>8, ClosedRoom
<1> HIDE DEF k
<1>10. Keeps(rooms[c], k)
  BY <1>1, <1>7, <1>8, <1>9, KeepsTwice
<1> QED
  BY <1>1, <1>6, <1>7, <1>10, OneRoomMaintains

(* Disconnect maintains: a slot it marks keeps its generation. *)
LEMMA DisconnectMaintains ==
  ASSUME IInv, NEW c \in Codes, NEW p \in Peers, NEW gen \in Nat, Disconnect(c, p, gen)
  PROVE  Maintains
<1> DEFINE s == FindSlot(rooms[c], p)
           t == Dropped(s)
           r == WithSlot(rooms[c], p, t)
<1>1. rooms[c] \in Room /\ rooms[c] # NoRoom /\ s # NoSlot
  BY DEF Disconnect, DisconnectResult, IInv, TypeOK
<1>2. RoomConsistent(rooms[c])
  BY <1>1 DEF IInv, SlotsConsistent
<1>3. s \in Slot /\ s.peer = p
  BY <1>1, FindSlotType
<1>4. t \in Slot /\ t.peer = p /\ t.lastSeen <= s.lastSeen /\ SlotMayBecome(s, t)
  BY <1>3, AttachmentType
<1>5. rooms' = [rooms EXCEPT ![c] = r] \/ rooms' = rooms
  BY DEF Disconnect
<1> HIDE DEF t
<1>6. Keeps(rooms[c], r)
  BY <1>1, <1>2, <1>4, RewrittenSlot
<1> HIDE DEF r
<1>7. CASE rooms' = rooms
  BY <1>7 DEF Maintains, IInv, TypeOK
<1> QED
  BY <1>1, <1>5, <1>6, <1>7, OneRoomMaintains

(* Sweep maintains: it deletes or closes rooms, and opens none. *)
LEMMA SweepMaintains == IInv /\ Sweep => Maintains
<1> SUFFICES ASSUME IInv, Sweep PROVE Maintains
  OBVIOUS
<1>1. ASSUME NEW c \in Codes
      PROVE  \/ rooms'[c] = rooms[c]
             \/ rooms[c] # NoRoom /\ rooms'[c] = NoRoom
             \/ rooms[c] # NoRoom /\ Keeps(rooms[c], rooms'[c])
  <2>1. rooms[c] \in Room \cup {NoRoom} /\ rooms'[c] = Swept(rooms[c])
    BY DEF IInv, TypeOK, Sweep
  <2>2. CASE /\ rooms[c] \in Room
             /\ Swept(rooms[c]) = [rooms[c] EXCEPT !.state = "closed"]
    BY <2>1, <2>2, ClosedRoom, NullsAssumption DEF IInv, SlotsConsistent
  <2> QED
    BY <2>1, <2>2, SweptType
<1> QED
  BY <1>1 DEF Sweep, Maintains

(* Ageing keeps the order of two instants. *)
LEMMA OlderMonotone == \A a, b \in Age : a <= b => Older(a) <= Older(b)
BY TimersAssumption DEF Older, Age, AgeCap

(* Ageing a slot keeps its generation and whether it is connected. *)
LEMMA OlderSlotFields ==
  ASSUME NEW s \in Slot
  PROVE  /\ OlderSlot(s).lastSeen = Older(s.lastSeen)
         /\ SlotMayBecome(s, OlderSlot(s))
<1>1. s # NoSlot
  BY NullsAssumption
<1>2. OlderSlot(s).gen = s.gen /\ OlderSlot(s).connected = s.connected
  BY <1>1 DEF OlderSlot, Slot
<1> QED
  BY <1>1, <1>2 DEF OlderSlot, SlotMayBecome, Slot

(* Ageing keeps a consistent room consistent. *)
LEMMA OlderRoomKeeps ==
  ASSUME NEW r \in Room, RoomConsistent(r)
  PROVE  Keeps(r, OlderRoom(r))
<1> DEFINE w == OlderRoom(r)
<1>1. /\ w \in Room /\ w.state = r.state
      /\ w.creator = OlderSlot(r.creator) /\ w.joiner = OlderSlot(r.joiner)
      /\ w.createdAt = Older(r.createdAt)
  BY OlderRoomType
<1> HIDE DEF w
<1>2. r.creator \in Slot /\ r.creator.lastSeen \in Age /\ r.createdAt \in Age
  BY DEF Room, Slot
<1>3. w # NoRoom /\ r # NoRoom
  BY <1>1, NullsAssumption
<1>4. /\ w.creator.peer = r.creator.peer
      /\ w.creator.lastSeen <= w.createdAt
      /\ SlotMayBecome(r.creator, w.creator)
  BY <1>1, <1>2, OlderSlotType, OlderSlotFields, OlderMonotone DEF RoomConsistent
<1>5. CASE r.joiner = NoSlot
  <2>1. w.joiner = NoSlot
    BY <1>1, <1>5 DEF OlderSlot
  <2>2. \A q \in Members(r) : SlotMayBecome(FindSlot(r, q), FindSlot(w, q))
    BY <1>3, <1>4, <1>5 DEF Members, FindSlot
  <2> QED
    BY <1>1, <1>3, <1>4, <1>5, <2>1, <2>2 DEF Members, RoomConsistent, Keeps, w
<1>6. CASE r.joiner # NoSlot
  <2>1. r.joiner \in Slot /\ r.joiner.lastSeen \in Age
    BY <1>6 DEF Room, Slot
  <2>2. w.joiner # NoSlot
    BY <1>1, <2>1, OlderSlotType, NullsAssumption
  <2>3. /\ w.joiner.peer = r.joiner.peer
        /\ w.joiner.lastSeen <= w.createdAt
        /\ SlotMayBecome(r.joiner, w.joiner)
    BY <1>1, <1>2, <1>6, <2>1, OlderSlotType, OlderSlotFields, OlderMonotone
       DEF RoomConsistent
  <2>4. \A q \in Members(r) : SlotMayBecome(FindSlot(r, q), FindSlot(w, q))
    BY <1>3, <1>4, <1>6, <2>2, <2>3 DEF Members, FindSlot
  <2> QED
    BY <1>1, <1>3, <1>4, <1>6, <2>2, <2>3, <2>4 DEF Members, RoomConsistent, Keeps, w
<1> QED
  BY <1>5, <1>6

(* Tick maintains: all rooms age at once. *)
LEMMA TickMaintains == IInv /\ Tick => Maintains
<1> SUFFICES ASSUME IInv, Tick PROVE Maintains
  OBVIOUS
<1>1. ASSUME NEW c \in Codes
      PROVE  \/ rooms'[c] = rooms[c]
             \/ rooms[c] # NoRoom /\ Keeps(rooms[c], rooms'[c])
  <2>1. rooms[c] \in Room \cup {NoRoom} /\ rooms'[c] = OlderRoom(rooms[c])
    BY DEF IInv, TypeOK, Tick
  <2>2. CASE rooms[c] = NoRoom
    BY <2>1, <2>2 DEF OlderRoom
  <2>3. CASE rooms[c] # NoRoom
    BY <2>1, <2>3, OlderRoomKeeps DEF IInv, SlotsConsistent
  <2> QED
    BY <2>2, <2>3
<1> QED
  BY <1>1 DEF Tick, Maintains

(* So every step is a creation, a pairing, or maintains. *)
LEMMA StepKinds ==
  ASSUME IInv, [Next]_rooms
  PROVE  \/ \E c \in Codes, p \in Peers : Fresh(p) /\ Create(c, p)
         \/ \E c \in Codes, p \in Peers : Fresh(p) /\ Join(c, p)
         \/ Maintains
<1>1. CASE \E c \in Codes, p \in Peers : Fresh(p) /\ Create(c, p)
  BY <1>1
<1>2. CASE \E c \in Codes, p \in Peers : Fresh(p) /\ Join(c, p)
  BY <1>2
<1>3. CASE \E c \in Codes, p \in Peers, token \in Peers :
             BelowMaxGen(c, p) /\ Reattach(c, p, token)
  BY <1>3, ReattachMaintains
<1>4. CASE \E c \in Codes, p \in Peers, token \in Peers : ReattachGone(c, p, token)
  BY <1>4, CloseMaintains DEF ReattachGone, ReattachResult
<1>5. CASE \E c \in Codes, p \in Peers, gen \in 1 .. MaxGen : Heartbeat(c, p, gen)
  BY <1>5, HeartbeatMaintains
<1>6. CASE \E c \in Codes, p \in Peers, gen \in 1 .. MaxGen : Disconnect(c, p, gen)
  BY <1>6, DisconnectMaintains
<1>7. CASE \E c \in Codes : Close(c)
  BY <1>7, CloseMaintains DEF Close, CloseResult
<1>8. CASE UNCHANGED rooms
  BY <1>8 DEF Maintains, IInv, TypeOK
<1> QED
  BY <1>1, <1>2, <1>3, <1>4, <1>5, <1>6, <1>7, <1>8, SweepMaintains, TickMaintains DEF Next

-----------------------------------------------------------------------------
(* Invariance *)

(* The empty store satisfies the invariant. *)
LEMMA InitIInv == Init => IInv
BY DEF Init, IInv, TypeOK, SlotsConsistent, Members

(* Create by a fresh peer preserves the invariant. *)
LEMMA CreatedRoom ==
  ASSUME IInv, NEW c \in Codes, NEW p \in Peers, Create(c, p)
  PROVE  /\ rooms[c] = NoRoom
         /\ rooms'[c] \in Room /\ RoomConsistent(rooms'[c])
         /\ rooms'[c].state = "waiting" /\ Members(rooms'[c]) = {p}
         /\ \A d \in Codes : d # c => rooms'[d] = rooms[d]
         /\ rooms' = [d \in Codes |-> rooms'[d]]
<1> DEFINE r == [state |-> "waiting", createdAt |-> 0,
                 creator |-> NewSlot(p), joiner |-> NoSlot]
<1>1. r \in Room
  BY ZeroAge, NewSlotType DEF Room
<1>2. RoomConsistent(r)
  BY DEF RoomConsistent, NewSlot
<1>3. Members(r) = {p}
  BY <1>1, NullsAssumption DEF Members, NewSlot
<1>4. rooms' = [rooms EXCEPT ![c] = r] /\ rooms[c] = NoRoom
  BY DEF Create, CreateResult
<1>5. r.state = "waiting"
  OBVIOUS
<1> HIDE DEF r
<1> QED
  BY <1>1, <1>2, <1>3, <1>4, <1>5 DEF IInv, TypeOK

(* Join by a fresh peer preserves the invariant: the joiner is not the  *)
(* creator, and holds a slot in no other room.                           *)
LEMMA JoinedRoom ==
  ASSUME IInv, NEW c \in Codes, NEW p \in Peers, Fresh(p), Join(c, p)
  PROVE  /\ rooms[c] # NoRoom /\ rooms[c].state = "waiting"
         /\ rooms'[c] \in Room /\ RoomConsistent(rooms'[c])
         /\ rooms'[c].state = "paired"
         /\ Members(rooms'[c]) = Members(rooms[c]) \cup {p}
         /\ \A q \in Members(rooms[c]) : FindSlot(rooms'[c], q) = FindSlot(rooms[c], q)
         /\ \A d \in Codes : d # c => rooms'[d] = rooms[d]
         /\ rooms' = [d \in Codes |-> rooms'[d]]
<1>1. rooms[c] \in Room /\ rooms[c] # NoRoom /\ rooms[c].state = "waiting"
  BY DEF Join, JoinResult, IInv, TypeOK, Room
<1> DEFINE r == [rooms[c] EXCEPT !.joiner = NewSlot(p), !.state = "paired"]
<1>2. r \in Room
  BY <1>1, NewSlotType DEF Room
<1>3. NewSlot(p) # NoSlot /\ NewSlot(p).peer = p /\ NewSlot(p).lastSeen = 0
  BY NewSlotType, NullsAssumption DEF NewSlot
<1>4. p # rooms[c].creator.peer
  BY <1>1 DEF Fresh, Members
<1>5. RoomConsistent(r)
  BY <1>1, <1>3, <1>4 DEF RoomConsistent, IInv, SlotsConsistent, Room, Age
<1>6. rooms[c].joiner = NoSlot
  BY <1>1 DEF IInv, SlotsConsistent, RoomConsistent
<1>7. r.creator = rooms[c].creator /\ r.joiner = NewSlot(p) /\ r.state = "paired"
  BY <1>1 DEF Room
<1>8. rooms' = [rooms EXCEPT ![c] = r]
  BY DEF Join, IInv, TypeOK
<1> HIDE DEF r
<1>9. Members(r) = Members(rooms[c]) \cup {p}
  BY <1>1, <1>2, <1>3, <1>6, <1>7, NullsAssumption DEF Members
<1>10. \A q \in Members(rooms[c]) : FindSlot(r, q) = FindSlot(rooms[c], q)
  BY <1>1, <1>6, <1>7 DEF Members, FindSlot
<1> QED
  BY <1>1, <1>2, <1>5, <1>7, <1>8, <1>9, <1>10 DEF IInv, TypeOK

(* Every step preserves the invariant. *)
LEMMA NextIInv == IInv /\ [Next]_rooms => IInv'
<1> SUFFICES ASSUME IInv, [Next]_rooms PROVE IInv'
  OBVIOUS
<1>1. \A c, d \in Codes : c # d => Members(rooms[c]) \cap Members(rooms[d]) = {}
  BY DEF IInv, SlotsConsistent
<1> DEFINE Disjoint == \A c, d \in Codes : c # d => Members(rooms[c]) \cap Members(rooms[d]) = {}
<1>2. CASE \E c \in Codes, p \in Peers : Fresh(p) /\ Create(c, p)
  <2>1. PICK c \in Codes, p \in Peers : Fresh(p) /\ Create(c, p)
    BY <1>2
  <2>2. \A d \in Codes : Members(rooms'[d]) = IF d = c THEN {p} ELSE Members(rooms[d])
    BY <2>1, CreatedRoom
  <2>3. Disjoint'
    BY <1>1, <2>1, <2>2 DEF Fresh
  <2>4. TypeOK'
    BY <2>1, CreatedRoom DEF IInv, TypeOK
  <2>5. \A d \in Codes : rooms'[d] # NoRoom => RoomConsistent(rooms'[d])
    BY <2>1, CreatedRoom DEF IInv, SlotsConsistent
  <2> QED
    BY <2>3, <2>4, <2>5 DEF IInv, SlotsConsistent
<1>3. CASE \E c \in Codes, p \in Peers : Fresh(p) /\ Join(c, p)
  <2>1. PICK c \in Codes, p \in Peers : Fresh(p) /\ Join(c, p)
    BY <1>3
  <2>2. \A d \in Codes : Members(rooms'[d]) = IF d = c THEN Members(rooms[c]) \cup {p}
                                               ELSE Members(rooms[d])
    BY <2>1, JoinedRoom
  <2>3. Disjoint'
    BY <1>1, <2>1, <2>2 DEF Fresh
  <2>4. TypeOK'
    BY <2>1, JoinedRoom DEF IInv, TypeOK
  <2>5. \A d \in Codes : rooms'[d] # NoRoom => RoomConsistent(rooms'[d])
    BY <2>1, JoinedRoom DEF IInv, SlotsConsistent
  <2> QED
    BY <2>3, <2>4, <2>5 DEF IInv, SlotsConsistent
<1>4. CASE Maintains
  <2>1. ASSUME NEW c \in Codes
        PROVE  /\ rooms'[c] \in Room \cup {NoRoom}
               /\ rooms'[c] # NoRoom => RoomConsistent(rooms'[c])
               /\ Members(rooms'[c]) \subseteq Members(rooms[c])
    <3>1. CASE rooms'[c] = rooms[c]
      BY <3>1 DEF IInv, TypeOK, SlotsConsistent
    <3>2. CASE rooms'[c] = NoRoom
      BY <3>2 DEF Members
    <3>3. CASE Keeps(rooms[c], rooms'[c])
      BY <3>3 DEF Keeps
    <3> QED
      BY <1>4, <3>1, <3>2, <3>3 DEF Maintains
  <2>2. TypeOK'
    BY <1>4, <2>1 DEF Maintains, TypeOK
  <2>3. Disjoint'
    BY <1>1, <2>1
  <2> QED
    BY <2>1, <2>2, <2>3 DEF IInv, SlotsConsistent
<1> QED
  BY <1>2, <1>3, <1>4, StepKinds

(* Every reachable store is well formed and its rooms are consistent.      *)
THEOREM StoreInvariant == Spec => []IInv
BY InitIInv, NextIInv, PTL DEF Spec

(* The map holds rooms of the declared type, whatever the timers.          *)
THEOREM TypeCorrect == Spec => []TypeOK
<1>1. IInv => TypeOK
  BY DEF IInv
<1> QED
  BY <1>1, StoreInvariant, PTL

(* A paired room has its joiner (the janitor dereferences it), a slot has  *)
(* one owner and a peer one slot, in every reachable state.                *)
THEOREM SlotsStayConsistent == Spec => []SlotsConsistent
<1>1. IInv => SlotsConsistent
  BY DEF IInv
<1> QED
  BY <1>1, StoreInvariant, PTL

-----------------------------------------------------------------------------
(* Attachments *)

(* A step from a state of the invariant treats every attachment as final. *)
LEMMA StepAttachments ==
  ASSUME IInv, [Next]_rooms, NEW c \in Codes,
         NEW p \in Members(rooms[c]) \cap Members(rooms'[c])
  PROVE  SlotMayBecome(FindSlot(rooms[c], p), FindSlot(rooms'[c], p))
<1>1. rooms[c] \in Room /\ FindSlot(rooms[c], p) \in Slot
  BY MembersArePeers, FindSlotType DEF IInv, TypeOK, Members
<1>2. CASE rooms'[c] = rooms[c]
  BY <1>1, <1>2, SlotMayStay
<1>3. CASE \E d \in Codes, q \in Peers : Fresh(q) /\ Create(d, q)
  BY <1>1, <1>2, <1>3, CreatedRoom DEF Members
<1>4. CASE \E d \in Codes, q \in Peers : Fresh(q) /\ Join(d, q)
  <2>1. PICK d \in Codes, q \in Peers : Fresh(q) /\ Join(d, q)
    BY <1>4
  <2>2. FindSlot(rooms'[c], p) = FindSlot(rooms[c], p)
    BY <2>1, JoinedRoom
  <2> QED
    BY <1>1, <2>2, SlotMayStay
<1>5. CASE Maintains
  BY <1>2, <1>5 DEF Maintains, Keeps, Members
<1> QED
  BY <1>3, <1>4, <1>5, StepKinds

(* No interleaving of stale calls moves a generation back or reconnects    *)
(* the attachment of a generation that has ended.                          *)
THEOREM AttachmentsStayFinal == Spec => AttachmentsAreFinal
<1> DEFINE A == \A c \in Codes, p \in Peers :
                  p \in Members(rooms[c]) \cap Members(rooms'[c]) =>
                    SlotMayBecome(FindSlot(rooms[c], p), FindSlot(rooms'[c], p))
<1>1. IInv /\ [Next]_rooms => [A]_rooms
  BY StepAttachments
<1> QED
  BY <1>1, StoreInvariant, PTL DEF Spec, AttachmentsAreFinal

-----------------------------------------------------------------------------
(* Survival *)

(* A slot whose owner may return is not gone. *)
LEMMA ReturnIsNotGone == \A s \in Slot : MayReturn(s) => ~Gone(s)
<1> SUFFICES ASSUME NEW s \in Slot, MayReturn(s) PROVE ~Gone(s)
  OBVIOUS
<1>1. s.lastSeen \in Nat /\ s.disconnectedAt \in Nat
  BY DEF Slot, Age
<1>2. CASE s.connected
  BY <1>1, <1>2, TimersAssumption DEF MayReturn, Gone
<1>3. CASE ~s.connected
  BY <1>1, <1>3, TimersAssumption DEF MayReturn, Gone
<1> QED
  BY <1>2, <1>3

(* A room that nobody has lost: all that have a place in it may return,    *)
(* and if it is waiting it can still be joined.                            *)
Alive(r) ==
  /\ r \in Room /\ RoomConsistent(r) /\ MayReturn(r.creator)
  /\ \/ r.state = "paired" /\ MayReturn(r.joiner)
     \/ r.state = "waiting" /\ r.createdAt <= WaitTTL

(* None of its slots is gone, and sweep leaves it alone. *)
LEMMA AliveRoom ==
  ASSUME NEW r, Alive(r)
  PROVE  /\ ~Gone(r.creator)
         /\ r.state = "paired" => ~Gone(r.joiner)
         /\ \A p \in Peers : FindSlot(r, p) # NoSlot => ~Gone(FindSlot(r, p))
         /\ Swept(r) = r
<1>1. r # NoRoom /\ r.state # "closed"
  BY NullsAssumption DEF Alive
<1>2. ~Gone(r.creator)
  BY ReturnIsNotGone DEF Alive, Room
<1>3. r.state = "paired" => ~Gone(r.joiner)
  BY ReturnIsNotGone DEF Alive, Room, RoomConsistent
<1>4. r.state = "waiting" => r.joiner = NoSlot /\ ~(r.createdAt > WaitTTL + ReattachGrace)
  BY TimersAssumption DEF Alive, Room, RoomConsistent, Age
<1>5. \A p \in Peers : FindSlot(r, p) # NoSlot => ~Gone(FindSlot(r, p))
  BY <1>2, <1>3, <1>4 DEF FindSlot, Alive
<1>6. Swept(r) = r
  BY <1>1, <1>2, <1>3, <1>4 DEF Swept, Alive
<1> QED
  BY <1>2, <1>3, <1>5, <1>6

(* What a step may make of such a room: it stays what it is, or is paired. *)
Lives(r, w) == /\ w # NoRoom
               /\ w.state = r.state \/ (r.state = "waiting" /\ w.state = "paired")

(* A room that is only rewritten lives. *)
LEMMA RewrittenLives ==
  ASSUME IInv, NEW c \in Codes, NEW d \in Codes, Alive(rooms[c]),
         NEW w, rooms' = [rooms EXCEPT ![d] = w],
         d = c => w \in Room /\ w.state = rooms[c].state
  PROVE  Lives(rooms[c], rooms'[c])
<1>1. rooms'[c] = IF d = c THEN w ELSE rooms[c]
  BY DEF IInv, TypeOK
<1> QED
  BY <1>1, NullsAssumption DEF Lives, Alive

(* Reattach, Heartbeat and Disconnect write the slot of their caller. *)
LEMMA SlotWritten ==
  ASSUME NEW r \in Room, NEW p \in Peers, NEW s, FindSlot(r, p) # NoSlot,
         \/ s = Reclaimed(FindSlot(r, p))
         \/ s = Dropped(FindSlot(r, p))
         \/ s = [FindSlot(r, p) EXCEPT !.lastSeen = 0]
  PROVE  WithSlot(r, p, s) \in Room /\ WithSlot(r, p, s).state = r.state
<1> DEFINE t == FindSlot(r, p)
<1>1. t \in Slot /\ t.peer = p
  BY FindSlotType
<1> HIDE DEF t
<1>2. [t EXCEPT !.lastSeen = 0] \in Slot /\ [t EXCEPT !.lastSeen = 0].peer = p
  BY <1>1, ZeroAge DEF Slot
<1>3. Reclaimed(t) \in Slot /\ Reclaimed(t).peer = p /\ Dropped(t) \in Slot /\ Dropped(t).peer = p
  BY <1>1, AttachmentType
<1>4. s \in Slot /\ s.peer = p
  BY <1>2, <1>3 DEF t
<1> QED
  BY <1>4, WithSlotType

(* Only Close ends a room that is alive. *)
LEMMA StepSurvives ==
  ASSUME IInv, [Next]_rooms, NEW c \in Codes, Alive(rooms[c])
  PROVE  Lives(rooms[c], rooms'[c]) \/ Close(c)
<1> DEFINE r == rooms[c]
<1>0. /\ r \in Room /\ r # NoRoom /\ r.state \in {"waiting", "paired"} /\ r.state # "closed"
      /\ DOMAIN rooms = Codes /\ \A d \in Codes : rooms[d] \in Room \cup {NoRoom}
  BY NullsAssumption DEF Alive, IInv, TypeOK
<1>1. ASSUME NEW d \in Codes, NEW p \in Peers, Create(d, p) PROVE Lives(r, rooms'[c])
  BY <1>0, <1>1, CreatedRoom DEF Lives
<1>2. ASSUME NEW d \in Codes, NEW p \in Peers, Fresh(p), Join(d, p) PROVE Lives(r, rooms'[c])
  BY <1>0, <1>2, JoinedRoom, NullsAssumption DEF Lives
<1>3. ASSUME NEW d \in Codes, NEW p \in Peers, NEW token \in Peers, Reattach(d, p, token)
      PROVE  Lives(r, rooms'[c])
  <2>1. rooms[d] \in Room /\ FindSlot(rooms[d], p) # NoSlot
    BY <1>0, <1>3 DEF Reattach, ReattachResult
  <2> QED
    BY <1>3, <2>1, SlotWritten, RewrittenLives DEF Reattach
<1>4. ASSUME NEW d \in Codes, NEW p \in Peers, NEW token \in Peers, ReattachGone(d, p, token)
      PROVE  Lives(r, rooms'[c])
  <2>1. d # c
    <3> SUFFICES ASSUME d = c PROVE FALSE
      OBVIOUS
    <3>1. FindSlot(r, p) # NoSlot /\ Gone(FindSlot(r, p))
      BY <1>4 DEF ReattachGone, ReattachResult
    <3> QED
      BY <3>1, AliveRoom
  <2>2. rooms'[c] = rooms[c]
    BY <1>0, <1>4, <2>1 DEF ReattachGone
  <2> QED
    BY <1>0, <2>2 DEF Lives
<1>5. ASSUME NEW d \in Codes, NEW p \in Peers, NEW gen \in Nat, Heartbeat(d, p, gen)
      PROVE  Lives(r, rooms'[c])
  <2> DEFINE s == [FindSlot(rooms[d], p) EXCEPT !.lastSeen = 0]
             w == WithSlot(rooms[d], p, s)
  <2>1. rooms[d] \in Room /\ FindSlot(rooms[d], p) # NoSlot
    BY <1>0, <1>5 DEF Heartbeat, HeartbeatResult
  <2>2. w \in Room /\ w.state = rooms[d].state
    BY <2>1, SlotWritten
  <2>3. rooms' = [rooms EXCEPT ![d] = IF HeartbeatResult(d, p, gen) = "PartnerGone"
                                     THEN [w EXCEPT !.state = "closed"] ELSE w]
    BY <1>5 DEF Heartbeat
  <2>4. d = c => HeartbeatResult(d, p, gen) # "PartnerGone"
    <3> SUFFICES ASSUME d = c, HeartbeatResult(c, p, gen) = "PartnerGone" PROVE FALSE
      OBVIOUS
    <3>1. r.state = "paired" /\ Gone(PartnerOf(r, p))
      BY <1>0 DEF HeartbeatResult
    <3> QED
      BY <3>1, AliveRoom DEF PartnerOf
  <2> HIDE DEF w
  <2> QED
    BY <2>2, <2>3, <2>4, RewrittenLives
<1>6. ASSUME NEW d \in Codes, NEW p \in Peers, NEW gen \in Nat, Disconnect(d, p, gen)
      PROVE  Lives(r, rooms'[c])
  <2>1. rooms[d] \in Room /\ FindSlot(rooms[d], p) # NoSlot
    BY <1>0, <1>6 DEF Disconnect, DisconnectResult
  <2>2. CASE rooms' = rooms
    BY <1>0, <2>2 DEF Lives
  <2>3. CASE rooms' = [rooms EXCEPT ![d] = WithSlot(rooms[d], p, Dropped(FindSlot(rooms[d], p)))]
    BY <2>1, <2>3, SlotWritten, RewrittenLives
  <2> QED
    BY <1>6, <2>2, <2>3 DEF Disconnect
<1>7. ASSUME NEW d \in Codes, Close(d) PROVE Lives(r, rooms'[c]) \/ Close(c)
  <2>1. CASE d # c
    BY <1>0, <1>7, <2>1 DEF Close, Lives
  <2> QED
    BY <1>7, <2>1
<1>8. CASE Sweep
  <2>1. rooms'[c] = r
    BY <1>8, AliveRoom DEF Sweep
  <2> QED
    BY <1>0, <2>1 DEF Lives
<1>9. CASE Tick
  <2>1. rooms'[c] = OlderRoom(r)
    BY <1>9 DEF Tick
  <2> QED
    BY <1>0, <2>1, OlderRoomType, NullsAssumption DEF Lives
<1>10. CASE UNCHANGED rooms
  BY <1>0, <1>10 DEF Lives
<1>11. 1 .. MaxGen \subseteq Nat
  OBVIOUS
<1> QED
  BY <1>1, <1>2, <1>3, <1>4, <1>5, <1>6, <1>7, <1>8, <1>9, <1>10, <1>11 DEF Next

(* Within the grace nobody loses a room: no sweep, no heartbeat of the     *)
(* partner and no late reattach takes a pairing from two peers that may    *)
(* return, nor a waiting room that can still be joined from its creator;   *)
(* only Close does.                                                        *)
THEOREM GraceIsKept == Spec => PairingSurvivesGrace
<1> DEFINE A == \A c \in Codes : rooms[c] # NoRoom =>
       LET r == rooms[c]
       IN /\ r.state = "paired" /\ MayReturn(r.creator) /\ MayReturn(r.joiner) =>
               rooms'[c] # NoRoom /\ (rooms'[c].state = "paired" \/ Close(c))
          /\ r.state = "waiting" /\ MayReturn(r.creator) /\ r.createdAt <= WaitTTL =>
               rooms'[c] # NoRoom /\ (rooms'[c].state # "closed" \/ Close(c))
<1>1. ASSUME IInv, [Next]_rooms PROVE A
  <2> SUFFICES ASSUME NEW c \in Codes, rooms[c] # NoRoom, Alive(rooms[c])
               PROVE  \/ Lives(rooms[c], rooms'[c])
                      \/ Close(c) /\ rooms'[c] # NoRoom
    BY <1>1 DEF Alive, Lives, IInv, TypeOK, SlotsConsistent
  <2>1. Close(c) => rooms'[c] # NoRoom
    <3> SUFFICES ASSUME Close(c) PROVE rooms'[c] # NoRoom
      OBVIOUS
    <3>1. rooms'[c] = [rooms[c] EXCEPT !.state = "closed"]
      BY <1>1 DEF Close, IInv, TypeOK
    <3>2. rooms'[c] \in Room
      BY <3>1 DEF Alive, Room
    <3> QED
      BY <3>2, NullsAssumption
  <2> QED
    BY <1>1, <2>1, StepSurvives
<1>2. IInv /\ [Next]_rooms => [A]_rooms
  BY <1>1
<1> QED
  BY <1>2, StoreInvariant, PTL DEF Spec, PairingSurvivesGrace

-----------------------------------------------------------------------------
(* Refinement *)

(* The empty store maps to the contract's initial state. *)
LEMMA ContractInit == Init => Contract!Init
BY DEF Init, Contract!Init, Status, Members

(* Every step of the store maps to a step of the contract or a stutter. *)
LEMMA ContractStep ==
  ASSUME IInv, [Next]_rooms
  PROVE  Contract!Next
<1>1. CASE \E c \in Codes, p \in Peers : Fresh(p) /\ Create(c, p)
  <2>1. PICK c \in Codes, p \in Peers : Fresh(p) /\ Create(c, p)
    BY <1>1
  <2>2. \A d \in Codes : /\ Status(rooms'[d]) = IF d = c THEN "waiting" ELSE Status(rooms[d])
                         /\ Members(rooms'[d]) = IF d = c THEN {p} ELSE Members(rooms[d])
    BY <2>1, CreatedRoom, NullsAssumption DEF Status
  <2>3. Status(rooms[c]) = "free"
    BY <2>1, CreatedRoom DEF Status
  <2>4. Contract!Open(c, p)
    BY <2>2, <2>3 DEF Contract!Open
  <2> QED
    BY <2>4 DEF Contract!Next
<1>2. CASE \E c \in Codes, p \in Peers : Fresh(p) /\ Join(c, p)
  <2>1. PICK c \in Codes, p \in Peers : Fresh(p) /\ Join(c, p)
    BY <1>2
  <2>2. \A d \in Codes :
          /\ Status(rooms'[d]) = IF d = c THEN "paired" ELSE Status(rooms[d])
          /\ Members(rooms'[d]) = IF d = c THEN Members(rooms[c]) \cup {p} ELSE Members(rooms[d])
    BY <2>1, JoinedRoom, NullsAssumption DEF Status
  <2>3. Status(rooms[c]) = "waiting" /\ p \notin Members(rooms[c])
    BY <2>1, JoinedRoom DEF Status, Fresh
  <2>4. Contract!Pair(c, p)
    BY <2>2, <2>3 DEF Contract!Pair
  <2> QED
    BY <2>4 DEF Contract!Next
<1>3. CASE Maintains
  <2> DEFINE F == {c \in Codes : rooms[c] # NoRoom /\ rooms'[c] = NoRoom}
             S == {c \in Codes : /\ rooms[c] # NoRoom /\ rooms'[c] # NoRoom
                                /\ rooms'[c].state = "closed"}
  <2>1. \A c \in F \cup S : rooms[c] \in Room /\ Status(rooms[c]) # "free"
    BY DEF Status, IInv, TypeOK, Room
  <2>2. ASSUME NEW c \in Codes
        PROVE  /\ Status(rooms'[c]) = IF c \in F THEN "free"
                                      ELSE IF c \in S THEN "closed" ELSE Status(rooms[c])
               /\ Members(rooms'[c]) = IF c \in F THEN {} ELSE Members(rooms[c])
    <3>1. CASE rooms'[c] = rooms[c]
      BY <3>1 DEF Status
    <3>2. CASE rooms[c] # NoRoom /\ rooms'[c] = NoRoom
      BY <3>2 DEF Status, Members
    <3>3. CASE rooms[c] # NoRoom /\ Keeps(rooms[c], rooms'[c])
      <4>1. rooms'[c] # NoRoom
        BY <3>3, NullsAssumption DEF Keeps
      <4> QED
        BY <3>3, <4>1 DEF Keeps, Status
    <3> QED
      BY <1>3, <3>1, <3>2, <3>3 DEF Maintains
  <2>3. Contract!Retire(F, S)
    BY <2>1, <2>2 DEF Contract!Retire
  <2>4. F \in SUBSET Codes /\ S \in SUBSET Codes
    OBVIOUS
  <2> HIDE DEF F, S
  <2> QED
    BY <2>3, <2>4 DEF Contract!Next
<1> QED
  BY <1>1, <1>2, <1>3, StepKinds

(* The store implements the pairing contract for every set of codes and    *)
(* peers: a code has one rendezvous of two peers at a time.                *)
THEOREM Implementation == Spec => ImplementsPairing
<1>1. IInv /\ [Next]_rooms => [Contract!Next]_(Contract!vars)
  BY ContractStep
<1>2. Contract!Spec <=> Contract!Init /\ [][Contract!Next]_(Contract!vars)
  BY DEF Contract!Spec
<1> QED
  BY <1>1, <1>2, ContractInit, StoreInvariant, PTL DEF Spec, ImplementsPairing
=============================================================================
