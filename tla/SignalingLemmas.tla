--------------------------- MODULE SignalingLemmas ---------------------------
(* For the proofs about Signaling: the conjuncts of its inductive invariant, *)
(* what each call makes of the room, and of the record of one session.       *)
EXTENDS Signaling, TLAPS

(* Where a session has not attached, and where its disconnect is behind it. *)
Before == {"first", "create", "join", "reattach"}

Gone == {"leaving", "waiting", "over"}

Mains == Before \cup Gone \cup
         {"created", "announce", "serve", "synced", "gone", "expired", "detach"}

Partners == {"unknown", "present", "away"}

Reasons == {"none", "superseded", "room_closed", "other"}

Message == [type : Replies \cup {"pong", "error", "room_state", "room_closed", "relay",
                                 "peer_joined", "peer_reattached", "peer_disconnected",
                                 "other"},
            partner : Partners \cup {"same"}]

Envelope == [from : Sessions, gen : Nat, kind : Kinds]

Owed == {<<>>, <<"peer_joined">>, <<"peer_reattached">>, <<"superseded", "peer_reattached">>}

SessionType(x) ==
  /\ DOMAIN x = {"main", "peer", "gen", "role", "owes", "snap", "bus", "out", "writer",
                 "closing", "socket", "frame", "told", "partner"}
  /\ x.main \in Mains /\ x.peer \in Sessions /\ x.gen \in Nat
  /\ x.role \in {"none", "creator", "joiner"} /\ x.owes \in Owed
  /\ x.snap.partner \in Partners
  /\ x.out \in Seq(Message) /\ Len(x.out) <= OutCap
  /\ x.writer \in {"on", "over"} /\ x.socket \in {"open", "closed"}
  /\ x.socket = "closed" => x.out = <<>>
  /\ x.closing \in Reasons /\ x.frame \in Reasons
  /\ x.told \subseteq Watched /\ x.partner \in Partners

(* A session whose client has heard nothing and that nothing has ended.    *)
Silent(x) == /\ x.out = <<>> /\ x.told = {} /\ x.partner = "unknown"
             /\ x.closing = "none" /\ x.frame = "none"
             /\ x.socket = "open" /\ x.writer = "on"

(* What the steps of a session have done so far. *)
StageOK(s, x) ==
  /\ x.main \in Before => x.gen = 0
  /\ x.main \in Before \ {"reattach"} => x.peer = s
  /\ x.main \in Before \cup {"created"} => Silent(x)
  /\ x.main \notin Before \cup {"over"} => x.gen > 0
  /\ x.main = "over" => x.gen = 0 /\ x.writer = "over"
  /\ x.main = "announce" => x.owes # <<>>

(* The reply has been read, or it is the first thing the client will read. *)
Served(x) == x.main \notin Before \cup {"created"}

Replied(x) ==
  \/ x.told \cap Replies # {}
  \/ /\ x.told = {} /\ x.partner = "unknown"
     /\ x.socket = "closed" \/ (x.out # <<>> /\ Head(x.out).type \in Replies)

ReplyDue(x) == Replies \subseteq Watched /\ Served(x) => Replied(x)

(* A close for the end of the room comes behind the message that says so.  *)
Noticed(x) == \/ "room_closed" \in x.told
              \/ \E i \in 1 .. Len(x.out) : x.out[i].type = "room_closed"

NoticeDue(x) ==
  /\ x.writer = "over" => x.socket = "closed"
  /\ x.frame # "none" => x.writer = "over"
  /\ "room_closed" \in Watched =>
       /\ x.frame = "room_closed" => "room_closed" \in x.told
       /\ x.closing = "room_closed" /\ x.socket = "open" => Noticed(x)

Sound(x) == SessionType(x) /\ ReplyDue(x) /\ NoticeDue(x)

SessionsOK == /\ session = [s \in Sessions |-> session[s]]
              /\ \A s \in Sessions : Sound(session[s]) /\ StageOK(s, session[s])

-----------------------------------------------------------------------------
(* Fencing *)

Member(p) == Room # NoRoom /\ Store!FindSlot(Room, p) # NoSlot

SlotOf(p) == Store!FindSlot(Room, p)

Past(p) == session[p].main \notin Before

(* The session is attached and has not recorded its disconnect. *)
Live(x) == x.gen > 0 /\ x.main \notin Gone

Generations ==
  /\ \A p \in Sessions : Member(p) => Past(p)
  /\ \A s \in Sessions : session[s].gen > 0 =>
       LET x == session[s]
       IN /\ Past(x.peer)
          /\ Member(x.peer) => x.gen <= SlotOf(x.peer).gen
          /\ x.closing = "superseded" /\ Member(x.peer) => x.gen < SlotOf(x.peer).gen
  /\ \A s, t \in Sessions :
       s # t /\ session[s].gen > 0 /\ session[s].peer = session[t].peer =>
         session[s].gen # session[t].gen

NewsOK(env) == /\ env \in Envelope
               /\ Past(env.from)
               /\ Member(env.from) => env.gen <= SlotOf(env.from).gen

NewsIsNotAhead ==
  /\ inbox \in [Sessions -> Seq(Envelope)]
  /\ \A t \in Sessions : /\ Len(inbox[t]) <= BusCap
                         /\ \A i \in 1 .. Len(inbox[t]) : NewsOK(inbox[t][i])

Matched == \A p \in Sessions : Member(p) =>
  (SlotOf(p).connected <=> \E s \in Sessions : /\ Live(session[s]) /\ session[s].peer = p
                                               /\ session[s].gen = SlotOf(p).gen)

ExpiredOK == \A s \in Sessions : session[s].main = "expired" /\ Room # NoRoom =>
  \/ Room.state = "closed"
  \/ Room.state = "waiting" /\ Room.createdAt > WaitTTL

-----------------------------------------------------------------------------
(* The store *)

(* A room that no peer enters and whose attachments stay as they are. *)
KeptRoom(r, w) == w # NoRoom =>
  /\ r # NoRoom
  /\ \A p \in Sessions : Store!FindSlot(w, p) # NoSlot =>
       /\ Store!FindSlot(r, p) # NoSlot
       /\ Store!FindSlot(w, p).gen = Store!FindSlot(r, p).gen
       /\ Store!FindSlot(w, p).connected = Store!FindSlot(r, p).connected
  /\ w.state = "closed" \/ (w.state = r.state /\ w.createdAt >= r.createdAt)

(* Ages stay in their range and do not go down. *)
LEMMA AgesGrow == /\ 0 \in Store!Age
                  /\ \A a \in Store!Age : Store!Older(a) \in Store!Age /\ Store!Older(a) >= a
BY StoreAssumption DEF Store!Age, Store!AgeCap, Store!Older

(* FindSlot answers with a slot of that peer, for the members. *)
LEMMA FoundSlot ==
  ASSUME NEW r \in Store!Room, NEW p \in Sessions
  PROVE  /\ Store!FindSlot(r, p) # NoSlot <=> p \in Store!Members(r)
         /\ Store!FindSlot(r, p) # NoSlot =>
              Store!FindSlot(r, p) \in Store!Slot /\ Store!FindSlot(r, p).peer = p
<1>1. r # NoRoom /\ r.creator # NoSlot /\ r.creator \in Store!Slot
  BY StoreAssumption DEF Store!Room
<1>2. r.joiner # NoSlot => r.joiner \in Store!Slot
  BY DEF Store!Room
<1> QED
  BY <1>1, <1>2 DEF Store!FindSlot, Store!Members

(* WithSlot touches the slot of its peer, and that alone. *)
LEMMA SlotWritten ==
  ASSUME NEW r \in Store!Room, NEW p \in Sessions, NEW k \in Store!Slot,
         Store!FindSlot(r, p) # NoSlot, k.peer = p
  PROVE  /\ Store!WithSlot(r, p, k) \in Store!Room
         /\ Store!WithSlot(r, p, k).state = r.state
         /\ Store!WithSlot(r, p, k).createdAt = r.createdAt
         /\ \A q \in Sessions : Store!FindSlot(Store!WithSlot(r, p, k), q) =
              IF q = p THEN k ELSE Store!FindSlot(r, q)
<1> DEFINE w == Store!WithSlot(r, p, k)
<1>1. /\ w \in Store!Room /\ w.state = r.state /\ w.createdAt = r.createdAt
      /\ w.creator = IF r.creator.peer = p THEN k ELSE r.creator
      /\ w.joiner = IF r.creator.peer = p THEN r.joiner ELSE k
  BY DEF Store!WithSlot, Store!Room
<1> HIDE DEF w
<1>2. k # NoSlot
  BY StoreAssumption
<1>3. r.creator.peer # p => r.joiner # NoSlot /\ r.joiner.peer = p
  BY DEF Store!FindSlot
<1>4. \A q \in Sessions : Store!FindSlot(w, q) = IF q = p THEN k ELSE Store!FindSlot(r, q)
  BY <1>1, <1>2, <1>3 DEF Store!FindSlot
<1> QED
  BY <1>1, <1>4 DEF w

(* Closing a room keeps it. *)
LEMMA ClosedKeeps ==
  ASSUME NEW r \in Store!Room
  PROVE  [r EXCEPT !.state = "closed"] \in Store!Room /\ KeptRoom(r, [r EXCEPT !.state = "closed"])
<1> DEFINE w == [r EXCEPT !.state = "closed"]
<1>1. w \in Store!Room /\ w.state = "closed" /\ w.creator = r.creator /\ w.joiner = r.joiner
  BY DEF Store!Room
<1> HIDE DEF w
<1>2. r # NoRoom
  BY StoreAssumption
<1>3. KeptRoom(r, w)
  BY <1>1, <1>2 DEF KeptRoom, Store!FindSlot
<1> QED
  BY <1>1, <1>3 DEF w

(* One map entry is all the store has. *)
LEMMA RoomIs ==
  ASSUME Store!TypeOK, NEW w \in Store!Room \cup {NoRoom}, rooms' = [rooms EXCEPT ![Code] = w]
  PROVE  Store!TypeOK' /\ Room' = w
BY DEF Store!TypeOK, Room

(* What the store has is a room or nothing. *)
LEMMA RoomType == Store!TypeOK => Room \in Store!Room \cup {NoRoom}
BY DEF Store!TypeOK, Room

(* A room that is left alone is kept. *)
LEMMA SameRoom == Store!TypeOK => KeptRoom(Room, Room)
<1> SUFFICES ASSUME Store!TypeOK, Room # NoRoom PROVE KeptRoom(Room, Room)
  BY DEF KeptRoom
<1>1. Room.createdAt \in Nat
  BY RoomType, StoreAssumption DEF Store!Room, Store!Age, Store!AgeCap
<1> QED
  BY <1>1 DEF KeptRoom

(* Heartbeat refreshes an instant and may close the room. *)
LEMMA HeartbeatKeeps ==
  ASSUME Store!TypeOK, NEW p \in Sessions, NEW gen, Store!Heartbeat(Code, p, gen)
  PROVE  Store!TypeOK' /\ KeptRoom(Room, Room')
<1> DEFINE k == [Store!FindSlot(Room, p) EXCEPT !.lastSeen = 0]
           w == Store!WithSlot(Room, p, k)
           v == IF Store!HeartbeatResult(Code, p, gen) = "PartnerGone"
                THEN [w EXCEPT !.state = "closed"] ELSE w
<1>1. Room # NoRoom /\ Store!FindSlot(Room, p) # NoSlot
  BY DEF Store!Heartbeat, Store!HeartbeatResult, Room
<1>2. Room \in Store!Room
  BY <1>1, RoomType
<1>3. /\ k \in Store!Slot /\ k.peer = p
      /\ k.gen = Store!FindSlot(Room, p).gen
      /\ k.connected = Store!FindSlot(Room, p).connected
  BY <1>1, <1>2, FoundSlot, AgesGrow DEF Store!Slot
<1>4. rooms' = [rooms EXCEPT ![Code] = v]
  BY DEF Store!Heartbeat, Room
<1> HIDE DEF k
<1>5. /\ w \in Store!Room /\ w.state = Room.state /\ w.createdAt = Room.createdAt
      /\ \A q \in Sessions : Store!FindSlot(w, q) = IF q = p THEN k ELSE Store!FindSlot(Room, q)
  BY <1>1, <1>2, <1>3, SlotWritten
<1> HIDE DEF w
<1>6. w.createdAt >= Room.createdAt
  BY <1>2, <1>5, StoreAssumption DEF Store!Room, Store!Age, Store!AgeCap
<1>7. KeptRoom(Room, w)
  BY <1>1, <1>3, <1>5, <1>6 DEF KeptRoom
<1>8. KeptRoom(w, [w EXCEPT !.state = "closed"]) /\ [w EXCEPT !.state = "closed"] \in Store!Room
  BY <1>5, ClosedKeeps
<1>9. KeptRoom(Room, [w EXCEPT !.state = "closed"])
  <2>1. [w EXCEPT !.state = "closed"].state = "closed"
    BY <1>5 DEF Store!Room
  <2> QED
    BY <1>1, <1>5, <1>7, <1>8, <2>1, StoreAssumption DEF KeptRoom
<1>10. v \in Store!Room /\ KeptRoom(Room, v)
  BY <1>5, <1>7, <1>8, <1>9
<1> HIDE DEF v
<1> QED
  BY <1>4, <1>10, RoomIs

(* Close, and a Reattach after the grace, close the room. *)
LEMMA CloseKeeps ==
  ASSUME Store!TypeOK,
         Store!Close(Code) \/ \E p \in Sessions : Store!ReattachGone(Code, p, p)
  PROVE  Store!TypeOK' /\ KeptRoom(Room, Room')
<1>1. Room # NoRoom /\ rooms' = [rooms EXCEPT ![Code].state = "closed"]
  BY DEF Store!Close, Store!CloseResult, Store!ReattachGone, Store!ReattachResult, Room
<1>2. rooms' = [rooms EXCEPT ![Code] = [Room EXCEPT !.state = "closed"]]
  BY <1>1 DEF Room
<1> QED
  BY <1>1, <1>2, RoomType, ClosedKeeps, RoomIs

(* Sweep deletes the room, closes it or leaves it. *)
LEMMA SweepKeeps ==
  ASSUME Store!TypeOK, Store!Sweep
  PROVE  Store!TypeOK' /\ KeptRoom(Room, Room')
<1>1. rooms' = [rooms EXCEPT ![Code] = Store!Swept(Room)]
  BY DEF Store!Sweep, Store!TypeOK, Room
<1>2. \/ Store!Swept(Room) = NoRoom
      \/ Store!Swept(Room) = Room
      \/ Room \in Store!Room /\ Store!Swept(Room) = [Room EXCEPT !.state = "closed"]
  BY RoomType DEF Store!Swept
<1>3. Store!Swept(Room) \in Store!Room \cup {NoRoom}
  BY <1>2, RoomType, ClosedKeeps
<1>4. KeptRoom(Room, Store!Swept(Room))
  BY <1>2, ClosedKeeps, SameRoom DEF KeptRoom
<1> QED
  BY <1>1, <1>3, <1>4, RoomIs

(* The clock changes ages only. *)
LEMMA TickKeeps ==
  ASSUME Store!TypeOK, Store!Tick
  PROVE  Store!TypeOK' /\ KeptRoom(Room, Room')
<1> DEFINE w == Store!OlderRoom(Room)
<1>1. rooms' = [rooms EXCEPT ![Code] = w]
  BY DEF Store!Tick, Store!TypeOK, Room
<1>2. CASE Room = NoRoom
  <2>1. w = NoRoom
    BY <1>2 DEF Store!OlderRoom
  <2> QED
    BY <1>1, <2>1, RoomIs DEF KeptRoom
<1>3. CASE Room \in Store!Room
  <2>1. \A k \in Store!Slot : /\ Store!OlderSlot(k) \in Store!Slot /\ Store!OlderSlot(k) # NoSlot
                              /\ Store!OlderSlot(k).peer = k.peer
                              /\ Store!OlderSlot(k).gen = k.gen
                              /\ Store!OlderSlot(k).connected = k.connected
    <3> TAKE k \in Store!Slot
    <3>1. k # NoSlot
      BY StoreAssumption
    <3> QED
      BY <3>1, AgesGrow, StoreAssumption DEF Store!OlderSlot, Store!Slot
  <2>2. Store!OlderSlot(NoSlot) = NoSlot
    BY DEF Store!OlderSlot
  <2>3. Room # NoRoom /\ Room.creator \in Store!Slot /\ Room.creator # NoSlot
        /\ Room.joiner \in Store!Slot \cup {NoSlot}
    BY <1>3, StoreAssumption DEF Store!Room
  <2>4. /\ w \in Store!Room
        /\ w.state = Room.state /\ w.createdAt = Store!Older(Room.createdAt)
        /\ w.creator = Store!OlderSlot(Room.creator) /\ w.joiner = Store!OlderSlot(Room.joiner)
    <3>1. Store!OlderSlot(Room.creator) \in Store!Slot
      BY <2>1, <2>3
    <3>2. Store!OlderSlot(Room.joiner) \in Store!Slot \cup {NoSlot}
      BY <2>1, <2>2, <2>3
    <3> QED
      BY <1>3, <2>3, <3>1, <3>2, AgesGrow DEF Store!OlderRoom, Store!Room
  <2>5. w.createdAt >= Room.createdAt
    BY <1>3, <2>4, AgesGrow DEF Store!Room
  <2> HIDE DEF w
  <2>6. KeptRoom(Room, w)
    BY <2>1, <2>2, <2>3, <2>4, <2>5 DEF KeptRoom, Store!FindSlot
  <2> QED
    BY <1>1, <2>4, <2>6, RoomIs
<1> QED
  BY <1>2, <1>3, RoomType

(* The slot of a new attachment. *)
LEMMA NewAttachment ==
  ASSUME NEW p \in Sessions
  PROVE  /\ Store!NewSlot(p) \in Store!Slot /\ Store!NewSlot(p) # NoSlot
         /\ Store!NewSlot(p).peer = p /\ Store!NewSlot(p).gen = 1
         /\ Store!NewSlot(p).connected = TRUE
<1>1. Store!NewSlot(p) \in Store!Slot
  BY AgesGrow DEF Store!NewSlot, Store!Slot
<1> QED
  BY <1>1, StoreAssumption DEF Store!NewSlot

(* Create makes a waiting room with one member. *)
LEMMA CreateMakes ==
  ASSUME Store!TypeOK, NEW p \in Sessions, Store!Create(Code, p)
  PROVE  /\ Store!TypeOK' /\ Room' # NoRoom /\ Room'.state = "waiting"
         /\ \A q \in Sessions :
              Store!FindSlot(Room', q) = IF q = p THEN Store!NewSlot(p) ELSE NoSlot
<1> DEFINE w == [state |-> "waiting", createdAt |-> 0,
                 creator |-> Store!NewSlot(p), joiner |-> NoSlot]
<1>1. rooms' = [rooms EXCEPT ![Code] = w]
  BY DEF Store!Create
<1>2. w \in Store!Room
  BY AgesGrow, NewAttachment DEF Store!Room
<1>3. Room' = w /\ Store!TypeOK'
  BY <1>1, <1>2, RoomIs
<1>4. w # NoRoom
  BY <1>2, StoreAssumption
<1>5. \A q \in Sessions : Store!FindSlot(w, q) = IF q = p THEN Store!NewSlot(p) ELSE NoSlot
  BY NewAttachment DEF Store!FindSlot
<1> QED
  BY <1>3, <1>4, <1>5

(* Join completes a room that is waiting, and in time, with a new member.  *)
LEMMA JoinMakes ==
  ASSUME Store!TypeOK, NEW p \in Sessions, Store!Join(Code, p),
         Room # NoRoom => Store!FindSlot(Room, p) = NoSlot
  PROVE  /\ Store!TypeOK' /\ Room # NoRoom /\ Room' # NoRoom
         /\ Room.state = "waiting" /\ ~(Room.createdAt > WaitTTL) /\ Room'.state = "paired"
         /\ Store!FindSlot(Room', p) = Store!NewSlot(p)
         /\ \A q \in Sessions \ {p} : Store!FindSlot(Room', q) # NoSlot =>
              Store!FindSlot(Room', q) = Store!FindSlot(Room, q)
<1> DEFINE w == [Room EXCEPT !.joiner = Store!NewSlot(p), !.state = "paired"]
<1>1. Room # NoRoom
  BY DEF Store!Join, Store!JoinResult, Room
<1>2. Room \in Store!Room
  BY <1>1, RoomType
<1>3. Room.state = "waiting" /\ ~(Room.createdAt > WaitTTL)
  BY <1>1, <1>2 DEF Store!Join, Store!JoinResult, Room, Store!Room
<1>4. rooms' = [rooms EXCEPT ![Code] = w]
  BY DEF Store!Join, Room, Store!TypeOK
<1>5. /\ w \in Store!Room /\ w.state = "paired"
      /\ w.creator = Room.creator /\ w.joiner = Store!NewSlot(p)
  BY <1>2, NewAttachment DEF Store!Room
<1> HIDE DEF w
<1>6. Room' = w /\ Store!TypeOK' /\ w # NoRoom
  BY <1>4, <1>5, RoomIs, StoreAssumption
<1>7. Room.creator.peer # p
  <2>1. Room.creator # NoSlot
    BY <1>2, StoreAssumption DEF Store!Room
  <2> QED
    BY <1>1, <2>1 DEF Store!FindSlot
<1>8. Store!FindSlot(w, p) = Store!NewSlot(p)
  BY <1>5, <1>7, NewAttachment DEF Store!FindSlot
<1>9. \A q \in Sessions \ {p} : Store!FindSlot(w, q) # NoSlot =>
        Store!FindSlot(w, q) = Store!FindSlot(Room, q)
  BY <1>5, NewAttachment DEF Store!FindSlot
<1> QED
  BY <1>1, <1>3, <1>5, <1>6, <1>8, <1>9

(* Reattach opens the next generation of a slot. *)
LEMMA ReattachMakes ==
  ASSUME Store!TypeOK, NEW p \in Sessions, Store!Reattach(Code, p, p)
  PROVE  /\ Store!TypeOK' /\ Room # NoRoom /\ Room' # NoRoom
         /\ Room'.state = Room.state /\ Room'.createdAt = Room.createdAt
         /\ Store!FindSlot(Room, p) # NoSlot /\ Store!FindSlot(Room, p).gen \in Nat
         /\ Store!FindSlot(Room', p) # NoSlot
         /\ Store!FindSlot(Room', p).gen = Store!FindSlot(Room, p).gen + 1
         /\ Store!FindSlot(Room', p).connected = TRUE
         /\ \A q \in Sessions \ {p} : Store!FindSlot(Room', q) = Store!FindSlot(Room, q)
<1> DEFINE k == Store!Reclaimed(Store!FindSlot(Room, p))
           w == Store!WithSlot(Room, p, k)
<1>1. Room # NoRoom /\ Store!FindSlot(Room, p) # NoSlot
  BY DEF Store!Reattach, Store!ReattachResult, Room
<1>2. Room \in Store!Room
  BY <1>1, RoomType
<1>3. Store!FindSlot(Room, p) \in Store!Slot /\ Store!FindSlot(Room, p).peer = p
  BY <1>1, <1>2, FoundSlot
<1>4. /\ k \in Store!Slot /\ k.peer = p /\ k.connected = TRUE
      /\ k.gen = Store!FindSlot(Room, p).gen + 1
  BY <1>3, AgesGrow DEF Store!Slot, Store!Reclaimed
<1>5. rooms' = [rooms EXCEPT ![Code] = w]
  BY DEF Store!Reattach, Room
<1> HIDE DEF k
<1>6. /\ w \in Store!Room /\ w.state = Room.state /\ w.createdAt = Room.createdAt
      /\ \A q \in Sessions : Store!FindSlot(w, q) = IF q = p THEN k ELSE Store!FindSlot(Room, q)
  BY <1>1, <1>2, <1>4, SlotWritten
<1> HIDE DEF w
<1>7. Room' = w /\ Store!TypeOK' /\ w # NoRoom /\ k # NoSlot
  BY <1>4, <1>5, <1>6, RoomIs, StoreAssumption
<1>8. Store!FindSlot(Room, p).gen \in Nat
  BY <1>3 DEF Store!Slot
<1> QED
  BY <1>1, <1>4, <1>6, <1>7, <1>8

(* Disconnect releases the slot of that generation. *)
LEMMA DisconnectMakes ==
  ASSUME Store!TypeOK, NEW p \in Sessions, NEW gen, Store!Disconnect(Code, p, gen)
  PROVE  /\ Store!TypeOK' /\ Room # NoRoom /\ Room' # NoRoom
         /\ Room'.state = Room.state /\ Room'.createdAt = Room.createdAt
         /\ Store!FindSlot(Room, p) # NoSlot /\ Store!FindSlot(Room, p).gen = gen
         /\ Store!FindSlot(Room', p) # NoSlot /\ Store!FindSlot(Room', p).gen = gen
         /\ Store!FindSlot(Room', p).connected = FALSE
         /\ \A q \in Sessions \ {p} : Store!FindSlot(Room', q) = Store!FindSlot(Room, q)
<1> DEFINE j == Store!FindSlot(Room, p)
           k == Store!Dropped(j)
           w == Store!WithSlot(Room, p, k)
<1>1. Room # NoRoom /\ j # NoSlot /\ j.gen = gen
  BY DEF Store!Disconnect, Store!DisconnectResult, Room
<1>2. Room \in Store!Room
  BY <1>1, RoomType
<1>3. j \in Store!Slot /\ j.peer = p
  BY <1>1, <1>2, FoundSlot
<1>4. k \in Store!Slot /\ k.peer = p /\ k.connected = FALSE /\ k.gen = gen
  BY <1>1, <1>3, AgesGrow DEF Store!Slot, Store!Dropped
<1>5. \/ j.connected = FALSE /\ rooms' = rooms
      \/ rooms' = [rooms EXCEPT ![Code] = w]
  BY <1>3 DEF Store!Disconnect, Room, Store!Slot
<1>6. CASE j.connected = FALSE /\ rooms' = rooms
  <2>1. Store!TypeOK' /\ Room' = Room
    BY <1>6 DEF Store!TypeOK, Room
  <2> QED
    BY <1>1, <1>6, <2>1
<1>7. CASE rooms' = [rooms EXCEPT ![Code] = w]
  <2> HIDE DEF k
  <2>1. /\ w \in Store!Room /\ w.state = Room.state /\ w.createdAt = Room.createdAt
        /\ \A q \in Sessions : Store!FindSlot(w, q) = IF q = p THEN k ELSE Store!FindSlot(Room, q)
    BY <1>1, <1>2, <1>4, SlotWritten
  <2> HIDE DEF w
  <2>2. Room' = w /\ Store!TypeOK' /\ w # NoRoom /\ k # NoSlot
    BY <1>4, <1>7, <2>1, RoomIs, StoreAssumption
  <2> QED
    BY <1>1, <1>4, <2>1, <2>2
<1> QED
  BY <1>5, <1>6, <1>7

-----------------------------------------------------------------------------
(* The record of one session *)

(* What a call that only writes or closes leaves alone. *)
SameStage(x, y) == /\ y.main = x.main /\ y.peer = x.peer /\ y.gen = x.gen
                   /\ y.owes = x.owes

(* The end of busLoop concerns no other field. *)
LEMMA BusOverSound ==
  ASSUME NEW x, Sound(x)
  PROVE  /\ Sound([x EXCEPT !.bus = "over"])
         /\ SameStage(x, [x EXCEPT !.bus = "over"])
         /\ [x EXCEPT !.bus = "over"].closing = x.closing
<1> DEFINE y == [x EXCEPT !.bus = "over"]
<1>1. /\ DOMAIN y = DOMAIN x /\ y.main = x.main /\ y.peer = x.peer /\ y.gen = x.gen
      /\ y.role = x.role /\ y.owes = x.owes /\ y.snap = x.snap /\ y.out = x.out
      /\ y.writer = x.writer /\ y.closing = x.closing /\ y.socket = x.socket
      /\ y.frame = x.frame /\ y.told = x.told /\ y.partner = x.partner
  BY DEF Sound, SessionType
<1> HIDE DEF y
<1>2. Sound(y)
  BY <1>1 DEF Sound, SessionType, ReplyDue, NoticeDue, Served, Replied, Noticed
<1> QED
  BY <1>1, <1>2 DEF SameStage, y

(* A move to another step of a session that has replied. *)
LEMMA AtSound ==
  ASSUME NEW x, SessionType(x), Replies \subseteq Watched => Replied(x), NoticeDue(x),
         NEW m \in Mains \ (Before \cup {"created"})
  PROVE  /\ Sound(At(x, m)) /\ At(x, m).main = m /\ At(x, m).peer = x.peer
         /\ At(x, m).gen = x.gen /\ At(x, m).closing = x.closing /\ At(x, m).owes = x.owes
<1> DEFINE y == At(x, m)
<1>1. /\ DOMAIN y = DOMAIN x /\ y.main = m /\ y.peer = x.peer /\ y.gen = x.gen
      /\ y.role = x.role /\ y.owes = x.owes /\ y.snap = x.snap /\ y.out = x.out
      /\ y.writer = x.writer /\ y.closing = x.closing /\ y.socket = x.socket
      /\ y.frame = x.frame /\ y.told = x.told /\ y.partner = x.partner
  BY DEF SessionType, At
<1> HIDE DEF y
<1>2. Sound(y)
  BY <1>1 DEF Sound, SessionType, ReplyDue, NoticeDue, Served, Replied, Noticed
<1> QED
  BY <1>1, <1>2 DEF y

(* requestClose keeps the first reason; for the end of the room it needs   *)
(* the message that says so.                                               *)
LEMMA CloseAskedSound ==
  ASSUME NEW x, Sound(x), NEW reason \in Reasons \ {"none"},
         "room_closed" \in Watched /\ reason = "room_closed"
            /\ x.closing = "none" /\ x.socket = "open" => Noticed(x)
  PROVE  /\ Sound(CloseAsked(x, reason)) /\ SameStage(x, CloseAsked(x, reason))
         /\ CloseAsked(x, reason).closing \in {x.closing, reason}
         /\ CloseAsked(x, reason).closing # "none"
<1> DEFINE y == [x EXCEPT !.closing = reason]
<1>1. \/ x.closing # "none" /\ CloseAsked(x, reason) = x
      \/ x.closing = "none" /\ CloseAsked(x, reason) = y
  BY DEF CloseAsked
<1>2. /\ DOMAIN y = DOMAIN x /\ y.main = x.main /\ y.peer = x.peer /\ y.gen = x.gen
      /\ y.role = x.role /\ y.owes = x.owes /\ y.snap = x.snap /\ y.out = x.out
      /\ y.writer = x.writer /\ y.closing = reason /\ y.socket = x.socket
      /\ y.frame = x.frame /\ y.told = x.told /\ y.partner = x.partner
  BY DEF Sound, SessionType
<1> HIDE DEF y
<1>3. ASSUME x.closing = "none" PROVE Sound(y)
  BY <1>2, <1>3 DEF Sound, SessionType, ReplyDue, NoticeDue, Served, Replied, Noticed
<1> QED
  BY <1>1, <1>2, <1>3 DEF SameStage

(* A message that is queued behind another. *)
LEMMA SentSound ==
  ASSUME NEW x, Sound(x), Served(x), NEW m \in Message
  PROVE  /\ Sound(Sent(x, m)) /\ SameStage(x, Sent(x, m))
         /\ Sent(x, m).closing \in {x.closing, "other"}
         /\ m.type = "room_closed" /\ Sent(x, m).closing = "none" /\ Sent(x, m).socket = "open"
              => Noticed(Sent(x, m))
<1> DEFINE y == [x EXCEPT !.out = Append(x.out, m)]
<1>1. /\ x.socket = "open" \/ x.socket = "closed"
      /\ x.out \in Seq(Message) /\ Len(x.out) \in Nat
  BY DEF Sound, SessionType
<1>2. \/ x.socket = "closed" /\ Sent(x, m) = x
      \/ x.socket = "open" /\ Len(x.out) < OutCap /\ Sent(x, m) = y
      \/ x.socket = "open" /\ Sent(x, m) = CloseAsked(x, "other")
  BY <1>1 DEF Sent
<1>3. ASSUME x.socket = "open", Len(x.out) < OutCap
      PROVE  /\ Sound(y) /\ SameStage(x, y) /\ y.closing = x.closing
             /\ m.type = "room_closed" => Noticed(y)
  <2>1. /\ DOMAIN y = DOMAIN x /\ y.main = x.main /\ y.peer = x.peer /\ y.gen = x.gen
        /\ y.role = x.role /\ y.owes = x.owes /\ y.snap = x.snap /\ y.out = Append(x.out, m)
        /\ y.writer = x.writer /\ y.closing = x.closing /\ y.socket = x.socket
        /\ y.frame = x.frame /\ y.told = x.told /\ y.partner = x.partner
    BY DEF Sound, SessionType
  <2> HIDE DEF y
  <2>2. /\ y.out \in Seq(Message) /\ Len(y.out) = Len(x.out) + 1 /\ y.out # <<>>
        /\ \A i \in 1 .. Len(x.out) : y.out[i] = x.out[i]
        /\ y.out[Len(x.out) + 1] = m
        /\ x.out # <<>> => Head(y.out) = Head(x.out)
    BY <1>1, <2>1
  <2>3. Len(y.out) <= OutCap
    BY <1>1, <1>3, <2>2, OutCapAssumption
  <2>4. SessionType(y)
    BY <1>3, <2>1, <2>2, <2>3 DEF Sound, SessionType
  <2>5. ReplyDue(y)
    BY <1>3, <2>1, <2>2 DEF Sound, ReplyDue, Served, Replied
  <2>6. Noticed(x) => Noticed(y)
    BY <1>1, <2>1, <2>2 DEF Noticed
  <2>7. NoticeDue(y)
    BY <2>1, <2>6 DEF Sound, NoticeDue
  <2>8. m.type = "room_closed" => Noticed(y)
    BY <1>1, <2>2 DEF Noticed
  <2> QED
    BY <2>1, <2>4, <2>5, <2>7, <2>8 DEF Sound, SameStage
<1> HIDE DEF y
<1>4. ASSUME x.socket = "open"
      PROVE  /\ Sound(CloseAsked(x, "other")) /\ SameStage(x, CloseAsked(x, "other"))
             /\ CloseAsked(x, "other").closing \in {x.closing, "other"}
             /\ CloseAsked(x, "other").closing # "none"
  BY CloseAskedSound DEF Reasons
<1>5. CASE x.socket = "closed" /\ Sent(x, m) = x
  BY <1>5 DEF SameStage
<1>6. CASE x.socket = "open" /\ Len(x.out) < OutCap /\ Sent(x, m) = y
  BY <1>3, <1>6
<1>7. CASE x.socket = "open" /\ Sent(x, m) = CloseAsked(x, "other")
  BY <1>4, <1>7
<1> QED
  BY <1>2, <1>5, <1>6, <1>7

(* The message and the close that follows it. *)
LEMMA SentAndClosedSound ==
  ASSUME NEW x, Sound(x), Served(x), NEW m \in Message,
         "room_closed" \in Watched => m.type = "room_closed"
  PROVE  /\ Sound(SentAndClosed(x, m, "room_closed"))
         /\ SameStage(x, SentAndClosed(x, m, "room_closed"))
         /\ SentAndClosed(x, m, "room_closed").closing \in {x.closing, "other", "room_closed"}
<1> DEFINE y == Sent(x, m)
<1>1. /\ Sound(y) /\ SameStage(x, y) /\ y.closing \in {x.closing, "other"}
      /\ "room_closed" \in Watched /\ y.closing = "none" /\ y.socket = "open" => Noticed(y)
  BY SentSound
<1> HIDE DEF y
<1>2. /\ Sound(CloseAsked(y, "room_closed")) /\ SameStage(y, CloseAsked(y, "room_closed"))
      /\ CloseAsked(y, "room_closed").closing \in {y.closing, "room_closed"}
  BY <1>1, CloseAskedSound DEF Reasons
<1>3. SentAndClosed(x, m, "room_closed") = CloseAsked(y, "room_closed")
  BY DEF SentAndClosed, y
<1> QED
  BY <1>1, <1>2, <1>3 DEF SameStage

(* readLoop goes on, or ends. *)
LEMMA HandledSound ==
  ASSUME NEW x, Sound(x), Served(x)
  PROVE  /\ Sound(Handled(x)) /\ Handled(x).main \in {"serve", "detach"}
         /\ Handled(x).peer = x.peer /\ Handled(x).gen = x.gen
         /\ Handled(x).closing = x.closing
<1> DEFINE m == IF x.closing = "none" THEN "serve" ELSE "detach"
<1>1. Handled(x) = At(x, m) /\ m \in {"serve", "detach"}
  BY DEF Handled
<1> HIDE DEF m
<1>2. m \in Mains \ (Before \cup {"created"})
  BY <1>1 DEF Mains, Before, Gone
<1> QED
  BY <1>1, <1>2, AtSound DEF Sound, ReplyDue

(* The reply is the first message of its session. *)
LEMMA FirstReply ==
  ASSUME NEW x, SessionType(x), Silent(x), NEW m \in Message,
         Replies \subseteq Watched => m.type \in Replies
  PROVE  /\ SessionType(Sent(x, m)) /\ SameStage(x, Sent(x, m))
         /\ Sent(x, m).closing = "none"
         /\ Replies \subseteq Watched => Replied(Sent(x, m))
         /\ NoticeDue(Sent(x, m))
<1> DEFINE y == [x EXCEPT !.out = Append(x.out, m)]
<1>1. 0 < OutCap /\ 1 <= OutCap
  BY OutCapAssumption
<1>2. Len(x.out) = 0
  BY DEF Silent
<1>3. Sent(x, m) = y
  BY <1>1, <1>2 DEF Sent, Silent
<1>4. /\ DOMAIN y = DOMAIN x /\ y.main = x.main /\ y.peer = x.peer /\ y.gen = x.gen
      /\ y.role = x.role /\ y.owes = x.owes /\ y.snap = x.snap /\ y.out = Append(x.out, m)
      /\ y.writer = x.writer /\ y.closing = x.closing /\ y.socket = x.socket
      /\ y.frame = x.frame /\ y.told = x.told /\ y.partner = x.partner
  BY DEF SessionType
<1> HIDE DEF y
<1>5. x.out \in Seq(Message)
  BY DEF SessionType
<1>6. y.out \in Seq(Message) /\ Len(y.out) = 1 /\ y.out # <<>> /\ Head(y.out) = m
  BY <1>2, <1>4, <1>5 DEF Silent
<1>7. SessionType(y)
  <2>1. y.socket = "open"
    BY <1>4 DEF Silent
  <2> QED
    BY <1>1, <1>4, <1>6, <2>1 DEF SessionType
<1>8. Replies \subseteq Watched => Replied(y)
  BY <1>4, <1>6 DEF Silent, Replied
<1>9. NoticeDue(y)
  BY <1>4 DEF Silent, NoticeDue
<1> QED
  BY <1>3, <1>4, <1>7, <1>8, <1>9 DEF SameStage, Silent

(* A socket that fails. *)
LEMMA SocketClosedSound ==
  ASSUME NEW x, Sound(x)
  PROVE  /\ Sound(SocketClosed(x)) /\ SameStage(x, SocketClosed(x))
         /\ SocketClosed(x).closing = x.closing /\ SocketClosed(x).socket = "closed"
<1> DEFINE y == [x EXCEPT !.socket = "closed", !.out = <<>>, !.partner = "unknown",
                          !.told = x.told \cap Replies]
<1>1. \/ x.socket = "closed" /\ SocketClosed(x) = x
      \/ x.socket = "open" /\ SocketClosed(x) = y
  BY DEF SocketClosed, Sound, SessionType
<1>2. /\ DOMAIN y = DOMAIN x /\ y.main = x.main /\ y.peer = x.peer /\ y.gen = x.gen
      /\ y.role = x.role /\ y.owes = x.owes /\ y.snap = x.snap /\ y.out = <<>>
      /\ y.writer = x.writer /\ y.closing = x.closing /\ y.socket = "closed"
      /\ y.frame = x.frame /\ y.told = x.told \cap Replies /\ y.partner = "unknown"
  BY DEF Sound, SessionType
<1> HIDE DEF y
<1>3. ASSUME x.socket = "open" PROVE Sound(y)
  <2>1. <<>> \in Seq(Message) /\ Len(<<>>) = 0 /\ 0 <= OutCap
    BY OutCapAssumption
  <2>2. SessionType(y)
    BY <1>2, <2>1 DEF Sound, SessionType, Partners
  <2>3. ReplyDue(y)
    BY <1>2 DEF ReplyDue, Replied, Served
  <2>4. x.frame = "none" /\ x.writer # "over"
    BY <1>3 DEF Sound, NoticeDue
  <2>5. NoticeDue(y)
    BY <1>2, <2>4 DEF NoticeDue
  <2> QED
    BY <2>2, <2>3, <2>5 DEF Sound
<1> QED
  BY <1>1, <1>2, <1>3 DEF SameStage

(* The client reads a message. *)
LEMMA HeadToldSound ==
  ASSUME NEW x, Sound(x), Served(x), x.out # <<>>, x.writer = "on"
  PROVE  /\ Sound(HeadTold(x)) /\ SameStage(x, HeadTold(x))
         /\ HeadTold(x).closing = x.closing
<1> DEFINE m == Head(x.out)
           news == IF m.partner = "same" \/ "partner" \notin Watched THEN x.partner ELSE m.partner
           y == [x EXCEPT !.out = Tail(x.out), !.told = x.told \cup ({m.type} \cap Watched),
                          !.partner = news]
<1>1. HeadTold(x) = y
  BY DEF HeadTold
<1>2. x.out \in Seq(Message) /\ Len(x.out) \in Nat /\ Len(x.out) <= OutCap /\ OutCap \in Nat
  BY OutCapAssumption DEF Sound, SessionType
<1>3. m \in Message /\ m = x.out[1]
  BY <1>2
<1>4. news \in Partners
  BY <1>3 DEF Sound, SessionType, Message
<1> HIDE DEF m, news
<1>5. /\ DOMAIN y = DOMAIN x /\ y.main = x.main /\ y.peer = x.peer /\ y.gen = x.gen
      /\ y.role = x.role /\ y.owes = x.owes /\ y.snap = x.snap /\ y.out = Tail(x.out)
      /\ y.writer = x.writer /\ y.closing = x.closing /\ y.socket = x.socket
      /\ y.frame = x.frame /\ y.told = x.told \cup ({m.type} \cap Watched) /\ y.partner = news
  BY DEF Sound, SessionType
<1> HIDE DEF y
<1>6. /\ Tail(x.out) \in Seq(Message) /\ Len(Tail(x.out)) = Len(x.out) - 1
      /\ \A i \in 1 .. Len(x.out) - 1 : Tail(x.out)[i] = x.out[i + 1]
  BY <1>2
<1>7. SessionType(y)
  BY <1>2, <1>4, <1>5, <1>6 DEF Sound, SessionType
<1>8. ReplyDue(y)
  <2> SUFFICES ASSUME Replies \subseteq Watched PROVE Replied(y)
    BY DEF ReplyDue
  <2>1. Replied(x)
    BY DEF Sound, ReplyDue
  <2>2. CASE x.told \cap Replies # {}
    BY <1>5, <2>2 DEF Replied
  <2>3. CASE x.told = {} /\ x.socket = "closed"
    BY <2>3 DEF Sound, SessionType
  <2>4. CASE Head(x.out).type \in Replies
    <3>1. m.type \in x.told \cup ({m.type} \cap Watched)
      BY <2>4 DEF m
    <3> QED
      BY <1>5, <2>4, <3>1 DEF Replied, m
  <2> QED
    BY <2>1, <2>2, <2>3, <2>4 DEF Replied
<1>9. "room_closed" \in Watched /\ Noticed(x) => Noticed(y)
  <2> SUFFICES ASSUME "room_closed" \in Watched, Noticed(x) PROVE Noticed(y)
    OBVIOUS
  <2>1. CASE "room_closed" \in x.told
    BY <1>5, <2>1 DEF Noticed
  <2>2. CASE \E i \in 1 .. Len(x.out) : x.out[i].type = "room_closed"
    <3>1. PICK i \in 1 .. Len(x.out) : x.out[i].type = "room_closed"
      BY <2>2
    <3>2. CASE i = 1
      BY <1>3, <1>5, <3>1, <3>2 DEF Noticed
    <3>3. CASE i # 1
      <4>1. i - 1 \in 1 .. Len(x.out) - 1 /\ (i - 1) + 1 = i
        BY <1>2, <3>3
      <4>2. i - 1 \in 1 .. Len(y.out) /\ y.out[i - 1] = x.out[i]
        BY <1>5, <1>6, <4>1
      <4> QED
        BY <3>1, <4>2 DEF Noticed
    <3> QED
      BY <3>2, <3>3
  <2> QED
    BY <2>1, <2>2 DEF Noticed
<1>10. NoticeDue(y)
  BY <1>5, <1>9 DEF Sound, NoticeDue
<1> QED
  BY <1>1, <1>5, <1>7, <1>8, <1>10 DEF Sound, SameStage

(* writeLoop ends: a close frame for the end of the room goes out only if  *)
(* the client has read the message.                                        *)
LEMMA WriterOverSound ==
  ASSUME NEW x, Sound(x),
         "room_closed" \in Watched /\ x.closing = "room_closed" /\ x.socket = "open" =>
           "room_closed" \in x.told
  PROVE  /\ Sound(WriterOver(x)) /\ SameStage(x, WriterOver(x))
         /\ WriterOver(x).closing = x.closing
<1> DEFINE why == IF x.socket = "open" THEN x.closing ELSE "none"
           y == [x EXCEPT !.out = <<>>, !.writer = "over", !.socket = "closed",
                          !.partner = "unknown", !.frame = why]
<1>1. WriterOver(x) = y
  BY DEF WriterOver
<1>2. /\ why \in Reasons
      /\ why = "room_closed" => x.closing = "room_closed" /\ x.socket = "open"
  BY DEF Sound, SessionType, Reasons
<1> HIDE DEF why
<1>3. /\ DOMAIN y = DOMAIN x /\ y.main = x.main /\ y.peer = x.peer /\ y.gen = x.gen
      /\ y.role = x.role /\ y.owes = x.owes /\ y.snap = x.snap /\ y.out = <<>>
      /\ y.writer = "over" /\ y.closing = x.closing /\ y.socket = "closed"
      /\ y.frame = why /\ y.told = x.told /\ y.partner = "unknown"
  BY DEF Sound, SessionType
<1> HIDE DEF y
<1>4. <<>> \in Seq(Message) /\ Len(<<>>) = 0 /\ 0 <= OutCap
  BY OutCapAssumption
<1>5. SessionType(y)
  BY <1>2, <1>3, <1>4 DEF Sound, SessionType, Partners
<1>6. ReplyDue(y)
  BY <1>3 DEF Sound, ReplyDue, Served, Replied
<1>7. NoticeDue(y)
  BY <1>2, <1>3 DEF NoticeDue
<1> QED
  BY <1>1, <1>3, <1>5, <1>6, <1>7 DEF Sound, SameStage

(* drainAndClose: everything that is queued is read before the close.      *)
LEMMA DrainedSound ==
  ASSUME NEW x, Sound(x), Served(x)
  PROVE  /\ Sound(DrainedAndClosed(x)) /\ SameStage(x, DrainedAndClosed(x))
         /\ DrainedAndClosed(x).closing = x.closing
<1> DEFINE types == {x.out[i].type : i \in 1 .. Len(x.out)} \cap Watched
           y == [x EXCEPT !.told = x.told \cup types]
<1>1. \/ x.socket = "closed" /\ DrainedAndClosed(x) = WriterOver(x)
      \/ x.socket = "open" /\ DrainedAndClosed(x) = WriterOver(y)
  BY DEF DrainedAndClosed, Sound, SessionType
<1>2. CASE x.socket = "closed" /\ DrainedAndClosed(x) = WriterOver(x)
  BY <1>2, WriterOverSound
<1>3. CASE x.socket = "open" /\ DrainedAndClosed(x) = WriterOver(y)
  <2>1. types \subseteq Watched
    OBVIOUS
  <2>2. "room_closed" \in Watched /\ Noticed(x) => "room_closed" \in x.told \cup types
    BY DEF Noticed
  <2>3. Replies \subseteq Watched /\ x.out # <<>> /\ Head(x.out).type \in Replies =>
          types \cap Replies # {}
    <3> SUFFICES ASSUME Replies \subseteq Watched, x.out # <<>>, Head(x.out).type \in Replies
                 PROVE  types \cap Replies # {}
      OBVIOUS
    <3>1. x.out \in Seq(Message)
      BY DEF Sound, SessionType
    <3>2. 1 \in 1 .. Len(x.out) /\ Head(x.out) = x.out[1]
      BY <3>1
    <3> QED
      BY <3>2
  <2> HIDE DEF types
  <2>4. /\ DOMAIN y = DOMAIN x /\ y.main = x.main /\ y.peer = x.peer /\ y.gen = x.gen
        /\ y.role = x.role /\ y.owes = x.owes /\ y.snap = x.snap /\ y.out = x.out
        /\ y.writer = x.writer /\ y.closing = x.closing /\ y.socket = x.socket
        /\ y.frame = x.frame /\ y.told = x.told \cup types /\ y.partner = x.partner
    BY DEF Sound, SessionType
  <2> HIDE DEF y
  <2>5. SessionType(y)
    BY <2>1, <2>4 DEF Sound, SessionType
  <2>6. ReplyDue(y)
    <3> SUFFICES ASSUME Replies \subseteq Watched PROVE Replied(y)
      BY DEF ReplyDue
    <3>1. Replied(x)
      BY DEF Sound, ReplyDue
    <3> QED
      BY <1>3, <2>3, <2>4, <3>1 DEF Replied
  <2>7. NoticeDue(y)
    BY <2>4 DEF Sound, NoticeDue, Noticed
  <2>8. "room_closed" \in Watched /\ y.closing = "room_closed" /\ y.socket = "open" =>
          "room_closed" \in y.told
    BY <2>2, <2>4 DEF Sound, NoticeDue
  <2>9. /\ Sound(WriterOver(y)) /\ SameStage(y, WriterOver(y))
        /\ WriterOver(y).closing = y.closing
    BY <2>5, <2>6, <2>7, <2>8, WriterOverSound DEF Sound
  <2> QED
    BY <1>3, <2>4, <2>9 DEF SameStage
<1> QED
  BY <1>1, <1>2, <1>3

(* A session that is over remembers at most that its client was answered.  *)
LEMMA EndedSound ==
  ASSUME NEW s \in Sessions, Sound(session[s])
  PROVE  /\ Sound(Ended(s)) /\ StageOK(s, Ended(s))
         /\ Ended(s).main = "over" /\ Ended(s).gen = 0
<1> DEFINE kept == IF session[s].peer = s THEN session[s].told \cap Replies ELSE {}
           y == Ended(s)
<1>1. y = [NotConnected(s) EXCEPT !.main = "over", !.bus = "over", !.writer = "over",
                                  !.socket = "closed", !.told = kept]
  BY DEF Ended
<1>2. kept \subseteq Replies /\ kept \subseteq Watched
  BY DEF Sound, SessionType
<1> HIDE DEF kept
<1>3. /\ DOMAIN y = {"main", "peer", "gen", "role", "owes", "snap", "bus", "out", "writer",
                     "closing", "socket", "frame", "told", "partner"}
      /\ y.main = "over" /\ y.peer = s /\ y.gen = 0
      /\ y.role = "none" /\ y.owes = <<>> /\ y.snap.partner = "unknown" /\ y.out = <<>>
      /\ y.writer = "over" /\ y.closing = "none" /\ y.socket = "closed"
      /\ y.frame = "none" /\ y.told = kept /\ y.partner = "unknown"
  BY <1>1 DEF NotConnected
<1> HIDE DEF y
<1>4. <<>> \in Seq(Message) /\ Len(<<>>) = 0 /\ 0 <= OutCap
  BY OutCapAssumption
<1>5. SessionType(y)
  BY <1>2, <1>3, <1>4 DEF SessionType, Partners, Reasons, Mains, Gone, Owed
<1>6. ReplyDue(y)
  BY <1>2, <1>3 DEF ReplyDue, Replied
<1>7. NoticeDue(y)
  BY <1>3 DEF NoticeDue
<1>8. StageOK(s, y)
  BY <1>3 DEF StageOK, Before
<1> QED
  BY <1>3, <1>5, <1>6, <1>7, <1>8 DEF Sound, y

-----------------------------------------------------------------------------
(* News of the partner *)

(* The client of the session hears what is queued for it, once it has been *)
(* answered and until something ends it.                                   *)
Hears(x) == /\ x.gen > 0 /\ x.socket = "open" /\ x.closing = "none" /\ x.bus = "on"
            /\ x.main \notin {"created", "waiting"}

(* The last word on the partner, said or queued, is that there is one.     *)
NotLost(x, i) == \A j \in i .. Len(x.out) : x.out[j].partner # "unknown"

Knows(x) ==
  \/ x.partner # "unknown" /\ NotLost(x, 1)
  \/ \E i \in 1 .. Len(x.out) : x.out[i].partner \in {"present", "away"} /\ NotLost(x, i)

(* The envelope is news of the partner of this peer. *)
Tells(env, p) == /\ env.from # p
                 /\ env.kind \in {"peer_joined", "peer_reattached", "peer_disconnected"}

OwesJoin(x) == x.main = "announce" /\ x.owes = <<"peer_joined">>

(* A move after which the client knows no less, and as much is announced.  *)
Carries(x, y) ==
  /\ Hears(y) => Hears(x) /\ y.gen = x.gen /\ y.peer = x.peer /\ (Knows(x) => Knows(y))
  /\ OwesJoin(x) => OwesJoin(y) /\ y.peer = x.peer

(* A client that no longer hears is owed nothing. *)
LEMMA DeafCarries ==
  ASSUME NEW x, NEW y, ~Hears(y), ~OwesJoin(x) \/ SameStage(x, y)
  PROVE  Carries(x, y)
BY DEF Carries, OwesJoin, SameStage

(* Moves follow each other. *)
LEMMA CarriesOn ==
  ASSUME NEW x, NEW y, NEW z, Carries(x, y), Carries(y, z)
  PROVE  Carries(x, z)
BY DEF Carries

(* A move to another step leaves what the client knows. *)
LEMMA AtCarries ==
  ASSUME NEW x, SessionType(x), NEW m, x.main \notin {"created", "waiting", "announce"}
  PROVE  Carries(x, At(x, m)) /\ At(x, m).main = m
<1> DEFINE y == At(x, m)
<1>1. /\ y.main = m /\ y.peer = x.peer /\ y.gen = x.gen /\ y.out = x.out /\ y.bus = x.bus
      /\ y.closing = x.closing /\ y.socket = x.socket /\ y.partner = x.partner
  BY DEF SessionType, At
<1> HIDE DEF y
<1>2. Carries(x, y)
  BY <1>1 DEF Carries, Hears, Knows, NotLost, OwesJoin
<1> QED
  BY <1>1, <1>2 DEF y

(* A session that is asked to close hears no more. *)
LEMMA CloseAskedDeaf ==
  ASSUME NEW x, SessionType(x), NEW reason, reason # "none"
  PROVE  ~Hears(CloseAsked(x, reason)) /\ SameStage(x, CloseAsked(x, reason))
<1> DEFINE y == [x EXCEPT !.closing = reason]
<1>1. /\ y.main = x.main /\ y.peer = x.peer /\ y.gen = x.gen /\ y.owes = x.owes
      /\ y.closing = reason
  BY DEF SessionType
<1> HIDE DEF y
<1>2. \/ x.closing # "none" /\ CloseAsked(x, reason) = x
      \/ x.closing = "none" /\ CloseAsked(x, reason) = y
  BY DEF CloseAsked, y
<1> QED
  BY <1>1, <1>2 DEF Hears, SameStage

(* Messages do not take away what the client knows, unless they say so,    *)
(* and those about the partner tell it.                                    *)
LEMMA SentCarries ==
  ASSUME NEW x, SessionType(x), NEW m \in Message, m.partner # "unknown"
  PROVE  /\ Carries(x, Sent(x, m)) /\ SameStage(x, Sent(x, m))
         /\ m.partner # "same" /\ Hears(Sent(x, m)) => Knows(Sent(x, m))
<1> DEFINE y == [x EXCEPT !.out = Append(x.out, m)]
           n == Len(x.out) + 1
<1>1. x.out \in Seq(Message) /\ Len(x.out) \in Nat
  BY DEF SessionType
<1>2. \/ x.socket = "closed" /\ Sent(x, m) = x
      \/ Sent(x, m) = y
      \/ Sent(x, m) = CloseAsked(x, "other")
  BY DEF Sent
<1>3. /\ y.main = x.main /\ y.peer = x.peer /\ y.gen = x.gen /\ y.owes = x.owes
      /\ y.out = Append(x.out, m) /\ y.bus = x.bus
      /\ y.closing = x.closing /\ y.socket = x.socket /\ y.partner = x.partner
  BY DEF SessionType
<1> HIDE DEF y
<1>4. /\ Len(y.out) = n /\ y.out[n] = m
      /\ \A i \in 1 .. Len(x.out) : y.out[i] = x.out[i]
  BY <1>1, <1>3
<1>5. \A i \in 1 .. n : NotLost(x, i) => NotLost(y, i)
  BY <1>1, <1>4 DEF NotLost
<1>6. Knows(x) => Knows(y)
  <2>1. CASE x.partner # "unknown" /\ NotLost(x, 1)
    BY <1>1, <1>3, <1>5, <2>1 DEF Knows
  <2>2. ASSUME NEW i \in 1 .. Len(x.out), x.out[i].partner \in {"present", "away"}, NotLost(x, i)
        PROVE  Knows(y)
    <3>1. i \in 1 .. Len(y.out) /\ y.out[i] = x.out[i] /\ NotLost(y, i)
      BY <1>1, <1>4, <1>5, <2>2
    <3> QED
      BY <2>2, <3>1 DEF Knows
  <2> QED
    BY <2>1, <2>2 DEF Knows
<1>7. m.partner # "same" => Knows(y)
  <2>1. m.partner # "same" => m.partner \in {"present", "away"}
    BY DEF Message, Partners
  <2>2. n \in 1 .. Len(y.out) /\ NotLost(y, n)
    BY <1>1, <1>4 DEF NotLost
  <2> QED
    BY <1>4, <2>1, <2>2 DEF Knows
<1>8. Carries(x, y) /\ SameStage(x, y)
  BY <1>3, <1>6 DEF Carries, Hears, OwesJoin, SameStage
<1>9. Carries(x, x) /\ SameStage(x, x)
  BY DEF Carries, SameStage
<1>10. CASE x.socket = "closed" /\ Sent(x, m) = x
  BY <1>9, <1>10 DEF Hears
<1>11. CASE Sent(x, m) = y
  BY <1>7, <1>8, <1>11
<1>12. CASE Sent(x, m) = CloseAsked(x, "other")
  <2>1. ~Hears(CloseAsked(x, "other")) /\ SameStage(x, CloseAsked(x, "other"))
    BY CloseAskedDeaf
  <2> QED
    BY <1>12, <2>1, DeafCarries
<1> QED
  BY <1>2, <1>10, <1>11, <1>12

(* readLoop goes on, or ends. *)
LEMMA HandledCarries ==
  ASSUME NEW x, SessionType(x), x.main \notin {"created", "waiting", "announce"}
  PROVE  Carries(x, Handled(x)) /\ Handled(x).main \in {"serve", "detach"}
<1> DEFINE m == IF x.closing = "none" THEN "serve" ELSE "detach"
<1>1. Handled(x) = At(x, m) /\ m \in {"serve", "detach"}
  BY DEF Handled
<1> HIDE DEF m
<1> QED
  BY <1>1, AtCarries

(* A message and a close. *)
LEMMA SentAndClosedDeaf ==
  ASSUME NEW x, Sound(x), Served(x), NEW m \in Message, NEW reason, reason # "none"
  PROVE  /\ ~Hears(SentAndClosed(x, m, reason))
         /\ SameStage(x, SentAndClosed(x, m, reason))
<1> DEFINE y == Sent(x, m)
<1>1. Sound(y) /\ SameStage(x, y)
  BY SentSound
<1> HIDE DEF y
<1>2. ~Hears(CloseAsked(y, reason)) /\ SameStage(y, CloseAsked(y, reason))
  BY <1>1, CloseAskedDeaf DEF Sound
<1>3. SentAndClosed(x, m, reason) = CloseAsked(y, reason)
  BY DEF SentAndClosed, y
<1> QED
  BY <1>1, <1>2, <1>3 DEF SameStage

(* The client reads a message, and knows what it says. *)
LEMMA HeadToldCarries ==
  ASSUME "partner" \in Watched, NEW x, SessionType(x), x.out # <<>>
  PROVE  Carries(x, HeadTold(x))
<1> DEFINE m == Head(x.out)
           news == IF m.partner = "same" \/ "partner" \notin Watched THEN x.partner ELSE m.partner
           y == [x EXCEPT !.out = Tail(x.out), !.told = x.told \cup ({m.type} \cap Watched),
                          !.partner = news]
<1>1. HeadTold(x) = y
  BY DEF HeadTold
<1>2. x.out \in Seq(Message) /\ Len(x.out) \in Nat /\ Len(x.out) >= 1
  BY DEF SessionType
<1>3. m = x.out[1] /\ m \in Message
  BY <1>2
<1>4. news = IF m.partner = "same" THEN x.partner ELSE m.partner
  OBVIOUS
<1> HIDE DEF m, news
<1>5. /\ y.main = x.main /\ y.peer = x.peer /\ y.gen = x.gen /\ y.owes = x.owes
      /\ y.out = Tail(x.out) /\ y.bus = x.bus
      /\ y.closing = x.closing /\ y.socket = x.socket /\ y.partner = news
  BY DEF SessionType
<1> HIDE DEF y
<1>6. /\ Len(y.out) = Len(x.out) - 1
      /\ \A i \in 1 .. Len(y.out) : y.out[i] = x.out[i + 1]
  BY <1>2, <1>5
<1>7. /\ \A i \in 1 .. Len(y.out) : NotLost(x, i + 1) => NotLost(y, i)
      /\ NotLost(x, 1) => NotLost(y, 1)
  <2>1. ASSUME NEW i \in Nat \ {0}, NotLost(x, i + 1), NEW j \in i .. Len(y.out)
        PROVE  y.out[j].partner # "unknown"
    <3>1. j + 1 \in i + 1 .. Len(x.out) /\ j \in 1 .. Len(y.out)
      BY <1>2, <1>6, <2>1
    <3> QED
      BY <1>6, <2>1, <3>1 DEF NotLost
  <2>2. \A i \in Nat \ {0} : NotLost(x, i + 1) => NotLost(y, i)
    BY <2>1 DEF NotLost
  <2>3. NotLost(x, 1) => NotLost(x, 1 + 1)
    BY <1>2 DEF NotLost
  <2>4. 1 .. Len(y.out) \subseteq Nat \ {0}
    OBVIOUS
  <2> QED
    BY <2>2, <2>3, <2>4
<1>8. Knows(x) => Knows(y)
  <2>1. CASE x.partner # "unknown" /\ NotLost(x, 1)
    <3>1. m.partner # "unknown"
      BY <1>2, <1>3, <2>1 DEF NotLost
    <3> QED
      BY <1>4, <1>5, <1>7, <2>1, <3>1 DEF Knows
  <2>2. ASSUME NEW i \in 1 .. Len(x.out), x.out[i].partner \in {"present", "away"}, NotLost(x, i),
               i = 1
        PROVE  Knows(y)
    BY <1>3, <1>4, <1>5, <1>7, <2>2 DEF Knows
  <2>3. ASSUME NEW i \in 1 .. Len(x.out), x.out[i].partner \in {"present", "away"}, NotLost(x, i),
               i # 1
        PROVE  Knows(y)
    <3>1. i - 1 \in 1 .. Len(y.out) /\ (i - 1) + 1 = i
      BY <1>2, <1>6, <2>3
    <3>2. y.out[i - 1] = x.out[i] /\ NotLost(y, i - 1)
      BY <1>6, <1>7, <2>3, <3>1
    <3> QED
      BY <2>3, <3>1, <3>2 DEF Knows
  <2> QED
    BY <2>1, <2>2, <2>3 DEF Knows
<1>9. Carries(x, y)
  BY <1>5, <1>8 DEF Carries, Hears, OwesJoin
<1> QED
  BY <1>1, <1>9

(* A socket that has failed. *)
LEMMA SocketClosedDeaf ==
  ASSUME NEW x, SessionType(x)
  PROVE  /\ ~Hears(SocketClosed(x)) /\ SameStage(x, SocketClosed(x))
<1> DEFINE y == [x EXCEPT !.socket = "closed", !.out = <<>>, !.partner = "unknown",
                          !.told = x.told \cap Replies]
<1>1. (x.socket = "closed" /\ SocketClosed(x) = x) \/ SocketClosed(x) = y
  BY DEF SocketClosed
<1>2. /\ y.main = x.main /\ y.peer = x.peer /\ y.gen = x.gen /\ y.owes = x.owes
      /\ y.socket = "closed"
  BY DEF SessionType
<1> HIDE DEF y
<1> QED
  BY <1>1, <1>2 DEF Hears, SameStage

(* A writer that is over. *)
LEMMA WriterOverDeaf ==
  ASSUME NEW x, Sound(x)
  PROVE  ~Hears(WriterOver(x)) /\ SameStage(x, WriterOver(x))
<1> DEFINE why == IF x.socket = "open" THEN x.closing ELSE "none"
           y == [x EXCEPT !.out = <<>>, !.writer = "over", !.socket = "closed",
                          !.partner = "unknown", !.frame = why]
<1>1. WriterOver(x) = y
  BY DEF WriterOver
<1> HIDE DEF why
<1>2. /\ y.main = x.main /\ y.peer = x.peer /\ y.gen = x.gen /\ y.owes = x.owes
      /\ y.socket = "closed"
  BY DEF Sound, SessionType
<1> HIDE DEF y
<1> QED
  BY <1>1, <1>2 DEF Hears, SameStage

(* busLoop forwards what tells of the partner. *)
LEMMA ForwardedCarries ==
  ASSUME "partner" \in Watched, NEW x, Sound(x), Served(x), NEW env \in Envelope
  PROVE  /\ Carries(x, Forwarded(x, env))
         /\ Tells(env, x.peer) /\ Hears(Forwarded(x, env)) => Knows(Forwarded(x, env))
<1> DEFINE y == [x EXCEPT !.bus = "over"]
           told == Msg("room_closed", "same")
<1>1. Sound(y) /\ SameStage(x, y)
  BY BusOverSound
<1>2. env.kind \in Kinds
  BY DEF Envelope
<1>3. CASE Supersedes(x, env)
  <2>1. Forwarded(x, env) = CloseAsked(y, "superseded")
    BY <1>3 DEF Forwarded, Supersedes
  <2> HIDE DEF y
  <2>2. ~Hears(CloseAsked(y, "superseded")) /\ SameStage(y, CloseAsked(y, "superseded"))
    BY <1>1, CloseAskedDeaf DEF Sound
  <2>3. SameStage(x, CloseAsked(y, "superseded"))
    BY <1>1, <2>2 DEF SameStage
  <2> QED
    BY <2>1, <2>2, <2>3, DeafCarries
<1>4. CASE Forwarded(x, env) = x /\ ~Tells(env, x.peer)
  BY <1>4 DEF Carries
<1>5. ASSUME NEW m \in Message, m.partner # "unknown", Forwarded(x, env) = Sent(x, m),
             Tells(env, x.peer) => m.partner # "same"
      PROVE  /\ Carries(x, Forwarded(x, env))
             /\ Tells(env, x.peer) /\ Hears(Forwarded(x, env)) => Knows(Forwarded(x, env))
  BY <1>5, SentCarries DEF Sound
<1>6. CASE env.from # x.peer /\ env.kind = "room_closed"
  <2>1. Forwarded(x, env) = SentAndClosed(y, told, "room_closed")
    BY <1>6 DEF Forwarded, Supersedes
  <2>2. told \in Message /\ Served(y)
    BY <1>1 DEF Msg, Message, SameStage, Served
  <2> HIDE DEF y, told
  <2>3. /\ ~Hears(SentAndClosed(y, told, "room_closed"))
        /\ SameStage(y, SentAndClosed(y, told, "room_closed"))
    BY <1>1, <2>2, SentAndClosedDeaf
  <2>4. SameStage(x, SentAndClosed(y, told, "room_closed"))
    BY <1>1, <2>3 DEF SameStage
  <2> QED
    BY <2>1, <2>3, <2>4, DeafCarries
<1>7. CASE env.from # x.peer /\ env.kind = "relay"
  <2>1. Forwarded(x, env) = Sent(x, Msg("relay", "same")) /\ ~Tells(env, x.peer)
    BY <1>7 DEF Forwarded, Supersedes, Tells
  <2>2. Msg("relay", "same") \in Message /\ Msg("relay", "same").partner = "same"
    BY DEF Msg, Message
  <2> QED
    BY <1>5, <2>1, <2>2
<1>8. CASE env.from # x.peer /\ env.kind \in {"peer_joined", "peer_reattached"}
  <2>1. Forwarded(x, env) = Sent(x, Msg(env.kind, "present"))
    BY <1>8 DEF Forwarded, Supersedes
  <2>2. Msg(env.kind, "present") \in Message /\ Msg(env.kind, "present").partner = "present"
    BY <1>8 DEF Msg, Message, Partners
  <2> QED
    BY <1>5, <2>1, <2>2
<1>9. CASE env.from # x.peer /\ env.kind = "peer_disconnected"
  <2>1. Forwarded(x, env) = Sent(x, Msg("peer_disconnected", "away"))
    BY <1>9 DEF Forwarded, Supersedes
  <2>2. /\ Msg("peer_disconnected", "away") \in Message
        /\ Msg("peer_disconnected", "away").partner = "away"
    BY DEF Msg, Message, Partners
  <2> QED
    BY <1>5, <2>1, <2>2
<1>10. CASE env.from = x.peer /\ ~Supersedes(x, env)
  BY <1>4, <1>10 DEF Forwarded, Tells
<1>11. CASE env.from # x.peer /\ env.kind = "superseded"
  BY <1>4, <1>11 DEF Forwarded, Supersedes, Tells
<1> QED
  BY <1>2, <1>3, <1>6, <1>7, <1>8, <1>9, <1>10, <1>11 DEF Kinds

=============================================================================
