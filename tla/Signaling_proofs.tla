--------------------------- MODULE Signaling_proofs ---------------------------
(* Proofs about Signaling, for every set of sessions, every timer and every *)
(* capacity of the queues.  A step is quiet when it attaches no session and *)
(* releases no slot; those that do come after them.                         *)
EXTENDS SignalingLemmas

(* The inductive invariant and the steps that attach and release nothing.  *)
IInv == /\ Store!TypeOK /\ subs \subseteq Sessions
        /\ SessionsOK /\ Generations /\ NewsIsNotAhead /\ Matched /\ ExpiredOK

(* The room that a heartbeat of a waiting creator found expired. *)
Lapsed == Room # NoRoom =>
  \/ Room.state = "closed"
  \/ Room.state = "waiting" /\ Room.createdAt > WaitTTL

Overtaken(x) == Member(x.peer) => x.gen < SlotOf(x.peer).gen

(* No session gets another attachment, and none is superseded or finds the *)
(* room expired without a cause.                                           *)
SteadyMove(x, y) ==
  /\ y.gen \in {0, x.gen}
  /\ y.gen > 0 => y.peer = x.peer
  /\ x.main \notin Before => y.main \notin Before
  /\ y.closing = "superseded" /\ y.gen > 0 => x.closing = "superseded" \/ Overtaken(x)
  /\ y.main = "expired" => x.main = "expired" \/ Lapsed

QuietMove(x, y) ==
  /\ SteadyMove(x, y)
  /\ Live(y) => Live(x)
  /\ Live(x) => Live(y) \/ Overtaken(x)

(* What is in the inboxes was there, or is news of an attached session.    *)
IsNews(env) == /\ env \in Envelope
               /\ \E s \in Sessions : /\ session[s].gen > 0 /\ env.from = session[s].peer
                                     /\ env.gen = session[s].gen

InboxStep ==
  /\ inbox' \in [Sessions -> Seq(Envelope)]
  /\ \A t \in Sessions :
       /\ Len(inbox'[t]) <= BusCap
       /\ \A i \in 1 .. Len(inbox'[t]) :
            \/ \E j \in 1 .. Len(inbox[t]) : inbox'[t][i] = inbox[t][j]
            \/ IsNews(inbox'[t][i])

SessionsStep ==
  /\ session' = [t \in Sessions |-> session'[t]]
  /\ \A t \in Sessions : Sound(session'[t]) /\ StageOK(t, session'[t])

(* The generations of the slots stay, whether they are connected or not.   *)
SteadyRoom(r, w) == w # NoRoom =>
  /\ r # NoRoom
  /\ \A p \in Sessions : Store!FindSlot(w, p) # NoSlot =>
       /\ Store!FindSlot(r, p) # NoSlot
       /\ Store!FindSlot(w, p).gen = Store!FindSlot(r, p).gen
  /\ w.state = "closed" \/ (w.state = r.state /\ w.createdAt >= r.createdAt)

SteadyStep ==
  /\ Store!TypeOK' /\ SteadyRoom(Room, Room')
  /\ InboxStep /\ SessionsStep /\ subs' \subseteq Sessions
  /\ \A t \in Sessions : SteadyMove(session[t], session'[t])

RoomStep == Store!TypeOK' /\ KeptRoom(Room, Room')

QuietStep ==
  /\ RoomStep /\ InboxStep /\ SessionsStep /\ subs' \subseteq Sessions
  /\ \A t \in Sessions : QuietMove(session[t], session'[t])

(* The generations of slots are numbers. *)
LEMMA SlotGenType ==
  ASSUME Store!TypeOK, NEW p \in Sessions, Member(p)
  PROVE  SlotOf(p).gen \in Nat
BY RoomType, FoundSlot DEF Member, SlotOf, Store!Slot

(* The types that the steps below need. *)
LEMMA SessionTypes ==
  ASSUME SessionsOK, NEW s \in Sessions
  PROVE  session[s].peer \in Sessions /\ session[s].gen \in Nat
BY DEF SessionsOK, Sound, SessionType

(* Such a room has no new member, and no member of another generation.     *)
LEMMA MemberKept ==
  ASSUME SteadyRoom(Room, Room'), NEW p \in Sessions, Member(p)'
  PROVE  Member(p) /\ SlotOf(p)'.gen = SlotOf(p).gen
BY DEF SteadyRoom, Member, SlotOf

(* Quiet steps are steady ones. *)
LEMMA QuietIsSteady == QuietStep => SteadyStep
BY DEF QuietStep, QuietMove, SteadyStep, RoomStep, KeptRoom, SteadyRoom

(* A steady step keeps the fence of generations ... *)
LEMMA SteadyGenerations ==
  ASSUME IInv, SteadyStep
  PROVE  Generations'
<1>1. SteadyRoom(Room, Room')
  BY DEF SteadyStep
<1>2. \A t \in Sessions : SteadyMove(session[t], session'[t])
  BY DEF SteadyStep
<1>3. \A p \in Sessions : Past(p) => Past(p)'
  BY <1>2 DEF SteadyMove, Past
<1>4. \A s \in Sessions : session[s].peer \in Sessions /\ session[s].gen \in Nat
  BY SessionTypes DEF IInv
<1>5. ASSUME NEW p \in Sessions, Member(p)' PROVE Past(p)'
  BY <1>1, <1>3, <1>5, MemberKept DEF IInv, Generations
<1>6. ASSUME NEW s \in Sessions, session'[s].gen > 0,
             NEW p \in Sessions, p = session'[s].peer
      PROVE  /\ Past(p)'
             /\ session[s].peer = p /\ session[s].gen > 0 /\ session'[s].gen = session[s].gen
             /\ Member(p)' => session'[s].gen <= SlotOf(p)'.gen
             /\ session'[s].closing = "superseded" /\ Member(p)' =>
                  session'[s].gen < SlotOf(p)'.gen
  <2>1. session'[s].gen = session[s].gen /\ session[s].gen > 0 /\ session[s].peer = p
    BY <1>2, <1>4, <1>6 DEF SteadyMove
  <2>2. Past(p)'
    BY <1>3, <2>1 DEF IInv, Generations
  <2>3. Member(p)' => session'[s].gen <= SlotOf(p)'.gen
    BY <1>1, <2>1, MemberKept DEF IInv, Generations
  <2>4. ASSUME session'[s].closing = "superseded", Member(p)'
        PROVE  session'[s].gen < SlotOf(p)'.gen
    <3>1. Member(p) /\ SlotOf(p)'.gen = SlotOf(p).gen
      BY <1>1, <2>4, MemberKept
    <3>2. session[s].closing = "superseded" \/ Overtaken(session[s])
      BY <1>2, <1>6, <2>4 DEF SteadyMove
    <3>3. session[s].gen < SlotOf(p).gen
      BY <2>1, <3>1, <3>2 DEF IInv, Generations, Overtaken
    <3> QED
      BY <2>1, <3>1, <3>3
  <2> QED
    BY <2>1, <2>2, <2>3, <2>4
<1>7. ASSUME NEW s \in Sessions, NEW t \in Sessions, s # t, session'[s].gen > 0,
             session'[s].peer = session'[t].peer
      PROVE  session'[s].gen # session'[t].gen
  <2>1. CASE session'[t].gen > 0
    <3>1. session'[s].peer = session[s].peer /\ session'[s].gen = session[s].gen
      BY <1>2, <1>4, <1>7 DEF SteadyMove
    <3>2. session'[t].peer = session[t].peer /\ session'[t].gen = session[t].gen
      BY <1>2, <1>4, <2>1 DEF SteadyMove
    <3> QED
      BY <1>7, <3>1, <3>2 DEF IInv, Generations
  <2>2. CASE ~(session'[t].gen > 0)
    BY <1>7, <2>2
  <2> QED
    BY <2>1, <2>2
<1>8. \A s \in Sessions : session'[s].peer \in Sessions
  BY DEF SteadyStep, SessionsStep, Sound, SessionType
<1> QED
  BY <1>5, <1>6, <1>7, <1>8 DEF Generations, Past, Member, SlotOf

(* ... and the news that are under way. *)
LEMMA SteadyNews ==
  ASSUME IInv, SteadyStep
  PROVE  NewsIsNotAhead'
<1>1. SteadyRoom(Room, Room') /\ InboxStep
  BY DEF SteadyStep
<1>2. \A p \in Sessions : Past(p) => Past(p)'
  BY DEF SteadyStep, SteadyMove, Past
<1>3. \A s \in Sessions : session[s].peer \in Sessions /\ session[s].gen \in Nat
  BY SessionTypes DEF IInv
<1>4. ASSUME NEW env, NewsOK(env) \/ IsNews(env)
      PROVE  env \in Envelope /\ Past(env.from)' /\ (Member(env.from)' => env.gen <= SlotOf(env.from)'.gen)
  <2>1. NewsOK(env)
    BY <1>3, <1>4 DEF IInv, Generations, NewsOK, IsNews
  <2>2. env \in Envelope /\ env.from \in Sessions
    BY <2>1 DEF NewsOK, Envelope
  <2>3. Past(env.from)'
    BY <1>2, <2>1, <2>2 DEF NewsOK
  <2>4. Member(env.from)' => env.gen <= SlotOf(env.from)'.gen
    BY <1>1, <2>1, <2>2, MemberKept DEF NewsOK
  <2> QED
    BY <2>2, <2>3, <2>4
<1>5. ASSUME NEW t \in Sessions, NEW i \in 1 .. Len(inbox'[t])
      PROVE  NewsOK(inbox'[t][i]) \/ IsNews(inbox'[t][i])
  BY <1>1 DEF IInv, NewsIsNotAhead, InboxStep
<1> QED
  BY <1>1, <1>4, <1>5 DEF NewsIsNotAhead, InboxStep, NewsOK, Past, Member, SlotOf

(* A room that is found expired stays so. *)
LEMMA SteadyExpired ==
  ASSUME IInv, SteadyStep
  PROVE  ExpiredOK'
<1>1. Lapsed => Lapsed'
  <2> SUFFICES ASSUME Lapsed, Room' # NoRoom PROVE Lapsed'
    BY DEF Lapsed
  <2>1. Room # NoRoom /\ Room' \in Store!Room /\ Room \in Store!Room
    BY RoomType DEF SteadyStep, SteadyRoom, IInv, Store!TypeOK, Room
  <2>2. Room.createdAt \in Nat /\ Room'.createdAt \in Nat /\ WaitTTL \in Nat
    BY <2>1, StoreAssumption DEF Store!Room, Store!Age, Store!AgeCap
  <2>3. Room'.state = "closed" \/ (Room'.state = Room.state /\ Room'.createdAt >= Room.createdAt)
    BY DEF SteadyStep, SteadyRoom
  <2> QED
    BY <2>1, <2>2, <2>3 DEF Lapsed
<1>2. ASSUME NEW s \in Sessions, session'[s].main = "expired" PROVE Lapsed
  BY <1>2 DEF SteadyStep, SteadyMove, IInv, ExpiredOK, Lapsed
<1> QED
  BY <1>1, <1>2 DEF ExpiredOK, Lapsed

(* A quiet step keeps the match of slots and sessions. *)
LEMMA QuietMatched ==
  ASSUME IInv, QuietStep
  PROVE  Matched'
<1>1. KeptRoom(Room, Room')
  BY DEF QuietStep, RoomStep
<1>2. \A t \in Sessions : QuietMove(session[t], session'[t])
  BY DEF QuietStep
<1>3. \A s \in Sessions : session[s].gen \in Nat
  BY SessionTypes DEF IInv
<1>4. ASSUME NEW p \in Sessions, Member(p)'
      PROVE  SlotOf(p)'.connected <=>
               \E s \in Sessions : /\ Live(session'[s]) /\ session'[s].peer = p
                                  /\ session'[s].gen = SlotOf(p)'.gen
  <2>1. /\ Member(p) /\ SlotOf(p)'.gen = SlotOf(p).gen
        /\ SlotOf(p)'.connected = SlotOf(p).connected
    BY <1>1, <1>4 DEF KeptRoom, Member, SlotOf
  <2>2. ASSUME NEW s \in Sessions
        PROVE  /\ Live(session'[s]) => /\ Live(session[s])
                                        /\ session'[s].peer = session[s].peer
                                        /\ session'[s].gen = session[s].gen
               /\ Live(session[s]) /\ session[s].peer = p /\ session[s].gen = SlotOf(p).gen =>
                    Live(session'[s])
    <3>1. session[s].gen \in Nat
      BY <1>3
    <3>2. /\ Live(session'[s]) => Live(session[s])
          /\ session'[s].gen \in {0, session[s].gen}
          /\ session'[s].gen > 0 => session'[s].peer = session[s].peer
          /\ Live(session[s]) => Live(session'[s]) \/ Overtaken(session[s])
      BY <1>2 DEF QuietMove, SteadyMove
    <3>3. ~(Overtaken(session[s]) /\ session[s].peer = p /\ session[s].gen = SlotOf(p).gen)
      BY <2>1, <3>1 DEF Overtaken
    <3> QED
      BY <3>1, <3>2, <3>3 DEF Live
  <2>3. SlotOf(p).connected <=> \E s \in Sessions : /\ Live(session[s]) /\ session[s].peer = p
                                                    /\ session[s].gen = SlotOf(p).gen
    BY <2>1 DEF IInv, Matched
  <2> QED
    BY <2>1, <2>2, <2>3
<1> QED
  BY <1>4 DEF Matched

(* A quiet step keeps the invariant. *)
LEMMA QuietKeeps ==
  ASSUME IInv, QuietStep
  PROVE  IInv'
BY QuietIsSteady, SteadyGenerations, SteadyNews, SteadyExpired, QuietMatched
DEF QuietStep, RoomStep, SessionsStep, IInv, SessionsOK

-----------------------------------------------------------------------------
(* What quiet actions have in common *)

(* One session moves. *)
LEMMA OneMoves ==
  ASSUME IInv, NEW s \in Sessions, NEW y, session' = [session EXCEPT ![s] = y],
         Sound(y), StageOK(s, y), QuietMove(session[s], y)
  PROVE  SessionsStep /\ \A t \in Sessions : QuietMove(session[t], session'[t])
<1>1. session = [t \in Sessions |-> session[t]]
  BY DEF IInv, SessionsOK
<1>2. \A t \in Sessions : session'[t] = IF t = s THEN y ELSE session[t]
  BY <1>1
<1>3. session' = [t \in Sessions |-> session'[t]]
  BY <1>1
<1>4. \A t \in Sessions : Sound(session'[t]) /\ StageOK(t, session'[t])
  BY <1>2 DEF IInv, SessionsOK
<1>5. \A t \in Sessions : QuietMove(session[t], session[t])
  BY DEF QuietMove, SteadyMove
<1> QED
  BY <1>2, <1>3, <1>4, <1>5 DEF SessionsStep

(* None does. *)
LEMMA NobodyMoves ==
  ASSUME IInv, session' = session
  PROVE  SessionsStep /\ \A t \in Sessions : QuietMove(session[t], session'[t])
<1>1. \A t \in Sessions : QuietMove(session[t], session[t])
  BY DEF QuietMove, SteadyMove
<1> QED
  BY <1>1 DEF IInv, SessionsOK, SessionsStep

(* An attached session goes from one of its steps to another. *)
LEMMA ServedMoves ==
  ASSUME IInv, NEW s \in Sessions, session[s].main \notin Before \cup {"over"},
         NEW y, session' = [session EXCEPT ![s] = y], Sound(y), Served(y),
         y.main # "over", y.main = "announce" => y.owes # <<>>,
         y.peer = session[s].peer, y.gen = session[s].gen,
         y.main \in Gone <=> session[s].main \in Gone,
         y.closing = "superseded" => session[s].closing = "superseded" \/ Overtaken(session[s]),
         y.main = "expired" => session[s].main = "expired" \/ Lapsed
  PROVE  SessionsStep /\ \A t \in Sessions : QuietMove(session[t], session'[t])
<1>1. StageOK(s, session[s])
  BY DEF IInv, SessionsOK
<1>2. StageOK(s, y)
  BY <1>1 DEF StageOK, Served, Before
<1>3. QuietMove(session[s], y)
  BY DEF QuietMove, SteadyMove, Served, Live
<1> QED
  BY <1>2, <1>3, OneMoves

(* The store is left alone. *)
LEMMA RoomStays ==
  ASSUME IInv, rooms' = rooms
  PROVE  RoomStep
<1>1. Room' = Room /\ Store!TypeOK'
  BY DEF IInv, Store!TypeOK, Room
<1> QED
  BY <1>1, SameRoom DEF IInv, RoomStep

(* The bus is left alone. *)
LEMMA InboxStays ==
  ASSUME IInv, inbox' = inbox
  PROVE  InboxStep
BY DEF IInv, NewsIsNotAhead, InboxStep

(* A session publishes; a full inbox drops the news. *)
LEMMA Published ==
  ASSUME IInv, NEW s \in Sessions, session[s].gen > 0, NEW kind \in Kinds, Announces(s, kind)
  PROVE  InboxStep /\ subs' = subs
<1> DEFINE env == [from |-> session[s].peer, gen |-> session[s].gen, kind |-> kind]
<1>1. PICK deaf : Publish(session[s].peer, session[s].gen, kind, deaf)
  BY DEF Announces
<1>2. /\ subs' = subs
      /\ inbox' = [t \in Sessions |->
           IF t \in subs \ deaf /\ Len(inbox[t]) < BusCap THEN Append(inbox[t], env)
           ELSE inbox[t]]
  BY <1>1 DEF Publish
<1>3. env \in Envelope /\ IsNews(env)
  BY SessionTypes DEF IInv, Envelope, IsNews
<1> HIDE DEF env
<1>4. ASSUME NEW t \in Sessions
      PROVE  /\ inbox'[t] \in Seq(Envelope) /\ Len(inbox'[t]) <= BusCap
             /\ \A i \in 1 .. Len(inbox'[t]) :
                  \/ \E j \in 1 .. Len(inbox[t]) : inbox'[t][i] = inbox[t][j]
                  \/ IsNews(inbox'[t][i])
  <2>1. inbox[t] \in Seq(Envelope) /\ Len(inbox[t]) <= BusCap /\ Len(inbox[t]) \in Nat /\ BusCap \in Nat
    BY BusCapAssumption DEF IInv, NewsIsNotAhead
  <2>2. \/ inbox'[t] = inbox[t]
        \/ Len(inbox[t]) < BusCap /\ inbox'[t] = Append(inbox[t], env)
    BY <1>2
  <2>3. CASE inbox'[t] = inbox[t]
    BY <2>1, <2>3
  <2>4. CASE Len(inbox[t]) < BusCap /\ inbox'[t] = Append(inbox[t], env)
    <3>1. /\ Append(inbox[t], env) \in Seq(Envelope)
          /\ Len(Append(inbox[t], env)) = Len(inbox[t]) + 1
          /\ \A i \in 1 .. Len(inbox[t]) : Append(inbox[t], env)[i] = inbox[t][i]
          /\ Append(inbox[t], env)[Len(inbox[t]) + 1] = env
      BY <1>3, <2>1
    <3> QED
      BY <1>3, <2>1, <2>4, <3>1
  <2> QED
    BY <2>2, <2>3, <2>4
<1> QED
  BY <1>2, <1>4 DEF InboxStep

(* A subscriber takes its first envelope, or loses its channel. *)
LEMMA InboxShrinks ==
  ASSUME IInv, NEW s \in Sessions,
         NEW rest, inbox' = [inbox EXCEPT ![s] = rest],
         rest = <<>> \/ (inbox[s] # <<>> /\ rest = Tail(inbox[s]))
  PROVE  InboxStep
<1>1. inbox \in [Sessions -> Seq(Envelope)] /\ \A t \in Sessions : Len(inbox[t]) <= BusCap
  BY DEF IInv, NewsIsNotAhead
<1>2. inbox[s] \in Seq(Envelope) /\ Len(inbox[s]) \in Nat /\ BusCap \in Nat
  BY <1>1, BusCapAssumption
<1>3. /\ rest \in Seq(Envelope) /\ Len(rest) <= BusCap
      /\ \A i \in 1 .. Len(rest) : \E j \in 1 .. Len(inbox[s]) : rest[i] = inbox[s][j]
  <2>1. CASE rest = <<>>
    BY <1>2, <2>1
  <2>2. CASE inbox[s] # <<>> /\ rest = Tail(inbox[s])
    <3>1. /\ rest \in Seq(Envelope) /\ Len(rest) = Len(inbox[s]) - 1
          /\ \A i \in 1 .. Len(rest) : rest[i] = inbox[s][i + 1]
      BY <1>2, <2>2
    <3> QED
      BY <1>1, <1>2, <3>1
  <2> QED
    BY <2>1, <2>2
<1>4. inbox' \in [Sessions -> Seq(Envelope)]
  BY <1>1, <1>3
<1>5. \A t \in Sessions : inbox'[t] = IF t = s THEN rest ELSE inbox[t]
  BY <1>1
<1> QED
  BY <1>1, <1>3, <1>4, <1>5 DEF InboxStep

-----------------------------------------------------------------------------
(* The quiet actions *)

(* What a message says of the partner. *)
LEMMA PartnerStateType == \A r, p : PartnerState(r, p) \in Partners
BY DEF PartnerState, Partners

(* The messages that say nothing of the partner. *)
LEMMA MessageTypes ==
  /\ \A type \in {"pong", "error", "room_closed", "relay"} : Msg(type, "same") \in Message
  /\ \A type \in Replies \cup {"room_state", "peer_joined", "peer_reattached", "peer_disconnected"},
        says \in Partners : Msg(type, says) \in Message
  /\ \A type \in Watched : \A says : Msg(type, says).type = type
BY DEF Msg, Message

(* A session whose first message is refused. *)
LEMMA EndedMoves ==
  ASSUME IInv, NEW s \in Sessions, session' = [session EXCEPT ![s] = Ended(s)],
         ~Live(session[s])
  PROVE  SessionsStep /\ \A t \in Sessions : QuietMove(session[t], session'[t])
<1>1. Sound(session[s])
  BY DEF IInv, SessionsOK
<1>2. /\ Sound(Ended(s)) /\ StageOK(s, Ended(s))
      /\ Ended(s).main = "over" /\ Ended(s).gen = 0
  BY <1>1, EndedSound
<1>3. QuietMove(session[s], Ended(s))
  BY <1>2 DEF QuietMove, SteadyMove, Live, Before
<1> QED
  BY <1>2, <1>3, OneMoves

(* What the stage of a session says of it. *)
LEMMA StageFacts ==
  ASSUME IInv, NEW s \in Sessions
  PROVE  /\ Sound(session[s]) /\ StageOK(s, session[s])
         /\ session[s].main \in Before =>
              session[s].gen = 0 /\ Silent(session[s]) /\ ~Live(session[s])
         /\ session[s].main = "created" => Silent(session[s])
         /\ session[s].main \notin Before \cup {"over"} => session[s].gen > 0
         /\ session[s].main \notin Before \cup {"created"} => Served(session[s])
BY DEF IInv, SessionsOK, StageOK, Live, Served

(* AttachRefused gives nothing up: the session was not attached. *)
LEMMA AttachRefusedQuiet ==
  ASSUME IInv, NEW s \in Sessions, AttachRefused(s)
  PROVE  QuietStep
<1>1. session[s].main = "first" /\ session' = [session EXCEPT ![s] = Ended(s)]
  BY DEF AttachRefused, SessionIs
<1>2. rooms' = rooms /\ inbox' = inbox /\ subs' = subs
  BY DEF AttachRefused, busVars
<1>3. ~Live(session[s])
  BY <1>1, StageFacts DEF Before
<1> QED
  BY <1>1, <1>2, <1>3, EndedMoves, RoomStays, InboxStays DEF QuietStep, IInv

(* The first message is read and the session subscribes. *)
LEMMA BeginQuiet ==
  ASSUME IInv, NEW s \in Sessions, BeginCreate(s) \/ BeginJoin(s) \/ BeginReattach(s)
  PROVE  QuietStep
<1>1. PICK m \in {"create", "join", "reattach"}, p \in Sessions :
        /\ session' = [session EXCEPT ![s] = [session[s] EXCEPT !.main = m, !.peer = p]]
        /\ m # "reattach" => p = s
  <2>1. session[s].main = "first"
    BY DEF BeginCreate, BeginJoin, BeginReattach
  <2>2. DOMAIN session[s] = {"main", "peer", "gen", "role", "owes", "snap", "bus", "out",
                             "writer", "closing", "socket", "frame", "told", "partner"}
        /\ session[s].peer = s
    BY <2>1, StageFacts DEF Sound, SessionType, StageOK, Before
  <2>3. ASSUME NEW m PROVE [session[s] EXCEPT !.main = m] = [session[s] EXCEPT !.main = m, !.peer = s]
    BY <2>2
  <2>4. CASE BeginCreate(s)
    BY <2>3, <2>4 DEF BeginCreate, SessionIs, At
  <2>5. CASE BeginJoin(s)
    BY <2>3, <2>5 DEF BeginJoin, SessionIs, At
  <2>6. CASE BeginReattach(s)
    BY <2>6 DEF BeginReattach, SessionIs
  <2> QED
    BY <2>4, <2>5, <2>6
<1>2. session[s].main = "first" /\ rooms' = rooms /\ inbox' = inbox /\ subs' = subs \cup {s}
  BY DEF BeginCreate, BeginJoin, BeginReattach, Subscribe
<1> DEFINE y == [session[s] EXCEPT !.main = m, !.peer = p]
<1>3. /\ Sound(session[s]) /\ StageOK(s, session[s]) /\ Silent(session[s]) /\ session[s].gen = 0
  BY <1>2, StageFacts DEF Before
<1>4. /\ DOMAIN y = DOMAIN session[s] /\ y.main = m /\ y.peer = p /\ y.gen = 0
      /\ y.role = session[s].role /\ y.owes = session[s].owes /\ y.snap = session[s].snap
      /\ y.out = session[s].out
      /\ y.writer = session[s].writer /\ y.closing = session[s].closing
      /\ y.socket = session[s].socket
      /\ y.frame = session[s].frame /\ y.told = session[s].told
      /\ y.partner = session[s].partner
  BY <1>3 DEF Sound, SessionType
<1>5. session' = [session EXCEPT ![s] = y]
  BY <1>1
<1> HIDE DEF y
<1>6. Sound(y)
  BY <1>3, <1>4 DEF Sound, SessionType, ReplyDue, NoticeDue, Served, Before, Mains, Silent
<1>7. StageOK(s, y)
  BY <1>1, <1>3, <1>4 DEF StageOK, Before, Silent
<1>8. QuietMove(session[s], y)
  BY <1>2, <1>3, <1>4 DEF QuietMove, SteadyMove, Live, Before, Silent
<1> QED
  BY <1>2, <1>5, <1>6, <1>7, <1>8, OneMoves, RoomStays, InboxStays DEF QuietStep, IInv

(* The creator's reply. *)
LEMMA CreateRepliesQuiet ==
  ASSUME IInv, NEW s \in Sessions, CreateReplies(s)
  PROVE  QuietStep
<1>1. PICK says \in Partners :
        session' = [session EXCEPT ![s] = At(Sent(session[s], Msg("room_created", says)), "serve")]
  <2>1. "unknown" \in Partners
    BY DEF Partners
  <2> QED
    BY <2>1, PartnerStateType DEF CreateReplies, SessionIs
<1>2. session[s].main = "created" /\ rooms' = rooms /\ inbox' = inbox /\ subs' = subs
  BY DEF CreateReplies, busVars
<1> DEFINE m == Msg("room_created", says)
           z == Sent(session[s], m)
           y == At(z, "serve")
<1>3. m \in Message /\ (Replies \subseteq Watched => m.type \in Replies)
  BY MessageTypes DEF Replies
<1>4. SessionType(session[s]) /\ Silent(session[s]) /\ session[s].gen > 0
  BY <1>2, StageFacts DEF Sound, Before
<1> HIDE DEF m
<1>5. /\ SessionType(z) /\ SameStage(session[s], z) /\ z.closing = "none"
      /\ Replies \subseteq Watched => Replied(z)
      /\ NoticeDue(z)
  BY <1>3, <1>4, FirstReply
<1>6. session' = [session EXCEPT ![s] = y]
  BY <1>1 DEF m
<1> HIDE DEF z
<1>7. /\ Sound(y) /\ y.main = "serve" /\ y.peer = session[s].peer /\ y.gen = session[s].gen
      /\ y.closing = "none"
  BY <1>5, AtSound DEF SameStage, Mains, Before
<1> HIDE DEF y
<1>8. StageOK(s, y)
  BY <1>4, <1>7 DEF StageOK, Before
<1>9. QuietMove(session[s], y)
  BY <1>2, <1>7 DEF QuietMove, SteadyMove, Live, Before, Gone
<1> QED
  BY <1>2, <1>6, <1>7, <1>8, <1>9, OneMoves, RoomStays, InboxStays DEF QuietStep, IInv

(* What is owed is published one after the other. *)
LEMMA AnnounceQuiet ==
  ASSUME IInv, NEW s \in Sessions, Announce(s)
  PROVE  QuietStep
<1> DEFINE x == session[s]
           next == IF Len(x.owes) = 1 THEN "serve" ELSE "announce"
           y == [x EXCEPT !.owes = Tail(x.owes), !.main = next]
<1>1. /\ x.main = "announce" /\ rooms' = rooms /\ Announces(s, Head(x.owes))
      /\ session' = [session EXCEPT ![s] = y]
  BY Zenon DEF Announce, SessionIs
<1>2. /\ Sound(x) /\ Served(x) /\ x.gen > 0 /\ x.owes # <<>> /\ x.owes \in Owed
  BY <1>1, StageFacts DEF Sound, SessionType, StageOK, Before
<1>3. /\ Head(x.owes) \in Kinds /\ Tail(x.owes) \in Owed
      /\ next = "announce" => Tail(x.owes) # <<>>
      /\ next \in {"serve", "announce"}
  <2>1. CASE x.owes = <<"peer_joined">>
    BY <2>1 DEF Kinds, Owed
  <2>2. CASE x.owes = <<"peer_reattached">>
    BY <2>2 DEF Kinds, Owed
  <2>3. CASE x.owes = <<"superseded", "peer_reattached">>
    <3>1. /\ Tail(x.owes) = <<"peer_reattached">> /\ Head(x.owes) = "superseded"
          /\ Len(x.owes) = 2
      BY <2>3
    <3>2. next = "announce" /\ <<"peer_reattached">> # <<>>
      BY <3>1
    <3> QED
      BY <3>1, <3>2 DEF Kinds, Owed
  <2> QED
    BY <1>2, <2>1, <2>2, <2>3 DEF Owed
<1> HIDE DEF next
<1>4. /\ DOMAIN y = DOMAIN x /\ y.main = next /\ y.peer = x.peer /\ y.gen = x.gen
      /\ y.role = x.role /\ y.owes = Tail(x.owes) /\ y.snap = x.snap /\ y.out = x.out
      /\ y.writer = x.writer /\ y.closing = x.closing /\ y.socket = x.socket
      /\ y.frame = x.frame /\ y.told = x.told /\ y.partner = x.partner
  BY <1>2 DEF Sound, SessionType
<1> HIDE DEF x, y
<1>5. Sound(y) /\ Served(y)
  BY <1>2, <1>3, <1>4 DEF Sound, SessionType, ReplyDue, NoticeDue, Noticed, Replied, Served,
                          Before, Mains
<1>6. SessionsStep /\ \A t \in Sessions : QuietMove(session[t], session'[t])
  BY <1>1, <1>3, <1>4, <1>5, ServedMoves DEF x, Before, Gone
<1> QED
  BY <1>1, <1>2, <1>3, <1>6, Published, RoomStays DEF QuietStep, IInv, x

(* A step of readLoop that changes the session alone. *)
LEMMA ServeMoves ==
  ASSUME IInv, NEW s \in Sessions, Served(session[s]), session[s].main \notin Gone,
         NEW y, session' = [session EXCEPT ![s] = y], Sound(y),
         y.main \in {"serve", "synced", "gone", "detach"} \/ (y.main = "expired" /\ Lapsed),
         y.peer = session[s].peer, y.gen = session[s].gen,
         y.closing = "superseded" => session[s].closing = "superseded" \/ Overtaken(session[s])
  PROVE  SessionsStep /\ \A t \in Sessions : QuietMove(session[t], session'[t])
BY ServedMoves DEF Served, Before, Gone

(* readLoop ends. *)
LEMMA ReadFailsQuiet ==
  ASSUME IInv, NEW s \in Sessions, ReadFails(s)
  PROVE  QuietStep
<1> DEFINE z == SocketClosed(session[s])
           y == At(z, "detach")
<1>1. /\ session[s].main = "serve" /\ rooms' = rooms /\ inbox' = inbox /\ subs' = subs
      /\ session' = [session EXCEPT ![s] = y]
  BY DEF ReadFails, SessionIs, busVars
<1>2. Sound(session[s]) /\ Served(session[s])
  BY <1>1, StageFacts DEF Before
<1>3. Sound(z) /\ SameStage(session[s], z) /\ z.closing = session[s].closing
  BY <1>2, SocketClosedSound
<1> HIDE DEF z
<1>4. Served(z)
  BY <1>2, <1>3 DEF SameStage, Served
<1>5. /\ Sound(y) /\ y.main = "detach" /\ y.peer = session[s].peer /\ y.gen = session[s].gen
      /\ y.closing = session[s].closing
  BY <1>3, <1>4, AtSound DEF SameStage, Mains, Before, Sound, ReplyDue
<1> HIDE DEF y
<1>6. SessionsStep /\ \A t \in Sessions : QuietMove(session[t], session'[t])
  BY <1>1, <1>2, <1>5, ServeMoves DEF Gone
<1> QED
  BY <1>1, <1>6, RoomStays, InboxStays DEF QuietStep, IInv

(* What the heartbeat of a session that does not hold its slot says. *)
LEMMA StaleMeansOvertaken ==
  ASSUME IInv, NEW s \in Sessions, session[s].gen > 0,
         Store!HeartbeatResult(Code, session[s].peer, session[s].gen) = "ErrStaleAttachment"
  PROVE  Overtaken(session[s])
<1>1. Room # NoRoom /\ SlotOf(session[s].peer).gen # session[s].gen
  BY DEF Store!HeartbeatResult, Room, SlotOf
<1>2. session[s].peer \in Sessions /\ session[s].gen \in Nat
  BY SessionTypes DEF IInv
<1>3. ASSUME Member(session[s].peer) PROVE session[s].gen < SlotOf(session[s].peer).gen
  <2>1. session[s].gen <= SlotOf(session[s].peer).gen
    BY <1>3 DEF IInv, Generations
  <2>2. SlotOf(session[s].peer).gen \in Nat
    BY <1>2, <1>3, SlotGenType DEF IInv
  <2> QED
    BY <1>1, <1>2, <2>1, <2>2
<1> QED
  BY <1>3 DEF Overtaken

(* The heartbeat of a waiting room that can no longer be joined. *)
LEMMA ExpiredMeansLapsed ==
  ASSUME NEW p, NEW gen, Store!HeartbeatResult(Code, p, gen) = "Expired"
  PROVE  Lapsed
BY DEF Store!HeartbeatResult, Room, Lapsed

(* A session that is told of the end of the room and closed for it. *)
LEMMA RoomOverMoves ==
  ASSUME IInv, NEW s \in Sessions, Served(session[s]), session[s].main \notin Gone,
         session' = [session EXCEPT
           ![s] = Handled(SentAndClosed(session[s], Msg("room_closed", "same"), "room_closed"))]
  PROVE  SessionsStep /\ \A t \in Sessions : QuietMove(session[t], session'[t])
<1> DEFINE z == SentAndClosed(session[s], Msg("room_closed", "same"), "room_closed")
           y == Handled(z)
<1>1. Sound(session[s])
  BY StageFacts
<1>2. /\ Msg("room_closed", "same") \in Message
      /\ "room_closed" \in Watched => Msg("room_closed", "same").type = "room_closed"
  BY MessageTypes
<1>3. /\ Sound(z) /\ SameStage(session[s], z)
      /\ z.closing \in {session[s].closing, "other", "room_closed"}
  BY <1>1, <1>2, SentAndClosedSound
<1> HIDE DEF z
<1>4. Served(z)
  BY <1>3 DEF SameStage, Served
<1>5. /\ Sound(y) /\ y.main \in {"serve", "detach"} /\ y.peer = z.peer /\ y.gen = z.gen
      /\ y.closing = z.closing
  BY <1>3, <1>4, HandledSound
<1>6. session' = [session EXCEPT ![s] = y]
  BY DEF z
<1> HIDE DEF y
<1> QED
  BY <1>3, <1>5, <1>6, ServeMoves DEF SameStage

(* A session that is answered. *)
LEMMA AnsweredMoves ==
  ASSUME IInv, NEW s \in Sessions, NEW x, Sound(x), Served(x),
         x.peer = session[s].peer, x.gen = session[s].gen, x.closing = session[s].closing,
         Served(session[s]), session[s].main \notin Gone,
         NEW m \in Message, session' = [session EXCEPT ![s] = Handled(Sent(x, m))]
  PROVE  SessionsStep /\ \A t \in Sessions : QuietMove(session[t], session'[t])
<1> DEFINE z == Sent(x, m)
           y == Handled(z)
<1>1. Sound(z) /\ SameStage(x, z) /\ z.closing \in {x.closing, "other"}
  BY SentSound
<1> HIDE DEF z
<1>2. Served(z)
  BY <1>1 DEF SameStage, Served
<1>3. /\ Sound(y) /\ y.main \in {"serve", "detach"} /\ y.peer = z.peer /\ y.gen = z.gen
      /\ y.closing = z.closing
  BY <1>1, <1>2, HandledSound
<1>4. session' = [session EXCEPT ![s] = y]
  BY DEF z
<1> HIDE DEF y
<1> QED
  BY <1>1, <1>3, <1>4, ServeMoves DEF SameStage

(* What a ping makes of its session. *)
PingOutcome(s) ==
  LET x   == session[s]
      res == Store!HeartbeatResult(Code, x.peer, x.gen)
  IN \/ /\ res = "ErrStaleAttachment"
        /\ session' = [session EXCEPT ![s] = Handled(CloseAsked(x, "superseded"))]
     \/ session' = [session EXCEPT
          ![s] = Handled(SentAndClosed(x, Msg("room_closed", "same"), "room_closed"))]
     \/ session' = [session EXCEPT ![s] = At(x, "gone")]
     \/ /\ res = "Expired"
        /\ session' = [session EXCEPT ![s] = At(x, "expired")]
     \/ session' = [session EXCEPT ![s] = Handled(Sent(x, Msg("pong", "same")))]

(* The five answers of a heartbeat. *)
LEMMA PingAnswers ==
  ASSUME NEW s \in Sessions, Ping(s)
  PROVE  PingOutcome(s)
<1> DEFINE x == session[s]
           res == Store!HeartbeatResult(Code, x.peer, x.gen)
           y == CASE res = "ErrStaleAttachment" -> Handled(CloseAsked(x, "superseded"))
             [] RoomIsOver(res) ->
                  Handled(SentAndClosed(x, Msg("room_closed", "same"), "room_closed"))
             [] res = "PartnerGone" -> At(x, "gone")
             [] res = "Expired" -> At(x, "expired")
             [] OTHER -> Handled(Sent(x, Msg("pong", "same")))
<1>1. session' = [session EXCEPT ![s] = y]
  BY DEF Ping, SessionIs
<1>2. \/ res = "ErrStaleAttachment" /\ y = Handled(CloseAsked(x, "superseded"))
      \/ y = Handled(SentAndClosed(x, Msg("room_closed", "same"), "room_closed"))
      \/ y = At(x, "gone")
      \/ res = "Expired" /\ y = At(x, "expired")
      \/ y = Handled(Sent(x, Msg("pong", "same")))
  BY DEF RoomIsOver
<1> HIDE DEF y
<1> QED
  BY <1>1, <1>2 DEF PingOutcome

(* A ping refreshes the slot, or is answered by a close. *)
LEMMA PingQuiet ==
  ASSUME IInv, NEW s \in Sessions, Ping(s)
  PROVE  QuietStep
<1> DEFINE x == session[s]
           res == Store!HeartbeatResult(Code, x.peer, x.gen)
<1>1. x.main = "serve" /\ inbox' = inbox /\ subs' = subs
  BY DEF Ping, Reads, busVars
<1>2. Sound(x) /\ Served(x) /\ x.gen > 0 /\ x.peer \in Sessions /\ x.main \notin Gone
  BY <1>1, StageFacts DEF Before, Gone, Sound, SessionType
<1>3. Store!Heartbeat(Code, x.peer, x.gen) \/ rooms' = rooms
  BY DEF Ping
<1>4. RoomStep
  BY <1>2, <1>3, HeartbeatKeeps, RoomStays DEF RoomStep, IInv
<1>5. PingOutcome(s)
  BY PingAnswers
<1> DEFINE goal == SessionsStep /\ \A t \in Sessions : QuietMove(session[t], session'[t])
<1>6. ASSUME res = "ErrStaleAttachment",
             session' = [session EXCEPT ![s] = Handled(CloseAsked(x, "superseded"))]
      PROVE  goal
  <2> DEFINE z == CloseAsked(x, "superseded")
             y == Handled(z)
  <2>1. Overtaken(x)
    BY <1>2, <1>6, StaleMeansOvertaken
  <2>2. Sound(z) /\ SameStage(x, z)
    BY <1>2, CloseAskedSound DEF Reasons
  <2> HIDE DEF z
  <2>3. Served(z)
    BY <1>2, <2>2 DEF SameStage, Served
  <2>4. /\ Sound(y) /\ y.main \in {"serve", "detach"} /\ y.peer = z.peer /\ y.gen = z.gen
    BY <2>2, <2>3, HandledSound
  <2>5. session' = [session EXCEPT ![s] = y]
    BY <1>6 DEF z
  <2> HIDE DEF y
  <2> QED
    BY <1>2, <2>1, <2>2, <2>4, <2>5, ServeMoves DEF SameStage
<1>7. ASSUME NEW m \in {"gone", "expired"}, m = "expired" => res = "Expired",
             session' = [session EXCEPT ![s] = At(x, m)]
      PROVE  goal
  <2> DEFINE y == At(x, m)
  <2>1. m = "expired" => Lapsed
    BY <1>7, ExpiredMeansLapsed
  <2>2. m \in Mains \ (Before \cup {"created"})
    BY <1>7 DEF Mains, Before
  <2>3. /\ Sound(y) /\ y.main = m /\ y.peer = x.peer /\ y.gen = x.gen /\ y.closing = x.closing
    BY <1>2, <2>2, AtSound DEF Sound, ReplyDue
  <2>4. session' = [session EXCEPT ![s] = y]
    BY <1>7
  <2> HIDE DEF y
  <2> QED
    BY <1>2, <2>1, <2>3, <2>4, ServeMoves
<1>8. Msg("pong", "same") \in Message
  BY MessageTypes
<1>9. goal
  BY <1>2, <1>5, <1>6, <1>7, <1>8, RoomOverMoves, AnsweredMoves DEF PingOutcome
<1> QED
  BY <1>1, <1>4, <1>9, InboxStays DEF QuietStep, IInv

(* The rest of the two heartbeats that end the room. *)
LEMMA RoomEndQuiet ==
  ASSUME IInv, NEW s \in Sessions, PartnerGone(s) \/ Expired(s)
  PROVE  QuietStep
<1>1. /\ session[s].main \in {"gone", "expired"}
      /\ session' = [session EXCEPT
           ![s] = Handled(SentAndClosed(session[s], Msg("room_closed", "same"), "room_closed"))]
  BY DEF PartnerGone, Expired, SessionIs
<1>2. Served(session[s]) /\ session[s].main \notin Gone /\ session[s].gen > 0
  BY <1>1, StageFacts DEF Before, Gone
<1>3. SessionsStep /\ \A t \in Sessions : QuietMove(session[t], session'[t])
  BY <1>1, <1>2, RoomOverMoves
<1>4. CASE PartnerGone(s)
  <2>1. Announces(s, "room_closed") /\ rooms' = rooms
    BY <1>4 DEF PartnerGone
  <2>2. InboxStep /\ subs' = subs
    BY <1>2, <2>1, Published DEF Kinds
  <2> QED
    BY <1>3, <2>1, <2>2, RoomStays DEF QuietStep, IInv
<1>5. CASE Expired(s)
  <2>1. /\ Store!Close(Code) \/ rooms' = rooms
        /\ inbox' = inbox /\ subs' = subs
    BY <1>5 DEF Expired, busVars
  <2>2. RoomStep
    BY <2>1, CloseKeeps, RoomStays DEF RoomStep, IInv
  <2> QED
    BY <1>3, <2>1, <2>2, InboxStays DEF QuietStep, IInv
<1> QED
  BY <1>4, <1>5

(* A relayed message. *)
LEMMA RelayQuiet ==
  ASSUME IInv, NEW s \in Sessions, Relay(s)
  PROVE  QuietStep
<1> DEFINE y == Handled(session[s])
<1>1. /\ session[s].main = "serve" /\ rooms' = rooms /\ Announces(s, "relay")
      /\ session' = [session EXCEPT ![s] = y]
  BY DEF Relay, Reads, SessionIs
<1>2. /\ Sound(session[s]) /\ Served(session[s]) /\ session[s].main \notin Gone
      /\ session[s].gen > 0
  BY <1>1, StageFacts DEF Before, Gone
<1>3. /\ Sound(y) /\ y.main \in {"serve", "detach"} /\ y.peer = session[s].peer
      /\ y.gen = session[s].gen /\ y.closing = session[s].closing
  BY <1>2, HandledSound
<1> HIDE DEF y
<1>4. SessionsStep /\ \A t \in Sessions : QuietMove(session[t], session'[t])
  BY <1>1, <1>2, <1>3, ServeMoves
<1>5. InboxStep /\ subs' = subs
  BY <1>1, <1>2, Published DEF Kinds
<1> QED
  BY <1>1, <1>4, <1>5, RoomStays DEF QuietStep, IInv

(* Nothing but the step and the snapshot differs. *)
SameQueues(x, y) ==
  /\ DOMAIN y = DOMAIN x /\ y.peer = x.peer /\ y.gen = x.gen /\ y.role = x.role
  /\ y.owes = x.owes /\ y.out = x.out /\ y.writer = x.writer /\ y.closing = x.closing
  /\ y.socket = x.socket /\ y.frame = x.frame /\ y.told = x.told /\ y.partner = x.partner

(* The snapshot of a session that has replied. *)
LEMMA SnapSound ==
  ASSUME NEW x, Sound(x), Served(x), NEW y, SameQueues(x, y),
         y.main \in Mains, y.snap.partner \in Partners
  PROVE  Sound(y)
BY DEF SameQueues, Sound, SessionType, ReplyDue, NoticeDue, Served, Replied, Noticed

(* A snapshot is taken. *)
LEMMA SyncQuiet ==
  ASSUME IInv, NEW s \in Sessions, Sync(s)
  PROVE  QuietStep
<1> DEFINE x == session[s]
           snap == Snapshot(Room, x.peer)
           y == [x EXCEPT !.main = "synced", !.snap = snap]
<1>1. x.main = "serve" /\ rooms' = rooms /\ inbox' = inbox /\ subs' = subs
  BY DEF Sync, Reads, busVars
<1>2. \/ session' = [session EXCEPT
           ![s] = Handled(SentAndClosed(x, Msg("room_closed", "same"), "room_closed"))]
      \/ session' = [session EXCEPT ![s] = y]
  BY Zenon DEF Sync, SessionIs
<1>3. Sound(x) /\ Served(x) /\ x.main \notin Gone
  BY <1>1, StageFacts DEF Before, Gone
<1>4. snap.partner \in Partners
  BY PartnerStateType DEF Snapshot
<1> HIDE DEF snap
<1>5. SameQueues(x, y) /\ y.main = "synced" /\ y.snap = snap
  BY <1>3 DEF Sound, SessionType, SameQueues
<1> HIDE DEF y
<1>6. /\ Sound(y) /\ y.main = "synced" /\ y.peer = x.peer /\ y.gen = x.gen
      /\ y.closing = x.closing
  BY <1>3, <1>4, <1>5, SnapSound DEF SameQueues, Mains
<1>7. SessionsStep /\ \A t \in Sessions : QuietMove(session[t], session'[t])
  BY <1>2, <1>3, <1>6, ServeMoves, RoomOverMoves
<1> QED
  BY <1>1, <1>7, RoomStays, InboxStays DEF QuietStep, IInv

(* A snapshot is sent. *)
LEMMA SyncAnswersQuiet ==
  ASSUME IInv, NEW s \in Sessions, SyncAnswers(s)
  PROVE  QuietStep
<1> DEFINE x == session[s]
           snap == NotConnected(s).snap
           y == [x EXCEPT !.snap = snap]
           m == Msg("room_state", x.snap.partner)
<1>1. /\ x.main = "synced" /\ rooms' = rooms
      /\ Announces(s, "peer_joined") \/ (inbox' = inbox /\ subs' = subs)
  BY DEF SyncAnswers, busVars
<1>2. session' = [session EXCEPT ![s] = Handled(Sent(y, m))]
  BY Zenon DEF SyncAnswers, SessionIs
<1>3. Sound(x) /\ Served(x) /\ x.main \notin Gone /\ x.gen > 0
  BY <1>1, StageFacts DEF Before, Gone
<1>4. m \in Message
  BY <1>3, MessageTypes DEF Sound, SessionType
<1>5. snap.partner \in Partners
  BY DEF NotConnected, Partners
<1> HIDE DEF snap
<1>6. Sound(y) /\ Served(y) /\ y.peer = x.peer /\ y.gen = x.gen /\ y.closing = x.closing
  <2>1. SameQueues(x, y) /\ y.main = x.main /\ y.snap = snap
    BY <1>3 DEF Sound, SessionType, SameQueues
  <2> HIDE DEF y
  <2> QED
    BY <1>1, <1>3, <1>5, <2>1, SnapSound DEF SameQueues, Mains, Served
<1> HIDE DEF y, m
<1>7. SessionsStep /\ \A t \in Sessions : QuietMove(session[t], session'[t])
  BY <1>2, <1>3, <1>4, <1>6, AnsweredMoves
<1>8. InboxStep /\ subs' = subs
  BY <1>1, <1>3, Published, InboxStays DEF Kinds
<1> QED
  BY <1>1, <1>7, <1>8, RoomStays DEF QuietStep, IInv

(* A message that is not understood. *)
LEMMA BadMessageQuiet ==
  ASSUME IInv, NEW s \in Sessions, BadMessage(s)
  PROVE  QuietStep
<1> DEFINE m == Msg("error", "same")
           z == Sent(session[s], m)
           y == At(z, "detach")
<1>1. /\ session[s].main = "serve" /\ rooms' = rooms /\ inbox' = inbox /\ subs' = subs
      /\ \/ session' = [session EXCEPT ![s] = Handled(z)]
         \/ session' = [session EXCEPT ![s] = z]
         \/ session' = [session EXCEPT ![s] = y]
  BY DEF BadMessage, Reads, SessionIs, busVars
<1>2. Sound(session[s]) /\ Served(session[s]) /\ session[s].main \notin Gone
  BY <1>1, StageFacts DEF Before, Gone
<1>3. m \in Message
  BY MessageTypes
<1>4. Sound(z) /\ SameStage(session[s], z) /\ z.closing \in {session[s].closing, "other"}
  BY <1>2, <1>3, SentSound
<1>5. CASE session' = [session EXCEPT ![s] = Handled(z)]
  BY <1>1, <1>2, <1>3, <1>5, AnsweredMoves, RoomStays, InboxStays DEF QuietStep, IInv
<1>6. CASE session' = [session EXCEPT ![s] = y]
  <2> HIDE DEF z
  <2>1. "detach" \in Mains \ (Before \cup {"created"})
    BY DEF Mains, Before
  <2>2. /\ Sound(y) /\ y.main = "detach" /\ y.peer = z.peer /\ y.gen = z.gen
        /\ y.closing = z.closing
    BY <1>2, <1>4, <2>1, AtSound DEF Sound, ReplyDue, SameStage, Served
  <2> HIDE DEF y
  <2>3. SessionsStep /\ \A t \in Sessions : QuietMove(session[t], session'[t])
    BY <1>2, <1>4, <1>6, <2>2, ServeMoves DEF SameStage
  <2> QED
    BY <1>1, <2>3, RoomStays, InboxStays DEF QuietStep, IInv
<1>7. CASE session' = [session EXCEPT ![s] = z]
  <2> HIDE DEF z
  <2>1. SessionsStep /\ \A t \in Sessions : QuietMove(session[t], session'[t])
    BY <1>1, <1>2, <1>4, <1>7, ServeMoves DEF SameStage
  <2> QED
    BY <1>1, <2>1, RoomStays, InboxStays DEF QuietStep, IInv
<1> QED
  BY <1>1, <1>5, <1>6, <1>7

(* A session that came to its end without recording it did not hold its    *)
(* slot: it was superseded, or the slot is another's or gone.              *)
LEMMA UnrecordedMeansOvertaken ==
  ASSUME IInv, NEW s \in Sessions, session[s].gen > 0,
         \/ session[s].closing = "superseded"
         \/ Store!DisconnectResult(Code, session[s].peer, session[s].gen) # "ok"
  PROVE  Overtaken(session[s])
<1>1. session[s].peer \in Sessions /\ session[s].gen \in Nat
  BY SessionTypes DEF IInv
<1> SUFFICES ASSUME Member(session[s].peer)
             PROVE  session[s].gen < SlotOf(session[s].peer).gen
  BY DEF Overtaken
<1>2. SlotOf(session[s].peer).gen \in Nat /\ session[s].gen <= SlotOf(session[s].peer).gen
  BY <1>1, SlotGenType DEF IInv, Generations
<1>3. CASE session[s].closing = "superseded"
  BY <1>3 DEF IInv, Generations
<1>4. CASE Store!DisconnectResult(Code, session[s].peer, session[s].gen) # "ok"
  <2>1. SlotOf(session[s].peer).gen # session[s].gen
    BY <1>4 DEF Store!DisconnectResult, Member, SlotOf, Room
  <2> QED
    BY <1>1, <1>2, <2>1
<1> QED
  BY <1>3, <1>4

(* detach when there is nothing to record. *)
LEMMA DetachUnrecorded ==
  ASSUME IInv, NEW s \in Sessions, session[s].main = "detach",
         session' = [session EXCEPT ![s] = At(CloseAsked(session[s], "other"), "waiting")],
         \/ session[s].closing = "superseded"
         \/ Store!DisconnectResult(Code, session[s].peer, session[s].gen) # "ok"
  PROVE  SessionsStep /\ \A t \in Sessions : QuietMove(session[t], session'[t])
<1> DEFINE z == CloseAsked(session[s], "other")
           y == At(z, "waiting")
<1>1. Sound(session[s]) /\ Served(session[s]) /\ session[s].gen > 0
  BY StageFacts DEF Before
<1>2. Sound(z) /\ SameStage(session[s], z) /\ z.closing \in {session[s].closing, "other"}
  BY <1>1, CloseAskedSound DEF Reasons
<1>3. session' = [session EXCEPT ![s] = y]
  OBVIOUS
<1> HIDE DEF z
<1>4. "waiting" \in Mains \ (Before \cup {"created"})
  BY DEF Mains, Before, Gone
<1>5. /\ Sound(y) /\ y.main = "waiting" /\ y.peer = session[s].peer /\ y.gen = session[s].gen
      /\ y.closing = z.closing
  BY <1>1, <1>2, <1>4, AtSound DEF Sound, ReplyDue, SameStage, Served
<1> HIDE DEF y
<1>6. Overtaken(session[s])
  BY <1>1, UnrecordedMeansOvertaken
<1>7. StageOK(s, y)
  BY <1>1, <1>5 DEF StageOK, Before
<1>8. QuietMove(session[s], y)
  BY <1>1, <1>2, <1>5, <1>6 DEF QuietMove, SteadyMove, Live, Gone, Before
<1> QED
  BY <1>3, <1>5, <1>7, <1>8, OneMoves

(* The partner is told of the disconnect. *)
LEMMA LeaveQuiet ==
  ASSUME IInv, NEW s \in Sessions, Leave(s)
  PROVE  QuietStep
<1> DEFINE z == CloseAsked(session[s], "other")
           y == At(z, "waiting")
<1>1. /\ session[s].main = "leaving" /\ rooms' = rooms /\ Announces(s, "peer_disconnected")
      /\ session' = [session EXCEPT ![s] = y]
  BY DEF Leave, SessionIs
<1>2. Sound(session[s]) /\ Served(session[s]) /\ session[s].gen > 0
  BY <1>1, StageFacts DEF Before
<1>3. Sound(z) /\ SameStage(session[s], z) /\ z.closing \in {session[s].closing, "other"}
  BY <1>2, CloseAskedSound DEF Reasons
<1> HIDE DEF z
<1>4. "waiting" \in Mains \ (Before \cup {"created"})
  BY DEF Mains, Before, Gone
<1>5. /\ Sound(y) /\ y.main = "waiting" /\ y.peer = session[s].peer /\ y.gen = session[s].gen
      /\ y.closing = z.closing
  BY <1>2, <1>3, <1>4, AtSound DEF Sound, ReplyDue, SameStage, Served
<1> HIDE DEF y
<1>6. SessionsStep /\ \A t \in Sessions : QuietMove(session[t], session'[t])
  BY <1>1, <1>3, <1>5, ServedMoves DEF Served, Before, Gone
<1>7. InboxStep /\ subs' = subs
  BY <1>1, <1>2, Published DEF Kinds
<1> QED
  BY <1>1, <1>6, <1>7, RoomStays DEF QuietStep, IInv

(* A session ends, or its attach fails, and its subscription is closed.    *)
LEMMA EndedUnsubscribed ==
  ASSUME IInv, NEW s \in Sessions, SessionIs(s, Ended(s)), ~Live(session[s]),
         Unsubscribe(s), RoomStep
  PROVE  QuietStep
<1>1. SessionsStep /\ \A t \in Sessions : QuietMove(session[t], session'[t])
  BY EndedMoves DEF SessionIs
<1>2. InboxStep /\ subs' \subseteq Sessions
  BY InboxShrinks DEF Unsubscribe, IInv
<1> QED
  BY <1>1, <1>2 DEF QuietStep

(* run is over. *)
LEMMA EndQuiet ==
  ASSUME IInv, NEW s \in Sessions, End(s)
  PROVE  QuietStep
<1>1. session[s].main = "waiting" /\ SessionIs(s, Ended(s)) /\ Unsubscribe(s) /\ rooms' = rooms
  BY DEF End
<1>2. ~Live(session[s])
  BY <1>1 DEF Live, Gone
<1> QED
  BY <1>1, <1>2, RoomStays, EndedUnsubscribed

(* An attach that the store refuses. *)
LEMMA AttachFailsQuiet ==
  ASSUME IInv, NEW s \in Sessions, session[s].main \in Before,
         SessionIs(s, Ended(s)), Unsubscribe(s),
         rooms' = rooms \/ \E p \in Sessions : Store!ReattachGone(Code, p, p)
  PROVE  QuietStep
<1>1. RoomStep
  BY RoomStays, CloseKeeps DEF RoomStep, IInv
<1> QED
  BY <1>1, StageFacts, EndedUnsubscribed

(* busLoop handles an envelope: only one of a later generation of the peer *)
(* makes it ask for the close of a superseded session.                     *)
LEMMA ForwardedSound ==
  ASSUME NEW x, Sound(x), Served(x), NEW env \in Envelope
  PROVE  /\ Sound(Forwarded(x, env)) /\ SameStage(x, Forwarded(x, env))
         /\ Forwarded(x, env).closing = "superseded" =>
              x.closing = "superseded" \/ Supersedes(x, env)
<1> DEFINE y == [x EXCEPT !.bus = "over"]
           told == Msg("room_closed", "same")
<1>1. Sound(y) /\ SameStage(x, y) /\ y.closing = x.closing
  BY BusOverSound
<1>2. \/ Supersedes(x, env) /\ Forwarded(x, env) = CloseAsked(y, "superseded")
      \/ Forwarded(x, env) = x
      \/ \E m \in Message : Forwarded(x, env) = Sent(x, m)
      \/ Forwarded(x, env) = SentAndClosed(y, told, "room_closed")
  <2>1. env.kind \in Kinds
    BY DEF Envelope
  <2>2. CASE Supersedes(x, env)
    BY <2>2 DEF Forwarded, Supersedes
  <2>3. CASE env.from = x.peer /\ ~Supersedes(x, env)
    BY <2>3 DEF Forwarded
  <2>4. CASE env.from # x.peer
    <3>1. ~Supersedes(x, env)
      BY <2>4 DEF Supersedes
    <3>2. CASE env.kind = "superseded"
      BY <2>4, <3>1, <3>2 DEF Forwarded
    <3>3. CASE env.kind = "room_closed"
      BY <2>4, <3>1, <3>3 DEF Forwarded
    <3>4. CASE env.kind = "relay"
      <4>1. Forwarded(x, env) = Sent(x, Msg("relay", "same"))
        BY <2>4, <3>1, <3>4 DEF Forwarded
      <4> QED
        BY <4>1, MessageTypes
    <3>5. CASE env.kind = "peer_disconnected"
      <4>1. Forwarded(x, env) = Sent(x, Msg("peer_disconnected", "away"))
        BY <2>4, <3>1, <3>5 DEF Forwarded
      <4> QED
        BY <4>1, MessageTypes DEF Partners
    <3>6. CASE env.kind \in {"peer_joined", "peer_reattached"}
      <4>1. Forwarded(x, env) = Sent(x, Msg(env.kind, "present"))
        BY <2>4, <3>1, <3>6 DEF Forwarded
      <4> QED
        BY <3>6, <4>1, MessageTypes DEF Partners
    <3> QED
      BY <2>1, <3>2, <3>3, <3>4, <3>5, <3>6 DEF Kinds
  <2> QED
    BY <2>2, <2>3, <2>4
<1> HIDE DEF y
<1>3. CASE Supersedes(x, env) /\ Forwarded(x, env) = CloseAsked(y, "superseded")
  <2>1. Sound(CloseAsked(y, "superseded")) /\ SameStage(y, CloseAsked(y, "superseded"))
    BY <1>1, CloseAskedSound DEF Reasons
  <2> QED
    BY <1>1, <1>3, <2>1 DEF SameStage
<1>4. CASE Forwarded(x, env) = x
  BY <1>4 DEF SameStage
<1>5. CASE \E m \in Message : Forwarded(x, env) = Sent(x, m)
  <2>1. PICK m \in Message : Forwarded(x, env) = Sent(x, m)
    BY <1>5
  <2>2. /\ Sound(Sent(x, m)) /\ SameStage(x, Sent(x, m))
        /\ Sent(x, m).closing \in {x.closing, "other"}
    BY SentSound
  <2> QED
    BY <2>1, <2>2
<1>6. CASE Forwarded(x, env) = SentAndClosed(y, told, "room_closed")
  <2>1. /\ told \in Message /\ Served(y)
        /\ "room_closed" \in Watched => told.type = "room_closed"
    BY <1>1, MessageTypes DEF SameStage, Served
  <2> HIDE DEF told
  <2>2. /\ Sound(SentAndClosed(y, told, "room_closed"))
        /\ SameStage(y, SentAndClosed(y, told, "room_closed"))
        /\ SentAndClosed(y, told, "room_closed").closing \in {y.closing, "other", "room_closed"}
    BY <1>1, <2>1, SentAndClosedSound
  <2> QED
    BY <1>1, <1>6, <2>2 DEF SameStage
<1> QED
  BY <1>2, <1>3, <1>4, <1>5, <1>6

(* An envelope is delivered. *)
LEMMA BusDeliversQuiet ==
  ASSUME IInv, NEW s \in Sessions, BusDelivers(s)
  PROVE  QuietStep
<1> DEFINE x == session[s]
           env == Head(inbox[s])
           y == Forwarded(x, env)
<1>1. /\ x.main \in {"serve", "synced", "gone", "expired", "detach", "leaving"}
      /\ inbox[s] # <<>> /\ inbox' = [inbox EXCEPT ![s] = Tail(inbox[s])]
      /\ rooms' = rooms /\ subs' = subs /\ session' = [session EXCEPT ![s] = y]
  BY DEF BusDelivers, BusRuns, Attached, SessionIs
<1>2. Sound(x) /\ Served(x) /\ x.gen > 0 /\ x.gen \in Nat /\ x.peer \in Sessions
  BY <1>1, StageFacts DEF Before, Sound, SessionType
<1>3. NewsOK(env)
  <2>1. inbox[s] \in Seq(Envelope) /\ \A i \in 1 .. Len(inbox[s]) : NewsOK(inbox[s][i])
    BY DEF IInv, NewsIsNotAhead
  <2>2. 1 \in 1 .. Len(inbox[s]) /\ env = inbox[s][1]
    BY <1>1, <2>1
  <2> QED
    BY <2>1, <2>2
<1> HIDE DEF env
<1>4. env \in Envelope
  BY <1>3 DEF NewsOK
<1>5. /\ Sound(y) /\ SameStage(x, y)
      /\ y.closing = "superseded" => x.closing = "superseded" \/ Supersedes(x, env)
  BY <1>2, <1>4, ForwardedSound
<1>6. Supersedes(x, env) => Overtaken(x)
  <2> SUFFICES ASSUME env.from = x.peer, env.gen > x.gen, Member(x.peer)
               PROVE  x.gen < SlotOf(x.peer).gen
    BY DEF Supersedes, Overtaken
  <2>1. env.gen <= SlotOf(x.peer).gen /\ env.gen \in Nat
    BY <1>3, <1>4 DEF NewsOK, Envelope
  <2>2. SlotOf(x.peer).gen \in Nat
    BY <1>2, SlotGenType DEF IInv
  <2> QED
    BY <1>2, <2>1, <2>2
<1> HIDE DEF y
<1>7. SessionsStep /\ \A t \in Sessions : QuietMove(session[t], session'[t])
  BY <1>1, <1>2, <1>5, <1>6, ServedMoves DEF SameStage, Served, Before, Gone
<1>8. InboxStep
  BY <1>1, InboxShrinks
<1> QED
  BY <1>1, <1>7, <1>8, RoomStays DEF QuietStep, IInv

(* writeLoop has something to write, or a reason to end, only once the     *)
(* session has replied.                                                    *)
LEMMA WriterMoves ==
  ASSUME IInv, NEW s \in Sessions, session[s].main \notin Before \cup {"created", "over"},
         NEW y, session' = [session EXCEPT ![s] = y],
         Sound(y), SameStage(session[s], y),
         y.closing \in {session[s].closing, "other"}
  PROVE  SessionsStep /\ \A t \in Sessions : QuietMove(session[t], session'[t])
<1>1. StageOK(s, session[s])
  BY StageFacts
<1> QED
  BY <1>1, ServedMoves DEF SameStage, Served, StageOK

(* writeLoop takes a message, or fails. *)
LEMMA WriteQuiet ==
  ASSUME IInv, NEW s \in Sessions, Write(s)
  PROVE  QuietStep
<1> DEFINE x == session[s]
           v == SocketClosed(x)
           w == CloseAsked(v, "other")
           y == WriterOver(w)
<1>1. /\ x.writer = "on" /\ rooms' = rooms /\ inbox' = inbox /\ subs' = subs
      /\ x.out # <<>> \/ x.socket = "closed"
      /\ \/ x.out # <<>> /\ session' = [session EXCEPT ![s] = HeadTold(x)]
         \/ session' = [session EXCEPT ![s] = y]
  BY DEF Write, SessionIs, busVars
<1>2. Sound(x) /\ StageOK(s, x)
  BY StageFacts
<1>3. x.main \notin Before \cup {"created", "over"}
  BY <1>1, <1>2 DEF StageOK, Silent
<1>4. Served(x)
  BY <1>3 DEF Served
<1>5. CASE x.out # <<>> /\ session' = [session EXCEPT ![s] = HeadTold(x)]
  BY <1>1, <1>2, <1>3, <1>4, <1>5, HeadToldSound, WriterMoves, RoomStays, InboxStays
  DEF QuietStep, IInv
<1>6. CASE session' = [session EXCEPT ![s] = y]
  <2>1. Sound(v) /\ SameStage(x, v) /\ v.closing = x.closing /\ v.socket = "closed"
    BY <1>2, SocketClosedSound
  <2> HIDE DEF v
  <2>2. Sound(w) /\ SameStage(v, w) /\ w.closing \in {v.closing, "other"} /\ w.socket = "closed"
    <3>1. w.socket = v.socket
      BY <2>1 DEF CloseAsked, Sound, SessionType
    <3> QED
      BY <2>1, <3>1, CloseAskedSound DEF Reasons
  <2> HIDE DEF w
  <2>3. Sound(y) /\ SameStage(w, y) /\ y.closing = w.closing
    BY <2>2, WriterOverSound
  <2> HIDE DEF y
  <2>4. SameStage(x, y) /\ y.closing \in {x.closing, "other"}
    BY <2>1, <2>2, <2>3 DEF SameStage
  <2> QED
    BY <1>1, <1>3, <1>6, <2>3, <2>4, WriterMoves, RoomStays, InboxStays DEF QuietStep, IInv
<1> QED
  BY <1>1, <1>5, <1>6

(* drainAndClose. *)
LEMMA WriterClosesQuiet ==
  ASSUME IInv, NEW s \in Sessions, WriterCloses(s)
  PROVE  QuietStep
<1> DEFINE x == session[s]
<1>1. /\ x.writer = "on" /\ x.closing # "none" /\ rooms' = rooms /\ inbox' = inbox /\ subs' = subs
      /\ session' = [session EXCEPT ![s] = DrainedAndClosed(x)]
  BY DEF WriterCloses, SessionIs, busVars
<1>2. Sound(x) /\ StageOK(s, x)
  BY StageFacts
<1>3. x.main \notin Before \cup {"created", "over"}
  BY <1>1, <1>2 DEF StageOK, Silent
<1>4. Served(x)
  BY <1>3 DEF Served
<1> QED
  BY <1>1, <1>2, <1>3, <1>4, DrainedSound, WriterMoves, RoomStays, InboxStays
  DEF QuietStep, IInv

(* The clock and the janitor. *)
LEMMA TimersQuiet ==
  ASSUME IInv, Timers
  PROVE  QuietStep
<1>1. session' = session /\ inbox' = inbox /\ subs' = subs
  BY DEF Timers, busVars
<1>2. RoomStep
  BY TickKeeps, SweepKeeps DEF Timers, RoomStep, IInv
<1> QED
  BY <1>1, <1>2, NobodyMoves, InboxStays DEF QuietStep, IInv

-----------------------------------------------------------------------------
(* Attaching *)

(* A session takes a slot, in a generation that nothing has been seen of.  *)
AttachStep(s, y) ==
  /\ session' = [session EXCEPT ![s] = y] /\ Sound(y) /\ StageOK(s, y)
  /\ session[s].main \in Before /\ y.main \notin Before \cup Gone \cup {"expired"}
  /\ y.peer = session[s].peer /\ y.closing = "none"
  /\ Store!TypeOK' /\ inbox' = inbox /\ subs' = subs
  /\ Member(y.peer)' /\ SlotOf(y.peer)'.gen = y.gen /\ SlotOf(y.peer)'.connected = TRUE
  /\ \A q \in Sessions \ {y.peer} : Member(q)' => Member(q) /\ SlotOf(q)' = SlotOf(q)
  /\ y.peer = s \/ (Member(y.peer) /\ SlotOf(y.peer).gen < y.gen)
  /\ \A t \in Sessions : session[t].main = "expired" /\ Room' # NoRoom =>
       Room'.state = "closed" \/ (Room'.state = "waiting" /\ Room'.createdAt > WaitTTL)

(* Nobody is attached, and no news is under way, in the generation taken   *)
(* or in a later one: a peer of its own is known to nobody before it is    *)
(* past its attachment.                                                    *)
LEMMA TakesLatest ==
  ASSUME IInv, NEW s \in Sessions, NEW y, AttachStep(s, y)
  PROVE  /\ \A t \in Sessions : session[t].gen > 0 /\ session[t].peer = y.peer =>
              session[t].gen < y.gen
         /\ \A env : NewsOK(env) /\ env.from = y.peer => env.gen < y.gen
         /\ Past(y.peer)'
<1> DEFINE p == y.peer
<1>1. p \in Sessions /\ y.gen \in Nat /\ session[s].main \in Before
  BY DEF AttachStep, Sound, SessionType
<1>2. \A t \in Sessions : session'[t] = IF t = s THEN y ELSE session[t]
  BY DEF AttachStep, IInv, SessionsOK
<1>3. y.main \notin Before
  BY DEF AttachStep
<1>4. CASE p = s
  <2>1. ~Past(p)
    BY <1>1, <1>4 DEF Past
  <2>2. Past(p)'
    BY <1>1, <1>2, <1>3, <1>4 DEF Past
  <2> QED
    BY <1>1, <2>1, <2>2 DEF IInv, Generations, NewsOK
<1>5. CASE Member(p) /\ SlotOf(p).gen < y.gen
  <2>1. SlotOf(p).gen \in Nat /\ \A t \in Sessions : session[t].gen \in Nat
    BY <1>1, <1>5, SlotGenType, SessionTypes DEF IInv
  <2>2. Past(p)'
    BY <1>1, <1>2, <1>3, <1>5 DEF IInv, Generations, Past
  <2>3. \A t \in Sessions : session[t].gen > 0 /\ session[t].peer = p => session[t].gen < y.gen
    BY <1>1, <1>5, <2>1 DEF IInv, Generations
  <2>4. ASSUME NEW env, NewsOK(env), env.from = p PROVE env.gen < y.gen
    BY <1>1, <1>5, <2>1, <2>4 DEF NewsOK, Envelope
  <2> QED
    BY <2>2, <2>3, <2>4
<1> QED
  BY <1>4, <1>5 DEF AttachStep

(* An attachment keeps the fence of generations ... *)
LEMMA AttachGenerations ==
  ASSUME IInv, NEW s \in Sessions, NEW y, AttachStep(s, y)
  PROVE  Generations'
<1>1. \A t \in Sessions : session'[t] = IF t = s THEN y ELSE session[t]
  BY DEF AttachStep, IInv, SessionsOK
<1>2. /\ session[s].main \in Before /\ y.main \notin Before
      /\ y.peer \in Sessions /\ y.gen \in Nat /\ y.closing = "none"
      /\ Member(y.peer)' /\ SlotOf(y.peer)'.gen = y.gen
      /\ \A q \in Sessions \ {y.peer} : Member(q)' => Member(q) /\ SlotOf(q)' = SlotOf(q)
  BY DEF AttachStep, Sound, SessionType
<1>3. /\ \A t \in Sessions : session[t].gen > 0 /\ session[t].peer = y.peer =>
           session[t].gen < y.gen
      /\ Past(y.peer)'
  BY TakesLatest
<1>4. \A t \in Sessions : session[t].peer \in Sessions /\ session[t].gen \in Nat
  BY SessionTypes DEF IInv
<1>5. \A q \in Sessions : Past(q) => Past(q)'
  BY <1>1, <1>2 DEF Past
<1>6. ASSUME NEW q \in Sessions, Member(q)' PROVE Past(q)'
  BY <1>2, <1>3, <1>5, <1>6 DEF IInv, Generations
<1>7. ASSUME NEW t \in Sessions, session'[t].gen > 0,
             NEW p \in Sessions, p = session'[t].peer
      PROVE  /\ Past(p)'
             /\ Member(p)' => session'[t].gen <= SlotOf(p)'.gen
             /\ session'[t].closing = "superseded" /\ Member(p)' =>
                  session'[t].gen < SlotOf(p)'.gen
  <2>1. CASE t = s
    BY <1>1, <1>2, <1>3, <1>7, <2>1
  <2>2. CASE t # s /\ p = y.peer
    <3>1. session'[t].gen < y.gen /\ session'[t].gen \in Nat
      BY <1>1, <1>3, <1>4, <1>7, <2>2
    <3>2. Past(p)' /\ SlotOf(p)'.gen = y.gen
      BY <1>2, <1>3, <2>2
    <3> QED
      BY <1>2, <3>1, <3>2
  <2>3. CASE t # s /\ p # y.peer
    BY <1>1, <1>2, <1>5, <1>7, <2>3 DEF IInv, Generations
  <2> QED
    BY <2>1, <2>2, <2>3
<1>8. ASSUME NEW t \in Sessions, NEW u \in Sessions, t # u, session'[t].gen > 0,
             session'[t].peer = session'[u].peer
      PROVE  session'[t].gen # session'[u].gen
  <2>1. CASE t = s
    BY <1>1, <1>2, <1>3, <1>4, <1>8, <2>1
  <2>2. CASE u = s
    BY <1>1, <1>2, <1>3, <1>4, <1>8, <2>2
  <2>3. CASE t # s /\ u # s
    BY <1>1, <1>8, <2>3 DEF IInv, Generations
  <2> QED
    BY <2>1, <2>2, <2>3
<1>9. \A t \in Sessions : session'[t].peer \in Sessions
  BY <1>1, <1>2, <1>4
<1> QED
  BY <1>6, <1>7, <1>8, <1>9 DEF Generations, Past, Member, SlotOf

(* ... the news that are under way ... *)
LEMMA AttachNews ==
  ASSUME IInv, NEW s \in Sessions, NEW y, AttachStep(s, y)
  PROVE  NewsIsNotAhead'
<1>1. \A t \in Sessions : session'[t] = IF t = s THEN y ELSE session[t]
  BY DEF AttachStep, IInv, SessionsOK
<1>2. /\ y.main \notin Before /\ y.peer \in Sessions /\ y.gen \in Nat
      /\ SlotOf(y.peer)'.gen = y.gen /\ inbox' = inbox
      /\ \A q \in Sessions \ {y.peer} : Member(q)' => Member(q) /\ SlotOf(q)' = SlotOf(q)
  BY DEF AttachStep, Sound, SessionType
<1>3. ASSUME NEW env, NewsOK(env)
      PROVE  env \in Envelope /\ Past(env.from)' /\ (Member(env.from)' => env.gen <= SlotOf(env.from)'.gen)
  <2>1. env \in Envelope /\ env.from \in Sessions /\ env.gen \in Nat
    BY <1>3 DEF NewsOK, Envelope
  <2>2. Past(env.from)'
    BY <1>1, <1>2, <1>3, <2>1 DEF NewsOK, Past
  <2>3. CASE env.from = y.peer
    BY <1>2, <1>3, <2>1, <2>2, <2>3, TakesLatest
  <2>4. CASE env.from # y.peer
    BY <1>2, <1>3, <2>1, <2>2, <2>4 DEF NewsOK
  <2> QED
    BY <2>3, <2>4
<1> QED
  BY <1>2, <1>3 DEF IInv, NewsIsNotAhead, NewsOK, Past, Member, SlotOf

(* ... the match of slots and sessions ... *)
LEMMA AttachMatched ==
  ASSUME IInv, NEW s \in Sessions, NEW y, AttachStep(s, y)
  PROVE  Matched'
<1>1. \A t \in Sessions : session'[t] = IF t = s THEN y ELSE session[t]
  BY DEF AttachStep, IInv, SessionsOK
<1>2. /\ session[s].main \in Before /\ y.main \notin Before \cup Gone /\ y.peer \in Sessions
      /\ SlotOf(y.peer)'.gen = y.gen /\ SlotOf(y.peer)'.connected = TRUE
      /\ StageOK(s, y)
      /\ \A q \in Sessions \ {y.peer} : Member(q)' => Member(q) /\ SlotOf(q)' = SlotOf(q)
  BY DEF AttachStep, Sound, SessionType
<1>3. Live(y)
  BY <1>2 DEF Live, StageOK, Gone
<1>4. ~Live(session[s])
  BY <1>2, StageFacts
<1>5. ASSUME NEW p \in Sessions, Member(p)'
      PROVE  SlotOf(p)'.connected <=>
               \E t \in Sessions : /\ Live(session'[t]) /\ session'[t].peer = p
                                  /\ session'[t].gen = SlotOf(p)'.gen
  <2>1. CASE p = y.peer
    BY <1>1, <1>2, <1>3, <2>1
  <2>2. CASE p # y.peer
    <3>1. Member(p) /\ SlotOf(p)' = SlotOf(p)
      BY <1>2, <1>5, <2>2
    <3>2. SlotOf(p).connected <=> \E t \in Sessions : /\ Live(session[t]) /\ session[t].peer = p
                                                      /\ session[t].gen = SlotOf(p).gen
      BY <3>1 DEF IInv, Matched
    <3>3. \A t \in Sessions :
            (Live(session'[t]) /\ session'[t].peer = p) <=> (Live(session[t]) /\ session[t].peer = p)
      BY <1>1, <1>4, <2>2
    <3>4. \A t \in Sessions : Live(session[t]) /\ session[t].peer = p =>
            session'[t].gen = session[t].gen
      BY <1>1, <1>4
    <3> QED
      BY <3>1, <3>2, <3>3, <3>4
  <2> QED
    BY <2>1, <2>2
<1> QED
  BY <1>5 DEF Matched

(* ... and the whole invariant. *)
LEMMA AttachKeeps ==
  ASSUME IInv, NEW s \in Sessions, NEW y, AttachStep(s, y)
  PROVE  IInv'
<1>1. session' = [session EXCEPT ![s] = y] /\ Sound(y) /\ StageOK(s, y)
  BY DEF AttachStep
<1>2. session = [t \in Sessions |-> session[t]]
  BY DEF IInv, SessionsOK
<1>3. \A t \in Sessions : session'[t] = IF t = s THEN y ELSE session[t]
  BY <1>1, <1>2
<1>4. SessionsOK'
  <2>1. session' = [t \in Sessions |-> session'[t]]
    BY <1>1, <1>2
  <2>2. \A t \in Sessions : Sound(session'[t]) /\ StageOK(t, session'[t])
    BY <1>1, <1>3 DEF IInv, SessionsOK
  <2> QED
    BY <2>1, <2>2 DEF SessionsOK
<1>5. ExpiredOK'
  <2>1. \A t \in Sessions : session'[t].main = "expired" => session[t].main = "expired"
    BY <1>3 DEF AttachStep
  <2> QED
    BY <2>1 DEF AttachStep, ExpiredOK
<1>6. Store!TypeOK' /\ subs' \subseteq Sessions
  BY DEF AttachStep, IInv
<1> QED
  BY <1>4, <1>5, <1>6, AttachGenerations, AttachNews, AttachMatched DEF IInv

(* Nothing but the step, the attachment and what is owed differs. *)
SameClient(x, y) ==
  /\ DOMAIN y = DOMAIN x /\ y.peer = x.peer /\ y.snap = x.snap /\ y.out = x.out
  /\ y.writer = x.writer /\ y.closing = x.closing /\ y.socket = x.socket
  /\ y.frame = x.frame /\ y.told = x.told /\ y.partner = x.partner

(* The reply says of the partner what the room does. *)
Greets(y) ==
  "partner" \in Watched /\ PartnerState(Room', y.peer) # "unknown" => Knows(y)

(* The first message of a session, when it is about the partner. *)
LEMMA ReplyTells ==
  ASSUME NEW x, SessionType(x), Silent(x), NEW m \in Message, m.partner \in {"present", "away"}
  PROVE  Knows(Sent(x, m))
<1> DEFINE y == [x EXCEPT !.out = Append(x.out, m)]
<1>1. Len(x.out) = 0 /\ 0 < OutCap
  BY OutCapAssumption DEF Silent
<1>2. Sent(x, m) = y
  BY <1>1 DEF Sent, Silent
<1>3. y.out = <<m>>
  BY DEF Silent, SessionType
<1> HIDE DEF y
<1>4. 1 \in 1 .. Len(y.out) /\ y.out[1] = m /\ NotLost(y, 1)
  BY <1>3 DEF NotLost
<1> QED
  BY <1>2, <1>4 DEF Knows

(* A session that has attached with its reply first in its queue. *)
LEMMA AttachedWithReply ==
  ASSUME IInv, NEW s \in Sessions, session[s].main \in Before,
         NEW z, SameClient(session[s], z), z.main = "announce", z.gen \in Nat \ {0},
         z.role \in {"creator", "joiner"}, z.owes \in Owed \ {<<>>},
         NEW m \in Message, Replies \subseteq Watched => m.type \in Replies
  PROVE  /\ Sound(Sent(z, m)) /\ StageOK(s, Sent(z, m))
         /\ Sent(z, m).main = "announce" /\ Sent(z, m).peer = session[s].peer
         /\ Sent(z, m).gen = z.gen /\ Sent(z, m).closing = "none"
         /\ Sent(z, m).owes = z.owes
         /\ m.partner \in {"present", "away"} => Knows(Sent(z, m))
<1> DEFINE x == session[s]
<1>1. SessionType(x) /\ Silent(x)
  BY StageFacts DEF Sound
<1>2. /\ DOMAIN z = DOMAIN x /\ z.peer = x.peer /\ z.snap = x.snap /\ z.out = x.out
      /\ z.writer = x.writer /\ z.closing = x.closing /\ z.socket = x.socket
      /\ z.frame = x.frame /\ z.told = x.told /\ z.partner = x.partner
  BY DEF SameClient
<1>3. SessionType(z)
  BY <1>1, <1>2 DEF SessionType, Mains
<1>4. Silent(z)
  BY <1>1, <1>2 DEF Silent
<1> DEFINE y == Sent(z, m)
<1>5. /\ SessionType(y) /\ SameStage(z, y) /\ y.closing = "none" /\ NoticeDue(y)
      /\ Replies \subseteq Watched => Replied(y)
  BY <1>3, <1>4, FirstReply
<1> HIDE DEF y
<1>6. Sound(y)
  BY <1>5 DEF Sound, ReplyDue
<1>7. StageOK(s, y)
  BY <1>2, <1>5 DEF StageOK, SameStage, Before
<1>8. m.partner \in {"present", "away"} => Knows(y)
  BY <1>3, <1>4, ReplyTells DEF y
<1> QED
  BY <1>2, <1>5, <1>6, <1>7, <1>8 DEF SameStage, y

(* What an attachment that succeeds makes known, and to whom: there is no  *)
(* partner yet, or one that the reply tells of and that is told in turn, or *)
(* the pairing is as it was and only the reply is about it.                *)
Introduced(y) ==
  \/ y.main = "created" /\ Room'.state = "waiting"
  \/ OwesJoin(y) /\ Greets(y)
  \/ y.main = "announce" /\ Greets(y) /\ Room'.state = Room.state

Attaches(s) == \E y : AttachStep(s, y) /\ Introduced(y)

AttachFails(s) == /\ SessionIs(s, Ended(s)) /\ Unsubscribe(s)
                  /\ rooms' = rooms \/ \E p \in Sessions : Store!ReattachGone(Code, p, p)

(* A room is created. *)
LEMMA AttachCreateEnds ==
  ASSUME IInv, NEW s \in Sessions, AttachCreate(s)
  PROVE  Attaches(s) \/ AttachFails(s)
<1> DEFINE x == session[s]
           y == [x EXCEPT !.main = "created", !.gen = 1, !.role = "creator"]
<1>1. x.main = "create"
  BY DEF AttachCreate
<1>2. SessionType(x) /\ Silent(x) /\ x.peer = s /\ StageOK(s, x)
  BY <1>1, StageFacts DEF Sound, StageOK, Before
<1>3. CASE ~CodeInUse /\ Store!Create(Code, x.peer) /\ SessionIs(s, y) /\ UNCHANGED busVars
  <2>1. /\ DOMAIN y = DOMAIN x /\ y.main = "created" /\ y.peer = s /\ y.gen = 1
        /\ y.role = "creator" /\ y.owes = x.owes /\ y.snap = x.snap /\ y.out = x.out
        /\ y.writer = x.writer /\ y.closing = x.closing /\ y.socket = x.socket
        /\ y.frame = x.frame /\ y.told = x.told /\ y.partner = x.partner
    BY <1>2 DEF SessionType
  <2>2. session' = [session EXCEPT ![s] = y] /\ inbox' = inbox /\ subs' = subs
    BY <1>3 DEF SessionIs, busVars
  <2> HIDE DEF y
  <2>3. Sound(y)
    BY <1>2, <2>1 DEF Sound, SessionType, Silent, ReplyDue, NoticeDue, Served, Mains
  <2>4. StageOK(s, y)
    BY <1>2, <2>1 DEF StageOK, Silent, Before
  <2>5. /\ Store!TypeOK' /\ Room' # NoRoom /\ Room'.state = "waiting"
        /\ \A q \in Sessions :
             Store!FindSlot(Room', q) = IF q = s THEN Store!NewSlot(s) ELSE NoSlot
    BY <1>2, <1>3, CreateMakes DEF IInv
  <2>6. /\ Member(s)' /\ SlotOf(s)'.gen = 1 /\ SlotOf(s)'.connected = TRUE
        /\ \A q \in Sessions \ {s} : ~Member(q)'
    BY <2>5, NewAttachment DEF Member, SlotOf
  <2>7. \A t \in Sessions : session[t].main # "expired"
    BY <1>3, StageFacts DEF CodeInUse, Before
  <2>8. PICK v : v = y
    OBVIOUS
  <2>9. AttachStep(s, v)
    BY <1>1, <1>2, <2>1, <2>2, <2>3, <2>4, <2>5, <2>6, <2>7, <2>8
    DEF AttachStep, Before, Gone, Silent
  <2>10. Introduced(v)
    BY <2>1, <2>5, <2>8 DEF Introduced
  <2> QED
    BY <2>9, <2>10 DEF Attaches
<1>4. CASE SessionIs(s, Ended(s)) /\ Unsubscribe(s) /\ rooms' = rooms
  BY <1>4 DEF AttachFails
<1> QED
  BY <1>3, <1>4 DEF AttachCreate

(* A room is joined. *)
LEMMA AttachJoinEnds ==
  ASSUME IInv, NEW s \in Sessions, AttachJoin(s)
  PROVE  Attaches(s) \/ AttachFails(s)
<1> DEFINE x == session[s]
           z == [x EXCEPT !.main = "announce", !.gen = 1, !.role = "joiner",
                          !.owes = <<"peer_joined">>]
           m == Msg("joined", PartnerState(Room', z.peer))
           y == Sent(z, m)
<1>1. x.main = "join" /\ x.main \in Before
  BY DEF AttachJoin, Before
<1>2. x.peer = s
  BY <1>1, StageFacts DEF StageOK, Before
<1>3. CASE Store!Join(Code, x.peer) /\ SessionIs(s, y) /\ UNCHANGED busVars
  <2>1. session' = [session EXCEPT ![s] = y] /\ inbox' = inbox /\ subs' = subs
    BY <1>3 DEF SessionIs, busVars
  <2>2. m \in Message /\ (Replies \subseteq Watched => m.type \in Replies)
    BY PartnerStateType, MessageTypes DEF Replies
  <2>3. /\ SameClient(x, z) /\ z.main = "announce" /\ z.gen = 1 /\ z.role = "joiner"
        /\ z.owes \in Owed \ {<<>>} /\ z.peer = s
    BY <1>2, StageFacts DEF Sound, SessionType, SameClient, Owed
  <2>13. z.owes = <<"peer_joined">>
    BY StageFacts DEF Sound, SessionType
  <2>11. "partner" \in Watched =>
           m.partner = PartnerState(Room', s) /\ m.partner \in Partners
    BY <2>3, PartnerStateType DEF Msg
  <2> HIDE DEF m, z
  <2>4. /\ Sound(y) /\ StageOK(s, y) /\ y.main = "announce" /\ y.peer = s
        /\ y.gen = 1 /\ y.closing = "none" /\ y.owes = z.owes
        /\ m.partner \in {"present", "away"} => Knows(y)
    BY <1>1, <1>2, <2>2, <2>3, AttachedWithReply
  <2> HIDE DEF y
  <2>5. Room # NoRoom => Store!FindSlot(Room, s) = NoSlot
    BY <1>1 DEF IInv, Generations, Member, Past
  <2>6. /\ Store!TypeOK' /\ Room # NoRoom /\ Room' # NoRoom
        /\ Room.state = "waiting" /\ ~(Room.createdAt > WaitTTL)
        /\ Store!FindSlot(Room', s) = Store!NewSlot(s)
        /\ \A q \in Sessions \ {s} : Store!FindSlot(Room', q) # NoSlot =>
             Store!FindSlot(Room', q) = Store!FindSlot(Room, q)
    BY <1>2, <1>3, <2>5, JoinMakes DEF IInv
  <2>7. /\ Member(s)' /\ SlotOf(s)'.gen = 1 /\ SlotOf(s)'.connected = TRUE
        /\ \A q \in Sessions \ {s} : Member(q)' => Member(q) /\ SlotOf(q)' = SlotOf(q)
    BY <2>6, NewAttachment DEF Member, SlotOf
  <2>8. \A t \in Sessions : session[t].main # "expired"
    BY <2>6 DEF IInv, ExpiredOK
  <2>9. PICK v : v = y
    OBVIOUS
  <2>10. AttachStep(s, v)
    BY <1>1, <1>2, <2>1, <2>4, <2>6, <2>7, <2>8, <2>9 DEF AttachStep, Before, Gone
  <2>12. OwesJoin(v) /\ Greets(v)
    BY <2>4, <2>9, <2>11, <2>13 DEF OwesJoin, Greets, Partners
  <2> QED
    BY <2>10, <2>12 DEF Attaches, Introduced
<1>4. CASE SessionIs(s, Ended(s)) /\ Unsubscribe(s) /\ rooms' = rooms
  BY <1>4 DEF AttachFails
<1> QED
  BY <1>3, <1>4 DEF AttachJoin

(* A slot is taken over. *)
LEMMA AttachReattachEnds ==
  ASSUME IInv, NEW s \in Sessions, AttachReattach(s)
  PROVE  Attaches(s) \/ AttachFails(s)
<1> DEFINE x == session[s]
           p == x.peer
           gen == Store!FindSlot(Room', p).gen
           role == IF Room.creator.peer = p THEN "creator" ELSE "joiner"
           owes == <<"superseded", "peer_reattached">>
           z == [x EXCEPT !.main = "announce", !.gen = gen, !.role = role, !.owes = owes]
           m == Msg("reattached", ReattachSays(p))
           y == Sent(z, m)
<1>1. x.main = "reattach" /\ x.main \in Before
  BY DEF AttachReattach, Before
<1>2. p \in Sessions
  BY SessionTypes DEF IInv
<1>3. CASE Store!Reattach(Code, p, p) /\ SessionIs(s, y) /\ UNCHANGED busVars
  <2>1. session' = [session EXCEPT ![s] = y] /\ inbox' = inbox /\ subs' = subs
    BY <1>3 DEF SessionIs, busVars
  <2>2. m \in Message /\ (Replies \subseteq Watched => m.type \in Replies)
    BY PartnerStateType, MessageTypes DEF ReattachSays, Replies
  <2>3. PICK q \in Sessions : q = p
    BY <1>2
  <2>11. "partner" \in Watched =>
           m.partner = PartnerState(Room', q) /\ m.partner \in Partners
    BY <2>3, PartnerStateType DEF Msg, ReattachSays
  <2> HIDE DEF m
  <2>4. /\ Store!TypeOK' /\ Room # NoRoom /\ Room' # NoRoom
        /\ Room'.state = Room.state /\ Room'.createdAt = Room.createdAt
        /\ Store!FindSlot(Room, q) # NoSlot /\ Store!FindSlot(Room, q).gen \in Nat
        /\ Store!FindSlot(Room', q) # NoSlot
        /\ Store!FindSlot(Room', q).gen = Store!FindSlot(Room, q).gen + 1
        /\ Store!FindSlot(Room', q).connected = TRUE
        /\ \A r \in Sessions \ {q} : Store!FindSlot(Room', r) = Store!FindSlot(Room, r)
    BY <1>3, <2>3, ReattachMakes DEF IInv
  <2>5. /\ SameClient(x, z) /\ z.main = "announce" /\ z.gen = Store!FindSlot(Room', q).gen
        /\ z.role \in {"creator", "joiner"} /\ z.owes \in Owed \ {<<>>}
    <3> HIDE DEF p
    <3> QED
      BY <2>3, StageFacts DEF Sound, SessionType, SameClient, Owed
  <2> HIDE DEF z
  <2>6. /\ Member(q) /\ Member(q)' /\ SlotOf(q)'.gen = z.gen /\ SlotOf(q)'.connected = TRUE
        /\ SlotOf(q).gen < z.gen /\ z.gen \in Nat \ {0}
        /\ \A r \in Sessions \ {q} : Member(r)' => Member(r) /\ SlotOf(r)' = SlotOf(r)
    BY <2>4, <2>5 DEF Member, SlotOf
  <2>7. /\ Sound(y) /\ StageOK(s, y) /\ y.main = "announce" /\ y.peer = q
        /\ y.gen = z.gen /\ y.closing = "none"
        /\ m.partner \in {"present", "away"} => Knows(y)
    BY <1>1, <2>2, <2>3, <2>5, <2>6, AttachedWithReply
  <2> HIDE DEF y
  <2>8. \A t \in Sessions : session[t].main = "expired" =>
          Room'.state = "closed" \/ (Room'.state = "waiting" /\ Room'.createdAt > WaitTTL)
    BY <2>4 DEF IInv, ExpiredOK
  <2>9. PICK v : v = y
    OBVIOUS
  <2>10. AttachStep(s, v)
    BY <1>1, <2>1, <2>3, <2>4, <2>6, <2>7, <2>8, <2>9 DEF AttachStep, Before, Gone
  <2>12. y.main = "announce" /\ Greets(v) /\ Room'.state = Room.state
    BY <2>4, <2>7, <2>9, <2>11 DEF Greets, Partners
  <2> QED
    BY <2>9, <2>10, <2>12 DEF Attaches, Introduced
<1>4. CASE /\ SessionIs(s, Ended(s)) /\ Unsubscribe(s)
           /\ rooms' = rooms \/ Store!ReattachGone(Code, p, p)
  BY <1>2, <1>4 DEF AttachFails
<1> QED
  BY <1>3, <1>4 DEF AttachReattach

(* An attach keeps the invariant, whether it succeeds or not. *)
LEMMA AttachingKeeps ==
  ASSUME IInv, NEW s \in Sessions, AttachCreate(s) \/ AttachJoin(s) \/ AttachReattach(s)
  PROVE  IInv'
<1>1. session[s].main \in Before
  BY DEF AttachCreate, AttachJoin, AttachReattach, Before
<1>2. Attaches(s) \/ AttachFails(s)
  BY AttachCreateEnds, AttachJoinEnds, AttachReattachEnds
<1> QED
  BY <1>1, <1>2, AttachKeeps, AttachFailsQuiet, QuietKeeps DEF Attaches, AttachFails

-----------------------------------------------------------------------------
(* Detaching *)

(* The slot of a session is released with its disconnect. *)
LEMMA DetachRecorded ==
  ASSUME IInv, NEW s \in Sessions, session[s].main = "detach",
         session[s].closing # "superseded",
         Store!Disconnect(Code, session[s].peer, session[s].gen),
         session' = [session EXCEPT ![s] = At(session[s], "leaving")],
         inbox' = inbox, subs' = subs
  PROVE  IInv'
<1> DEFINE x == session[s]
           p == x.peer
           y == At(x, "leaving")
<1>1. Sound(x) /\ Served(x) /\ x.gen > 0 /\ x.gen \in Nat /\ p \in Sessions
  BY StageFacts, SessionTypes DEF Before, IInv
<1>2. "leaving" \in Mains \ (Before \cup {"created"})
  BY DEF Mains, Before, Gone
<1>3. /\ Sound(y) /\ y.main = "leaving" /\ y.peer = p /\ y.gen = x.gen
      /\ y.closing = x.closing
  BY <1>1, <1>2, AtSound DEF Sound, ReplyDue
<1> HIDE DEF y
<1>4. StageOK(s, y)
  BY <1>1, <1>3 DEF StageOK, Before
<1>5. session = [t \in Sessions |-> session[t]]
  BY DEF IInv, SessionsOK
<1>6. session' = [session EXCEPT ![s] = y]
  BY DEF y
<1>7. \A t \in Sessions : session'[t] = IF t = s THEN y ELSE session[t]
  BY <1>5, <1>6
<1>8. SessionsStep
  <2>1. session' = [t \in Sessions |-> session'[t]]
    BY <1>5, <1>6
  <2> QED
    BY <1>3, <1>4, <1>7, <2>1 DEF SessionsStep, IInv, SessionsOK
<1>9. \A t \in Sessions : SteadyMove(session[t], session'[t])
  <2>1. SteadyMove(x, y)
    BY <1>3 DEF SteadyMove, Before
  <2>2. \A t \in Sessions : SteadyMove(session[t], session[t])
    BY DEF SteadyMove
  <2> QED
    BY <1>7, <2>1, <2>2
<1>10. /\ Store!TypeOK' /\ Room # NoRoom /\ Room' # NoRoom
       /\ Room'.state = Room.state /\ Room'.createdAt = Room.createdAt
       /\ Store!FindSlot(Room, p) # NoSlot /\ Store!FindSlot(Room, p).gen = x.gen
       /\ Store!FindSlot(Room', p) # NoSlot /\ Store!FindSlot(Room', p).gen = x.gen
       /\ Store!FindSlot(Room', p).connected = FALSE
       /\ \A q \in Sessions \ {p} : Store!FindSlot(Room', q) = Store!FindSlot(Room, q)
  BY <1>1, DisconnectMakes DEF IInv
<1>11. SteadyRoom(Room, Room')
  <2>1. Room.createdAt \in Nat
    BY <1>10, RoomType, StoreAssumption DEF IInv, Store!Room, Store!Age, Store!AgeCap
  <2> QED
    BY <1>10, <2>1 DEF SteadyRoom
<1>12. SteadyStep
  BY <1>8, <1>9, <1>10, <1>11, InboxStays DEF SteadyStep, IInv
<1>13. Matched'
  <2>1. ASSUME NEW q \in Sessions, Member(q)'
        PROVE  SlotOf(q)'.connected <=>
                 \E t \in Sessions : /\ Live(session'[t]) /\ session'[t].peer = q
                                    /\ session'[t].gen = SlotOf(q)'.gen
    <3>1. ~Live(y)
      BY <1>3 DEF Live, Gone
    <3>2. CASE q = p
      <4>1. SlotOf(q)'.connected = FALSE /\ SlotOf(q)'.gen = x.gen
        BY <1>10, <3>2 DEF SlotOf
      <4>2. ASSUME NEW t \in Sessions, Live(session'[t]), session'[t].peer = q
            PROVE  session'[t].gen # x.gen
        <5>1. t # s /\ session'[t] = session[t]
          BY <1>7, <3>1, <4>2
        <5> QED
          BY <1>1, <3>2, <4>2, <5>1 DEF IInv, Generations
      <4> QED
        BY <4>1, <4>2
    <3>3. CASE q # p
      <4>1. Member(q) /\ SlotOf(q)' = SlotOf(q)
        BY <1>10, <2>1, <3>3 DEF Member, SlotOf
      <4>2. SlotOf(q).connected <=> \E t \in Sessions : /\ Live(session[t]) /\ session[t].peer = q
                                                        /\ session[t].gen = SlotOf(q).gen
        BY <4>1 DEF IInv, Matched
      <4>3. \A t \in Sessions : session[t].peer = q \/ session'[t].peer = q =>
              session'[t] = session[t]
        BY <1>3, <1>7, <3>3
      <4> QED
        BY <4>1, <4>2, <4>3
    <3> QED
      BY <3>2, <3>3
  <2> QED
    BY <2>1 DEF Matched
<1>14. SessionsOK' /\ Store!TypeOK' /\ subs' \subseteq Sessions
  BY <1>8, <1>10 DEF SessionsStep, SessionsOK, IInv
<1> QED
  BY <1>12, <1>13, <1>14, SteadyGenerations, SteadyNews, SteadyExpired DEF IInv

(* detach, whatever the store answers. *)
LEMMA DetachKeeps ==
  ASSUME IInv, NEW s \in Sessions, Detach(s)
  PROVE  IInv'
<1> DEFINE x == session[s]
<1>1. x.main = "detach" /\ inbox' = inbox /\ subs' = subs
  BY DEF Detach, busVars
<1>2. \/ /\ x.closing # "superseded" /\ Store!Disconnect(Code, x.peer, x.gen)
         /\ session' = [session EXCEPT ![s] = At(x, "leaving")]
      \/ /\ \/ x.closing = "superseded"
            \/ Store!DisconnectResult(Code, x.peer, x.gen) # "ok"
         /\ rooms' = rooms
         /\ session' = [session EXCEPT ![s] = At(CloseAsked(x, "other"), "waiting")]
  BY DEF Detach, DetachGen, SessionIs
<1>3. x.gen > 0
  BY <1>1, StageFacts DEF Before
<1>4. CASE /\ x.closing # "superseded" /\ Store!Disconnect(Code, x.peer, x.gen)
           /\ session' = [session EXCEPT ![s] = At(x, "leaving")]
  BY <1>1, <1>4, DetachRecorded
<1>5. CASE /\ \/ x.closing = "superseded"
              \/ Store!DisconnectResult(Code, x.peer, x.gen) # "ok"
           /\ rooms' = rooms
           /\ session' = [session EXCEPT ![s] = At(CloseAsked(x, "other"), "waiting")]
  <2>1. SessionsStep /\ \A t \in Sessions : QuietMove(session[t], session'[t])
    BY <1>1, <1>3, <1>5, DetachUnrecorded
  <2>2. QuietStep
    BY <1>1, <1>5, <2>1, RoomStays, InboxStays DEF QuietStep, IInv
  <2> QED
    BY <2>2, QuietKeeps
<1> QED
  BY <1>2, <1>4, <1>5

-----------------------------------------------------------------------------
(* The invariant *)

(* It holds before anyone connects. *)
LEMMA InitIInv == Init => IInv
<1> SUFFICES ASSUME Init PROVE IInv
  OBVIOUS
<1> USE DEF Init, Store!Init, BusInit
<1>1. Store!TypeOK /\ Room = NoRoom
  BY DEF Store!TypeOK, Room
<1>2. ASSUME NEW s \in Sessions
      PROVE  /\ Sound(session[s]) /\ StageOK(s, session[s])
             /\ session[s].gen = 0 /\ session[s].main = "first"
  <2> DEFINE x == NotConnected(s)
  <2>1. session[s] = x
    OBVIOUS
  <2>2. /\ DOMAIN x = {"main", "peer", "gen", "role", "owes", "snap", "bus", "out", "writer",
                       "closing", "socket", "frame", "told", "partner"}
        /\ x.main = "first" /\ x.peer = s /\ x.gen = 0
        /\ x.role = "none" /\ x.owes = <<>> /\ x.snap.partner = "unknown" /\ x.out = <<>>
        /\ x.writer = "on" /\ x.closing = "none" /\ x.socket = "open"
        /\ x.frame = "none" /\ x.told = {} /\ x.partner = "unknown"
    BY DEF NotConnected
  <2> HIDE DEF x
  <2>3. <<>> \in Seq(Message) /\ Len(<<>>) = 0 /\ 0 <= OutCap
    BY OutCapAssumption
  <2>4. SessionType(x)
    BY <2>2, <2>3 DEF SessionType, Mains, Before, Owed, Partners, Reasons
  <2>5. ReplyDue(x) /\ NoticeDue(x)
    BY <2>2 DEF ReplyDue, NoticeDue, Served, Before
  <2>6. StageOK(s, x)
    BY <2>2 DEF StageOK, Silent, Before
  <2> QED
    BY <2>1, <2>2, <2>4, <2>5, <2>6 DEF Sound
<1>3. SessionsOK
  BY <1>2 DEF SessionsOK
<1>4. NewsIsNotAhead
  <2>1. <<>> \in Seq(Envelope) /\ Len(<<>>) = 0 /\ 0 <= BusCap
    BY BusCapAssumption
  <2> QED
    BY <2>1 DEF NewsIsNotAhead
<1>5. Generations /\ Matched /\ ExpiredOK
  BY <1>1, <1>2 DEF Generations, Matched, ExpiredOK, Member
<1> QED
  BY <1>1, <1>3, <1>4, <1>5 DEF IInv

(* Every step of every goroutine, and of the timers, keeps it. *)
LEMMA NextIInv == IInv /\ [Next]_vars => IInv'
<1> SUFFICES ASSUME IInv, [Next]_vars PROVE IInv'
  OBVIOUS
<1>1. ASSUME NEW s \in Sessions, AttachRefused(s) PROVE IInv'
  BY <1>1, AttachRefusedQuiet, QuietKeeps
<1>2. ASSUME NEW s \in Sessions, BeginCreate(s) \/ BeginJoin(s) \/ BeginReattach(s) PROVE IInv'
  BY <1>2, BeginQuiet, QuietKeeps
<1>3. ASSUME NEW s \in Sessions, Ping(s) \/ Relay(s) \/ Sync(s) \/ BadMessage(s) \/ ReadFails(s)
      PROVE  IInv'
  BY <1>3, PingQuiet, RelayQuiet, SyncQuiet, BadMessageQuiet, ReadFailsQuiet, QuietKeeps
<1>4. ASSUME NEW s \in Sessions, Main(s) PROVE IInv'
  <2>1. CASE AttachCreate(s) \/ AttachJoin(s) \/ AttachReattach(s)
    BY <2>1, AttachingKeeps
  <2>2. CASE CreateReplies(s) \/ Announce(s)
    BY <2>2, CreateRepliesQuiet, AnnounceQuiet, QuietKeeps
  <2>3. CASE PartnerGone(s) \/ Expired(s)
    BY <2>3, RoomEndQuiet, QuietKeeps
  <2>4. CASE SyncAnswers(s)
    BY <2>4, SyncAnswersQuiet, QuietKeeps
  <2>5. CASE Detach(s)
    BY <2>5, DetachKeeps
  <2>6. CASE Leave(s) \/ End(s)
    BY <2>6, LeaveQuiet, EndQuiet, QuietKeeps
  <2> QED
    BY <1>4, <2>1, <2>2, <2>3, <2>4, <2>5, <2>6 DEF Main
<1>5. ASSUME NEW s \in Sessions, BusDelivers(s) PROVE IInv'
  BY <1>5, BusDeliversQuiet, QuietKeeps
<1>6. ASSUME NEW s \in Sessions, Write(s) \/ WriterCloses(s) PROVE IInv'
  BY <1>6, WriteQuiet, WriterClosesQuiet, QuietKeeps
<1>7. CASE Timers
  BY <1>7, TimersQuiet, QuietKeeps
<1>8. CASE UNCHANGED vars
  <2>1. rooms' = rooms /\ session' = session /\ subs' = subs /\ inbox' = inbox
    BY <1>8 DEF vars
  <2>2. QuietStep
    BY <2>1, NobodyMoves, RoomStays, InboxStays DEF QuietStep, IInv
  <2> QED
    BY <2>2, QuietKeeps
<1> QED
  BY <1>1, <1>2, <1>3, <1>4, <1>5, <1>6, <1>7, <1>8 DEF Next

(* It is an invariant. *)
LEMMA Invariance == Spec => []IInv
BY InitIInv, NextIInv, PTL DEF Spec

-----------------------------------------------------------------------------
(* What follows *)

(* Every field of every session stays in its range, no queue of messages   *)
(* exceeds the capacity of its channel, and no subscription that of the bus. *)
THEOREM TypeCorrect == Spec => []TypeOK
<1>1. IInv => TypeOK
  BY DEF IInv, SessionsOK, Sound, SessionType, NewsIsNotAhead, TypeOK, Partners
<1> QED
  BY <1>1, Invariance, PTL

(* Trace T1: whatever the order in which the announcements of several      *)
(* reattaches arrive, no session that holds its slot is superseded.        *)
THEOREM FenceHolds == Spec => []OnlyOlderSuperseded
<1>1. IInv => OnlyOlderSuperseded
  <2> SUFFICES ASSUME IInv, NEW s \in Sessions, session[s].closing = "superseded", Holds(s)
               PROVE  FALSE
    BY DEF OnlyOlderSuperseded
  <2>1. session[s].gen > 0 /\ session[s].gen \in Nat
        /\ Member(session[s].peer) /\ SlotOf(session[s].peer).gen = session[s].gen
    BY SessionTypes DEF Holds, Member, SlotOf, IInv
  <2>2. session[s].gen < SlotOf(session[s].peer).gen
    BY <2>1 DEF IInv, Generations
  <2> QED
    BY <2>1, <2>2
<1> QED
  BY <1>1, Invariance, PTL

(* A slot is connected exactly while a session that holds it has not       *)
(* recorded its end: no late detach of an older session takes a peer away. *)
THEOREM SlotsMatch == Spec => []SlotsMatchSessions
<1>1. IInv => SlotsMatchSessions
  <2> SUFFICES ASSUME IInv, Room # NoRoom, NEW p \in Store!Members(Room)
               PROVE  Store!FindSlot(Room, p).connected <=>
                        \E s \in Sessions : /\ session[s].peer = p /\ Holds(s)
                                            /\ session[s].main \notin {"leaving", "waiting"}
    BY DEF SlotsMatchSessions
  <2>1. Room \in Store!Room
    BY RoomType DEF IInv
  <2>2. p \in Sessions
    BY <2>1, StoreAssumption DEF Store!Members, Store!Room, Store!Slot
  <2>3. Member(p)
    BY <2>1, <2>2, FoundSlot DEF Member
  <2>4. ASSUME NEW s \in Sessions, session[s].peer = p
        PROVE  Live(session[s]) /\ session[s].gen = SlotOf(p).gen <=>
                 Holds(s) /\ session[s].main \notin {"leaving", "waiting"}
    BY <2>3, <2>4 DEF Live, Holds, Gone, Member, SlotOf
  <2> QED
    BY <2>2, <2>3, <2>4 DEF IInv, Matched, SlotOf
<1> QED
  BY <1>1, Invariance, PTL

(* Trace T4: while the replies are kept, no client has news of its partner *)
(* or a relayed message before the reply to its attach.                    *)
THEOREM RepliesComeFirst == ASSUME Replies \subseteq Watched PROVE Spec => []RepliesFirst
<1>1. IInv => RepliesFirst
  <2> SUFFICES ASSUME IInv, NEW s \in Sessions,
                      session[s].told # {} \/ session[s].partner # "unknown"
               PROVE  session[s].told \cap Replies # {}
    BY DEF RepliesFirst
  <2>1. ~Silent(session[s])
    BY DEF Silent
  <2>2. Served(session[s])
    BY <2>1, StageFacts DEF Served
  <2> QED
    BY <2>2, StageFacts DEF Sound, ReplyDue, Replied
<1> QED
  BY <1>1, Invariance, PTL

(* A client that is closed because the room is over has read the message   *)
(* that says so.                                                           *)
THEOREM ClosureIsTold == ASSUME "room_closed" \in Watched PROVE Spec => []RoomClosedIsTold
<1>1. IInv => RoomClosedIsTold
  BY StageFacts DEF RoomClosedIsTold, Sound, NoticeDue
<1> QED
  BY <1>1, Invariance, PTL

(* The Close that follows a heartbeat's Expired, two calls of the store    *)
(* with other sessions' calls in between, never takes a paired room.       *)
THEOREM ExpiryIsSafe == Spec => ExpiryClosesOnlyWaiting
<1>1. IInv /\ [Next]_vars =>
        [\A s \in Sessions :
           session[s].main = "expired" /\ session'[s].main # "expired" /\ Room # NoRoom =>
             Room.state # "paired"]_vars
  BY DEF IInv, ExpiredOK
<1> QED
  BY <1>1, Invariance, PTL DEF Spec, ExpiryClosesOnlyWaiting

-----------------------------------------------------------------------------
(* The pairing is announced: the invariant *)

(* A session subscribes before it changes the room. *)
Subscribed == \A s \in Sessions : session[s].main \notin {"first", "over"} => s \in subs

(* No client asks for a snapshot in the middle of its session. *)
NoSnapshots == /\ "sync" \notin events
               /\ \A s \in Sessions : session[s].main # "synced"

(* A paired room has its second slot. *)
Completed == Room # NoRoom /\ Room.state = "paired" => Room.joiner # NoSlot

(* The client of this session holds one of the slots of a pairing.         *)
Due(s) == LET x == session[s]
          IN /\ Hears(x) /\ Member(x.peer) /\ SlotOf(x.peer).gen = x.gen
             /\ Room.state = "paired"

(* News of the partner is in its inbox, or about to be published.          *)
Heard(s) == \E i \in 1 .. Len(inbox[s]) : Tells(inbox[s][i], session[s].peer)

Awaited(s) == \E t \in Sessions : OwesJoin(session[t]) /\ session[t].peer # session[s].peer

Informed == \A s \in Sessions : Due(s) => Knows(session[s]) \/ Heard(s) \/ Awaited(s)

NInv == Subscribed /\ NoSnapshots /\ Completed /\ Informed

(* No subscriber is so slow that its next envelope would be dropped. *)
NeverFull == \A t \in Sessions : Len(inbox[t]) < BusCap

InboxKept(t) == \A i \in 1 .. Len(inbox[t]) :
                  i \in 1 .. Len(inbox'[t]) /\ inbox'[t][i] = inbox[t][i]

(* What a session is due it was due, when its attachment is the same. *)
LEMMA DueBefore ==
  ASSUME IInv, SteadyRoom(Room, Room'), NEW s \in Sessions, Due(s)', Hears(session[s]),
         session'[s].gen = session[s].gen, session'[s].peer = session[s].peer
  PROVE  Due(s)
<1>1. session[s].peer \in Sessions
  BY SessionTypes DEF IInv
<1>2. Member(session[s].peer)' /\ SlotOf(session[s].peer)'.gen = session[s].gen
  BY DEF Due, Member, SlotOf
<1>3. Member(session[s].peer) /\ SlotOf(session[s].peer).gen = session[s].gen
  BY <1>1, <1>2, MemberKept DEF Member, SlotOf
<1>4. Room.state = "paired"
  BY DEF Due, SteadyRoom, Member
<1> QED
  BY <1>3, <1>4 DEF Due

(* A step in which every client goes on hearing what it would have heard.  *)
LEMMA CarriedInformed ==
  ASSUME IInv, Informed, SteadyRoom(Room, Room'),
         \A t \in Sessions : Carries(session[t], session'[t]),
         \A t \in Sessions : Hears(session'[t]) => InboxKept(t)
  PROVE  Informed'
<1> SUFFICES ASSUME NEW s \in Sessions, Due(s)'
             PROVE  Knows(session'[s]) \/ Heard(s)' \/ Awaited(s)'
  BY DEF Informed
<1>1. Hears(session'[s])
  BY DEF Due
<1>2. /\ Hears(session[s]) /\ session'[s].gen = session[s].gen
      /\ session'[s].peer = session[s].peer
      /\ Knows(session[s]) => Knows(session'[s])
  BY <1>1 DEF Carries
<1>3. Knows(session[s]) \/ Heard(s) \/ Awaited(s)
  BY <1>2, DueBefore DEF Informed
<1>4. CASE Heard(s)
  <2>1. InboxKept(s)
    BY <1>1
  <2> QED
    BY <1>2, <1>4, <2>1 DEF Heard, InboxKept
<1>5. CASE Awaited(s)
  <2>1. PICK t \in Sessions : OwesJoin(session[t]) /\ session[t].peer # session[s].peer
    BY <1>5 DEF Awaited
  <2>2. OwesJoin(session'[t]) /\ session'[t].peer = session[t].peer
    BY <2>1 DEF Carries
  <2> QED
    BY <1>2, <2>1, <2>2 DEF Awaited
<1> QED
  BY <1>2, <1>3, <1>4, <1>5

(* One session moves; it subscribed before, does now, or is over. *)
LEMMA OneListens ==
  ASSUME IInv, Subscribed, NoSnapshots, NEW s \in Sessions, NEW y,
         session' = [session EXCEPT ![s] = y], events' = events, y.main # "synced",
         \/ session[s].main \notin {"first", "over"} /\ subs' = subs
         \/ subs' = subs \cup {s}
         \/ y.main = "over" /\ subs' \in {subs, subs \ {s}}
  PROVE  Subscribed' /\ NoSnapshots'
<1>1. \A t \in Sessions : session'[t] = IF t = s THEN y ELSE session[t]
  BY DEF IInv, SessionsOK
<1>2. Subscribed'
  BY <1>1 DEF Subscribed
<1>3. NoSnapshots'
  BY <1>1 DEF NoSnapshots
<1> QED
  BY <1>2, <1>3

(* One session moves and takes nothing from any client. *)
LEMMA OneCarries ==
  ASSUME IInv, Informed, SteadyRoom(Room, Room'), NEW s \in Sessions, NEW y,
         session' = [session EXCEPT ![s] = y], Carries(session[s], y),
         \A t \in Sessions : Hears(session'[t]) => InboxKept(t)
  PROVE  Informed'
<1>1. \A t \in Sessions : session'[t] = IF t = s THEN y ELSE session[t]
  BY DEF IInv, SessionsOK
<1>2. \A t \in Sessions : Carries(session[t], session[t])
  BY DEF Carries
<1>3. \A t \in Sessions : Carries(session[t], session'[t])
  BY <1>1, <1>2
<1> QED
  BY <1>3, CarriedInformed

(* The inboxes stay. *)
LEMMA SameInboxes == ASSUME inbox' = inbox PROVE \A t \in Sessions : InboxKept(t)
BY DEF InboxKept

(* What is published goes behind what an inbox holds. *)
LEMMA GrownInboxes ==
  ASSUME IInv, NEW s \in Sessions, NEW kind, Announces(s, kind)
  PROVE  subs' = subs /\ \A t \in Sessions : InboxKept(t)
<1> DEFINE env == [from |-> session[s].peer, gen |-> session[s].gen, kind |-> kind]
<1>1. PICK deaf : Publish(session[s].peer, session[s].gen, kind, deaf)
  BY DEF Announces
<1>2. /\ subs' = subs
      /\ \A t \in Sessions : inbox'[t] \in {inbox[t], Append(inbox[t], env)}
  BY <1>1 DEF Publish
<1> HIDE DEF env
<1>3. ASSUME NEW t \in Sessions PROVE InboxKept(t)
  <2>1. inbox[t] \in Seq(Envelope)
    BY DEF IInv, NewsIsNotAhead
  <2>2. CASE inbox'[t] = inbox[t]
    BY <2>2 DEF InboxKept
  <2>3. CASE inbox'[t] = Append(inbox[t], env)
    <3>1. /\ Len(Append(inbox[t], env)) = Len(inbox[t]) + 1 /\ Len(inbox[t]) \in Nat
          /\ \A i \in 1 .. Len(inbox[t]) : Append(inbox[t], env)[i] = inbox[t][i]
      BY <2>1
    <3> QED
      BY <2>3, <3>1 DEF InboxKept
  <2> QED
    BY <1>2, <2>2, <2>3
<1> QED
  BY <1>2, <1>3

(* News of a peer reaches every other client that hears. *)
LEMMA Delivered ==
  ASSUME IInv, Subscribed, NeverFull, NEW s \in Sessions,
         NEW kind \in {"peer_joined", "peer_reattached", "peer_disconnected"},
         Announces(s, kind),
         NEW t \in Sessions, Hears(session[t]), session[t].peer # session[s].peer
  PROVE  \E i \in 1 .. Len(inbox'[t]) : Tells(inbox'[t][i], session[t].peer)
<1> DEFINE env == [from |-> session[s].peer, gen |-> session[s].gen, kind |-> kind]
<1>1. t \in subs
  BY StageFacts DEF Subscribed, Hears, StageOK, Before
<1>2. session[t].writer # "over"
  BY StageFacts DEF Hears, Sound, NoticeDue
<1>3. session[t].main # "waiting" /\ session[t].bus # "over" /\ Len(inbox[t]) < BusCap
  BY DEF Hears, NeverFull
<1>4. inbox'[t] = Append(inbox[t], env)
  BY <1>1, <1>2, <1>3 DEF Announces, Publish
<1>5. inbox[t] \in Seq(Envelope)
  BY DEF IInv, NewsIsNotAhead
<1>6. Tells(env, session[t].peer)
  BY DEF Tells
<1> HIDE DEF env
<1>7. Len(inbox'[t]) = Len(inbox[t]) + 1 /\ inbox'[t][Len(inbox[t]) + 1] = env
      /\ Len(inbox[t]) \in Nat
  BY <1>4, <1>5
<1> QED
  BY <1>6, <1>7

-----------------------------------------------------------------------------
(* A paired room keeps its second slot *)

(* Writing a slot, or closing the room, takes no slot away. *)
LEMMA SlotsStay ==
  ASSUME NEW r \in Store!Room, r.joiner # NoSlot, NEW p \in Sessions, NEW k \in Store!Slot
  PROVE  /\ Store!WithSlot(r, p, k).joiner # NoSlot
         /\ [r EXCEPT !.state = "closed"].state = "closed"
<1>1. k # NoSlot
  BY StoreAssumption
<1> QED
  BY <1>1 DEF Store!WithSlot, Store!Room

(* The calls that change nothing but a slot, or close. *)
LEMMA CallCompleted ==
  ASSUME Store!TypeOK, Completed, NEW p \in Sessions, NEW gen,
         \/ Store!Create(Code, p) \/ Store!Join(Code, p) \/ Store!Reattach(Code, p, p)
         \/ Store!ReattachGone(Code, p, p) \/ Store!Heartbeat(Code, p, gen)
         \/ Store!Disconnect(Code, p, gen) \/ Store!Close(Code)
  PROVE  Completed'
<1> DEFINE j == Store!FindSlot(Room, p)
<1>1. Room \in Store!Room \cup {NoRoom}
  BY RoomType
<1>2. rooms = [c \in {Code} |-> rooms[c]]
  BY DEF Store!TypeOK
<1>3. ASSUME NEW w, rooms' = [rooms EXCEPT ![Code] = w] PROVE Room' = w
  BY <1>2, <1>3 DEF Room
<1>4. CASE Store!Create(Code, p)
  BY <1>4, CreateMakes DEF Completed
<1>5. CASE Store!Join(Code, p)
  <2> DEFINE w == [Room EXCEPT !.joiner = Store!NewSlot(p), !.state = "paired"]
  <2>1. Room \in Store!Room
    BY <1>1, <1>5 DEF Store!Join, Store!JoinResult, Room
  <2>2. rooms' = [rooms EXCEPT ![Code] = w]
    BY <1>2, <1>5 DEF Store!Join, Room
  <2>3. w.joiner = Store!NewSlot(p)
    BY <2>1 DEF Store!Room
  <2> HIDE DEF w
  <2> QED
    BY <1>3, <2>2, <2>3, NewAttachment DEF Completed
<1>6. ASSUME NEW k \in Store!Slot, Room # NoRoom, j # NoSlot,
             NEW w, w = Store!WithSlot(Room, p, k),
             rooms' = [rooms EXCEPT ![Code] = w] \/ rooms' = [rooms EXCEPT ![Code] = [w EXCEPT !.state = "closed"]]
      PROVE  Completed'
  <2>1. Room \in Store!Room
    BY <1>1, <1>6
  <2>2. w \in Store!Room /\ w.state = Room.state
    BY <2>1, <1>6 DEF Store!WithSlot, Store!Room
  <2>3. CASE rooms' = [rooms EXCEPT ![Code] = w]
    <3>1. Room' = w
      BY <1>3, <2>3
    <3>2. Room.joiner # NoSlot => w.joiner # NoSlot
      BY <1>6, <2>1, SlotsStay
    <3> QED
      BY <1>6, <2>2, <3>1, <3>2 DEF Completed
  <2>4. CASE rooms' = [rooms EXCEPT ![Code] = [w EXCEPT !.state = "closed"]]
    <3>1. Room' = [w EXCEPT !.state = "closed"]
      BY <1>3, <2>4
    <3>2. [w EXCEPT !.state = "closed"].state = "closed"
      BY <2>2 DEF Store!Room
    <3> QED
      BY <3>1, <3>2 DEF Completed
  <2> QED
    BY <1>6, <2>3, <2>4
<1>7. Room # NoRoom /\ j # NoSlot => j \in Store!Slot
  BY <1>1, FoundSlot
<1>8. CASE Store!Reattach(Code, p, p)
  <2> DEFINE k == Store!Reclaimed(j)
             w == Store!WithSlot(Room, p, k)
  <2>1. Room # NoRoom /\ j # NoSlot /\ rooms' = [rooms EXCEPT ![Code] = w]
    BY <1>8 DEF Store!Reattach, Store!ReattachResult, Room
  <2>2. k \in Store!Slot
    BY <1>7, <2>1, AgesGrow DEF Store!Slot, Store!Reclaimed
  <2> HIDE DEF k
  <2> QED
    BY <1>6, <2>1, <2>2
<1>9. CASE Store!Heartbeat(Code, p, gen)
  <2> DEFINE k == [j EXCEPT !.lastSeen = 0]
             w == Store!WithSlot(Room, p, k)
  <2>1. Room # NoRoom /\ j # NoSlot
    BY <1>9 DEF Store!Heartbeat, Store!HeartbeatResult, Room
  <2>2. \/ rooms' = [rooms EXCEPT ![Code] = w]
        \/ rooms' = [rooms EXCEPT ![Code] = [w EXCEPT !.state = "closed"]]
    BY <1>9 DEF Store!Heartbeat, Room
  <2>3. k \in Store!Slot
    BY <1>7, <2>1, AgesGrow DEF Store!Slot
  <2> HIDE DEF k
  <2> QED
    BY <1>6, <2>1, <2>2, <2>3
<1>10. CASE Store!Disconnect(Code, p, gen)
  <2> DEFINE k == Store!Dropped(j)
             w == Store!WithSlot(Room, p, k)
  <2>1. Room # NoRoom /\ j # NoSlot
    BY <1>10 DEF Store!Disconnect, Store!DisconnectResult, Room
  <2>2. rooms' = rooms \/ rooms' = [rooms EXCEPT ![Code] = w]
    BY <1>10 DEF Store!Disconnect, Room
  <2>3. k \in Store!Slot
    BY <1>7, <2>1, AgesGrow DEF Store!Slot, Store!Dropped
  <2>4. rooms' = rooms => Completed'
    BY DEF Completed, Room
  <2> HIDE DEF k
  <2> QED
    BY <1>6, <2>1, <2>2, <2>3, <2>4
<1>11. CASE Store!ReattachGone(Code, p, p) \/ Store!Close(Code)
  <2> DEFINE w == [Room EXCEPT !.state = "closed"]
  <2>1. Room # NoRoom
    BY <1>11 DEF Store!ReattachGone, Store!ReattachResult, Store!Close, Store!CloseResult, Room
  <2>2. rooms' = [rooms EXCEPT ![Code] = w]
    BY <1>11 DEF Store!ReattachGone, Store!Close, Room
  <2>3. w.state = "closed"
    BY <1>1, <2>1 DEF Store!Room
  <2> HIDE DEF w
  <2> QED
    BY <1>3, <2>2, <2>3 DEF Completed
<1> QED
  BY <1>4, <1>5, <1>8, <1>9, <1>10, <1>11

(* So do the timers. *)
LEMMA TimersCompleted ==
  ASSUME Store!TypeOK, Completed, Store!Tick \/ Store!Sweep
  PROVE  Completed'
<1>1. Room \in Store!Room \cup {NoRoom} /\ Code \in {Code}
  BY RoomType
<1>2. CASE Store!Sweep
  <2>1. Room' = Store!Swept(Room)
    BY <1>2 DEF Store!Sweep, Room
  <2>2. \/ Room' = NoRoom \/ Room' = Room
        \/ Room \in Store!Room /\ Room' = [Room EXCEPT !.state = "closed"]
    BY <1>1, <2>1 DEF Store!Swept
  <2> QED
    BY <2>2 DEF Completed, Store!Room
<1>3. CASE Store!Tick
  <2>1. Room' = Store!OlderRoom(Room)
    BY <1>3 DEF Store!Tick, Room
  <2>2. CASE Room = NoRoom
    BY <2>1, <2>2 DEF Store!OlderRoom, Completed
  <2>3. CASE Room # NoRoom
    <3>1. Room \in Store!Room
      BY <1>1, <2>3
    <3>2. Room'.state = Room.state /\ Room'.joiner = Store!OlderSlot(Room.joiner)
      BY <2>1, <2>3, <3>1 DEF Store!OlderRoom, Store!Room
    <3>3. ASSUME Room.joiner # NoSlot PROVE Store!OlderSlot(Room.joiner) # NoSlot
      <4>1. Room.joiner \in Store!Slot
        BY <3>1, <3>3 DEF Store!Room
      <4>2. Store!OlderSlot(Room.joiner) \in Store!Slot
        BY <3>3, <4>1, AgesGrow, StoreAssumption DEF Store!OlderSlot, Store!Slot
      <4> QED
        BY <4>2, StoreAssumption
    <3> QED
      BY <2>3, <3>2, <3>3 DEF Completed
  <2> QED
    BY <2>2, <2>3
<1> QED
  BY <1>2, <1>3

(* So does every step. *)
LEMMA CompletedKept ==
  ASSUME IInv, Completed, [Next]_vars
  PROVE  Completed'
<1>1. Store!TypeOK /\ \A s \in Sessions : session[s].peer \in Sessions
  BY SessionTypes DEF IInv
<1>2. CASE rooms' = rooms
  BY <1>2 DEF Completed, Room
<1>3. ASSUME NEW s \in Sessions, rooms' # rooms,
             \/ AttachRefused(s) \/ BeginCreate(s) \/ BeginJoin(s) \/ BeginReattach(s)
             \/ Relay(s) \/ Sync(s) \/ BadMessage(s) \/ ReadFails(s) \/ CreateReplies(s)
             \/ Announce(s) \/ PartnerGone(s) \/ SyncAnswers(s) \/ Leave(s) \/ End(s)
             \/ BusDelivers(s) \/ Write(s) \/ WriterCloses(s)
      PROVE  FALSE
  BY <1>3 DEF AttachRefused, BeginCreate, BeginJoin, BeginReattach, Relay, Sync, BadMessage,
              ReadFails, CreateReplies, Announce, PartnerGone, SyncAnswers, Leave, End,
              BusDelivers, Write, WriterCloses
<1>4. ASSUME NEW s \in Sessions, rooms' # rooms,
             \/ Ping(s) \/ AttachCreate(s) \/ AttachJoin(s) \/ AttachReattach(s)
             \/ Expired(s) \/ Detach(s)
      PROVE  Completed'
  <2> DEFINE x == session[s]
  <2>1. \/ Store!Create(Code, x.peer) \/ Store!Join(Code, x.peer)
        \/ Store!Reattach(Code, x.peer, x.peer) \/ Store!ReattachGone(Code, x.peer, x.peer)
        \/ Store!Heartbeat(Code, x.peer, x.gen)
        \/ Store!Disconnect(Code, x.peer, x.gen) \/ Store!Close(Code)
    BY <1>4 DEF Ping, AttachCreate, AttachJoin, AttachReattach, Expired, Detach, DetachGen
  <2>2. PICK p \in Sessions : p = x.peer
    BY <1>1
  <2>3. PICK gen : gen = x.gen
    OBVIOUS
  <2> QED
    BY <1>1, <2>1, <2>2, <2>3, CallCompleted
<1>5. CASE Timers
  BY <1>1, <1>5, TimersCompleted DEF Timers
<1>6. CASE UNCHANGED vars
  BY <1>2, <1>6 DEF vars
<1> QED
  BY <1>2, <1>3, <1>4, <1>5, <1>6 DEF Next, Main

-----------------------------------------------------------------------------
(* The steps that take nothing from any client *)

(* One session moves, and publishes or loses its channel at most. *)
LEMMA PlainMove ==
  ASSUME IInv, NInv, SteadyRoom(Room, Room'), NEW s \in Sessions, NEW y,
         session' = [session EXCEPT ![s] = y], events' = events,
         Carries(session[s], y), y.main # "synced",
         \/ session[s].main \notin {"first", "over"} /\ subs' = subs
         \/ subs' = subs \cup {s}
         \/ y.main = "over" /\ subs' \in {subs, subs \ {s}},
         \/ inbox' = inbox
         \/ \E kind \in Kinds : Announces(s, kind)
         \/ ~Hears(y) /\ inbox' = [inbox EXCEPT ![s] = <<>>]
  PROVE  Subscribed' /\ NoSnapshots' /\ Informed'
<1>1. Subscribed' /\ NoSnapshots'
  BY OneListens DEF NInv
<1>2. \A t \in Sessions : Hears(session'[t]) => InboxKept(t)
  <2>1. CASE inbox' = inbox \/ \E kind \in Kinds : Announces(s, kind)
    BY <2>1, SameInboxes, GrownInboxes
  <2>2. CASE ~Hears(y) /\ inbox' = [inbox EXCEPT ![s] = <<>>]
    <3>1. /\ \A t \in Sessions : session'[t] = IF t = s THEN y ELSE session[t]
          /\ \A t \in Sessions \ {s} : inbox'[t] = inbox[t]
      BY <2>2 DEF IInv, SessionsOK, NewsIsNotAhead
    <3> QED
      BY <2>2, <3>1 DEF InboxKept
  <2> QED
    BY <2>1, <2>2
<1> QED
  BY <1>1, <1>2, OneCarries DEF NInv

(* The room of a quiet step. *)
LEMMA QuietRoom == IInv /\ QuietStep => SteadyRoom(Room, Room')
BY QuietIsSteady DEF SteadyStep

(* A session that was not attached, or waited for its writer, is over. *)
LEMMA EndedTells ==
  ASSUME IInv, NInv, QuietStep, NEW s \in Sessions,
         session[s].main \in Before \cup {"waiting"}, SessionIs(s, Ended(s)),
         Unsubscribe(s) \/ (inbox' = inbox /\ subs' = subs)
  PROVE  Subscribed' /\ NoSnapshots' /\ Informed'
<1>1. PICK y : y = Ended(s)
  OBVIOUS
<1>2. y.main = "over" /\ y.gen = 0
  BY <1>1, StageFacts, EndedSound
<1>3. ~Hears(y) /\ ~OwesJoin(session[s])
  BY <1>2 DEF Hears, OwesJoin, Before
<1> QED
  BY <1>1, <1>2, <1>3, DeafCarries, QuietRoom, PlainMove DEF SessionIs, Unsubscribe

(* The first message is read. *)
LEMMA BeginTells ==
  ASSUME IInv, NInv, NEW s \in Sessions, BeginCreate(s) \/ BeginJoin(s) \/ BeginReattach(s)
  PROVE  Subscribed' /\ NoSnapshots' /\ Informed'
<1>1. session[s].main = "first" /\ inbox' = inbox /\ subs' = subs \cup {s} /\ events' = events
  BY DEF BeginCreate, BeginJoin, BeginReattach, Subscribe, SessionIs
<1>2. SessionType(session[s]) /\ session[s].gen = 0
  BY <1>1, StageFacts DEF Before, Sound
<1>3. PICK y : /\ session' = [session EXCEPT ![s] = y] /\ y.gen = 0
               /\ y.main \in {"create", "join", "reattach"}
  <2>1. CASE BeginCreate(s) \/ BeginJoin(s)
    <3>1. PICK m \in {"create", "join"} : session' = [session EXCEPT ![s] = At(session[s], m)]
      BY <2>1 DEF BeginCreate, BeginJoin, SessionIs
    <3>2. At(session[s], m).gen = 0 /\ At(session[s], m).main = m
      BY <1>2 DEF SessionType, At
    <3> QED
      BY <3>1, <3>2
  <2>2. CASE BeginReattach(s)
    <3>1. PICK p : session' = [session EXCEPT ![s] = [session[s] EXCEPT !.main = "reattach", !.peer = p]]
      BY <2>2 DEF BeginReattach, SessionIs
    <3>2. /\ [session[s] EXCEPT !.main = "reattach", !.peer = p].gen = 0
          /\ [session[s] EXCEPT !.main = "reattach", !.peer = p].main = "reattach"
      BY <1>2 DEF SessionType
    <3> QED
      BY <3>1, <3>2
  <2> QED
    BY <2>1, <2>2
<1>4. ~Hears(y) /\ ~OwesJoin(session[s])
  BY <1>1, <1>3 DEF Hears, OwesJoin
<1> QED
  BY <1>1, <1>3, <1>4, DeafCarries, BeginQuiet, QuietRoom, PlainMove

(* What readLoop's steps start from. *)
LEMMA ServeFacts ==
  ASSUME IInv, NEW s \in Sessions,
         session[s].main \in {"serve", "gone", "expired", "detach", "leaving"}
  PROVE  /\ Sound(session[s]) /\ SessionType(session[s]) /\ Served(session[s])
         /\ session[s].main \notin {"first", "over", "created", "waiting", "announce"}
BY StageFacts DEF Served, Before, Sound

(* A session whose client hears no more goes on to another step. *)
LEMMA DeafHandled ==
  ASSUME NEW x, x.main \notin {"created", "waiting", "announce"},
         NEW z, SessionType(z), ~Hears(z), SameStage(x, z)
  PROVE  /\ Carries(x, Handled(z)) /\ Handled(z).main # "synced"
         /\ \A m : Carries(x, At(z, m)) /\ At(z, m).main = m
<1>1. Carries(x, z) /\ z.main \notin {"created", "waiting", "announce"}
  BY DeafCarries DEF SameStage
<1>2. Carries(z, Handled(z)) /\ Handled(z).main # "synced"
  BY <1>1, HandledCarries
<1>3. \A m : Carries(z, At(z, m)) /\ At(z, m).main = m
  BY <1>1, AtCarries
<1>4. Carries(x, Handled(z))
  BY <1>1, <1>2, CarriesOn
<1>5. \A m : Carries(x, At(z, m))
  BY <1>1, <1>3, CarriesOn
<1> QED
  BY <1>2, <1>3, <1>4, <1>5

(* A session is answered by something that is not about its partner. *)
LEMMA AnsweredCarries ==
  ASSUME NEW x, Sound(x), Served(x), x.main \notin {"created", "waiting", "announce"},
         NEW m \in Message, m.partner = "same"
  PROVE  /\ Carries(x, Handled(Sent(x, m))) /\ Handled(Sent(x, m)).main # "synced"
         /\ \A step : /\ Carries(x, At(Sent(x, m), step))
                      /\ At(Sent(x, m), step).main = step
<1>1. PICK z : z = Sent(x, m)
  OBVIOUS
<1>2. Carries(x, z) /\ SameStage(x, z) /\ SessionType(z)
  BY <1>1, SentCarries, SentSound DEF Sound
<1>3. z.main \notin {"created", "waiting", "announce"}
  BY <1>2 DEF SameStage
<1>4. Carries(z, Handled(z)) /\ Handled(z).main # "synced"
  BY <1>2, <1>3, HandledCarries
<1>5. \A step : Carries(z, At(z, step)) /\ At(z, step).main = step
  BY <1>2, <1>3, AtCarries
<1>6. Carries(x, Handled(z))
  BY <1>2, <1>4, CarriesOn
<1>7. \A step : Carries(x, At(z, step))
  BY <1>2, <1>5, CarriesOn
<1> QED
  BY <1>1, <1>4, <1>5, <1>6, <1>7

(* The messages that are not about the partner. *)
LEMMA OtherMessages ==
  \A type \in {"pong", "error", "room_closed", "relay"} :
    Msg(type, "same") \in Message /\ Msg(type, "same").partner = "same"
BY DEF Msg, Message

(* The end of the room is told, and the session closes. *)
LEMMA RoomOverCarries ==
  ASSUME NEW x, Sound(x), Served(x), x.main \notin {"created", "waiting", "announce"},
         NEW m \in Message
  PROVE  /\ Carries(x, Handled(SentAndClosed(x, m, "room_closed")))
         /\ Handled(SentAndClosed(x, m, "room_closed")).main # "synced"
<1>1. PICK z : z = SentAndClosed(x, m, "room_closed")
  OBVIOUS
<1>2. SessionType(z) /\ ~Hears(z) /\ SameStage(x, z)
  <2>1. ~Hears(z) /\ SameStage(x, z)
    BY <1>1, SentAndClosedDeaf
  <2>2. PICK w : w = Sent(x, m)
    OBVIOUS
  <2>3. SessionType(w)
    BY <2>2, SentSound DEF Sound
  <2>4. z = CloseAsked(w, "room_closed")
    BY <1>1, <2>2 DEF SentAndClosed
  <2>5. SessionType(z)
    BY <2>3, <2>4 DEF CloseAsked, SessionType, Reasons
  <2> QED
    BY <2>1, <2>5
<1> QED
  BY <1>1, <1>2, DeafHandled

(* A ping. *)
LEMMA PingTells ==
  ASSUME IInv, NInv, NEW s \in Sessions, Ping(s)
  PROVE  Subscribed' /\ NoSnapshots' /\ Informed'
<1> DEFINE x == session[s]
<1>1. x.main = "serve" /\ inbox' = inbox /\ subs' = subs /\ events' = events
  BY DEF Ping, Reads, busVars, SessionIs
<1>2. /\ Sound(x) /\ SessionType(x) /\ Served(x)
      /\ x.main \notin {"first", "over", "created", "waiting", "announce"}
  BY <1>1, ServeFacts
<1>3. SteadyRoom(Room, Room')
  BY PingQuiet, QuietRoom
<1>4. PICK y : session' = [session EXCEPT ![s] = y] /\ Carries(x, y) /\ y.main # "synced"
  <2>1. ASSUME session' = [session EXCEPT ![s] = Handled(CloseAsked(x, "superseded"))]
        PROVE  \E y : session' = [session EXCEPT ![s] = y] /\ Carries(x, y) /\ y.main # "synced"
    <3>1. PICK z : z = CloseAsked(x, "superseded")
      OBVIOUS
    <3>2. SessionType(z)
      BY <1>2, <3>1 DEF CloseAsked, SessionType, Reasons
    <3>3. ~Hears(z) /\ SameStage(x, z)
      BY <1>2, <3>1, CloseAskedDeaf
    <3>4. Carries(x, Handled(z)) /\ Handled(z).main # "synced"
      BY <1>2, <3>2, <3>3, DeafHandled
    <3> QED
      BY <2>1, <3>1, <3>4
  <2>2. ASSUME session' = [session EXCEPT
                 ![s] = Handled(SentAndClosed(x, Msg("room_closed", "same"), "room_closed"))]
        PROVE  \E y : session' = [session EXCEPT ![s] = y] /\ Carries(x, y) /\ y.main # "synced"
    BY <1>2, <2>2, OtherMessages, RoomOverCarries
  <2>3. ASSUME NEW m \in {"gone", "expired"}, session' = [session EXCEPT ![s] = At(x, m)]
        PROVE  \E y : session' = [session EXCEPT ![s] = y] /\ Carries(x, y) /\ y.main # "synced"
    BY <1>2, <2>3, AtCarries
  <2>4. ASSUME session' = [session EXCEPT ![s] = Handled(Sent(x, Msg("pong", "same")))]
        PROVE  \E y : session' = [session EXCEPT ![s] = y] /\ Carries(x, y) /\ y.main # "synced"
    <3>1. PICK m : m = Msg("pong", "same")
      OBVIOUS
    <3>2. m \in Message /\ m.partner = "same"
      BY <3>1, OtherMessages
    <3>3. Carries(x, Handled(Sent(x, m))) /\ Handled(Sent(x, m)).main # "synced"
      BY <1>2, <3>2, AnsweredCarries
    <3> QED
      BY <2>4, <3>1, <3>3
  <2> QED
    BY <2>1, <2>2, <2>3, <2>4, PingAnswers DEF PingOutcome
<1> QED
  BY <1>1, <1>2, <1>3, <1>4, PlainMove

(* The rest of the two heartbeats that end the room. *)
LEMMA RoomEndTells ==
  ASSUME IInv, NInv, NEW s \in Sessions, PartnerGone(s) \/ Expired(s)
  PROVE  Subscribed' /\ NoSnapshots' /\ Informed'
<1> DEFINE x == session[s]
<1>1. /\ x.main \in {"gone", "expired"} /\ events' = events
      /\ session' = [session EXCEPT
           ![s] = Handled(SentAndClosed(x, Msg("room_closed", "same"), "room_closed"))]
  BY DEF PartnerGone, Expired, SessionIs
<1>2. (\E kind \in Kinds : Announces(s, kind)) \/ inbox' = inbox
  BY DEF PartnerGone, Expired, Kinds, busVars
<1>3. subs' = subs
  BY <1>2, GrownInboxes DEF PartnerGone, Expired, busVars
<1>4. /\ Sound(x) /\ Served(x)
      /\ x.main \notin {"first", "over", "created", "waiting", "announce"}
  BY <1>1, ServeFacts
<1>5. PICK y : /\ y = Handled(SentAndClosed(x, Msg("room_closed", "same"), "room_closed"))
               /\ Carries(x, y) /\ y.main # "synced"
  BY <1>4, OtherMessages, RoomOverCarries
<1> QED
  BY <1>1, <1>2, <1>3, <1>4, <1>5, RoomEndQuiet, QuietRoom, PlainMove

(* A relayed message. *)
LEMMA RelayTells ==
  ASSUME IInv, NInv, NEW s \in Sessions, Relay(s)
  PROVE  Subscribed' /\ NoSnapshots' /\ Informed'
<1>1. /\ session[s].main = "serve" /\ Announces(s, "relay") /\ events' = events
      /\ session' = [session EXCEPT ![s] = Handled(session[s])]
  BY DEF Relay, Reads, SessionIs
<1>2. /\ SessionType(session[s])
      /\ session[s].main \notin {"first", "over", "created", "waiting", "announce"}
  BY <1>1, ServeFacts
<1>3. PICK y : y = Handled(session[s]) /\ Carries(session[s], y) /\ y.main # "synced"
  BY <1>2, HandledCarries
<1>4. subs' = subs /\ "relay" \in Kinds
  BY <1>1, GrownInboxes DEF Kinds
<1> QED
  BY <1>1, <1>2, <1>3, <1>4, RelayQuiet, QuietRoom, PlainMove

(* A message that is not understood. *)
LEMMA BadMessageTells ==
  ASSUME IInv, NInv, NEW s \in Sessions, BadMessage(s)
  PROVE  Subscribed' /\ NoSnapshots' /\ Informed'
<1> DEFINE x == session[s]
           m == Msg("error", "same")
<1>1. /\ x.main = "serve" /\ inbox' = inbox /\ subs' = subs /\ events' = events
      /\ \/ session' = [session EXCEPT ![s] = Handled(Sent(x, m))]
         \/ session' = [session EXCEPT ![s] = Sent(x, m)]
         \/ session' = [session EXCEPT ![s] = At(Sent(x, m), "detach")]
  BY DEF BadMessage, Reads, SessionIs, busVars
<1>2. /\ Sound(x) /\ Served(x)
      /\ x.main \notin {"first", "over", "created", "waiting", "announce"}
  BY <1>1, ServeFacts
<1>3. m \in Message /\ m.partner = "same"
  BY OtherMessages
<1> HIDE DEF m
<1>4. PICK y : session' = [session EXCEPT ![s] = y] /\ Carries(x, y) /\ y.main # "synced"
  <2>1. /\ Carries(x, Handled(Sent(x, m))) /\ Handled(Sent(x, m)).main # "synced"
        /\ Carries(x, At(Sent(x, m), "detach")) /\ At(Sent(x, m), "detach").main = "detach"
    BY <1>2, <1>3, AnsweredCarries
  <2>2. Carries(x, Sent(x, m)) /\ Sent(x, m).main = x.main
    BY <1>2, <1>3, SentCarries DEF SameStage, Sound
  <2> QED
    BY <1>1, <2>1, <2>2
<1> QED
  BY <1>1, <1>2, <1>4, BadMessageQuiet, QuietRoom, PlainMove

(* readLoop ends. *)
LEMMA ReadFailsTells ==
  ASSUME IInv, NInv, NEW s \in Sessions, ReadFails(s)
  PROVE  Subscribed' /\ NoSnapshots' /\ Informed'
<1> DEFINE x == session[s]
<1>1. PICK z : z = SocketClosed(x)
  OBVIOUS
<1>2. /\ x.main = "serve" /\ inbox' = inbox /\ subs' = subs /\ events' = events
      /\ session' = [session EXCEPT ![s] = At(z, "detach")]
  BY <1>1 DEF ReadFails, SessionIs, busVars
<1>3. /\ Sound(x) /\ SessionType(x)
      /\ x.main \notin {"first", "over", "created", "waiting", "announce"}
  BY <1>2, ServeFacts
<1>4. SessionType(z) /\ ~Hears(z) /\ SameStage(x, z)
  BY <1>1, <1>3, SocketClosedSound, SocketClosedDeaf DEF Sound
<1>5. PICK y : y = At(z, "detach") /\ Carries(x, y) /\ y.main # "synced"
  BY <1>3, <1>4, DeafHandled
<1> QED
  BY <1>2, <1>3, <1>5, ReadFailsQuiet, QuietRoom, PlainMove

(* The partner is told of the disconnect. *)
LEMMA LeaveTells ==
  ASSUME IInv, NInv, NEW s \in Sessions, Leave(s)
  PROVE  Subscribed' /\ NoSnapshots' /\ Informed'
<1> DEFINE x == session[s]
<1>1. PICK z : z = CloseAsked(x, "other")
  OBVIOUS
<1>2. /\ x.main = "leaving" /\ Announces(s, "peer_disconnected") /\ events' = events
      /\ session' = [session EXCEPT ![s] = At(z, "waiting")]
  BY <1>1 DEF Leave, SessionIs
<1>3. /\ Sound(x) /\ SessionType(x)
      /\ x.main \notin {"first", "over", "created", "waiting", "announce"}
  BY <1>2, ServeFacts
<1>4. SessionType(z) /\ ~Hears(z) /\ SameStage(x, z)
  <2>1. SessionType(z)
    BY <1>1, <1>3 DEF CloseAsked, SessionType, Reasons
  <2> QED
    BY <1>1, <1>3, <2>1, CloseAskedDeaf
<1>5. PICK y : y = At(z, "waiting") /\ Carries(x, y) /\ y.main # "synced"
  BY <1>3, <1>4, DeafHandled
<1>6. subs' = subs /\ "peer_disconnected" \in Kinds
  BY <1>2, GrownInboxes DEF Kinds
<1> QED
  BY <1>2, <1>3, <1>5, <1>6, LeaveQuiet, QuietRoom, PlainMove

(* detach. *)
LEMMA DetachTells ==
  ASSUME IInv, NInv, NEW s \in Sessions, Detach(s)
  PROVE  Subscribed' /\ NoSnapshots' /\ Informed'
<1> DEFINE x == session[s]
<1>1. PICK z : z = CloseAsked(x, "other")
  OBVIOUS
<1>2. /\ x.main = "detach" /\ inbox' = inbox /\ subs' = subs /\ events' = events
      /\ \/ /\ Store!Disconnect(Code, x.peer, x.gen)
            /\ session' = [session EXCEPT ![s] = At(x, "leaving")]
         \/ rooms' = rooms /\ session' = [session EXCEPT ![s] = At(z, "waiting")]
  BY <1>1 DEF Detach, DetachGen, SessionIs, busVars
<1>3. /\ Sound(x) /\ SessionType(x) /\ x.peer \in Sessions
      /\ x.main \notin {"first", "over", "created", "waiting", "announce"}
  BY <1>2, ServeFacts DEF SessionType
<1>4. SessionType(z) /\ ~Hears(z) /\ SameStage(x, z)
  <2>1. SessionType(z)
    BY <1>1, <1>3 DEF CloseAsked, SessionType, Reasons
  <2> QED
    BY <1>1, <1>3, <2>1, CloseAskedDeaf
<1>5. PICK y : session' = [session EXCEPT ![s] = y] /\ Carries(x, y) /\ y.main # "synced"
  <2>1. Carries(x, At(z, "waiting")) /\ At(z, "waiting").main = "waiting"
    BY <1>3, <1>4, DeafHandled
  <2>2. Carries(x, At(x, "leaving")) /\ At(x, "leaving").main = "leaving"
    BY <1>3, AtCarries
  <2> QED
    BY <1>2, <2>1, <2>2
<1>6. SteadyRoom(Room, Room')
  <2>1. CASE rooms' = rooms
    <3>1. KeptRoom(Room, Room')
      BY <2>1, RoomStays DEF RoomStep
    <3> QED
      BY <3>1 DEF KeptRoom, SteadyRoom
  <2>2. CASE Store!Disconnect(Code, x.peer, x.gen)
    <3>1. PICK p \in Sessions : p = x.peer
      BY <1>3
    <3>2. PICK gen : gen = x.gen
      OBVIOUS
    <3>3. /\ Room # NoRoom /\ Room'.state = Room.state /\ Room'.createdAt = Room.createdAt
          /\ Store!FindSlot(Room, p) # NoSlot /\ Store!FindSlot(Room, p).gen = gen
          /\ Store!FindSlot(Room', p) # NoSlot /\ Store!FindSlot(Room', p).gen = gen
          /\ \A q \in Sessions \ {p} : Store!FindSlot(Room', q) = Store!FindSlot(Room, q)
      BY <2>2, <3>1, <3>2, DisconnectMakes DEF IInv
    <3>4. Room.createdAt \in Nat
      BY <3>3, RoomType, StoreAssumption DEF IInv, Store!Room, Store!Age, Store!AgeCap
    <3> QED
      BY <3>3, <3>4 DEF SteadyRoom
  <2> QED
    BY <1>2, <2>1, <2>2
<1> QED
  BY <1>2, <1>3, <1>5, <1>6, PlainMove

(* writeLoop. *)
LEMMA WriterTells ==
  ASSUME "partner" \in Watched, IInv, NInv, NEW s \in Sessions, Write(s) \/ WriterCloses(s)
  PROVE  Subscribed' /\ NoSnapshots' /\ Informed'
<1> DEFINE x == session[s]
<1>1. /\ x.writer = "on" /\ inbox' = inbox /\ subs' = subs /\ events' = events
      /\ x.out # <<>> \/ x.socket = "closed" \/ x.closing # "none"
  BY DEF Write, WriterCloses, SessionIs, busVars
<1>2. Sound(x) /\ SessionType(x) /\ StageOK(s, x)
  BY StageFacts DEF Sound
<1>3. x.main \notin Before \cup {"created", "over"}
  BY <1>1, <1>2 DEF StageOK, Silent
<1>4. Served(x) /\ x.main \notin {"first", "over"} /\ x.main # "synced"
  BY <1>3 DEF Served, Before, NInv, NoSnapshots
<1>5. ASSUME NEW z, Sound(z), SameStage(x, z), session' = [session EXCEPT ![s] = WriterOver(z)]
      PROVE  \E y : session' = [session EXCEPT ![s] = y] /\ Carries(x, y) /\ y.main # "synced"
  <2>1. ~Hears(WriterOver(z)) /\ SameStage(z, WriterOver(z))
    BY <1>5, WriterOverDeaf
  <2>2. SameStage(x, WriterOver(z)) /\ WriterOver(z).main = x.main
    BY <1>5, <2>1 DEF SameStage
  <2> QED
    BY <1>4, <1>5, <2>1, <2>2, DeafCarries
<1>6. PICK y : session' = [session EXCEPT ![s] = y] /\ Carries(x, y) /\ y.main # "synced"
  <2>1. CASE x.out # <<>> /\ session' = [session EXCEPT ![s] = HeadTold(x)]
    BY <1>1, <1>2, <1>4, <2>1, HeadToldCarries, HeadToldSound DEF SameStage
  <2>2. CASE session' = [session EXCEPT
                 ![s] = WriterOver(CloseAsked(SocketClosed(x), "other"))]
    <3>1. PICK v, w : v = SocketClosed(x) /\ w = CloseAsked(v, "other")
      OBVIOUS
    <3>2. Sound(v) /\ SameStage(x, v)
      BY <1>2, <3>1, SocketClosedSound
    <3>3. Sound(w) /\ SameStage(v, w)
      BY <3>1, <3>2, CloseAskedSound DEF Reasons
    <3>4. SameStage(x, w)
      BY <3>2, <3>3 DEF SameStage
    <3> QED
      BY <1>5, <2>2, <3>1, <3>3, <3>4
  <2>3. CASE session' = [session EXCEPT ![s] = DrainedAndClosed(x)]
    <3>1. PICK y : y = DrainedAndClosed(x)
      OBVIOUS
    <3>2. SameStage(x, y)
      BY <1>2, <1>4, <3>1, DrainedSound
    <3>3. ~Hears(y)
      <4>1. PICK z : y = WriterOver(z) /\ SessionType(z)
        <5> DEFINE types == {x.out[i].type : i \in 1 .. Len(x.out)} \cap Watched
                   z == [x EXCEPT !.told = x.told \cup types]
        <5>1. y = WriterOver(x) \/ y = WriterOver(z)
          BY <3>1 DEF DrainedAndClosed
        <5>2. types \subseteq Watched
          OBVIOUS
        <5> HIDE DEF types
        <5>3. SessionType(z)
          BY <1>2, <5>2 DEF SessionType
        <5> QED
          BY <1>2, <5>1, <5>3
      <4> QED
        BY <4>1 DEF WriterOver, SessionType, Hears
    <3> QED
      BY <1>4, <2>3, <3>1, <3>2, <3>3, DeafCarries DEF SameStage
  <2> QED
    BY <2>1, <2>2, <2>3 DEF Write, WriterCloses, SessionIs
<1> QED
  BY <1>1, <1>4, <1>6, WriteQuiet, WriterClosesQuiet, QuietRoom, PlainMove

(* The clock and the janitor, and a step of something else. *)
LEMMA NobodyTells ==
  ASSUME IInv, NInv, Timers \/ UNCHANGED vars
  PROVE  Subscribed' /\ NoSnapshots' /\ Informed'
<1>1. session' = session /\ inbox' = inbox /\ subs' = subs /\ events' = events
  BY DEF Timers, vars, busVars
<1>2. SteadyRoom(Room, Room')
  <2>1. CASE Timers
    BY <2>1, TimersQuiet, QuietRoom
  <2>2. CASE UNCHANGED vars
    <3>1. KeptRoom(Room, Room')
      BY <2>2, RoomStays DEF RoomStep, vars
    <3> QED
      BY <3>1 DEF KeptRoom, SteadyRoom
  <2> QED
    BY <2>1, <2>2
<1>3. \A t \in Sessions : Carries(session[t], session'[t])
  BY <1>1 DEF Carries
<1>4. Informed'
  BY <1>1, <1>2, <1>3, SameInboxes, CarriedInformed DEF NInv
<1> QED
  BY <1>1, <1>4 DEF NInv, Subscribed, NoSnapshots

-----------------------------------------------------------------------------
(* The steps that tell *)

(* One session moves; it is told of its partner if it has just come to be   *)
(* due that, and the others hear what they would have heard.                *)
LEMMA OneInformed ==
  ASSUME IInv, Informed, SteadyRoom(Room, Room'), NEW s \in Sessions, NEW y,
         session' = [session EXCEPT ![s] = y], ~OwesJoin(session[s]),
         \A t \in Sessions \ {s} : InboxKept(t),
         Due(s)' => Knows(y) \/ Heard(s)' \/ Awaited(s)'
  PROVE  Informed'
<1>1. \A t \in Sessions : session'[t] = IF t = s THEN y ELSE session[t]
  BY DEF IInv, SessionsOK
<1> SUFFICES ASSUME NEW t \in Sessions, Due(t)', t # s
             PROVE  Knows(session'[t]) \/ Heard(t)' \/ Awaited(t)'
  BY <1>1 DEF Informed
<1>2. session'[t] = session[t] /\ InboxKept(t)
  BY <1>1
<1>3. Due(t)
  BY <1>2, DueBefore DEF Due
<1>4. CASE Heard(t)
  BY <1>2, <1>4 DEF Heard, InboxKept
<1>5. CASE Awaited(t)
  <2>1. PICK u \in Sessions : OwesJoin(session[u]) /\ session[u].peer # session[t].peer
    BY <1>5 DEF Awaited
  <2>2. session'[u] = session[u]
    BY <1>1, <2>1
  <2> QED
    BY <1>2, <2>1, <2>2 DEF Awaited
<1> QED
  BY <1>2, <1>3, <1>4, <1>5 DEF Informed

(* Each peer of a room with two slots has a partner. *)
LEMMA PairedSays ==
  ASSUME NEW r \in Store!Room, r.joiner # NoSlot, NEW p
  PROVE  PartnerState(r, p) \in {"present", "away"}
<1>1. r.creator # NoSlot
  BY StoreAssumption DEF Store!Room
<1> QED
  BY <1>1 DEF PartnerState, Store!PartnerOf

(* The creator's reply tells of a joiner that came before it. *)
LEMMA CreateRepliesTells ==
  ASSUME "partner" \in Watched, IInv, NInv, NEW s \in Sessions, CreateReplies(s)
  PROVE  Subscribed' /\ NoSnapshots' /\ Informed'
<1> DEFINE says == IF Room = NoRoom THEN "unknown" ELSE PartnerState(Room, session[s].peer)
<1>1. PICK x, m, z, y : /\ x = session[s] /\ m = Msg("room_created", says)
                        /\ z = Sent(x, m) /\ y = At(z, "serve")
  OBVIOUS
<1>2. /\ x.main = "created" /\ rooms' = rooms /\ inbox' = inbox /\ subs' = subs
      /\ events' = events /\ session' = [session EXCEPT ![s] = y]
  BY <1>1 DEF CreateReplies, SessionIs, busVars
<1>3. says \in Partners /\ m.partner = says
  BY <1>1, PartnerStateType DEF Partners, Msg
<1>4. m \in Message /\ (Replies \subseteq Watched => m.type \in Replies)
  BY <1>1, <1>3, MessageTypes DEF Replies
<1>5. SessionType(x) /\ Silent(x)
  BY <1>1, <1>2, StageFacts DEF Sound
<1>6. SessionType(z)
  BY <1>1, <1>4, <1>5, FirstReply
<1>7. y.main = "serve" /\ y.out = z.out /\ y.partner = z.partner
  BY <1>1, <1>6 DEF At, SessionType
<1>8. Due(s)' => Knows(y)
  <2> SUFFICES ASSUME Due(s)' PROVE Knows(y)
    OBVIOUS
  <2>1. Room # NoRoom /\ Room.state = "paired"
    BY <1>2 DEF Due, Member, Room
  <2>2. Room \in Store!Room /\ Room.joiner # NoSlot
    BY <2>1, RoomType DEF IInv, NInv, Completed
  <2>3. m.partner \in {"present", "away"}
    BY <1>3, <2>1, <2>2, PairedSays
  <2>4. Knows(z)
    BY <1>1, <1>4, <1>5, <2>3, ReplyTells
  <2> QED
    BY <1>7, <2>4 DEF Knows, NotLost
<1>9. Subscribed' /\ NoSnapshots'
  BY <1>1, <1>2, <1>7, OneListens DEF NInv
<1>10. SteadyRoom(Room, Room')
  BY CreateRepliesQuiet, QuietRoom
<1>11. \A t \in Sessions : InboxKept(t)
  BY <1>2, SameInboxes
<1>12. ~OwesJoin(session[s])
  BY <1>1, <1>2 DEF OwesJoin
<1>13. Informed'
  BY <1>2, <1>8, <1>10, <1>11, <1>12, OneInformed DEF NInv
<1> QED
  BY <1>9, <1>13

(* Where the rest of a queue comes from. *)
LEMMA TailShifts ==
  ASSUME NEW S, NEW q \in Seq(S), q # <<>>
  PROVE  /\ Len(q) \in Nat \ {0} /\ Head(q) = q[1] /\ Head(q) \in S
         /\ Len(Tail(q)) = Len(q) - 1
         /\ \A i \in 1 .. Len(Tail(q)) : Tail(q)[i] = q[i + 1]
OBVIOUS

(* What busLoop takes from the inbox of a client it tells the client. *)
LEMMA BusDeliversTells ==
  ASSUME "partner" \in Watched, IInv, NInv, NEW s \in Sessions, BusDelivers(s)
  PROVE  Subscribed' /\ NoSnapshots' /\ Informed'
<1>1. PICK x, env, y : x = session[s] /\ env = Head(inbox[s]) /\ y = Forwarded(x, env)
  OBVIOUS
<1>2. /\ x.main \in {"serve", "synced", "gone", "expired", "detach", "leaving"}
      /\ inbox[s] # <<>> /\ inbox' = [inbox EXCEPT ![s] = Tail(inbox[s])]
      /\ subs' = subs /\ events' = events /\ session' = [session EXCEPT ![s] = y]
  BY <1>1 DEF BusDelivers, BusRuns, Attached, SessionIs
<1>3. x.main \notin {"first", "over", "announce", "synced"} /\ Sound(x) /\ Served(x)
  BY <1>1, <1>2, StageFacts DEF Before, NInv, NoSnapshots
<1>4. /\ inbox[s] \in Seq(Envelope) /\ inbox'[s] = Tail(inbox[s])
      /\ \A t \in Sessions \ {s} : inbox'[t] = inbox[t]
  BY <1>2 DEF IInv, NewsIsNotAhead
<1>5. /\ Len(inbox[s]) \in Nat \ {0} /\ Len(inbox'[s]) = Len(inbox[s]) - 1
      /\ env = inbox[s][1] /\ env \in Envelope
      /\ \A i \in 1 .. Len(inbox'[s]) : inbox'[s][i] = inbox[s][i + 1]
  <2>1. PICK q : q = inbox[s]
    OBVIOUS
  <2>2. q \in Seq(Envelope) /\ q # <<>> /\ inbox'[s] = Tail(q) /\ env = Head(q)
    BY <1>1, <1>2, <1>4, <2>1
  <2> QED
    BY <2>1, <2>2, TailShifts
<1>6. Sound(y) /\ SameStage(x, y)
  BY <1>1, <1>3, <1>5, ForwardedSound
<1>7. /\ Carries(x, y)
      /\ Tells(env, x.peer) /\ Hears(y) => Knows(y)
  BY <1>1, <1>3, <1>5, ForwardedCarries
<1>8. session'[s] = y /\ \A t \in Sessions \ {s} : session'[t] = session[t]
  BY <1>2 DEF IInv, SessionsOK
<1>9. SteadyRoom(Room, Room')
  BY BusDeliversQuiet, QuietRoom
<1>10. Due(s)' => Knows(y) \/ Heard(s)' \/ Awaited(s)'
  <2> SUFFICES ASSUME Due(s)' PROVE Knows(y) \/ Heard(s)' \/ Awaited(s)'
    OBVIOUS
  <2>1. Hears(y)
    BY <1>8 DEF Due
  <2>2. Hears(x) /\ y.gen = x.gen /\ y.peer = x.peer /\ (Knows(x) => Knows(y))
    BY <1>7, <2>1 DEF Carries
  <2>3. Knows(x) \/ Heard(s) \/ Awaited(s)
    BY <1>1, <1>8, <1>9, <2>2, DueBefore DEF NInv, Informed
  <2>4. CASE Heard(s)
    <3>1. PICK i \in 1 .. Len(inbox[s]) : Tells(inbox[s][i], x.peer)
      BY <1>1, <2>4 DEF Heard
    <3>2. CASE i = 1
      BY <1>5, <1>7, <2>1, <3>1, <3>2
    <3>3. CASE i # 1
      <4>1. i - 1 \in 1 .. Len(inbox'[s]) /\ inbox'[s][i - 1] = inbox[s][i]
        BY <1>5, <3>3
      <4> QED
        BY <1>8, <2>2, <3>1, <4>1 DEF Heard
    <3> QED
      BY <3>2, <3>3
  <2>5. CASE Awaited(s)
    <3>1. PICK u \in Sessions : OwesJoin(session[u]) /\ session[u].peer # x.peer
      BY <1>1, <2>5 DEF Awaited
    <3>2. u # s
      BY <1>1, <1>3, <3>1 DEF OwesJoin
    <3> QED
      BY <1>8, <2>2, <3>1, <3>2 DEF Awaited
  <2> QED
    BY <2>2, <2>3, <2>4, <2>5
<1>11. Subscribed' /\ NoSnapshots'
  BY <1>1, <1>2, <1>3, <1>6, OneListens DEF NInv, SameStage
<1>12. ~OwesJoin(session[s])
  BY <1>1, <1>3 DEF OwesJoin
<1>13. \A t \in Sessions \ {s} : InboxKept(t)
  BY <1>4 DEF InboxKept
<1>14. Informed'
  BY <1>2, <1>9, <1>10, <1>12, <1>13, OneInformed DEF NInv
<1> QED
  BY <1>11, <1>14

(* The announcement of a join reaches every client that hears; while there *)
(* is more to announce, it is not that one.                                *)
LEMMA AnnounceTells ==
  ASSUME IInv, NInv, NeverFull, NEW s \in Sessions, Announce(s)
  PROVE  Subscribed' /\ NoSnapshots' /\ Informed'
<1> DEFINE next == IF Len(session[s].owes) = 1 THEN "serve" ELSE "announce"
<1>1. PICK x, y : /\ x = session[s]
                  /\ y = [x EXCEPT !.owes = Tail(x.owes), !.main = next]
  OBVIOUS
<1>2. /\ x.main = "announce" /\ rooms' = rooms /\ Announces(s, Head(x.owes))
      /\ session' = [session EXCEPT ![s] = y] /\ events' = events
  BY <1>1, Zenon DEF Announce, SessionIs
<1>3. /\ SessionType(x) /\ x.owes # <<>> /\ x.owes \in Owed
  BY <1>1, <1>2, StageFacts DEF Sound, SessionType, StageOK
<1>4. next \in {"serve", "announce"}
  OBVIOUS
<1> HIDE DEF next
<1>5. /\ y.main = next /\ y.peer = x.peer /\ y.gen = x.gen /\ y.out = x.out
      /\ y.bus = x.bus /\ y.closing = x.closing /\ y.socket = x.socket
      /\ y.partner = x.partner
  BY <1>1, <1>3 DEF SessionType
<1>6. Hears(y) => Hears(x) /\ (Knows(x) => Knows(y))
  BY <1>2, <1>4, <1>5 DEF Hears, Knows, NotLost
<1>7. x.main \notin {"first", "over"} /\ y.main # "synced"
  BY <1>2, <1>4, <1>5
<1>8. SteadyRoom(Room, Room')
  BY AnnounceQuiet, QuietRoom
<1>9. subs' = subs /\ \A t \in Sessions : InboxKept(t)
  BY <1>2, GrownInboxes
<1>10. CASE ~OwesJoin(x)
  <2>1. Carries(x, y)
    BY <1>5, <1>6, <1>10 DEF Carries
  <2>2. Head(x.owes) \in Kinds
    <3>1. CASE x.owes = <<"peer_joined">>
      BY <3>1 DEF Kinds
    <3>2. CASE x.owes = <<"peer_reattached">>
      BY <3>2 DEF Kinds
    <3>3. CASE x.owes = <<"superseded", "peer_reattached">>
      BY <3>3 DEF Kinds
    <3> QED
      BY <1>3, <3>1, <3>2, <3>3 DEF Owed
  <2> QED
    BY <1>1, <1>2, <1>7, <1>8, <1>9, <2>1, <2>2, PlainMove
<1>11. CASE OwesJoin(x)
  <2>1. Head(x.owes) = "peer_joined"
    BY <1>11 DEF OwesJoin
  <2>2. Announces(s, "peer_joined")
    BY <1>2, <2>1
  <2>3. \A t \in Sessions : session'[t] = IF t = s THEN y ELSE session[t]
    BY <1>2 DEF IInv, SessionsOK
  <2>4. ASSUME NEW t \in Sessions, Due(t)'
        PROVE  Knows(session'[t]) \/ Heard(t)' \/ Awaited(t)'
    <3>1. Hears(session'[t])
      BY <2>4 DEF Due
    <3>2. /\ Hears(session[t]) /\ session'[t].gen = session[t].gen
          /\ session'[t].peer = session[t].peer
          /\ Knows(session[t]) => Knows(session'[t])
      BY <1>1, <1>5, <1>6, <2>3, <3>1
    <3>3. Knows(session[t]) \/ Heard(t) \/ Awaited(t)
      BY <1>8, <2>4, <3>2, DueBefore DEF NInv, Informed
    <3>4. CASE Heard(t)
      BY <1>9, <3>2, <3>4 DEF Heard, InboxKept
    <3>5. CASE Awaited(t)
      <4>1. PICK u \in Sessions : OwesJoin(session[u]) /\ session[u].peer # session[t].peer
        BY <3>5 DEF Awaited
      <4>2. CASE u = s
        <5>1. \E i \in 1 .. Len(inbox'[t]) : Tells(inbox'[t][i], session[t].peer)
          BY <2>2, <3>2, <4>1, <4>2, Delivered DEF NInv
        <5> QED
          BY <3>2, <5>1 DEF Heard
      <4>3. CASE u # s
        BY <2>3, <3>2, <4>1, <4>3 DEF Awaited
      <4> QED
        BY <4>2, <4>3
    <3> QED
      BY <3>2, <3>3, <3>4, <3>5
  <2>5. Subscribed' /\ NoSnapshots'
    BY <1>1, <1>2, <1>7, <1>9, OneListens DEF NInv
  <2> QED
    BY <2>4, <2>5 DEF Informed
<1> QED
  BY <1>10, <1>11

(* The reply to an attach tells of the partner, and one who joins has its  *)
(* announcement to make.                                                   *)
LEMMA AttachTells ==
  ASSUME "partner" \in Watched, IInv, NInv, Completed', NEW s \in Sessions, NEW y, AttachStep(s, y), Introduced(y),
         events' = events, session[s].main # "first"
  PROVE  Subscribed' /\ NoSnapshots' /\ Informed'
<1>1. /\ session' = [session EXCEPT ![s] = y] /\ inbox' = inbox /\ subs' = subs
      /\ session[s].main \in Before /\ y.peer \in Sessions
      /\ Store!TypeOK' /\ Member(y.peer)' /\ SlotOf(y.peer)'.gen = y.gen
      /\ \A q \in Sessions \ {y.peer} : Member(q)' => Member(q) /\ SlotOf(q)' = SlotOf(q)
  BY DEF AttachStep, Sound, SessionType
<1>2. \A t \in Sessions : session'[t] = IF t = s THEN y ELSE session[t]
  BY <1>1 DEF IInv, SessionsOK
<1>3. y.main # "synced" /\ session[s].main \notin {"first", "over"} /\ ~OwesJoin(session[s])
  BY <1>1 DEF Introduced, OwesJoin, Before
<1>4. Subscribed' /\ NoSnapshots'
  BY <1>1, <1>3, OneListens DEF NInv
<1>5. Due(s)' => Knows(y)
  <2> SUFFICES ASSUME Due(s)' PROVE Knows(y)
    OBVIOUS
  <2>1. Hears(y) /\ Room' # NoRoom /\ Room'.state = "paired"
    BY <1>2 DEF Due, Member
  <2>2. Greets(y)
    BY <2>1 DEF Introduced, Hears
  <2>3. Room' \in Store!Room /\ Room'.joiner # NoSlot
    <3>1. Room' \in Store!Room \cup {NoRoom}
      BY <1>1 DEF Store!TypeOK, Room
    <3> QED
      BY <2>1, <3>1 DEF Completed
  <2>4. PartnerState(Room', y.peer) \in {"present", "away"}
    BY <2>3, PairedSays
  <2> QED
    BY <2>2, <2>4 DEF Greets
<1>6. ASSUME NEW t \in Sessions, t # s, Due(t)'
      PROVE  Knows(session'[t]) \/ Heard(t)' \/ Awaited(t)'
  <2>1. session'[t] = session[t] /\ inbox'[t] = inbox[t]
    BY <1>1, <1>2, <1>6
  <2>2. /\ Hears(session[t]) /\ Member(session[t].peer)'
        /\ SlotOf(session[t].peer)'.gen = session[t].gen /\ Room'.state = "paired"
    BY <1>6, <2>1 DEF Due, Member, SlotOf
  <2>3. session[t].gen \in Nat /\ session[t].gen > 0 /\ session[t].peer \in Sessions
    BY <2>2, SessionTypes DEF IInv, Hears
  <2>4. session[t].peer # y.peer
    <3> SUFFICES ASSUME session[t].peer = y.peer PROVE FALSE
      OBVIOUS
    <3>1. session[t].gen < y.gen
      BY <2>3, TakesLatest
    <3> QED
      BY <1>1, <2>2, <2>3, <3>1
  <2>5. Member(session[t].peer) /\ SlotOf(session[t].peer).gen = session[t].gen
    <3>1. PICK q \in Sessions : q = session[t].peer
      BY <2>3
    <3>2. Member(q)' /\ SlotOf(q)'.gen = session[t].gen
      BY <2>1, <2>2, <3>1 DEF Member, SlotOf
    <3>3. Member(q) /\ SlotOf(q)' = SlotOf(q)
      BY <1>1, <2>4, <3>1, <3>2
    <3> QED
      BY <3>1, <3>2, <3>3
  <2>6. CASE OwesJoin(y)
    BY <1>2, <2>1, <2>4, <2>6 DEF Awaited
  <2>7. CASE Room'.state = Room.state
    <3>1. Knows(session[t]) \/ Heard(t) \/ Awaited(t)
      BY <2>2, <2>5, <2>7 DEF NInv, Informed, Due
    <3>2. CASE Awaited(t)
      <4>1. PICK u \in Sessions : OwesJoin(session[u]) /\ session[u].peer # session[t].peer
        BY <3>2 DEF Awaited
      <4>2. u # s
        BY <1>3, <4>1
      <4> QED
        BY <1>2, <2>1, <4>1, <4>2 DEF Awaited
    <3> QED
      BY <2>1, <3>1, <3>2 DEF Heard
  <2> QED
    BY <2>2, <2>6, <2>7 DEF Introduced
<1>7. Informed'
  BY <1>2, <1>5, <1>6 DEF Informed
<1> QED
  BY <1>4, <1>7

(* An attach, whether it succeeds or not. *)
LEMMA AttachingTells ==
  ASSUME "partner" \in Watched, IInv, NInv, Completed', NEW s \in Sessions,
         AttachCreate(s) \/ AttachJoin(s) \/ AttachReattach(s)
  PROVE  Subscribed' /\ NoSnapshots' /\ Informed'
<1>1. session[s].main \in Before /\ session[s].main # "first" /\ events' = events
  BY DEF AttachCreate, AttachJoin, AttachReattach, Before, SessionIs
<1>2. Attaches(s) \/ AttachFails(s)
  BY AttachCreateEnds, AttachJoinEnds, AttachReattachEnds
<1>3. CASE AttachFails(s)
  <2>1. QuietStep
    BY <1>1, <1>3, AttachFailsQuiet DEF AttachFails
  <2> QED
    BY <1>1, <1>3, <2>1, EndedTells DEF AttachFails
<1> QED
  BY <1>1, <1>2, <1>3, AttachTells DEF Attaches

(* A session that ends before or after its attachment. *)
LEMMA EndTells ==
  ASSUME IInv, NInv, NEW s \in Sessions, AttachRefused(s) \/ End(s)
  PROVE  Subscribed' /\ NoSnapshots' /\ Informed'
<1>1. /\ session[s].main \in Before \cup {"waiting"} /\ SessionIs(s, Ended(s))
      /\ Unsubscribe(s) \/ (inbox' = inbox /\ subs' = subs)
  BY DEF AttachRefused, End, Before, busVars
<1>2. QuietStep
  BY AttachRefusedQuiet, EndQuiet
<1> QED
  BY <1>1, <1>2, EndedTells

-----------------------------------------------------------------------------
(* The pairing is announced *)

(* Before anyone connects there is nothing to announce. *)
LEMMA InitNInv ==
  ASSUME \A Q \in EventSets : "sync" \notin Q
  PROVE  Init => NInv
<1> SUFFICES ASSUME Init PROVE NInv
  OBVIOUS
<1>1. Room = NoRoom /\ events \in EventSets
  BY DEF Init, Store!Init, Room
<1>2. \A s \in Sessions : session[s].main = "first"
  BY DEF Init, NotConnected
<1> QED
  BY <1>1, <1>2 DEF NInv, Subscribed, NoSnapshots, Completed, Informed, Due, Member

(* While no envelope would be dropped, each step keeps the clients informed. *)
LEMMA NextNInv ==
  ASSUME "partner" \in Watched
  PROVE  IInv /\ NInv /\ NeverFull /\ [Next]_vars => NInv'
<1> SUFFICES ASSUME IInv, NInv, NeverFull, [Next]_vars PROVE NInv'
  OBVIOUS
<1>1. Completed'
  BY CompletedKept DEF NInv
<1>2. Subscribed' /\ NoSnapshots' /\ Informed'
  <2>1. ASSUME NEW s \in Sessions,
               \/ AttachRefused(s) \/ BeginCreate(s) \/ BeginJoin(s) \/ BeginReattach(s)
        PROVE  Subscribed' /\ NoSnapshots' /\ Informed'
    BY <2>1, EndTells, BeginTells
  <2>2. ASSUME NEW s \in Sessions, Ping(s) \/ Relay(s) \/ BadMessage(s) \/ ReadFails(s)
        PROVE  Subscribed' /\ NoSnapshots' /\ Informed'
    BY <2>2, PingTells, RelayTells, BadMessageTells, ReadFailsTells
  <2>3. ASSUME NEW s \in Sessions, Sync(s) \/ SyncAnswers(s) PROVE FALSE
    BY <2>3 DEF Sync, SyncAnswers, NInv, NoSnapshots
  <2>4. ASSUME NEW s \in Sessions, Main(s)
        PROVE  Subscribed' /\ NoSnapshots' /\ Informed'
    <3>1. CASE AttachCreate(s) \/ AttachJoin(s) \/ AttachReattach(s)
      BY <1>1, <3>1, AttachingTells
    <3>2. CASE CreateReplies(s) \/ Announce(s)
      BY <3>2, CreateRepliesTells, AnnounceTells
    <3>3. CASE PartnerGone(s) \/ Expired(s)
      BY <3>3, RoomEndTells
    <3>4. CASE Detach(s) \/ Leave(s) \/ End(s)
      BY <3>4, DetachTells, LeaveTells, EndTells
    <3> QED
      BY <2>3, <2>4, <3>1, <3>2, <3>3, <3>4 DEF Main
  <2>5. ASSUME NEW s \in Sessions, BusDelivers(s) \/ Write(s) \/ WriterCloses(s)
        PROVE  Subscribed' /\ NoSnapshots' /\ Informed'
    BY <2>5, BusDeliversTells, WriterTells
  <2>6. CASE Timers \/ UNCHANGED vars
    BY <2>6, NobodyTells
  <2> QED
    BY <2>1, <2>2, <2>3, <2>4, <2>5, <2>6 DEF Next
<1> QED
  BY <1>1, <1>2 DEF NInv

(* The ordering contract, trace T3: as long as no subscriber is so slow     *)
(* that an envelope would be dropped, and no client asks for a snapshot     *)
(* that may be stale when it is answered, no peer of a paired room is left  *)
(* without news of the other once nothing is on its way.                    *)
THEOREM PairingAnnounced ==
  ASSUME "partner" \in Watched, \A Q \in EventSets : "sync" \notin Q
  PROVE  Spec /\ []NeverFull => []PairingIsAnnounced
<1>1. IInv /\ NInv => PairingIsAnnounced
  <2> SUFFICES ASSUME IInv, NInv, NEW s \in Sessions,
                      Holds(s), Settled(s), Room.state = "paired",
                      \A t \in Sessions : session[t].main # "announce"
               PROVE  session[s].partner # "unknown"
    BY DEF PairingIsAnnounced
  <2>1. Due(s)
    BY DEF Due, Hears, Holds, Settled, Member, SlotOf
  <2>2. ~Heard(s) /\ ~Awaited(s)
    BY DEF Settled, Heard, Awaited, OwesJoin
  <2>3. Knows(session[s])
    BY <2>1, <2>2 DEF NInv, Informed
  <2> QED
    BY <2>3 DEF Knows, Settled
<1>2. Spec => []IInv
  BY Invariance
<1>3. Init => NInv
  BY InitNInv
<1>4. IInv /\ NInv /\ NeverFull /\ [Next]_vars => NInv'
  BY NextNInv
<1> QED
  BY <1>1, <1>2, <1>3, <1>4, PTL DEF Spec

=============================================================================
