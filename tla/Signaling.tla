------------------------------ MODULE Signaling ------------------------------
(***************************************************************************)
(* backend/internal/signaling/session.go: the WebSocket sessions of one    *)
(* room, over the room store and the bus.  A session is three goroutines,  *)
(* whose steps interleave with each other and with other sessions':        *)
(*   run        attach, readLoop, detach; session.main is where it stands: *)
(*     "first"     waits for the first message                             *)
(*     "create", "join", "reattach"    subscribed, the state change is due *)
(*     "created"   the snapshot and the reply are due                      *)
(*     "announce"  session.owes are to be published                        *)
(*     "serve"     in readLoop         "synced"   a snapshot was read      *)
(*     "gone"      Heartbeat said PartnerGone                              *)
(*     "expired"   Heartbeat said Expired                                  *)
(*     "detach"    readLoop is over    "leaving"  Disconnect is recorded   *)
(*     "waiting"   awaitWriter         "over"                              *)
(*   busLoop    runs from the attachment to the end of session.bus         *)
(*   writeLoop  runs until session.writer is "over"                        *)
(* A session has a peer identifier of its own to give out, itself, until   *)
(* it reattaches as another.  Codes are drawn at random from 30^6: no room *)
(* is taken to be created with a code that a session is still attached to. *)
(* Rooms, tokens and ages are RoomStore's.  Of the close codes only        *)
(* "superseded" and "room_closed" are told from the "other" ones.  A       *)
(* client that vanishes is one that sends nothing more, until a read or a  *)
(* write on its socket fails.                                              *)
(***************************************************************************)
EXTENDS Bus, FiniteSets

CONSTANTS Code, WaitTTL, SilenceTimeout, ReattachGrace, NoRoom, NoSlot,
          OutCap,     \* capacity of a session's queue of messages to write
          Creators, Joiners, Reattachers,  \* whose first message may be which
          EventSets,  \* what may happen in a behaviour: one of these
          Watched     \* what the history of a client's messages keeps: types,
                      \* and "partner" for the last word on the partner

ASSUME OutCapAssumption ==
  /\ OutCap \in Nat \ {0}
  /\ Creators \cup Joiners \cup Reattachers \subseteq Sessions
  /\ EventSets \subseteq SUBSET {"ping", "relay", "sync", "bad", "failure", "time"}
  /\ Watched \subseteq {"room_created", "joined", "reattached", "relay", "room_closed", "partner"}

VARIABLES rooms,    \* the store
          session,  \* [Sessions -> record]
          events    \* the member of EventSets of this behaviour: what clients
                    \* send once attached, "failure" when a socket may fail
                    \* or fall silent, "time" when the timers may run out

vars == <<rooms, session, subs, inbox, events>>

(* A slot is reattached at most once by each session. *)
Store == INSTANCE RoomStore WITH
  Codes <- {Code}, Peers <- Sessions, MaxGen <- Cardinality(Sessions) + 1

ASSUME StoreAssumption ==
  /\ WaitTTL \in Nat /\ SilenceTimeout \in Nat /\ ReattachGrace \in Nat
  /\ NoRoom \notin Store!Room /\ NoSlot \notin Store!Slot

Room == rooms[Code]

NotConnected(s) ==
  [main |-> "first", peer |-> s, gen |-> 0, role |-> "none", owes |-> <<>>,
   snap |-> [state |-> "none", partner |-> "unknown"],
   bus |-> "on", out |-> <<>>, writer |-> "on", closing |-> "none",
   socket |-> "open", frame |-> "none", told |-> {}, partner |-> "unknown"]

Init == /\ Store!Init /\ BusInit /\ events \in EventSets
        /\ session = [s \in Sessions |-> NotConnected(s)]

-----------------------------------------------------------------------------
(* Messages to the client: their type and what they say of the partner.    *)
(* What the history does not keep is not told apart.                       *)
Msg(type, partner) ==
  [type    |-> IF type \in Watched THEN type ELSE "other",
   partner |-> IF "partner" \in Watched THEN partner ELSE "same"]

Replies == {"room_created", "joined", "reattached"}

PartnerState(r, p) ==
  IF Store!PartnerOf(r, p) = NoSlot THEN "unknown"
  ELSE IF Store!PartnerOf(r, p).connected THEN "present" ELSE "away"

(* toRoomState *)
Snapshot(r, p) == [state |-> r.state, partner |-> PartnerState(r, p)]

-----------------------------------------------------------------------------
(* Calls that change the session they are made in, given as its new record. *)

(* requestClose: the first reason stays. *)
CloseAsked(x, reason) == IF x.closing = "none" THEN [x EXCEPT !.closing = reason] ELSE x

(* Mutant: the queue has no limit. *)
SentUnbounded(x, m) == [x EXCEPT !.out = Append(@, m)]

(* send.  What is sent on a socket that has failed reaches nobody and is   *)
(* not kept.                                                               *)
Sent(x, m) == IF x.socket = "closed" THEN x
              ELSE IF Len(x.out) < OutCap THEN [x EXCEPT !.out = Append(@, m)]
              ELSE CloseAsked(x, "other")

SentAndClosed(x, m, reason) == CloseAsked(Sent(x, m), reason)

At(x, main) == [x EXCEPT !.main = main]

(* readLoop looks at the close state after each message. *)
Handled(x) == At(x, IF x.closing = "none" THEN "serve" ELSE "detach")

SessionIs(s, x) == session' = [session EXCEPT ![s] = x] /\ UNCHANGED events

(* publish.  busLoop skips what comes from its own peer, except            *)
(* "superseded", and has no use for more once its session waits for the    *)
(* writer, which a close was asked of, or either loop is over.             *)
Announces(s, kind) ==
  Publish(session[s].peer, session[s].gen, kind,
    {t \in Sessions : \/ session[t].peer = session[s].peer /\ kind # "superseded"
                      \/ session[t].main = "waiting"
                      \/ session[t].bus = "over" \/ session[t].writer = "over"})

-----------------------------------------------------------------------------
(* Attach *)

(* Of a session that is over only what its client was told stays.          *)
Ended(s) == [NotConnected(s) EXCEPT
  !.main = "over", !.bus = "over", !.writer = "over", !.socket = "closed",
  !.told = IF session[s].peer = s THEN session[s].told \cap Replies ELSE {}]

(* attach returns false: no first message, a bad one, a rate-limited join, *)
(* no identity, or an error of the store.  What the session still writes,  *)
(* an error and the close frame, concerns nobody else.                     *)
AttachRefused(s) ==
  /\ session[s].main = "first"
  /\ SessionIs(s, Ended(s))
  /\ UNCHANGED <<rooms, busVars>>

BeginCreate(s) ==
  /\ session[s].main = "first" /\ s \in Creators
  /\ Subscribe(s)
  /\ SessionIs(s, At(session[s], "create"))
  /\ UNCHANGED rooms

BeginJoin(s) ==
  /\ session[s].main = "first" /\ s \in Joiners
  /\ Subscribe(s)
  /\ SessionIs(s, At(session[s], "join"))
  /\ UNCHANGED rooms

(* A client reattaches as a peer whose identity it was told. *)
BeginReattach(s) ==
  /\ session[s].main = "first" /\ s \in Reattachers
  /\ \E p \in Sessions \ {s} :
       /\ session[p].told \cap Replies # {} /\ session[p].peer = p
       /\ SessionIs(s, [session[s] EXCEPT !.main = "reattach", !.peer = p])
  /\ Subscribe(s)
  /\ UNCHANGED rooms

(* Some session is attached to a room of this code, now or deleted. *)
CodeInUse == \E t \in Sessions : session[t].gen > 0

(* The draw of a code that is taken, or a failure: nothing is kept here. *)
AttachCreate(s) ==
  /\ session[s].main = "create"
  /\ \/ /\ ~CodeInUse
        /\ Store!Create(Code, session[s].peer)
        /\ SessionIs(s, [session[s] EXCEPT !.main = "created", !.gen = 1, !.role = "creator"])
        /\ UNCHANGED busVars
     \/ /\ CodeInUse \/ Store!CreateResult(Code) # "ok"
        /\ SessionIs(s, Ended(s))
        /\ Unsubscribe(s)
        /\ UNCHANGED rooms

(* attachCreate reads the room again for its reply. *)
CreateReplies(s) ==
  /\ session[s].main = "created"
  /\ LET says == IF Room = NoRoom THEN "unknown" ELSE PartnerState(Room, session[s].peer)
     IN SessionIs(s, At(Sent(session[s], Msg("room_created", says)), "serve"))
  /\ UNCHANGED <<rooms, busVars>>

AttachJoin(s) ==
  /\ session[s].main = "join"
  /\ \/ /\ Store!Join(Code, session[s].peer)
        /\ LET x == [session[s] EXCEPT !.main = "announce", !.gen = 1, !.role = "joiner",
                                       !.owes = <<"peer_joined">>]
           IN SessionIs(s, Sent(x, Msg("joined", PartnerState(Room', x.peer))))
        /\ UNCHANGED busVars
     \/ /\ Store!JoinResult(Code) # "ok"
        /\ SessionIs(s, Ended(s))
        /\ Unsubscribe(s)
        /\ UNCHANGED rooms

(* The state in the reply.  Mutant: it has none. *)
ReattachSaysNothing(p) == "same"

ReattachSays(p) == PartnerState(Room', p)

AttachReattach(s) ==
  /\ session[s].main = "reattach"
  /\ LET p == session[s].peer
     IN \/ /\ Store!Reattach(Code, p, p)
           /\ LET x == [session[s] EXCEPT !.main = "announce",
                          !.gen  = Store!FindSlot(Room', p).gen,
                          !.role = IF Room.creator.peer = p THEN "creator" ELSE "joiner",
                          !.owes = <<"superseded", "peer_reattached">>]
              IN SessionIs(s, Sent(x, Msg("reattached", ReattachSays(p))))
           /\ UNCHANGED busVars
        \/ /\ \/ Store!ReattachGone(Code, p, p)
              \/ /\ Store!ReattachResult(Code, p, p) \notin {"ok", "gone"}
                 /\ UNCHANGED rooms
           /\ SessionIs(s, Ended(s))
           /\ Unsubscribe(s)

(* What attachJoin and attachReattach publish, one after the other. *)
Announce(s) ==
  /\ session[s].main = "announce"
  /\ LET x == session[s]
     IN /\ Announces(s, Head(x.owes))
        /\ SessionIs(s, [x EXCEPT !.owes = Tail(x.owes),
                                  !.main = IF Len(x.owes) = 1 THEN "serve" ELSE "announce"])
  /\ UNCHANGED rooms

-----------------------------------------------------------------------------
(* readLoop *)

(* Of a client that is gone it only matters what identity it was told. *)
SocketClosed(x) ==
  IF x.socket = "closed" THEN x
  ELSE [x EXCEPT !.socket = "closed", !.out = <<>>, !.partner = "unknown",
                 !.told = @ \cap Replies]

(* The silence timeout, a socket that died, or the writer's cancel ends    *)
(* readLoop; a read that is abandoned closes the socket.                   *)
ReadFails(s) ==
  /\ session[s].main = "serve"
  /\ "failure" \in events \/ session[s].socket = "closed"
  /\ SessionIs(s, At(SocketClosed(session[s]), "detach"))
  /\ UNCHANGED <<rooms, busVars>>

Reads(s) == session[s].main = "serve" /\ session[s].socket = "open"

(* The heartbeats that are answered by the end of the room.  Mutant: only  *)
(* the one for a deleted room is.                                          *)
RoomIsOverWhenDeleted(res) == res = "ErrNotFound"

RoomIsOver(res) == res \in {"ErrClosed", "ErrNotFound"}

(* handlePing, up to its first call outside the session. *)
Ping(s) ==
  /\ "ping" \in events /\ Reads(s)
  /\ LET x   == session[s]
         res == Store!HeartbeatResult(Code, x.peer, x.gen)
     IN /\ \/ Store!Heartbeat(Code, x.peer, x.gen)
           \/ res \in {"ErrStaleAttachment", "ErrClosed", "ErrNotFound"} /\ UNCHANGED rooms
        /\ SessionIs(s,
             CASE res = "ErrStaleAttachment" -> Handled(CloseAsked(x, "superseded"))
               [] RoomIsOver(res) ->
                    Handled(SentAndClosed(x, Msg("room_closed", "same"), "room_closed"))
               [] res = "PartnerGone" -> At(x, "gone")
               [] res = "Expired" -> At(x, "expired")
               [] OTHER -> Handled(Sent(x, Msg("pong", "same"))))
  /\ UNCHANGED busVars

(* The heartbeat closed the room: the rest of the PartnerGone case. *)
PartnerGone(s) ==
  /\ session[s].main = "gone"
  /\ Announces(s, "room_closed")
  /\ SessionIs(s, Handled(SentAndClosed(session[s], Msg("room_closed", "same"), "room_closed")))
  /\ UNCHANGED rooms

(* The rest of the Expired case, which ignores Close's error. *)
Expired(s) ==
  /\ session[s].main = "expired"
  /\ Store!Close(Code) \/ (Store!CloseResult(Code) # "ok" /\ UNCHANGED rooms)
  /\ SessionIs(s, Handled(SentAndClosed(session[s], Msg("room_closed", "same"), "room_closed")))
  /\ UNCHANGED busVars

Relay(s) ==
  /\ "relay" \in events /\ Reads(s)
  /\ Announces(s, "relay")
  /\ SessionIs(s, Handled(session[s]))
  /\ UNCHANGED rooms

(* handleSyncRequest: Get, and then the answer with what it returned. *)
Sync(s) ==
  /\ "sync" \in events /\ Reads(s)
  /\ LET x == session[s]
     IN SessionIs(s,
          IF Room = NoRoom
          THEN Handled(SentAndClosed(x, Msg("room_closed", "same"), "room_closed"))
          ELSE [x EXCEPT !.main = "synced", !.snap = Snapshot(Room, x.peer)])
  /\ UNCHANGED <<rooms, busVars>>

SyncAnswers(s) ==
  /\ session[s].main = "synced"
  /\ LET x == session[s]
         y == [x EXCEPT !.snap = NotConnected(s).snap]
     IN /\ SessionIs(s, Handled(Sent(y, Msg("room_state", x.snap.partner))))
        /\ IF x.snap.state = "paired" /\ x.role = "joiner"
           THEN Announces(s, "peer_joined") ELSE UNCHANGED busVars
  /\ UNCHANGED rooms

(* An unknown type is answered; an empty relay too, and then the close     *)
(* state is not looked at; a bad version ends the loop.                    *)
BadMessage(s) ==
  /\ "bad" \in events /\ Reads(s)
  /\ LET x == Sent(session[s], Msg("error", "same"))
     IN \/ SessionIs(s, Handled(x))
        \/ SessionIs(s, x)
        \/ SessionIs(s, At(x, "detach"))
  /\ UNCHANGED <<rooms, busVars>>

-----------------------------------------------------------------------------
(* detach and the end of run *)

(* The generation the disconnect is recorded for.  Mutant: the slot's own, *)
(* whatever it is.                                                         *)
DetachGenOfSlot(x) ==
  IF Room = NoRoom \/ Store!FindSlot(Room, x.peer) = NoSlot THEN x.gen
  ELSE Store!FindSlot(Room, x.peer).gen

DetachGen(x) == x.gen

Detach(s) ==
  /\ session[s].main = "detach"
  /\ LET x == session[s]
     IN IF x.closing # "superseded" /\ Store!DisconnectResult(Code, x.peer, DetachGen(x)) = "ok"
        THEN Store!Disconnect(Code, x.peer, DetachGen(x)) /\ SessionIs(s, At(x, "leaving"))
        ELSE UNCHANGED rooms /\ SessionIs(s, At(CloseAsked(x, "other"), "waiting"))
  /\ UNCHANGED busVars

(* The rest of detach, and run's request to close. *)
Leave(s) ==
  /\ session[s].main = "leaving"
  /\ Announces(s, "peer_disconnected")
  /\ SessionIs(s, At(CloseAsked(session[s], "other"), "waiting"))
  /\ UNCHANGED rooms

(* awaitWriter returns, or gives up on a wedged socket; then sub.Close. *)
End(s) ==
  /\ session[s].main = "waiting"
  /\ session[s].writer = "over" \/ session[s].socket = "closed"
  /\ SessionIs(s, Ended(s))
  /\ Unsubscribe(s)
  /\ UNCHANGED rooms

-----------------------------------------------------------------------------
(* busLoop *)

Attached(x) == x.main \in {"serve", "synced", "gone", "expired", "detach", "leaving"}

(* Mutant: the loop starts with the subscription. *)
BusRunsEarly(s) == session[s].main \notin {"first", "over"} /\ session[s].bus = "on"

BusRuns(s) == Attached(session[s]) /\ session[s].bus = "on" /\ session[s].writer = "on"

(* The one envelope about this peer that matters.  Mutant: whatever its    *)
(* generation.                                                             *)
SupersedesUnfenced(x, env) ==
  env.from = x.peer /\ env.kind = "superseded" /\ env.gen # x.gen

Supersedes(x, env) == env.from = x.peer /\ env.kind = "superseded" /\ env.gen > x.gen

(* What an envelope makes of the session. *)
Forwarded(x, env) ==
  CASE Supersedes(x, env) -> CloseAsked([x EXCEPT !.bus = "over"], "superseded")
    [] env.from = x.peer /\ ~Supersedes(x, env) -> x
    [] env.from # x.peer /\ env.kind = "relay" -> Sent(x, Msg("relay", "same"))
    [] env.from # x.peer /\ env.kind \in {"peer_joined", "peer_reattached"} ->
         Sent(x, Msg(env.kind, "present"))
    [] env.from # x.peer /\ env.kind = "peer_disconnected" -> Sent(x, Msg(env.kind, "away"))
    [] env.from # x.peer /\ env.kind = "room_closed" ->
         SentAndClosed([x EXCEPT !.bus = "over"], Msg("room_closed", "same"), "room_closed")
    [] env.from # x.peer /\ env.kind = "superseded" -> x

BusDelivers(s) ==
  /\ BusRuns(s) /\ inbox[s] # <<>>
  /\ inbox' = [inbox EXCEPT ![s] = Tail(@)]
  /\ SessionIs(s, Forwarded(session[s], Head(inbox[s])))
  /\ UNCHANGED <<rooms, subs>>

-----------------------------------------------------------------------------
(* writeLoop *)

(* The client reads the head of the queue. *)
HeadTold(x) ==
  LET m == Head(x.out)
  IN [x EXCEPT !.out = Tail(x.out), !.told = @ \cup ({m.type} \cap Watched),
               !.partner = IF m.partner = "same" \/ "partner" \notin Watched THEN @
                           ELSE m.partner]

WriterOver(x) == [x EXCEPT !.out = <<>>, !.writer = "over", !.socket = "closed", !.partner = "unknown",
                           !.frame = IF x.socket = "open" THEN x.closing ELSE "none"]

(* drainAndClose.  Mutant: the queue is not drained. *)
ClosedAtOnce(x) == WriterOver(x)

DrainedAndClosed(x) ==
  WriterOver(IF x.socket = "closed" THEN x
             ELSE [x EXCEPT !.told = @ \cup ({x.out[i].type : i \in 1 .. Len(x.out)} \cap Watched)])

Write(s) ==
  /\ session[s].writer = "on"
  /\ \/ /\ session[s].out # <<>>
        /\ SessionIs(s, HeadTold(session[s]))
     \/ /\ \/ session[s].out # <<>> /\ "failure" \in events
           \/ session[s].socket = "closed"
        /\ SessionIs(s, WriterOver(CloseAsked(SocketClosed(session[s]), "other")))
  /\ UNCHANGED <<rooms, busVars>>

WriterCloses(s) ==
  /\ session[s].writer = "on" /\ session[s].closing # "none"
  /\ SessionIs(s, DrainedAndClosed(session[s]))
  /\ UNCHANGED <<rooms, busVars>>

-----------------------------------------------------------------------------
Timers == /\ "time" \in events
          /\ Store!Tick \/ Store!Sweep
          /\ UNCHANGED <<session, events, busVars>>

Main(s) ==
  \/ AttachCreate(s) \/ CreateReplies(s) \/ AttachJoin(s) \/ AttachReattach(s)
  \/ Announce(s) \/ PartnerGone(s) \/ Expired(s) \/ SyncAnswers(s)
  \/ Detach(s) \/ Leave(s) \/ End(s)

Next ==
  \/ \E s \in Sessions :
       \/ AttachRefused(s) \/ BeginCreate(s) \/ BeginJoin(s) \/ BeginReattach(s)
       \/ Ping(s) \/ Relay(s) \/ Sync(s) \/ BadMessage(s) \/ ReadFails(s)
       \/ Main(s) \/ BusDelivers(s) \/ Write(s) \/ WriterCloses(s)
  \/ Timers

Spec == Init /\ [][Next]_vars

(* The goroutines of run and writeLoop run.  A client that is there pings  *)
(* now and then, and the read of one that is not, or is silent, ends at    *)
(* its deadline.  Nothing is asked of busLoop.                             *)
Fairness == \A s \in Sessions :
  /\ WF_(session[s])(ReadFails(s) \/ Ping(s) \/ Main(s))
  /\ WF_(session[s])(WriterCloses(s))

FairSpec == Spec /\ Fairness

-----------------------------------------------------------------------------
(* Properties *)

(* A session's record has its fields' ranges and no queue is over its      *)
(* capacity.                                                               *)
TypeOK ==
  /\ Store!TypeOK
  /\ subs \subseteq Sessions
  /\ \A s \in Sessions :
       LET x == session[s]
       IN /\ x.peer \in Sessions /\ x.gen \in Nat
          /\ x.role \in {"none", "creator", "joiner"}
          /\ Len(x.out) <= OutCap /\ Len(inbox[s]) <= BusCap
          /\ x.socket \in {"open", "closed"}
          /\ x.told \subseteq Watched /\ x.partner \in {"unknown", "present", "away"}

(* Trace T4: the reply to the attach comes before any news of the partner  *)
(* and any relayed message, though two goroutines write to the client and  *)
(* the partner reacts to the announcement at once.                         *)
RepliesFirst ==
  \A s \in Sessions :
    session[s].told # {} \/ session[s].partner # "unknown" => session[s].told \cap Replies # {}

(* The session that holds its peer's slot. *)
Holds(s) == /\ session[s].gen > 0 /\ session[s].main # "over" /\ Room # NoRoom
            /\ Store!FindSlot(Room, session[s].peer) # NoSlot
            /\ Store!FindSlot(Room, session[s].peer).gen = session[s].gen

(* It is in service, with nothing left to announce, forward or write.      *)
Settled(s) == /\ session[s].main = "serve" /\ session[s].closing = "none"
              /\ session[s].bus = "on" /\ session[s].socket = "open"
              /\ inbox[s] = <<>> /\ session[s].out = <<>>

(* The ordering contract, trace T3: because sessions subscribe before they *)
(* change the room and answer with a snapshot of it, no peer of a paired   *)
(* room is left without news of the other, whatever disconnects and        *)
(* reattaches happen around the join.                                      *)
PairingIsAnnounced ==
  \A s \in Sessions :
    /\ Holds(s) /\ Settled(s) /\ Room.state = "paired"
    /\ \A t \in Sessions : session[t].main # "announce"
    => session[s].partner # "unknown"

(* A slot is connected exactly while a session that holds it has not       *)
(* recorded its end: no late detach of an older session takes a peer away, *)
(* and no session ends without its slot being released.                    *)
SlotsMatchSessions ==
  Room # NoRoom =>
    \A p \in Store!Members(Room) :
      Store!FindSlot(Room, p).connected <=>
        \E s \in Sessions : /\ session[s].peer = p /\ Holds(s)
                            /\ session[s].main \notin {"leaving", "waiting"}

(* Trace T1, one half: only an older session is ever told that it is       *)
(* superseded, never the one that holds the slot, in whatever order the    *)
(* announcements of several reattaches arrive.                             *)
OnlyOlderSuperseded ==
  \A s \in Sessions : session[s].closing = "superseded" => ~Holds(s)

(* A client that is closed because the room is over has been told so: the  *)
(* message reaches the wire before the close frame.                        *)
RoomClosedIsTold ==
  \A s \in Sessions : session[s].frame = "room_closed" => "room_closed" \in session[s].told

(* Heartbeat and the Close that follows Expired are two calls; a room that *)
(* was completed in between would be taken from its peers.  It cannot be.  *)
ExpiryClosesOnlyWaiting ==
  [][\A s \in Sessions :
       session[s].main = "expired" /\ session'[s].main # "expired" /\ Room # NoRoom =>
         Room.state # "paired"]_vars

(* Trace T1, the other half, and the end of a room: a session that does    *)
(* not hold a slot of a room that is open comes to its end, even if the    *)
(* bus dropped its "superseded" or "room_closed" and its client goes on    *)
(* pinging: its own heartbeat tells it.                                    *)
InService(s) == session[s].main \notin {"first", "over"}

Stale(s) == InService(s) /\ (~Holds(s) \/ Room.state = "closed")

StaleSessionsEnd == \A s \in Sessions : []<>~Stale(s)

(* detach tells the partner that the peer left, unless the session was     *)
(* superseded, "in which case the slot is still live under a newer         *)
(* generation and nothing must change": a peer whose partner has come back *)
(* is not left believing that it is away.                                  *)
ReturnIsSeen ==
  \A s \in Sessions :
    /\ Holds(s) /\ Settled(s) /\ Room.state = "paired"
    /\ Store!PartnerOf(Room, session[s].peer).connected
    /\ \A t \in Sessions : session[t].main \notin {"announce", "leaving"}
    => session[s].partner # "away"
=============================================================================
