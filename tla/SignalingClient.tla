--------------------------- MODULE SignalingClient ---------------------------
(***************************************************************************)
(* One page's SignalingClient (frontend/src/signaling/client.ts) with the   *)
(* sockets it opens, and the sessions the server runs on them as far as a  *)
(* client can tell: who holds the client's slot, and how each one ends.    *)
(*                                                                         *)
(* A socket that is lost on the client's side may still have a request on  *)
(* its way, which the server reads whenever it arrives.                    *)
(***************************************************************************)
EXTENDS Naturals, Sequences, FiniteSets

CONSTANTS MaxSockets,   \* bound: sockets that exist at one time
          MaxFaults     \* bound: connections refused or lost, dev drops

ASSUME ClientAssumption == MaxSockets \in Nat \ {0} /\ MaxFaults \in Nat

VARIABLES
  client,   \* the fields of the SignalingClient
  sock,     \* sock[s]: a socket, its two queues and the server's session on it
  room,     \* the room of the client's slot: "none", "open" or "over"
  holder,   \* the socket whose session holds the slot, or 0
  left,     \* the user has left
  ousted,   \* a request of a lost socket took the slot from a live one
  faults

vars == <<client, sock, room, holder, left, ousted, faults>>

Sockets == 1 .. MaxSockets

-----------------------------------------------------------------------------
(* Sockets *)

NoSocket == [end |-> "none", session |-> "none", up |-> <<>>, down |-> <<>>]

Free == {s \in Sockets : sock[s] = NoSocket}
NextFree == CHOOSE s \in Free : TRUE

(* What a session reads and sends, and how it ends. *)
Read(k) == [k EXCEPT !.up = Tail(@)]
Says(k, m) == IF k.end = "open" THEN [k EXCEPT !.down = Append(@, m)] ELSE k
Ends(k, code) ==
  [k EXCEPT !.session = "none", !.up = <<>>,
            !.down = IF k.end \in {"open", "closing"} THEN Append(@, code) ELSE @]

(* A socket that its client has given up.  What it had sent may arrive.    *)
GivenUp(k) == [k EXCEPT !.end = "none", !.down = <<>>]

(* A message is dispatched. *)
Taken(k) == [k EXCEPT !.down = Tail(@)]

(* Close frames of the server. *)
FinalCodes == {"superseded", "room_closed_code", "protocol"}
Codes == FinalCodes \cup {"other_code"}

(* close() by the client: nothing is dispatched any more but the close,    *)
(* with the server's code if that was first.  The code is the last message *)
(* of a session.                                                           *)
CodeOf(q) == IF q # <<>> /\ q[Len(q)] \in Codes THEN <<q[Len(q)]>> ELSE <<>>

Closing(k) == [k EXCEPT !.end = "closing", !.down = CodeOf(@)]

Fault == faults < MaxFaults /\ faults' = faults + 1

NewClient == [status |-> "idle", attachment |-> FALSE, socket |-> 0, stopped |-> FALSE,
              pendingFirst |-> "none", ping |-> FALSE, reconnect |-> FALSE]

(* In development React runs the hook's cleanup once, which closes it.     *)
ClosedClient == [NewClient EXCEPT !.status = "closed", !.stopped = TRUE]

Init ==
  /\ client \in {NewClient, ClosedClient}
  /\ sock = [s \in Sockets |-> NoSocket]
  /\ room = "none" /\ holder = 0
  /\ left = FALSE /\ ousted = FALSE /\ faults = 0

Server == <<room, holder, ousted>>

-----------------------------------------------------------------------------
(* open: the client's part.  Mutant: an earlier end still counts.          *)
OpenedStopped(c, first) ==
  [c EXCEPT !.pendingFirst = first, !.socket = NextFree,
            !.status = IF c.attachment THEN "reconnecting" ELSE "connecting"]

Opened(c, first) ==
  [c EXCEPT !.stopped = FALSE, !.pendingFirst = first, !.socket = NextFree,
            !.status = IF c.attachment THEN "reconnecting" ELSE "connecting"]

Opens(first) ==
  /\ Free # {}
  /\ client' = Opened(client, first)
  /\ sock' = [sock EXCEPT ![NextFree] = [NoSocket EXCEPT !.end = "connecting"]]

(* Home offers both buttons while there is no attachment and no attempt.   *)
CreateOrJoin ==
  /\ ~client.attachment /\ client.status # "connecting" /\ ~left
  /\ \E first \in {"create", "join"} : Opens(first)
  /\ UNCHANGED <<Server, left, faults>>

SocketOpens(s) ==
  /\ sock[s].end = "connecting"
  /\ sock' = [sock EXCEPT ![s] =
       [@ EXCEPT !.end = "open", !.session = "attaching",
                 !.up = IF client.pendingFirst = "none" THEN <<>> ELSE <<client.pendingFirst>>]]
  /\ UNCHANGED <<client, Server, left, faults>>

(* scheduleReattach.  Mutant: only from the attached state. *)
RescheduledOnce(c) ==
  IF c.status = "attached" THEN [c EXCEPT !.status = "reconnecting", !.reconnect = TRUE] ELSE c

Rescheduled(c) == [c EXCEPT !.status = "reconnecting", !.reconnect = TRUE]

(* handleClose *)
HandleClose(c0, code) ==
  LET c == [c0 EXCEPT !.ping = FALSE, !.socket = 0]
  IN IF c.stopped THEN [c EXCEPT !.status = "closed"]
     ELSE IF code \in FinalCodes THEN [c EXCEPT !.stopped = TRUE, !.status = "closed"]
     ELSE IF ~c.attachment THEN [c EXCEPT !.status = "closed"]
     ELSE Rescheduled(c)

(* The connection is refused, or breaks; onclose says 1006. *)
Lost(s) ==
  /\ sock[s].end \in {"connecting", "open"}
  /\ Fault
  /\ client' = HandleClose(client, "other_code")
  /\ sock' = [sock EXCEPT ![s] = GivenUp(@)]
  /\ UNCHANGED <<Server, left>>

(* Mutant: another socket is opened at once, the old one's onclose comes.  *)
DropAndReopen == Opens("reattach")

DropKeepsSocket == sock' = [sock EXCEPT ![client.socket] = Closing(@)] /\ UNCHANGED client

(* The dev hook: the close is under way until onclose. *)
DropSocket ==
  /\ client.attachment /\ client.socket # 0
  /\ sock[client.socket].end \in {"connecting", "open"}
  /\ Fault
  /\ DropKeepsSocket
  /\ UNCHANGED <<Server, left>>

(* onclose, after a close that the client began.  The session may still be *)
(* running, or the browser gives the handshake up.                         *)
ClosingEnds(s) ==
  /\ sock[s].end = "closing"
  /\ client' = HandleClose(client, IF sock[s].down = <<>> THEN "other_code" ELSE Head(sock[s].down))
  /\ sock' = [sock EXCEPT ![s] = GivenUp(@)]
  /\ UNCHANGED <<Server, left, faults>>

-----------------------------------------------------------------------------
(* Timers *)

ReconnectFires ==
  /\ client.reconnect /\ Free # {}
  /\ LET c == [client EXCEPT !.reconnect = FALSE]
     IN IF ~c.attachment \/ c.stopped THEN client' = c /\ UNCHANGED sock
        ELSE /\ client' = Opened(c, "reattach")
             /\ sock' = [sock EXCEPT ![NextFree] = [NoSocket EXCEPT !.end = "connecting"]]
  /\ UNCHANGED <<Server, left, faults>>

(* sendEnvelope's guard *)
CanSend(c) == c.socket # 0 /\ sock[c.socket].end = "open" /\ c.status = "attached"

(* Bound: a ping is on the wire only when the one before is answered.      *)
Answered(k) == k.up = <<>> /\ \A i \in DOMAIN k.down : k.down[i] # "pong"

PingFires ==
  /\ client.ping
  /\ client' = [client EXCEPT !.ping = CanSend(client)]
  /\ IF CanSend(client) /\ sock[client.socket].session = "serving"
        /\ Answered(sock[client.socket])
     THEN sock' = [sock EXCEPT ![client.socket].up = <<"ping">>] ELSE UNCHANGED sock
  /\ UNCHANGED <<Server, left, faults>>

(* close, called when the user leaves.  Mutant: it does not stop. *)
LeavesTimers(c) ==
  [c EXCEPT !.ping = FALSE, !.reconnect = FALSE, !.socket = 0, !.status = "closed"]

Leaves(c) ==
  [c EXCEPT !.stopped = TRUE, !.ping = FALSE, !.reconnect = FALSE, !.socket = 0,
            !.status = "closed"]

Leave ==
  /\ client.attachment /\ ~left
  /\ left' = TRUE
  /\ client' = Leaves(client)
  /\ sock' = IF client.socket = 0 THEN sock ELSE [sock EXCEPT ![client.socket] = Closing(@)]
  /\ UNCHANGED <<Server, faults>>

-----------------------------------------------------------------------------
(* handleMessage and onclose *)

(* The three replies.  Mutants: only the first one starts the pings; the    *)
(* request stays pending.                                                  *)
AttachedPending(c) ==
  [c EXCEPT !.attachment = TRUE, !.status = "attached", !.ping = TRUE]

AttachedOnce(c) ==
  [c EXCEPT !.attachment = TRUE, !.pendingFirst = "none", !.status = "attached",
            !.ping = @ \/ ~c.attachment]

Attached(c) ==
  [c EXCEPT !.attachment = TRUE, !.pendingFirst = "none", !.status = "attached", !.ping = TRUE]

Handled(c, m) ==
  CASE m = "attached" -> Attached(c)
    [] m = "room_closed" -> [c EXCEPT !.stopped = TRUE, !.ping = FALSE, !.reconnect = FALSE]
    [] m = "error" -> [c EXCEPT !.stopped = @ \/ c.status # "attached"]
    [] m \in Codes -> HandleClose(c, m)
    [] OTHER -> c

Receive(s) ==
  /\ sock[s].end = "open" /\ sock[s].down # <<>>
  /\ LET m == Head(sock[s].down)
     IN /\ client' = Handled(client, m)
        /\ sock' = [sock EXCEPT ![s] = IF m \in Codes THEN GivenUp(@) ELSE Taken(@)]
  /\ UNCHANGED <<Server, left, faults>>

-----------------------------------------------------------------------------
(* The server's sessions *)

(* attachCreate, attachJoin: the slot is made, or the request refused.  A  *)
(* slot that nobody can be told of any more is not this client's.          *)
FirstAttach(s) ==
  /\ sock[s].session = "attaching" /\ sock[s].end = "open"
  /\ sock[s].up # <<>> /\ Head(sock[s].up) \in {"create", "join"}
  /\ \/ /\ sock' = [sock EXCEPT ![s] = Says([Read(@) EXCEPT !.session = "serving"], "attached")]
        /\ room' = "open" /\ holder' = s
     \/ /\ \E code \in {"protocol", "other_code"} :
             sock' = [sock EXCEPT ![s] = Ends(Says(@, "error"), code)]
        /\ UNCHANGED <<room, holder>>
  /\ UNCHANGED <<client, left, ousted, faults>>

(* attachReattach, and the superseded session's end.  A room that is over  *)
(* is refused with another code than the final ones.                       *)
Reattach(s) ==
  /\ sock[s].session = "attaching" /\ sock[s].up # <<>> /\ Head(sock[s].up) = "reattach"
  /\ IF room = "open"
     THEN /\ sock' = [t \in Sockets |->
               IF t = s THEN Says([Read(sock[s]) EXCEPT !.session = "serving"], "attached")
               ELSE IF sock[t].session = "serving" THEN Ends(sock[t], "superseded")
               ELSE sock[t]]
          /\ holder' = s
          /\ ousted' = (ousted \/ \E t \in Sockets \ {s} : /\ sock[t].session = "serving"
                                                          /\ sock[t].end \in {"open", "closing"})
     ELSE /\ sock' = [sock EXCEPT ![s] = Ends(Says(@, "error"), "other_code")]
          /\ UNCHANGED <<holder, ousted>>
  /\ UNCHANGED <<client, room, left, faults>>

(* readLoop: a ping while the room is there, or its end. *)
Serve(s) ==
  /\ sock[s].session = "serving" /\ sock[s].up # <<>>
  /\ sock' = [sock EXCEPT ![s] = Says(Read(@), "pong")]
  /\ UNCHANGED <<client, Server, left, faults>>

(* The session finds its client gone, once it has read what was sent, or   *)
(* what was sent never arrives.                                            *)
FindsClientGone(s) ==
  /\ sock[s].session # "none" /\ sock[s].end \in {"closing", "none"}
  /\ sock' = [sock EXCEPT ![s] = [@ EXCEPT !.session = "none", !.up = <<>>]]
  /\ UNCHANGED <<client, Server, left, faults>>

(* The room ends for any of the server's reasons; every session that       *)
(* serves the client says so and closes.                                   *)
RoomEnds ==
  /\ room = "open" /\ room' = "over"
  /\ sock' = [s \in Sockets |->
                IF sock[s].session = "serving" THEN Ends(Says(sock[s], "room_closed"), "room_closed_code")
                ELSE sock[s]]
  /\ UNCHANGED <<client, holder, left, ousted, faults>>

-----------------------------------------------------------------------------
OfSocket(s) == \/ SocketOpens(s) \/ ClosingEnds(s) \/ Receive(s)
               \/ FirstAttach(s) \/ Reattach(s) \/ Serve(s) \/ FindsClientGone(s)

Next ==
  \/ CreateOrJoin \/ DropSocket \/ ReconnectFires \/ PingFires \/ Leave \/ RoomEnds
  \/ \E s \in Sockets : OfSocket(s) \/ Lost(s)

Spec == Init /\ [][Next]_vars

(* Sockets open, timers fire, messages arrive and sessions run.  Users,    *)
(* faults and the end of the room are not obliged to anything.             *)
FairSpec ==
  /\ Spec
  /\ WF_vars(ReconnectFires)
  /\ \A s \in Sockets : /\ WF_vars(SocketOpens(s)) /\ WF_vars(Receive(s))
                        /\ WF_vars(FirstAttach(s) \/ Reattach(s) \/ Serve(s))
                        /\ WF_vars(ClosingEnds(s)) /\ WF_vars(FindsClientGone(s))

-----------------------------------------------------------------------------
(* Properties *)

(* Fields have their ranges; a socket's client end and session agree, and  *)
(* a request is pending exactly as long as it is to be sent or answered.    *)
TypeOK ==
  /\ client.status \in {"idle", "connecting", "attached", "reconnecting", "closed"}
  /\ client.socket \in 0 .. MaxSockets
  /\ client.pendingFirst \in {"none", "create", "join", "reattach"}
  /\ client.status = "attached" => client.attachment /\ client.pendingFirst = "none"
  /\ room \in {"none", "open", "over"} /\ holder \in 0 .. MaxSockets
  /\ faults \in 0 .. MaxFaults
  /\ \A s \in Sockets :
       /\ sock[s].end \in {"none", "connecting", "open", "closing"}
       /\ sock[s].session \in {"none", "attaching", "serving"}
       /\ sock[s].end = "connecting" => sock[s].session = "none"
       /\ client.pendingFirst = "none" => sock[s].end # "connecting"

(* handleClose does not ask which socket was closed, and need not: a        *)
(* socket is not replaced before its onclose, so the client never has two   *)
(* that are alive, and the one that is alive is its current one.           *)
OneSocket ==
  \A s \in Sockets : /\ sock[s].end \in {"connecting", "open"} => s = client.socket
                     /\ sock[s].end = "closing" => client.socket \in {0, s}

(* A client that is attached pings for as long as its socket is there: no  *)
(* order of reattaches, closes and expiring timers leaves it silent, which *)
(* the server would take for a peer that is gone.                          *)
NeverSilent ==
  client.status = "attached" /\ ~client.stopped =>
    client.socket # 0 /\ (sock[client.socket].end = "open" => client.ping)

(* A client that was attached stops for a reason: the user left, the room  *)
(* is over, or the server ended its session for a newer one.  A failed     *)
(* attempt, an error or an end of an earlier attachment does not stop it.  *)
StopsForCause ==
  client.attachment /\ client.stopped => left \/ room = "over" \/ ousted

(* "Leave for good: no reattach": neither a timer nor the late close of a  *)
(* socket opens another one, or sends anything, for a client that has left *)
(* or was stopped.                                                         *)
StaysStopped ==
  left \/ (client.attachment /\ client.stopped) =>
    /\ ~client.ping /\ ~client.reconnect
    /\ \A s \in Sockets : sock[s].end # "connecting"

(* Every attempt to attach comes to an end, and once faults cease a client *)
(* that was attached comes to rest for good: it has ended, or it is         *)
(* attached on the socket whose session holds its slot.                    *)
Settled ==
  \/ client.status \in {"idle", "closed"}
  \/ /\ client.status = "attached" /\ client.socket = holder
     /\ sock[holder].end = "open" /\ sock[holder].session = "serving"

ComesToRest == []<>Settled /\ [](client.attachment => <>[]Settled)
=============================================================================
