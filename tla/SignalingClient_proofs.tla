------------------------ MODULE SignalingClient_proofs ------------------------
(* Theorems about SignalingClient, for any number of sockets and faults.    *)
EXTENDS SignalingClient, TLAPS

ClientFields ==
  {"status", "attachment", "socket", "stopped", "pendingFirst", "ping", "reconnect"}
SocketFields == {"end", "session", "up", "down"}

IsClient(c) ==
  /\ DOMAIN c = ClientFields
  /\ c.attachment \in BOOLEAN /\ c.reconnect \in BOOLEAN
  /\ c.socket \in 0 .. MaxSockets

(* The records have their fields. *)
Shape ==
  /\ IsClient(client)
  /\ DOMAIN sock = Sockets
  /\ \A s \in Sockets : DOMAIN sock[s] = SocketFields

(* No two sockets have an end at the client. *)
AtMostOne ==
  \A s, t \in Sockets : sock[s].end # "none" /\ sock[t].end # "none" => s = t

(* Whoever may open a socket has none. *)
NoneLeft == \A s \in Sockets : sock[s].end = "none"

OpenersHaveNone ==
  /\ client.reconnect => client.attachment /\ NoneLeft
  /\ ~client.attachment /\ client.status # "connecting" => NoneLeft

(* The current socket is one, until its close is handled. *)
CurrentIsThere == client.socket # 0 => sock[client.socket].end # "none"

IInv == Shape /\ OneSocket /\ AtMostOne /\ OpenersHaveNone /\ CurrentIsThere

-----------------------------------------------------------------------------
(* Lemmas on the operators that rewrite the client and a socket. *)

(* Zero is not a socket. *)
LEMMA SocketsFacts ==
  /\ 0 \notin Sockets
  /\ \A i \in 0 .. MaxSockets : i # 0 => i \in Sockets
  /\ \A s \in Sockets : s \in 0 .. MaxSockets
  BY SMT, ClientAssumption DEF Sockets

(* A socket's record keeps its fields. *)
LEMMA SocketShapes ==
  ASSUME NEW k, DOMAIN k = SocketFields, NEW m
  PROVE  /\ DOMAIN Says(k, m) = SocketFields
         /\ Says(k, m).end = k.end
         /\ DOMAIN Ends(k, m) = SocketFields
         /\ Ends(k, m).end = k.end
         /\ DOMAIN Read(k) = SocketFields
         /\ Read(k).end = k.end
         /\ DOMAIN [Read(k) EXCEPT !.session = "serving"] = SocketFields
         /\ [Read(k) EXCEPT !.session = "serving"].end = k.end
         /\ DOMAIN Taken(k) = SocketFields
         /\ Taken(k).end = k.end
         /\ DOMAIN GivenUp(k) = SocketFields
         /\ GivenUp(k).end = "none"
         /\ DOMAIN Closing(k) = SocketFields
         /\ Closing(k).end = "closing"
  BY SMT DEF SocketFields, Says, Ends, Read, Taken, GivenUp, Closing

(* handleClose leaves the client without a socket, and reconnecting only   *)
(* if it was or has an attachment to reconnect to.                         *)
LEMMA HandleCloseResult ==
  ASSUME NEW c, IsClient(c), NEW code
  PROVE  /\ IsClient(HandleClose(c, code))
         /\ HandleClose(c, code).socket = 0
         /\ HandleClose(c, code).attachment = c.attachment
         /\ HandleClose(c, code).reconnect \in {c.reconnect, c.attachment}
<1> DEFINE d == [c EXCEPT !.ping = FALSE, !.socket = 0]
<1>1. /\ IsClient(d) /\ d.socket = 0
      /\ d.attachment = c.attachment /\ d.reconnect = c.reconnect
  BY SMT, ClientAssumption DEF IsClient, ClientFields
<1> DEFINE shut == [d EXCEPT !.status = "closed"]
           final == [d EXCEPT !.stopped = TRUE, !.status = "closed"]
           again == [d EXCEPT !.status = "reconnecting", !.reconnect = TRUE]
<1>2. \/ HandleClose(c, code) \in {shut, final}
      \/ HandleClose(c, code) = again /\ d.attachment
  BY ZenonT(30) DEF HandleClose, Rescheduled
<1> HIDE DEF d
<1>3. /\ IsClient(shut) /\ shut.socket = d.socket
      /\ shut.attachment = d.attachment /\ shut.reconnect = d.reconnect
  BY <1>1, SMT DEF IsClient, ClientFields
<1>4. /\ IsClient(final) /\ final.socket = d.socket
      /\ final.attachment = d.attachment /\ final.reconnect = d.reconnect
  BY <1>1, SMT DEF IsClient, ClientFields
<1>5. /\ IsClient(again) /\ again.socket = d.socket
      /\ again.attachment = d.attachment /\ again.reconnect = TRUE
  BY <1>1, SMT DEF IsClient, ClientFields
<1>6. d.attachment => d.attachment = TRUE
  BY <1>1 DEF IsClient
<1> HIDE DEF shut, final, again
<1> QED
  BY <1>1, <1>2, <1>3, <1>4, <1>5, <1>6

(* What a step that opens and frees no socket may do to the client. *)
Kept(c, d) ==
  /\ IsClient(d)
  /\ d.socket = c.socket
  /\ d.reconnect \in {FALSE, c.reconnect}
  /\ d.attachment = TRUE \/ (d.attachment = c.attachment /\ d.status = c.status)

(* A message that is not a close keeps the client's socket. *)
LEMMA HandledResult ==
  ASSUME NEW c, IsClient(c), NEW m, m \notin Codes
  PROVE  Kept(c, Handled(c, m))
<1> DEFINE told == [c EXCEPT !.stopped = TRUE, !.ping = FALSE, !.reconnect = FALSE]
           failed == [c EXCEPT !.stopped = @ \/ c.status # "attached"]
<1>1. Handled(c, m) \in {Attached(c), told, failed, c}
  BY SMT DEF Handled
<1>2. Kept(c, Attached(c))
  BY SMT DEF Kept, IsClient, ClientFields, Attached
<1>3. Kept(c, told)
  BY SMT DEF Kept, IsClient, ClientFields
<1>4. Kept(c, failed)
  BY SMT DEF Kept, IsClient, ClientFields
<1>5. Kept(c, c)
  BY DEF Kept
<1> HIDE DEF told, failed
<1> QED
  BY <1>1, <1>2, <1>3, <1>4, <1>5

(* An opened client has a new socket and waits for its reply. *)
LEMMA OpenedResult ==
  ASSUME NEW c, IsClient(c), NEW first, NextFree \in Sockets
  PROVE  /\ IsClient(Opened(c, first))
         /\ Opened(c, first).socket = NextFree
         /\ Opened(c, first).reconnect = c.reconnect
         /\ Opened(c, first).attachment = c.attachment
         /\ c.attachment = FALSE => Opened(c, first).status = "connecting"
<1>1. NextFree \in 0 .. MaxSockets
  BY SocketsFacts
<1> QED
  BY <1>1, SMT DEF IsClient, ClientFields, Opened

(* The initial states satisfy the inductive invariant. *)
LEMMA InitIInv == Init => IInv
<1> SUFFICES ASSUME Init PROVE IInv
  OBVIOUS
<1>1. \A c \in {NewClient, ClosedClient} :
        IsClient(c) /\ c.socket = 0 /\ c.reconnect = FALSE
  <2>1. IsClient(NewClient) /\ NewClient.socket = 0 /\ NewClient.reconnect = FALSE
    BY SMT, ClientAssumption DEF NewClient, IsClient, ClientFields
  <2>2. IsClient(ClosedClient) /\ ClosedClient.socket = 0 /\ ClosedClient.reconnect = FALSE
    BY SMT, ClientAssumption DEF ClosedClient, NewClient, IsClient, ClientFields
  <2> QED
    BY <2>1, <2>2
<1>2. DOMAIN NoSocket = SocketFields /\ NoSocket.end = "none"
  BY SMT DEF NoSocket, SocketFields
<1>3. Shape
  BY <1>1, <1>2, SMT DEF Init, Shape
<1>4. NoneLeft
  BY <1>2, SMT DEF Init, NoneLeft
<1>5. client.socket = 0 /\ client.reconnect = FALSE
  BY <1>1 DEF Init
<1> QED
  BY <1>3, <1>4, <1>5, SMT
     DEF IInv, OneSocket, AtMostOne, OpenersHaveNone, NoneLeft, CurrentIsThere

-----------------------------------------------------------------------------
(* Three kinds of steps keep the invariant. *)

(* No socket is opened or freed. *)
LEMMA AliveKept ==
  ASSUME IInv, Shape', OneSocket',
         \A s \in Sockets : sock'[s].end = "none" <=> sock[s].end = "none",
         client'.socket \in {0, client.socket},
         client'.reconnect \in {FALSE, client.reconnect},
         client'.attachment = TRUE
           \/ (client'.attachment = client.attachment /\ client'.status = client.status)
  PROVE  IInv'
<1>1. AtMostOne'
  BY SMT DEF IInv, AtMostOne
<1>2. NoneLeft => NoneLeft'
  BY SMT DEF NoneLeft
<1>3. OpenersHaveNone'
  <2>1. client'.reconnect => client.reconnect
    OBVIOUS
  <2>2. client.attachment \in BOOLEAN
    BY DEF IInv, Shape, IsClient
  <2>3. client'.reconnect => client'.attachment /\ NoneLeft'
    BY <1>2, <2>1, <2>2, Zenon DEF IInv, OpenersHaveNone
  <2>4. ~client'.attachment /\ client'.status # "connecting" => NoneLeft'
    BY <1>2, Zenon DEF IInv, OpenersHaveNone
  <2> QED
    BY <2>3, <2>4 DEF OpenersHaveNone
<1>4. client.socket # 0 => client.socket \in Sockets
  BY SocketsFacts DEF IInv, Shape, IsClient
<1>5. CurrentIsThere'
  BY <1>4, SMT DEF IInv, CurrentIsThere
<1> QED
  BY <1>1, <1>3, <1>5 DEF IInv

(* Neither does a step that changes no socket's end. *)
LEMMA EndsKept ==
  ASSUME IInv, Kept(client, client'),
         DOMAIN sock' = Sockets, \A s \in Sockets : DOMAIN sock'[s] = SocketFields,
         \A s \in Sockets : sock'[s].end = sock[s].end
  PROVE  IInv'
<1>1. Shape'
  BY SMT DEF Shape, Kept
<1>2. OneSocket'
  BY SMT DEF IInv, OneSocket, Kept
<1> QED
  BY <1>1, <1>2, AliveKept, ZenonT(30) DEF Kept

(* The socket s is gone, and handleClose has run. *)
LEMMA SocketFreed ==
  ASSUME IInv, NEW s \in Sockets, sock[s].end # "none", NEW code,
         client' = HandleClose(client, code),
         DOMAIN sock' = Sockets, \A t \in Sockets : DOMAIN sock'[t] = SocketFields,
         sock'[s].end = "none",
         \A t \in Sockets \ {s} : sock'[t].end = sock[t].end
  PROVE  IInv'
<1>1. /\ IsClient(client') /\ client'.socket = 0
      /\ client'.attachment = client.attachment
      /\ client'.reconnect \in {client.reconnect, client.attachment}
  BY HandleCloseResult DEF IInv, Shape
<1>2. Shape'
  BY <1>1 DEF Shape
<1>3. NoneLeft'
  BY SMT DEF IInv, AtMostOne, NoneLeft
<1>4. client'.reconnect => client'.attachment
  BY <1>1 DEF IInv, OpenersHaveNone
<1> QED
  BY <1>1, <1>2, <1>3, <1>4, SMT
     DEF IInv, OneSocket, AtMostOne, OpenersHaveNone, NoneLeft, CurrentIsThere

(* A client without sockets opens one. *)
LEMMA OneOpened ==
  ASSUME IInv, NoneLeft, Free # {},
         NEW c, IsClient(c), c.reconnect = FALSE, NEW first,
         client' = Opened(c, first),
         sock' = [sock EXCEPT ![NextFree] = [NoSocket EXCEPT !.end = "connecting"]]
  PROVE  IInv'
<1> DEFINE n == NextFree
           new == [NoSocket EXCEPT !.end = "connecting"]
<1>1. n \in Sockets
  BY DEF NextFree, Free
<1>2. /\ IsClient(client') /\ client'.socket = n /\ client'.reconnect = FALSE
      /\ client'.attachment = c.attachment
      /\ c.attachment = FALSE => client'.status = "connecting"
  BY <1>1, OpenedResult
<1>3. DOMAIN new = SocketFields /\ new.end = "connecting"
  BY SMT DEF NoSocket, SocketFields
<1> HIDE DEF n, new
<1>4. /\ DOMAIN sock' = Sockets
      /\ \A s \in Sockets : sock'[s] = IF s = n THEN new ELSE sock[s]
  BY <1>1, SMT DEF IInv, Shape, n, new
<1>5. Shape'
  BY <1>2, <1>3, <1>4, SMT DEF IInv, Shape
<1>6. \A s \in Sockets : sock'[s].end = IF s = n THEN "connecting" ELSE "none"
  <2>1. TAKE s \in Sockets
  <2>2. CASE s = n
    BY <1>3, <1>4, <2>2, Zenon
  <2>3. CASE s # n
    BY <1>4, <2>3, Zenon DEF NoneLeft
  <2> QED
    BY <2>2, <2>3
<1>7. client'.attachment \in BOOLEAN
  BY <1>2 DEF IsClient
<1> QED
  BY <1>1, <1>2, <1>5, <1>6, <1>7, SMT
     DEF IInv, OneSocket, AtMostOne, OpenersHaveNone, NoneLeft, CurrentIsThere

-----------------------------------------------------------------------------
(* One lemma per action, or per kind of action. *)

(* A user's create or join. *)
LEMMA CreateOrJoinStep == IInv /\ CreateOrJoin => IInv'
<1> SUFFICES ASSUME IInv, CreateOrJoin PROVE IInv'
  OBVIOUS
<1>1. PICK first \in {"create", "join"} : Opens(first)
  BY DEF CreateOrJoin
<1>2. NoneLeft
  BY DEF IInv, OpenersHaveNone, CreateOrJoin
<1>3. client.reconnect = FALSE
  BY DEF IInv, OpenersHaveNone, CreateOrJoin, Shape, IsClient
<1>4. IsClient(client)
  BY DEF IInv, Shape
<1> QED
  BY <1>1, <1>2, <1>3, <1>4, OneOpened, Zenon DEF Opens

(* The reconnect timer. *)
LEMMA ReconnectStep == IInv /\ ReconnectFires => IInv'
<1> SUFFICES ASSUME IInv, ReconnectFires PROVE IInv'
  OBVIOUS
<1> DEFINE c == [client EXCEPT !.reconnect = FALSE]
<1>1. Kept(client, c) /\ c.reconnect = FALSE
  BY SMT DEF Kept, IInv, Shape, IsClient, ClientFields
<1>2. NoneLeft
  BY DEF IInv, OpenersHaveNone, ReconnectFires
<1> HIDE DEF c
<1>3. CASE client' = c /\ UNCHANGED sock
  BY <1>1, <1>3, EndsKept, Zenon DEF IInv, Shape
<1>4. CASE /\ client' = Opened(c, "reattach")
           /\ sock' = [sock EXCEPT ![NextFree] = [NoSocket EXCEPT !.end = "connecting"]]
  BY <1>1, <1>2, <1>4, OneOpened, Zenon DEF Kept, ReconnectFires
<1> QED
  BY <1>3, <1>4, Zenon DEF ReconnectFires, c

(* The ping timer. *)
LEMMA PingStep == IInv /\ PingFires => IInv'
<1> SUFFICES ASSUME IInv, PingFires PROVE IInv'
  OBVIOUS
<1>1. Kept(client, client')
  BY SMT DEF PingFires, Kept, IInv, Shape, IsClient, ClientFields
<1>2. sock' = [sock EXCEPT ![client.socket].up = <<"ping">>] \/ sock' = sock
  BY DEF PingFires
<1>3. /\ DOMAIN sock' = Sockets
      /\ \A s \in Sockets : DOMAIN sock'[s] = SocketFields /\ sock'[s].end = sock[s].end
  BY <1>2, SMT DEF IInv, Shape, SocketFields
<1> QED
  BY <1>1, <1>3, EndsKept

(* A socket opens: its end is still its client's. *)
LEMMA SocketOpensStep ==
  ASSUME IInv, NEW s \in Sockets, SocketOpens(s)
  PROVE  IInv'
<1> DEFINE k == [sock[s] EXCEPT !.end = "open", !.session = "attaching",
                   !.up = IF client.pendingFirst = "none" THEN <<>> ELSE <<client.pendingFirst>>]
<1>1. DOMAIN k = SocketFields /\ k.end = "open"
  BY SMT DEF IInv, Shape, SocketFields
<1>2. sock' = [sock EXCEPT ![s] = k] /\ client' = client /\ sock[s].end = "connecting"
  BY DEF SocketOpens
<1> HIDE DEF k
<1>3. /\ DOMAIN sock' = Sockets
      /\ \A t \in Sockets : sock'[t] = IF t = s THEN k ELSE sock[t]
  BY <1>2, SMT DEF IInv, Shape
<1>4. Shape'
  BY <1>1, <1>2, <1>3, SMT DEF IInv, Shape
<1>5. \A t \in Sockets : sock'[t].end = "none" <=> sock[t].end = "none"
  BY <1>1, <1>2, <1>3, SMT
<1>6. OneSocket'
  BY <1>1, <1>2, <1>3, SMT DEF IInv, OneSocket
<1> QED
  BY <1>2, <1>4, <1>5, <1>6, AliveKept, Zenon DEF IInv, Shape, IsClient

(* The current socket begins to close. *)
LEMMA CurrentCloses ==
  ASSUME IInv, client.socket # 0,
         sock' = [sock EXCEPT ![client.socket] = Closing(@)],
         IsClient(client'), client'.socket \in {0, client.socket},
         client'.reconnect \in {FALSE, client.reconnect},
         client'.attachment = client.attachment,
         client'.attachment = TRUE \/ client'.status = client.status
  PROVE  IInv'
<1> DEFINE s == client.socket
           k == Closing(sock[s])
<1>1. s \in Sockets
  BY SocketsFacts DEF IInv, Shape, IsClient
<1>2. DOMAIN k = SocketFields /\ k.end = "closing"
  BY <1>1, SocketShapes DEF IInv, Shape
<1> HIDE DEF k
<1>3. /\ DOMAIN sock' = Sockets
      /\ \A t \in Sockets : sock'[t] = IF t = s THEN k ELSE sock[t]
  BY <1>1, SMT DEF IInv, Shape, k
<1>4. Shape'
  BY <1>2, <1>3, SMT DEF IInv, Shape
<1>5. sock[s].end # "none"
  BY DEF IInv, CurrentIsThere
<1>6. \A t \in Sockets : sock'[t].end = "none" <=> sock[t].end = "none"
  BY <1>2, <1>3, <1>5, SMT
<1>7. \A t \in Sockets : t # s => sock[t].end = "none"
  BY <1>1, <1>5, Zenon DEF IInv, AtMostOne
<1>8. OneSocket'
  BY <1>2, <1>3, <1>7, SMT DEF OneSocket
<1> QED
  BY <1>4, <1>6, <1>8, AliveKept, Zenon

(* The dev drop. *)
LEMMA DropStep == IInv /\ DropSocket => IInv'
  BY CurrentCloses, Zenon DEF DropSocket, DropKeepsSocket, IInv, Shape, IsClient

(* The user leaves. *)
LEMMA LeaveStep == IInv /\ Leave => IInv'
<1> SUFFICES ASSUME IInv, Leave PROVE IInv'
  OBVIOUS
<1>1. /\ IsClient(client') /\ client'.socket = 0 /\ client'.reconnect = FALSE
      /\ client'.attachment = client.attachment /\ client'.attachment = TRUE
  <2>1. IsClient(client) /\ client.attachment = TRUE /\ client' = Leaves(client)
    BY DEF Leave, IInv, Shape, IsClient
  <2>2. /\ IsClient(Leaves(client)) /\ Leaves(client).socket = 0
        /\ Leaves(client).reconnect = FALSE /\ Leaves(client).attachment = client.attachment
    BY <2>1, SMT, ClientAssumption DEF Leaves, IsClient, ClientFields
  <2> QED
    BY <2>1, <2>2
<1>2. CASE client.socket = 0
  <2>1. sock' = sock
    BY <1>2 DEF Leave
  <2>2. Shape' /\ OneSocket'
    BY <1>1, <1>2, <2>1, SMT DEF IInv, Shape, OneSocket
  <2> QED
    BY <1>1, <2>1, <2>2, AliveKept, Zenon
<1>3. CASE client.socket # 0
  BY <1>1, <1>3, CurrentCloses, Zenon DEF Leave
<1> QED
  BY <1>2, <1>3

(* A socket is lost. *)
LEMMA LostStep ==
  ASSUME IInv, NEW s \in Sockets, Lost(s)
  PROVE  IInv'
<1>1. DOMAIN GivenUp(sock[s]) = SocketFields /\ GivenUp(sock[s]).end = "none"
  BY SocketShapes DEF IInv, Shape
<1>2. sock' = [sock EXCEPT ![s] = GivenUp(sock[s])]
  BY DEF Lost
<1>3. /\ DOMAIN sock' = Sockets
      /\ \A t \in Sockets : sock'[t] = IF t = s THEN GivenUp(sock[s]) ELSE sock[t]
  BY <1>2, SMT DEF IInv, Shape
<1>4. \A t \in Sockets : DOMAIN sock'[t] = SocketFields
  BY <1>1, <1>3, Zenon DEF IInv, Shape
<1>5. sock'[s].end = "none" /\ \A t \in Sockets \ {s} : sock'[t].end = sock[t].end
  BY <1>1, <1>3, Zenon
<1>6. sock[s].end # "none" /\ client' = HandleClose(client, "other_code")
  BY DEF Lost
<1> QED
  BY <1>3, <1>4, <1>5, <1>6, SocketFreed

(* The handshake of a close ends. *)
LEMMA ClosingEndsStep ==
  ASSUME IInv, NEW s \in Sockets, ClosingEnds(s)
  PROVE  IInv'
<1>1. DOMAIN GivenUp(sock[s]) = SocketFields /\ GivenUp(sock[s]).end = "none"
  BY SocketShapes DEF IInv, Shape
<1>2. sock' = [sock EXCEPT ![s] = GivenUp(sock[s])]
  BY DEF ClosingEnds
<1>3. /\ DOMAIN sock' = Sockets
      /\ \A t \in Sockets : sock'[t] = IF t = s THEN GivenUp(sock[s]) ELSE sock[t]
  BY <1>2, SMT DEF IInv, Shape
<1>4. \A t \in Sockets : DOMAIN sock'[t] = SocketFields
  BY <1>1, <1>3, Zenon DEF IInv, Shape
<1>5. sock'[s].end = "none" /\ \A t \in Sockets \ {s} : sock'[t].end = sock[t].end
  BY <1>1, <1>3, Zenon
<1>6. sock[s].end # "none"
  BY DEF ClosingEnds
<1>7. PICK code : client' = HandleClose(client, code)
  BY DEF ClosingEnds
<1> QED
  BY <1>3, <1>4, <1>5, <1>6, <1>7, SocketFreed

(* A message is handled, or a close of the server's. *)
LEMMA ReceiveStep ==
  ASSUME IInv, NEW s \in Sockets, Receive(s)
  PROVE  IInv'
<1> DEFINE m == Head(sock[s].down)
           k == IF m \in Codes THEN GivenUp(sock[s]) ELSE Taken(sock[s])
<1>1. DOMAIN k = SocketFields
  <2>1. DOMAIN GivenUp(sock[s]) = SocketFields
    BY SocketShapes DEF IInv, Shape
  <2>2. DOMAIN Taken(sock[s]) = SocketFields
    BY SocketShapes DEF IInv, Shape
  <2> QED
    BY <2>1, <2>2
<1>2. k.end = IF m \in Codes THEN "none" ELSE sock[s].end
  <2>1. GivenUp(sock[s]).end = "none"
    BY SocketShapes DEF IInv, Shape
  <2>2. Taken(sock[s]).end = sock[s].end
    BY SocketShapes DEF IInv, Shape
  <2> QED
    BY <2>1, <2>2
<1>3. client' = Handled(client, m) /\ sock' = [sock EXCEPT ![s] = k] /\ sock[s].end = "open"
  BY Zenon DEF Receive
<1> HIDE DEF m, k
<1>4. /\ DOMAIN sock' = Sockets
      /\ \A t \in Sockets : sock'[t] = IF t = s THEN k ELSE sock[t]
  BY <1>3, SMT DEF IInv, Shape
<1>5. \A t \in Sockets : DOMAIN sock'[t] = SocketFields
  BY <1>1, <1>4, Zenon DEF IInv, Shape
<1>6. CASE m \in Codes
  <2>1. client' = HandleClose(client, m)
    BY <1>3, <1>6, SMT DEF Handled, Codes, FinalCodes
  <2>2. sock'[s].end = "none" /\ \A t \in Sockets \ {s} : sock'[t].end = sock[t].end
    BY <1>2, <1>4, <1>6, Zenon
  <2>3. sock[s].end # "none"
    BY <1>3
  <2> QED
    BY <1>4, <1>5, <2>1, <2>2, <2>3, SocketFreed
<1>7. CASE m \notin Codes
  <2>1. Kept(client, client')
    BY <1>3, <1>7, HandledResult DEF IInv, Shape
  <2>2. \A t \in Sockets : sock'[t].end = sock[t].end
    BY <1>2, <1>4, <1>7, Zenon
  <2> QED
    BY <1>4, <1>5, <2>1, <2>2, EndsKept
<1> QED
  BY <1>6, <1>7

(* The server's steps change no socket's end at the client. *)
LEMMA ServerStep ==
  ASSUME IInv, client' = client,
         \/ \E s \in Sockets : FirstAttach(s) \/ Reattach(s) \/ Serve(s) \/ FindsClientGone(s)
         \/ RoomEnds
  PROVE  IInv'
<1> DEFINE Same == /\ DOMAIN sock' = Sockets
                   /\ \A t \in Sockets : DOMAIN sock'[t] = SocketFields /\ sock'[t].end = sock[t].end
<1>1. Kept(client, client')
  BY DEF Kept, IInv, Shape
<1>2. ASSUME NEW s \in Sockets, NEW k, DOMAIN k = SocketFields, k.end = sock[s].end,
             sock' = [sock EXCEPT ![s] = k]
      PROVE  Same
  <2>1. \A t \in Sockets : sock'[t] = IF t = s THEN k ELSE sock[t]
    BY <1>2, SMT DEF IInv, Shape
  <2>2. DOMAIN sock' = Sockets
    BY <1>2, SMT DEF IInv, Shape
  <2> QED
    BY <1>2, <2>1, <2>2, Zenon DEF IInv, Shape
<1>3. \A s \in Sockets : DOMAIN sock[s] = SocketFields
  BY DEF IInv, Shape
<1>4. ASSUME NEW s \in Sockets, FirstAttach(s) PROVE Same
  <2> DEFINE a == [Read(sock[s]) EXCEPT !.session = "serving"]
             b == Says(sock[s], "error")
  <2>1. DOMAIN a = SocketFields /\ a.end = sock[s].end
    BY <1>3, SocketShapes
  <2>2. DOMAIN b = SocketFields /\ b.end = sock[s].end
    BY <1>3, SocketShapes
  <2>3. \/ sock' = [sock EXCEPT ![s] = Says(a, "attached")]
        \/ \E code \in {"protocol", "other_code"} : sock' = [sock EXCEPT ![s] = Ends(b, code)]
    BY <1>4, Zenon DEF FirstAttach
  <2> HIDE DEF a, b
  <2>4. DOMAIN Says(a, "attached") = SocketFields /\ Says(a, "attached").end = sock[s].end
    BY <2>1, SocketShapes
  <2>5. \A code : DOMAIN Ends(b, code) = SocketFields /\ Ends(b, code).end = sock[s].end
    BY <2>2, SocketShapes
  <2> HIDE DEF Same
  <2> QED
    BY <1>2, <2>3, <2>4, <2>5
<1>5. ASSUME NEW s \in Sockets, Reattach(s) PROVE Same
  <2> DEFINE a == [Read(sock[s]) EXCEPT !.session = "serving"]
             b == Says(sock[s], "error")
  <2>1. DOMAIN a = SocketFields /\ a.end = sock[s].end
    BY <1>3, SocketShapes
  <2>2. DOMAIN b = SocketFields /\ b.end = sock[s].end
    BY <1>3, SocketShapes
  <2>3. \/ sock' = [t \in Sockets |->
               IF t = s THEN Says(a, "attached")
               ELSE IF sock[t].session = "serving" THEN Ends(sock[t], "superseded") ELSE sock[t]]
        \/ sock' = [sock EXCEPT ![s] = Ends(b, "other_code")]
    BY <1>5 DEF Reattach
  <2> HIDE DEF a, b
  <2>4. DOMAIN Says(a, "attached") = SocketFields /\ Says(a, "attached").end = sock[s].end
    BY <2>1, SocketShapes
  <2>5. DOMAIN Ends(b, "other_code") = SocketFields /\ Ends(b, "other_code").end = sock[s].end
    BY <2>2, SocketShapes
  <2>6. \A t \in Sockets : /\ DOMAIN Ends(sock[t], "superseded") = SocketFields
                           /\ Ends(sock[t], "superseded").end = sock[t].end
    BY <1>3, SocketShapes
  <2>7. CASE sock' = [t \in Sockets |->
               IF t = s THEN Says(a, "attached")
               ELSE IF sock[t].session = "serving" THEN Ends(sock[t], "superseded") ELSE sock[t]]
    BY <1>3, <2>4, <2>6, <2>7, SMT
  <2>8. CASE sock' = [sock EXCEPT ![s] = Ends(b, "other_code")]
    <3> HIDE DEF Same
    <3> QED
      BY <1>2, <2>5, <2>8
  <2> QED
    BY <2>3, <2>7, <2>8
<1>6. ASSUME NEW s \in Sockets, Serve(s) PROVE Same
  <2> DEFINE a == Read(sock[s])
  <2>1. DOMAIN a = SocketFields /\ a.end = sock[s].end
    BY <1>3, SocketShapes
  <2>2. sock' = [sock EXCEPT ![s] = Says(a, "pong")]
    BY <1>6, Zenon DEF Serve
  <2> HIDE DEF a
  <2>3. DOMAIN Says(a, "pong") = SocketFields /\ Says(a, "pong").end = sock[s].end
    BY <2>1, SocketShapes
  <2> HIDE DEF Same
  <2> QED
    BY <1>2, <2>2, <2>3
<1>7. ASSUME NEW s \in Sockets, FindsClientGone(s) PROVE Same
  <2> DEFINE a == [sock[s] EXCEPT !.session = "none", !.up = <<>>]
  <2>1. DOMAIN a = SocketFields /\ a.end = sock[s].end
    BY <1>3, SMT DEF SocketFields
  <2>2. sock' = [sock EXCEPT ![s] = a]
    BY <1>7 DEF FindsClientGone
  <2> HIDE DEF a, Same
  <2> QED
    BY <1>2, <2>1, <2>2
<1>8. ASSUME RoomEnds PROVE Same
  <2>1. \A s \in Sockets :
          /\ DOMAIN Says(sock[s], "room_closed") = SocketFields
          /\ Says(sock[s], "room_closed").end = sock[s].end
    BY <1>3, SocketShapes
  <2>2. \A s \in Sockets :
          /\ DOMAIN Ends(Says(sock[s], "room_closed"), "room_closed_code") = SocketFields
          /\ Ends(Says(sock[s], "room_closed"), "room_closed_code").end = sock[s].end
    BY <2>1, SocketShapes
  <2> QED
    BY <1>3, <1>8, <2>2, ZenonT(30) DEF RoomEnds
<1>9. Same
  <2> HIDE DEF Same
  <2> QED
    BY <1>4, <1>5, <1>6, <1>7, <1>8, Zenon
<1> QED
  BY <1>1, <1>9, EndsKept

-----------------------------------------------------------------------------
(* Every step keeps the invariant. *)
LEMMA NextIInv == IInv /\ [Next]_vars => IInv'
<1> SUFFICES ASSUME IInv, [Next]_vars PROVE IInv'
  OBVIOUS
<1>1. CASE CreateOrJoin
  BY <1>1, CreateOrJoinStep
<1>2. CASE DropSocket
  BY <1>2, DropStep
<1>3. CASE ReconnectFires
  BY <1>3, ReconnectStep
<1>4. CASE PingFires
  BY <1>4, PingStep
<1>5. CASE Leave
  BY <1>5, LeaveStep
<1>6. CASE RoomEnds
  BY <1>6, ServerStep DEF RoomEnds
<1>7. ASSUME NEW s \in Sockets, OfSocket(s) \/ Lost(s) PROVE IInv'
  <2>1. CASE SocketOpens(s)
    BY <2>1, SocketOpensStep
  <2>2. CASE ClosingEnds(s)
    BY <2>2, ClosingEndsStep
  <2>3. CASE Receive(s)
    BY <2>3, ReceiveStep
  <2>4. CASE FirstAttach(s) \/ Reattach(s) \/ Serve(s) \/ FindsClientGone(s)
    BY <2>4, ServerStep DEF FirstAttach, Reattach, Serve, FindsClientGone
  <2>5. CASE Lost(s)
    BY <2>5, LostStep
  <2> QED
    BY <1>7, <2>1, <2>2, <2>3, <2>4, <2>5 DEF OfSocket
<1>8. CASE UNCHANGED vars
  <2>1. UNCHANGED <<client, sock>>
    BY <1>8 DEF vars
  <2> QED
    BY <2>1 DEF IInv, Shape, OneSocket, AtMostOne, OpenersHaveNone, NoneLeft, CurrentIsThere
<1> QED
  BY <1>1, <1>2, <1>3, <1>4, <1>5, <1>6, <1>7, <1>8 DEF Next

(* A client never has two sockets alive, and the one that is alive is its  *)
(* current one: handleClose cannot be called for a socket that has been    *)
(* replaced, however sockets are lost, dropped, closed and opened again.   *)
THEOREM ClientHasOneSocket == Spec => []OneSocket
<1>1. IInv => OneSocket
  BY DEF IInv
<1> QED
  BY <1>1, InitIInv, NextIInv, PTL DEF Spec

-----------------------------------------------------------------------------
(* The other invariants need to know what may stand in the queues.  A      *)
(* message that is still to be handled agrees with what has happened since *)
(* it was sent, and a request that is not answered is still pending.       *)
Messages == Codes \cup {"attached", "error", "pong", "room_closed"}
Requests == {"create", "join", "reattach"}

ClientRules(c) ==
  /\ c.status \in {"idle", "connecting", "attached", "reconnecting", "closed"}
  /\ c.pendingFirst \in {"none"} \cup Requests
  /\ c.stopped \in BOOLEAN /\ c.ping \in BOOLEAN
  /\ c.status = "attached" => c.attachment /\ c.pendingFirst = "none"
  /\ c.pendingFirst \in {"create", "join"} => ~c.attachment
  /\ c.ping => c.status = "attached" /\ c.socket # 0

(* A message m for the client c, when r is the room's state and o says      *)
(* whether the slot was taken from a live session.                         *)
Fits(m, c, r, o) ==
  /\ m = "attached" => /\ c.pendingFirst # "none" /\ r # "none"
                       /\ c.socket # 0 => ~c.stopped
  /\ m = "error" => (c.attachment => r = "over")
  /\ m \in {"room_closed", "room_closed_code"} => r = "over"
  /\ m = "superseded" => o
  /\ m = "protocol" => ~c.attachment

(* The reply comes first, and a session that has said "attached" does not   *)
(* end with a refusal.                                                     *)
Queue(q, c, r, o) ==
  /\ q \in Seq(Messages)
  /\ \A i \in 1 .. Len(q) : Fits(q[i], c, r, o)
  /\ \A i \in 2 .. Len(q) : /\ q[i] \notin {"attached", "error"}
                            /\ q[1] = "attached" => q[i] # "protocol"

(* A request is on its way only from a client that waits for the reply. *)
Waits(c) == c.pendingFirst # "none" /\ ~c.stopped

SocketRules(k, c, r, o) ==
  /\ DOMAIN k = SocketFields
  /\ k.end \in {"none", "connecting", "open", "closing"}
  /\ k.session \in {"none", "attaching", "serving"}
  /\ k.up \in Seq(Requests \cup {"ping"})
  /\ Queue(k.down, c, r, o)
  /\ k.end = "none" => k.down = <<>>
  /\ k.end = "connecting" => k.session = "none" /\ k.down = <<>> /\ Waits(c)
  /\ k.end = "open" /\ k.session = "attaching" =>
       k.up = <<c.pendingFirst>> /\ k.down = <<>> /\ Waits(c)

RoomRules ==
  /\ room \in {"none", "open", "over"} /\ holder \in 0 .. MaxSockets
  /\ faults \in 0 .. MaxFaults
  /\ left \in BOOLEAN /\ ousted \in BOOLEAN
  /\ client.attachment => room # "none"
  /\ left => client.socket = 0 /\ client.stopped /\ client.attachment

SocketsRules(c, r, o) == \A s \in Sockets : SocketRules(sock[s], c, r, o)

MRest ==
  /\ ClientRules(client) /\ RoomRules /\ SocketsRules(client, room, ousted)
  /\ NeverSilent /\ StopsForCause /\ StaysStopped

MInv == IInv /\ MRest

-----------------------------------------------------------------------------
(* Queues. *)

(* What a queue of messages has at each place. *)
LEMMA QueueItems ==
  ASSUME NEW q \in Seq(Messages)
  PROVE  /\ Len(q) \in Nat
         /\ \A i \in 1 .. Len(q) : q[i] \in Messages
         /\ q # <<>> => Len(q) > 0 /\ Head(q) = q[1] /\ Head(q) \in Messages
  BY SMT

(* The empty queue agrees with everything. *)
LEMMA EmptyQueue == \A c, r, o : Queue(<<>>, c, r, o)
  BY SMT DEF Queue

(* A first message. *)
LEMMA FirstMessage ==
  ASSUME NEW c, NEW r, NEW o, NEW m \in Messages, Fits(m, c, r, o)
  PROVE  Queue(<<m>>, c, r, o)
  BY SMT DEF Queue

(* It stands alone. *)
LEMMA AppendFirst == \A m : Append(<<>>, m) = <<m>> /\ <<m>> # <<>> /\ <<m>>[1] = m
  BY SMT

(* A later message, which is no reply. *)
LEMMA LaterMessage ==
  ASSUME NEW c, NEW r, NEW o, NEW q, Queue(q, c, r, o),
         NEW m \in Messages, Fits(m, c, r, o), m \notin {"attached", "error"},
         m = "protocol" => q # <<>> /\ q[1] # "attached"
  PROVE  Queue(Append(q, m), c, r, o)
<1> DEFINE w == Append(q, m)
<1>1. /\ w \in Seq(Messages) /\ Len(w) = Len(q) + 1 /\ Len(q) \in Nat
      /\ \A i \in 1 .. Len(w) : w[i] = IF i = Len(q) + 1 THEN m ELSE q[i]
  BY SMT DEF Queue
<1>2. q = <<>> \/ Len(q) > 0
  BY SMT DEF Queue
<1> HIDE DEF w
<1>3. \A i \in 1 .. Len(w) : Fits(w[i], c, r, o)
  <2>1. TAKE i \in 1 .. Len(w)
  <2>2. i = Len(q) + 1 \/ i \in 1 .. Len(q)
    BY <1>1, SMT
  <2> QED
    BY <1>1, <2>2, SMT DEF Queue
<1>4. \A i \in 2 .. Len(w) : /\ w[i] \notin {"attached", "error"}
                             /\ w[1] = "attached" => w[i] # "protocol"
  <2>1. TAKE i \in 2 .. Len(w)
  <2>2. Len(q) > 0 /\ w[1] = q[1] /\ i \in 1 .. Len(w)
    BY <1>1, SMT
  <2>3. CASE i = Len(q) + 1
    BY <1>1, <2>2, <2>3, SMT
  <2>4. CASE i # Len(q) + 1
    <3>1. i \in 2 .. Len(q) /\ w[i] = q[i]
      BY <1>1, <2>2, <2>4, SMT
    <3> QED
      BY <2>2, <3>1, SMT DEF Queue
  <2> QED
    BY <2>3, <2>4
<1> QED
  BY <1>1, <1>3, <1>4 DEF Queue, w

(* The rest of a queue agrees with every client of the same attachment     *)
(* that its head leaves behind.                                            *)
LEMMA RestOfQueue ==
  ASSUME NEW c, NEW r, NEW o, NEW q, Queue(q, c, r, o), q # <<>>,
         NEW d, d.attachment = c.attachment \/ q[1] = "attached"
  PROVE  Queue(Tail(q), d, r, o)
<1> DEFINE w == Tail(q)
<1>1. /\ w \in Seq(Messages) /\ Len(w) = Len(q) - 1 /\ Len(q) \in Nat \ {0}
      /\ \A i \in 1 .. Len(w) : w[i] = q[i + 1]
  BY SMT DEF Queue
<1> HIDE DEF w
<1>2. ASSUME NEW i \in 1 .. Len(w)
      PROVE  /\ w[i] \notin {"attached", "error"} /\ Fits(w[i], d, r, o)
             /\ w[1] # "attached"
  <2>1. /\ i + 1 \in 1 .. Len(q) /\ i + 1 \in 2 .. Len(q) /\ w[i] = q[i + 1]
        /\ 2 \in 2 .. Len(q) /\ w[1] = q[2]
    BY <1>1, SMT
  <2>2. Fits(w[i], c, r, o) /\ w[i] \notin {"attached", "error"} /\ w[1] # "attached"
    BY <2>1, SMT DEF Queue
  <2>3. q[1] = "attached" => w[i] # "protocol"
    BY <2>1, SMT DEF Queue
  <2> QED
    BY <2>2, <2>3, SMT DEF Fits
<1>3. \A i \in 2 .. Len(w) : i \in 1 .. Len(w)
  BY <1>1, SMT
<1> QED
  BY <1>1, <1>2, <1>3, Zenon DEF Queue, w

(* The code of a queue. *)
LEMMA CodeOfQueue ==
  ASSUME NEW c, NEW r, NEW o, NEW q, Queue(q, c, r, o),
         NEW d, d.attachment = c.attachment
  PROVE  Queue(CodeOf(q), d, r, o)
<1>1. CASE q # <<>> /\ q[Len(q)] \in Codes
  <2> DEFINE m == q[Len(q)]
  <2>1. m \in Messages /\ Fits(m, c, r, o) /\ m \in Codes
    BY <1>1, SMT DEF Queue, Messages
  <2>2. Fits(m, d, r, o)
    BY <2>1, SMT DEF Fits, Codes, FinalCodes
  <2>3. CodeOf(q) = <<m>>
    BY <1>1 DEF CodeOf
  <2> HIDE DEF m
  <2> QED
    BY <2>1, <2>2, <2>3, FirstMessage
<1>2. CASE ~(q # <<>> /\ q[Len(q)] \in Codes)
  BY <1>2, EmptyQueue DEF CodeOf
<1> QED
  BY <1>1, <1>2

(* A queue still agrees when the room ends or the slot is taken. *)
LEMMA QueueLater ==
  ASSUME NEW c, NEW r, NEW o, NEW q, Queue(q, c, r, o),
         NEW s, NEW p, s = r \/ s = "over", o => p
  PROVE  Queue(q, c, s, p)
  BY SMT DEF Queue, Fits

-----------------------------------------------------------------------------
(* Sockets. *)

(* What the operators do to the other fields of a socket. *)
LEMMA SocketParts ==
  ASSUME NEW k, DOMAIN k = SocketFields, NEW m
  PROVE  /\ Says(k, m).session = k.session /\ Says(k, m).up = k.up
         /\ Says(k, m).down = IF k.end = "open" THEN Append(k.down, m) ELSE k.down
         /\ Ends(k, m).session = "none" /\ Ends(k, m).up = <<>>
         /\ Ends(k, m).down = IF k.end \in {"open", "closing"} THEN Append(k.down, m) ELSE k.down
         /\ Read(k).session = k.session /\ Read(k).up = Tail(k.up) /\ Read(k).down = k.down
         /\ Taken(k).session = k.session /\ Taken(k).up = k.up /\ Taken(k).down = Tail(k.down)
         /\ GivenUp(k).session = k.session /\ GivenUp(k).up = k.up /\ GivenUp(k).down = <<>>
         /\ Closing(k).session = k.session /\ Closing(k).up = k.up
         /\ Closing(k).down = CodeOf(k.down)
  BY SMT DEF SocketFields, Says, Ends, Read, Taken, GivenUp, Closing

(* A socket that is not alive concerns no client. *)
LEMMA QuietSocket ==
  ASSUME NEW k, NEW c, NEW r, NEW o, SocketRules(k, c, r, o), k.end = "none"
  PROVE  \A d, s, p : SocketRules(k, d, s, p)
  BY EmptyQueue, SMT DEF SocketRules

(* A session takes up what was sent. *)
LEMMA ReadFits ==
  ASSUME NEW k, NEW c, NEW r, NEW o, SocketRules(k, c, r, o), k.up # <<>>,
         k.session # "none", NEW j, j \in {Read(k), [Read(k) EXCEPT !.session = "serving"]},
         j.session # "attaching"
  PROVE  /\ SocketRules(j, c, r, o) /\ j.end = k.end /\ j.down = k.down
         /\ j.session \in {k.session, "serving"}
<1>1. /\ DOMAIN Read(k) = SocketFields /\ Read(k).end = k.end
      /\ Read(k).session = k.session /\ Read(k).up = Tail(k.up) /\ Read(k).down = k.down
  BY SocketShapes, SocketParts DEF SocketRules
<1>2. Tail(k.up) \in Seq(Requests \cup {"ping"})
  BY SMT DEF SocketRules
<1> DEFINE e == [Read(k) EXCEPT !.session = "serving"]
<1>3. /\ DOMAIN e = SocketFields /\ e.end = k.end
      /\ e.session = "serving" /\ e.up = Tail(k.up) /\ e.down = k.down
  BY <1>1, SMT DEF SocketFields
<1>4. /\ DOMAIN j = SocketFields /\ j.end = k.end /\ j.session \in {k.session, "serving"}
      /\ j.up = Tail(k.up) /\ j.down = k.down
  <2> HIDE DEF e
  <2> QED
    BY <1>1, <1>3 DEF e
<1>5. k.end # "connecting"
  BY DEF SocketRules
<1> QED
  BY <1>2, <1>4, <1>5, SMT DEF SocketRules

(* A session says something that is no reply. *)
LEMMA SaysLater ==
  ASSUME NEW k, NEW c, NEW r, NEW o, SocketRules(k, c, r, o),
         k.session # "attaching", NEW m \in Messages \ {"attached", "error", "protocol"},
         Fits(m, c, r, o)
  PROVE  /\ SocketRules(Says(k, m), c, r, o) /\ Says(k, m).end = k.end
         /\ Says(k, m).session = k.session
<1>1. /\ DOMAIN Says(k, m) = SocketFields /\ Says(k, m).end = k.end
      /\ Says(k, m).session = k.session /\ Says(k, m).up = k.up
      /\ Says(k, m).down = IF k.end = "open" THEN Append(k.down, m) ELSE k.down
  BY SocketShapes, SocketParts DEF SocketRules
<1>2. Queue(Append(k.down, m), c, r, o)
  BY LaterMessage, SMT DEF SocketRules
<1> HIDE DEF Says
<1> QED
  BY <1>1, <1>2, SMT DEF SocketRules

(* A session ends with a code. *)
LEMMA EndsLater ==
  ASSUME NEW k, NEW c, NEW r, NEW o, SocketRules(k, c, r, o),
         NEW m \in Codes, Fits(m, c, r, o),
         m = "protocol" => k.down # <<>> /\ k.down[1] # "attached"
  PROVE  SocketRules(Ends(k, m), c, r, o) /\ Ends(k, m).end = k.end
<1>1. /\ DOMAIN Ends(k, m) = SocketFields /\ Ends(k, m).end = k.end
      /\ Ends(k, m).session = "none" /\ Ends(k, m).up = <<>>
      /\ Ends(k, m).down = IF k.end \in {"open", "closing"} THEN Append(k.down, m) ELSE k.down
  BY SocketShapes, SocketParts DEF SocketRules
<1>2. m \in Messages /\ m \notin {"attached", "error"}
  BY SMT DEF Messages, Codes, FinalCodes
<1>3. Queue(Append(k.down, m), c, r, o)
  BY <1>2, LaterMessage, SMT DEF SocketRules
<1>4. <<>> \in Seq(Requests \cup {"ping"})
  BY SMT
<1> QED
  BY <1>1, <1>3, <1>4, SMT DEF SocketRules

(* An attaching session refuses. *)
LEMMA Refuses ==
  ASSUME NEW k, NEW c, NEW r, NEW o, SocketRules(k, c, r, o), k.session = "attaching",
         Fits("error", c, r, o), NEW m \in {"protocol", "other_code"},
         Fits(m, c, r, o), m = "protocol" => k.end = "open"
  PROVE  /\ SocketRules(Ends(Says(k, "error"), m), c, r, o)
         /\ Ends(Says(k, "error"), m).end = k.end
<1> DEFINE j == Says(k, "error")
<1>1. /\ DOMAIN j = SocketFields /\ j.end = k.end /\ j.session = k.session /\ j.up = k.up
      /\ j.down = IF k.end = "open" THEN Append(k.down, "error") ELSE k.down
  BY SocketShapes, SocketParts DEF SocketRules
<1> HIDE DEF j
<1>2. /\ DOMAIN Ends(j, m) = SocketFields /\ Ends(j, m).end = k.end
      /\ Ends(j, m).session = "none" /\ Ends(j, m).up = <<>>
      /\ Ends(j, m).down = IF j.end \in {"open", "closing"} THEN Append(j.down, m) ELSE j.down
  BY <1>1, SocketShapes, SocketParts
<1>3. k.end = "open" => j.down = <<"error">>
  <2> SUFFICES ASSUME k.end = "open" PROVE j.down = <<"error">>
    OBVIOUS
  <2>1. k.down = <<>>
    BY DEF SocketRules
  <2> QED
    BY <1>1, <2>1, AppendFirst
<1>4. Queue(j.down, c, r, o)
  <2>1. CASE k.end = "open"
    <3>1. j.down = <<"error">>
      BY <1>3, <2>1
    <3>2. "error" \in Messages
      BY DEF Messages
    <3> QED
      BY <3>1, <3>2, FirstMessage
  <2>2. CASE k.end # "open"
    BY <1>1, <2>2 DEF SocketRules
  <2> QED
    BY <2>1, <2>2
<1>5. m \in Messages /\ m \notin {"attached", "error"}
  BY SMT DEF Messages, Codes, FinalCodes
<1>6. Queue(Append(j.down, m), c, r, o)
  <2>1. m = "protocol" => j.down # <<>> /\ j.down[1] # "attached"
    BY <1>3, AppendFirst
  <2> QED
    BY <1>4, <1>5, <2>1, LaterMessage
<1>7. <<>> \in Seq(Requests \cup {"ping"})
  BY SMT
<1>8. k.end = "none" => Ends(j, m).down = <<>>
  <2> SUFFICES ASSUME k.end = "none" PROVE Ends(j, m).down = <<>>
    OBVIOUS
  <2>1. k.down = <<>>
    BY DEF SocketRules
  <2> QED
    BY <1>1, <1>2, <2>1
<1>9. k.end # "connecting" /\ k.end \in {"none", "connecting", "open", "closing"}
  BY DEF SocketRules
<1> DEFINE e == Ends(j, m)
<1>10. Queue(e.down, c, r, o)
  BY <1>2, <1>4, <1>6
<1> HIDE DEF e
<1>11. /\ DOMAIN e = SocketFields /\ e.end = k.end /\ e.session = "none" /\ e.up = <<>>
       /\ (k.end = "none" => e.down = <<>>)
  BY <1>1, <1>2, <1>8 DEF e
<1>12. SocketRules(e, c, r, o)
  BY <1>7, <1>9, <1>10, <1>11, Zenon DEF SocketRules
<1> QED
  BY <1>11, <1>12 DEF e, j

(* An attaching session accepts. *)
LEMMA Accepts ==
  ASSUME NEW k, NEW c, NEW r, NEW o, SocketRules(k, c, r, o), k.session = "attaching",
         k.up # <<>>, r # "none"
  PROVE  /\ SocketRules(Says([Read(k) EXCEPT !.session = "serving"], "attached"), c, r, o)
         /\ Says([Read(k) EXCEPT !.session = "serving"], "attached").end = k.end
<1> DEFINE j == [Read(k) EXCEPT !.session = "serving"]
<1>1. DOMAIN j = SocketFields /\ j.session = "serving"
  <2>1. DOMAIN Read(k) = SocketFields
    BY SocketShapes DEF SocketRules
  <2> QED
    BY <2>1, SMT DEF SocketFields
<1>2. SocketRules(j, c, r, o) /\ j.end = k.end /\ j.down = k.down
  <2>1. j.session # "attaching" /\ k.session # "none"
    BY <1>1, Zenon
  <2>2. j \in {Read(k), [Read(k) EXCEPT !.session = "serving"]}
    OBVIOUS
  <2> QED
    BY <2>1, <2>2, ReadFits
<1> HIDE DEF SocketRules, j
<1> DEFINE e == Says(j, "attached")
<1>3. /\ DOMAIN e = SocketFields /\ e.end = j.end
      /\ e.session = j.session /\ e.up = j.up
      /\ e.down = IF j.end = "open" THEN Append(j.down, "attached") ELSE j.down
  BY <1>1, SocketShapes, SocketParts
<1> HIDE DEF e
<1>4. /\ DOMAIN e = SocketFields /\ e.end = k.end
      /\ e.session = "serving" /\ e.up = j.up
      /\ e.down = IF k.end = "open" THEN Append(k.down, "attached") ELSE k.down
  BY <1>1, <1>2, <1>3
<1>5. k.end = "open" => Queue(Append(k.down, "attached"), c, r, o)
  <2> SUFFICES ASSUME k.end = "open" PROVE Queue(Append(k.down, "attached"), c, r, o)
    OBVIOUS
  <2>1. Append(k.down, "attached") = <<"attached">> /\ Waits(c)
    BY AppendFirst DEF SocketRules
  <2>2. "attached" \in Messages /\ Fits("attached", c, r, o)
    BY <2>1, SMT DEF Messages, Fits, Waits
  <2> QED
    BY <2>1, <2>2, FirstMessage
<1>6. /\ k.end # "connecting" /\ k.end \in {"none", "connecting", "open", "closing"}
      /\ j.up \in Seq(Requests \cup {"ping"}) /\ Queue(k.down, c, r, o)
      /\ k.end = "none" => k.down = <<>>
  BY <1>2 DEF SocketRules
<1>7. SocketRules(e, c, r, o)
  BY <1>4, <1>5, <1>6, Zenon DEF SocketRules
<1> QED
  BY <1>4, <1>7 DEF e, j

(* A socket with nothing to say agrees with every state of the room. *)
LEMMA SilentSocket ==
  ASSUME NEW k, NEW c, NEW r, NEW o, SocketRules(k, c, r, o), k.down = <<>>
  PROVE  \A s, p : SocketRules(k, c, s, p)
<1>1. \A s, p : Queue(k.down, c, s, p)
  BY EmptyQueue
<1> QED
  BY <1>1, Zenon DEF SocketRules

(* A socket still agrees when the room ends or the slot is taken. *)
LEMMA SocketLater ==
  ASSUME NEW k, NEW c, NEW r, NEW o, SocketRules(k, c, r, o),
         NEW s, NEW p, s = r \/ s = "over", o => p
  PROVE  SocketRules(k, c, s, p)
<1>1. Queue(k.down, c, s, p)
  BY QueueLater DEF SocketRules
<1> QED
  BY <1>1, Zenon DEF SocketRules

-----------------------------------------------------------------------------
(* The server's steps. *)

(* What they have in common. *)
LEMMA ServerKeeps ==
  ASSUME MInv, UNCHANGED <<client, left, faults>>,
         room' \in {"none", "open", "over"}, holder' \in 0 .. MaxSockets,
         ousted' \in BOOLEAN, ousted => ousted',
         client.attachment => room' = room \/ room' = "over",
         \A s \in Sockets : /\ sock'[s].end = sock[s].end
                            /\ SocketRules(sock'[s], client, room', ousted')
  PROVE  MRest'
<1>1. ClientRules(client)' /\ SocketsRules(client, room, ousted)'
  <2>1. ClientRules(client')
    BY DEF MInv, MRest
  <2>2. \A s \in Sockets : SocketRules(sock'[s], client', room', ousted')
    OBVIOUS
  <2> QED
    BY <2>1, <2>2 DEF ClientRules, SocketsRules, SocketRules, Queue, Fits, Waits
<1>2. RoomRules'
  BY SMT DEF MInv, MRest, RoomRules
<1>3. StopsForCause'
  BY SMT DEF MInv, MRest, StopsForCause
<1>4. StaysStopped'
  BY SMT DEF MInv, MRest, StaysStopped
<1>5. NeverSilent'
  <2>1. client.socket # 0 => client.socket \in Sockets
    BY SocketsFacts DEF MInv, IInv, Shape, IsClient
  <2>2. client.socket # 0 => sock'[client.socket].end = sock[client.socket].end
    BY <2>1
  <2> QED
    BY <2>2, Zenon DEF MInv, MRest, NeverSilent
<1> QED
  BY <1>1, <1>2, <1>3, <1>4, <1>5 DEF MRest

(* A create or join is read: the client is not attached. *)
LEMMA FirstAttachKeeps ==
  ASSUME MInv, NEW s \in Sockets, FirstAttach(s)
  PROVE  MRest'
<1> DEFINE k == sock[s]
           a == Says([Read(k) EXCEPT !.session = "serving"], "attached")
           refused(code) == Ends(Says(k, "error"), code)
<1>1. /\ SocketRules(k, client, room, ousted) /\ k.session = "attaching" /\ k.end = "open"
      /\ k.up # <<>> /\ Head(k.up) \in {"create", "join"} /\ DOMAIN sock = Sockets
  BY DEF FirstAttach, MInv, MRest, SocketsRules, IInv, Shape
<1>2. k.down = <<>> /\ client.attachment = FALSE
  <2>1. k.up = <<client.pendingFirst>> /\ k.down = <<>>
    BY <1>1 DEF SocketRules
  <2>2. Head(k.up) = client.pendingFirst
    BY <2>1, SMT
  <2>3. client.attachment \in BOOLEAN
    BY DEF MInv, IInv, Shape, IsClient
  <2> QED
    BY <1>1, <2>1, <2>2, <2>3, Zenon DEF MInv, MRest, ClientRules
<1>3. \A t \in Sockets \ {s} : sock[t].end = "none" /\ SocketRules(sock[t], client, room, ousted)
  BY <1>1, Zenon DEF MInv, MRest, SocketsRules, IInv, AtMostOne
<1>4. \A t \in Sockets \ {s} : \A r : SocketRules(sock[t], client, r, ousted)
  BY <1>3, QuietSocket
<1>5. /\ room \in {"none", "open", "over"} /\ holder \in 0 .. MaxSockets /\ ousted \in BOOLEAN
      /\ s \in 0 .. MaxSockets
  BY SocketsFacts DEF MInv, MRest, RoomRules
<1>6. UNCHANGED <<client, left, ousted, faults>>
  BY DEF FirstAttach
<1>7. CASE sock' = [sock EXCEPT ![s] = a] /\ room' = "open" /\ holder' = s
  <2>1. SocketRules(k, client, "open", ousted)
    BY <1>1, <1>2, SilentSocket
  <2>2. SocketRules(a, client, "open", ousted) /\ a.end = k.end
    BY <1>1, <2>1, Accepts, SMT
  <2> HIDE DEF a
  <2>3. \A t \in Sockets : sock'[t] = IF t = s THEN a ELSE sock[t]
    BY <1>1, <1>7, SMT
  <2>4. \A t \in Sockets : /\ sock'[t].end = sock[t].end
                           /\ SocketRules(sock'[t], client, room', ousted')
    BY <1>4, <1>6, <1>7, <2>2, <2>3, Zenon
  <2> QED
    BY <1>2, <1>5, <1>6, <1>7, <2>4, ServerKeeps
<1>8. ASSUME NEW code \in {"protocol", "other_code"}, sock' = [sock EXCEPT ![s] = refused(code)],
             UNCHANGED <<room, holder>>
      PROVE  MRest'
  <2> DEFINE b == refused(code)
  <2>1. Fits("error", client, room, ousted) /\ Fits(code, client, room, ousted)
    BY <1>2, SMT DEF Fits
  <2>2. SocketRules(b, client, room, ousted) /\ b.end = k.end
    BY <1>1, <2>1, Refuses, Zenon
  <2>3. sock' = [sock EXCEPT ![s] = b]
    BY <1>8
  <2> HIDE DEF b
  <2>4. \A t \in Sockets : sock'[t] = IF t = s THEN b ELSE sock[t]
    BY <1>1, <2>3, SMT
  <2>5. \A t \in Sockets : /\ sock'[t].end = sock[t].end
                           /\ SocketRules(sock'[t], client, room', ousted')
    BY <1>3, <1>6, <1>8, <2>2, <2>4, Zenon
  <2> QED
    BY <1>2, <1>5, <1>6, <1>8, <2>5, ServerKeeps
<1>9. \/ sock' = [sock EXCEPT ![s] = a] /\ room' = "open" /\ holder' = s
      \/ /\ \E code \in {"protocol", "other_code"} : sock' = [sock EXCEPT ![s] = refused(code)]
         /\ UNCHANGED <<room, holder>>
  BY Zenon DEF FirstAttach
<1> HIDE DEF a, refused
<1> QED
  BY <1>7, <1>8, <1>9

(* A reattach is read. *)
LEMMA ReattachKeeps ==
  ASSUME MInv, NEW s \in Sockets, Reattach(s)
  PROVE  MRest'
<1> DEFINE k == sock[s]
           a == Says([Read(k) EXCEPT !.session = "serving"], "attached")
           b == Ends(Says(k, "error"), "other_code")
           gone(t) == Ends(sock[t], "superseded")
<1>1. /\ SocketRules(k, client, room, ousted) /\ k.session = "attaching"
      /\ k.up # <<>> /\ DOMAIN sock = Sockets
  BY DEF Reattach, MInv, MRest, SocketsRules, IInv, Shape
<1>2. \A t \in Sockets : SocketRules(sock[t], client, room, ousted)
  BY DEF MInv, MRest, SocketsRules
<1>3. /\ room \in {"none", "open", "over"} /\ holder \in 0 .. MaxSockets /\ ousted \in BOOLEAN
      /\ s \in 0 .. MaxSockets
  BY SocketsFacts DEF MInv, MRest, RoomRules
<1>4. UNCHANGED <<client, room, left, faults>>
  BY DEF Reattach
<1>5. CASE room = "open"
  <2>1. /\ sock' = [t \in Sockets |-> IF t = s THEN a
                                      ELSE IF sock[t].session = "serving" THEN gone(t) ELSE sock[t]]
        /\ holder' = s
        /\ ousted' = (ousted \/ \E t \in Sockets \ {s} : /\ sock[t].session = "serving"
                                                        /\ sock[t].end \in {"open", "closing"})
    BY <1>5 DEF Reattach
  <2>2. ousted' \in BOOLEAN /\ (ousted => ousted')
    BY <2>1
  <2>3. \A t \in Sockets : SocketRules(sock[t], client, room, ousted')
    BY <1>2, <2>2, SocketLater
  <2>4. SocketRules(a, client, room, ousted') /\ a.end = k.end
    BY <1>1, <1>5, <2>3, Accepts, SMT
  <2>5. ASSUME NEW t \in Sockets \ {s}, sock[t].session = "serving"
        PROVE  SocketRules(gone(t), client, room, ousted') /\ gone(t).end = sock[t].end
    <3>1. CASE sock[t].end \in {"open", "closing"}
      <4>1. ousted'
        BY <2>1, <2>5, <3>1
      <4>2. "superseded" \in Codes /\ Fits("superseded", client, room, ousted')
        BY <4>1, SMT DEF Codes, FinalCodes, Fits
      <4> QED
        BY <2>3, <4>2, EndsLater, SMT
    <3>2. CASE sock[t].end \notin {"open", "closing"}
      <4>1. sock[t].end = "none" /\ sock[t].down = <<>>
        BY <2>3, <2>5, <3>2, SMT DEF SocketRules
      <4>2. /\ DOMAIN gone(t) = SocketFields /\ gone(t).end = sock[t].end
            /\ gone(t).session = "none" /\ gone(t).up = <<>> /\ gone(t).down = <<>>
        BY <2>3, <4>1, SocketShapes, SocketParts, SMT DEF SocketRules
      <4>3. <<>> \in Seq(Requests \cup {"ping"})
        BY SMT
      <4> HIDE DEF gone
      <4> QED
        BY <4>1, <4>2, <4>3, EmptyQueue, Zenon DEF SocketRules
    <3> QED
      BY <3>1, <3>2
  <2> HIDE DEF a, gone
  <2>6. \A t \in Sockets : sock'[t] = IF t = s THEN a
                                      ELSE IF sock[t].session = "serving" THEN gone(t) ELSE sock[t]
    BY <2>1, SMT
  <2>7. ASSUME NEW t \in Sockets
        PROVE  sock'[t].end = sock[t].end /\ SocketRules(sock'[t], client, room, ousted')
    <3>1. CASE t = s
      BY <2>4, <2>6, <3>1, Zenon
    <3>2. CASE t # s /\ sock[t].session = "serving"
      BY <2>5, <2>6, <3>2, Zenon
    <3>3. CASE t # s /\ sock[t].session # "serving"
      BY <2>3, <2>6, <3>3, Zenon
    <3> QED
      BY <3>1, <3>2, <3>3
  <2>8. \A t \in Sockets : /\ sock'[t].end = sock[t].end
                           /\ SocketRules(sock'[t], client, room', ousted')
    BY <1>4, <2>7
  <2> QED
    BY <1>3, <1>4, <2>1, <2>2, <2>8, ServerKeeps
<1>6. CASE room # "open"
  <2>1. sock' = [sock EXCEPT ![s] = b] /\ UNCHANGED <<holder, ousted>>
    BY <1>6, Zenon DEF Reattach
  <2>2. client.attachment => room = "over"
    BY <1>3, <1>6, SMT DEF MInv, MRest, RoomRules
  <2>3. Fits("error", client, room, ousted) /\ Fits("other_code", client, room, ousted)
    BY <2>2, SMT DEF Fits
  <2>4. SocketRules(b, client, room, ousted) /\ b.end = k.end
    BY <1>1, <2>3, Refuses, SMT
  <2> HIDE DEF b
  <2>5. \A t \in Sockets : sock'[t] = IF t = s THEN b ELSE sock[t]
    BY <1>1, <2>1, SMT
  <2>6. \A t \in Sockets : /\ sock'[t].end = sock[t].end
                           /\ SocketRules(sock'[t], client, room', ousted')
    BY <1>2, <1>4, <2>1, <2>4, <2>5, Zenon
  <2> QED
    BY <1>3, <1>4, <2>1, <2>6, ServerKeeps
<1> QED
  BY <1>5, <1>6

(* A session answers a ping. *)
LEMMA ServeKeeps ==
  ASSUME MInv, NEW s \in Sockets, Serve(s)
  PROVE  MRest'
<1> DEFINE k == sock[s]
           a == Says(Read(k), "pong")
<1>1. /\ SocketRules(k, client, room, ousted) /\ k.session = "serving"
      /\ k.up # <<>> /\ DOMAIN sock = Sockets
  BY DEF Serve, MInv, MRest, SocketsRules, IInv, Shape
<1>2. \A t \in Sockets : SocketRules(sock[t], client, room, ousted)
  BY DEF MInv, MRest, SocketsRules
<1>3. /\ room \in {"none", "open", "over"} /\ holder \in 0 .. MaxSockets /\ ousted \in BOOLEAN
  BY DEF MInv, MRest, RoomRules
<1>4. UNCHANGED <<client, room, holder, ousted, left, faults>>
  BY DEF Serve, Server
<1>5. SocketRules(a, client, room, ousted) /\ a.end = k.end
  <2> DEFINE j == Read(k)
  <2>1. j.session = "serving"
    BY <1>1, SocketParts DEF SocketRules
  <2> HIDE DEF j
  <2>2. SocketRules(j, client, room, ousted) /\ j.end = k.end
    <3>1. j \in {Read(k), [Read(k) EXCEPT !.session = "serving"]}
      BY DEF j
    <3>2. k.session # "none" /\ j.session # "attaching"
      BY <1>1, <2>1, SMT
    <3> QED
      BY <1>1, <3>1, <3>2, ReadFits
  <2>3. /\ "pong" \in Messages \ {"attached", "error", "protocol"}
        /\ Fits("pong", client, room, ousted) /\ j.session # "attaching"
    BY <2>1, SMT DEF Messages, Fits
  <2>4. SocketRules(Says(j, "pong"), client, room, ousted) /\ Says(j, "pong").end = j.end
    BY <2>2, <2>3, SaysLater
  <2> QED
    BY <2>2, <2>4 DEF j
<1>6. sock' = [sock EXCEPT ![s] = a]
  BY Zenon DEF Serve
<1> HIDE DEF a
<1>7. \A t \in Sockets : sock'[t] = IF t = s THEN a ELSE sock[t]
  BY <1>1, <1>6, SMT
<1>8. \A t \in Sockets : /\ sock'[t].end = sock[t].end
                         /\ SocketRules(sock'[t], client, room', ousted')
  BY <1>2, <1>4, <1>5, <1>7, Zenon
<1> QED
  BY <1>3, <1>4, <1>8, ServerKeeps

(* A session finds its client gone. *)
LEMMA FindsClientGoneKeeps ==
  ASSUME MInv, NEW s \in Sockets, FindsClientGone(s)
  PROVE  MRest'
<1> DEFINE k == sock[s]
           a == [k EXCEPT !.session = "none", !.up = <<>>]
<1>1. SocketRules(k, client, room, ousted) /\ DOMAIN sock = Sockets
  BY DEF MInv, MRest, SocketsRules, IInv, Shape
<1>2. \A t \in Sockets : SocketRules(sock[t], client, room, ousted)
  BY DEF MInv, MRest, SocketsRules
<1>3. /\ room \in {"none", "open", "over"} /\ holder \in 0 .. MaxSockets /\ ousted \in BOOLEAN
  BY DEF MInv, MRest, RoomRules
<1>4. UNCHANGED <<client, room, holder, ousted, left, faults>>
  BY DEF FindsClientGone, Server
<1>5. sock' = [sock EXCEPT ![s] = a] /\ k.end \in {"closing", "none"}
  BY DEF FindsClientGone
<1>6. /\ DOMAIN a = SocketFields /\ a.end = k.end /\ a.down = k.down
      /\ a.session = "none" /\ a.up = <<>> /\ <<>> \in Seq(Requests \cup {"ping"})
  BY <1>1, SMT DEF SocketRules, SocketFields
<1> HIDE DEF a
<1>7. SocketRules(a, client, room, ousted)
  BY <1>1, <1>5, <1>6, Zenon DEF SocketRules
<1>8. \A t \in Sockets : sock'[t] = IF t = s THEN a ELSE sock[t]
  BY <1>1, <1>5, SMT
<1>9. \A t \in Sockets : /\ sock'[t].end = sock[t].end
                         /\ SocketRules(sock'[t], client, room', ousted')
  BY <1>2, <1>4, <1>6, <1>7, <1>8, Zenon
<1> QED
  BY <1>3, <1>4, <1>9, ServerKeeps

(* The room ends. *)
LEMMA RoomEndsKeeps ==
  ASSUME MInv, RoomEnds
  PROVE  MRest'
<1> DEFINE told(t) == Says(sock[t], "room_closed")
           gone(t) == Ends(told(t), "room_closed_code")
<1>1. \A t \in Sockets : SocketRules(sock[t], client, "over", ousted)
  BY SocketLater DEF MInv, MRest, SocketsRules
<1>2. /\ room \in {"none", "open", "over"} /\ holder \in 0 .. MaxSockets /\ ousted \in BOOLEAN
  BY DEF MInv, MRest, RoomRules
<1>3. UNCHANGED <<client, holder, ousted, left, faults>> /\ room' = "over"
  BY DEF RoomEnds
<1>4. ASSUME NEW t \in Sockets, sock[t].session = "serving"
      PROVE  SocketRules(gone(t), client, "over", ousted) /\ gone(t).end = sock[t].end
  <2>1. /\ "room_closed" \in Messages \ {"attached", "error", "protocol"}
        /\ "room_closed_code" \in Codes
        /\ Fits("room_closed", client, "over", ousted)
        /\ Fits("room_closed_code", client, "over", ousted)
    BY SMT DEF Messages, Codes, FinalCodes, Fits
  <2>2. sock[t].session # "attaching"
    BY <1>4, SMT
  <2>3. SocketRules(told(t), client, "over", ousted) /\ told(t).end = sock[t].end
    BY <1>1, <2>1, <2>2, SaysLater
  <2> HIDE DEF told
  <2>4. SocketRules(gone(t), client, "over", ousted) /\ gone(t).end = told(t).end
    BY <2>1, <2>3, EndsLater, SMT
  <2> QED
    BY <2>3, <2>4
<1> HIDE DEF gone
<1>5. \A t \in Sockets : sock'[t] = IF sock[t].session = "serving" THEN gone(t) ELSE sock[t]
  BY SMT DEF RoomEnds, gone
<1>6. \A t \in Sockets : /\ sock'[t].end = sock[t].end
                         /\ SocketRules(sock'[t], client, room', ousted')
  BY <1>1, <1>3, <1>4, <1>5, Zenon
<1> QED
  BY <1>2, <1>3, <1>6, ServerKeeps

-----------------------------------------------------------------------------
(* The client's steps. *)

(* When one socket is alive, it alone must agree with a new client. *)
LEMMA SocketStep ==
  ASSUME MInv, NEW s \in Sockets, NEW k, sock' = [sock EXCEPT ![s] = k],
         \A t \in Sockets \ {s} : sock[t].end = "none",
         SocketRules(k, client', room', ousted')
  PROVE  /\ SocketsRules(client, room, ousted)'
         /\ \A t \in Sockets : sock'[t] = IF t = s THEN k ELSE sock[t]
<1>1. \A t \in Sockets : sock'[t] = IF t = s THEN k ELSE sock[t]
  BY SMT DEF MInv, IInv, Shape
<1>2. \A t \in Sockets \ {s} : SocketRules(sock[t], client', room', ousted')
  BY QuietSocket DEF MInv, MRest, SocketsRules
<1>3. \A t \in Sockets : SocketRules(sock'[t], client', room', ousted')
  BY <1>1, <1>2, Zenon
<1> QED
  BY <1>1, <1>3 DEF SocketsRules, SocketRules, Queue, Fits, Waits

(* The live socket is the only one, and the current one unless it closes. *)
LEMMA Alive ==
  ASSUME MInv, NEW s \in Sockets, sock[s].end # "none"
  PROVE  /\ \A t \in Sockets \ {s} : sock[t].end = "none"
         /\ client.reconnect = FALSE
         /\ sock[s].end \in {"connecting", "open"} => client.socket = s /\ left = FALSE
<1>1. \A t \in Sockets \ {s} : sock[t].end = "none"
  BY Zenon DEF MInv, IInv, AtMostOne
<1>2. client.reconnect = FALSE
  BY DEF MInv, IInv, OpenersHaveNone, NoneLeft, Shape, IsClient
<1>3. sock[s].end \in {"connecting", "open"} => client.socket = s
  BY DEF MInv, IInv, OneSocket
<1>4. client.socket = s => left = FALSE
  BY SocketsFacts DEF MInv, MRest, RoomRules
<1> QED
  BY <1>1, <1>2, <1>3, <1>4

(* handleClose, with all fields. *)
LEMMA HandleCloseRules ==
  ASSUME NEW c, IsClient(c), ClientRules(c), NEW code
  PROVE  /\ ClientRules(HandleClose(c, code))
         /\ HandleClose(c, code).ping = FALSE
         /\ HandleClose(c, code).status # "attached"
         /\ HandleClose(c, code).stopped => c.stopped \/ code \in FinalCodes
         /\ c.stopped => HandleClose(c, code).stopped
         /\ HandleClose(c, code).stopped => HandleClose(c, code).reconnect = c.reconnect
<1> DEFINE d == HandleClose(c, code)
<1> DEFINE e == [c EXCEPT !.ping = FALSE, !.socket = 0]
<1>1. /\ DOMAIN e = ClientFields /\ e.ping = FALSE /\ e.socket = 0
      /\ e.attachment = c.attachment /\ e.reconnect = c.reconnect
      /\ e.stopped = c.stopped /\ e.pendingFirst = c.pendingFirst
  BY SMT DEF IsClient, ClientFields
<1> DEFINE shut == [e EXCEPT !.status = "closed"]
           final == [e EXCEPT !.stopped = TRUE, !.status = "closed"]
           again == [e EXCEPT !.status = "reconnecting", !.reconnect = TRUE]
<1>2. \/ d = shut /\ e.stopped
      \/ d = final /\ ~e.stopped /\ code \in FinalCodes
      \/ d = shut /\ ~e.stopped /\ code \notin FinalCodes
      \/ d = again /\ ~e.stopped /\ code \notin FinalCodes
  BY ZenonT(60) DEF HandleClose, Rescheduled
<1> HIDE DEF d, e
<1>3. /\ shut.ping = e.ping /\ shut.socket = e.socket /\ shut.attachment = e.attachment
      /\ shut.reconnect = e.reconnect /\ shut.stopped = e.stopped
      /\ shut.pendingFirst = e.pendingFirst /\ shut.status = "closed"
  BY <1>1, SMT DEF ClientFields
<1>4. /\ final.ping = e.ping /\ final.socket = e.socket /\ final.attachment = e.attachment
      /\ final.reconnect = e.reconnect /\ final.stopped = TRUE
      /\ final.pendingFirst = e.pendingFirst /\ final.status = "closed"
  BY <1>1, SMT DEF ClientFields
<1>5. /\ again.ping = e.ping /\ again.socket = e.socket /\ again.attachment = e.attachment
      /\ again.stopped = e.stopped
      /\ again.pendingFirst = e.pendingFirst /\ again.status = "reconnecting"
  BY <1>1, SMT DEF ClientFields
<1> HIDE DEF shut, final, again
<1>6. c.stopped \in BOOLEAN /\ c.pendingFirst \in {"none"} \cup Requests
  BY DEF ClientRules
<1>7. /\ d.ping = FALSE /\ d.socket = 0 /\ d.attachment = c.attachment
      /\ d.pendingFirst = c.pendingFirst /\ d.status \in {"closed", "reconnecting"}
  BY <1>1, <1>2, <1>3, <1>4, <1>5, SMT
<1>8. /\ d.stopped = TRUE \/ d.stopped = FALSE
      /\ d.stopped = TRUE => c.stopped \/ code \in FinalCodes
      /\ c.stopped \/ code \in FinalCodes => d.stopped = TRUE
      /\ d.stopped = TRUE => d.reconnect = c.reconnect
  <2>1. CASE d = shut /\ e.stopped
    BY <1>1, <1>3, <1>6, <2>1, Zenon
  <2>2. CASE d = final /\ code \in FinalCodes
    BY <1>1, <1>4, <2>2, Zenon
  <2>3. CASE d = shut /\ ~e.stopped /\ code \notin FinalCodes
    BY <1>1, <1>3, <1>6, <2>3, Zenon
  <2>4. CASE d = again /\ ~e.stopped /\ code \notin FinalCodes
    BY <1>1, <1>5, <1>6, <2>4, Zenon
  <2> QED
    BY <1>2, <2>1, <2>2, <2>3, <2>4, Zenon
<1>9. d.status \in {"idle", "connecting", "attached", "reconnecting", "closed"} /\ d.status # "attached"
  BY <1>7, SMT
<1>10. d.pendingFirst \in {"create", "join"} => ~d.attachment
  BY <1>7, Zenon DEF ClientRules
<1>11. ClientRules(d)
  BY <1>6, <1>7, <1>8, <1>9, <1>10, Zenon DEF ClientRules
<1> QED
  BY <1>7, <1>8, <1>9, <1>11, Zenon DEF d

(* A socket is gone, and handleClose has run: the code that it was given is *)
(* final only for a cause.                                                 *)
LEMMA FreedKeeps ==
  ASSUME MInv, NEW s \in Sockets, sock[s].end # "none",
         NEW code, code \in FinalCodes /\ client.attachment => left \/ room = "over" \/ ousted,
         client' = HandleClose(client, code),
         NEW k, sock' = [sock EXCEPT ![s] = k], k.end = "none",
         SocketRules(k, client, room, ousted),
         UNCHANGED <<room, holder, ousted, left>>, faults' \in 0 .. MaxFaults
  PROVE  MRest'
<1>1. /\ ClientRules(client') /\ client'.ping = FALSE /\ client'.status # "attached"
      /\ client'.socket = 0 /\ client'.attachment = client.attachment
      /\ client'.stopped => client.stopped \/ code \in FinalCodes
      /\ client.stopped => client'.stopped
      /\ client'.stopped => client'.reconnect = client.reconnect
  <2>1. IsClient(client) /\ ClientRules(client)
    BY DEF MInv, MRest, IInv, Shape
  <2> QED
    BY <2>1, HandleCloseRules, HandleCloseResult
<1>2. (\A t \in Sockets \ {s} : sock[t].end = "none") /\ client.reconnect = FALSE
  BY Alive
<1>3. SocketRules(k, client', room', ousted')
  BY QuietSocket
<1>4. /\ SocketsRules(client, room, ousted)'
      /\ \A t \in Sockets : sock'[t] = IF t = s THEN k ELSE sock[t]
  BY <1>2, <1>3, SocketStep
<1>5. \A t \in Sockets : sock'[t].end = "none"
  BY <1>2, <1>4, Zenon
<1>6. ClientRules(client)'
  BY <1>1 DEF ClientRules
<1>7. RoomRules'
  <2>1. /\ room' \in {"none", "open", "over"} /\ holder' \in 0 .. MaxSockets
        /\ left' \in BOOLEAN /\ ousted' \in BOOLEAN
        /\ client'.attachment => room' # "none"
    BY <1>1 DEF MInv, MRest, RoomRules
  <2>2. left' => client'.socket = 0 /\ client'.stopped /\ client'.attachment
    BY <1>1, Zenon DEF MInv, MRest, RoomRules
  <2> QED
    BY <2>1, <2>2 DEF RoomRules
<1>8. NeverSilent'
  BY <1>1 DEF NeverSilent
<1>9. StopsForCause'
  BY <1>1, Zenon DEF MInv, MRest, StopsForCause
<1>10. StaysStopped'
  <2>1. left' \/ (client'.attachment /\ client'.stopped) => client'.stopped
    BY <1>1, Zenon DEF MInv, MRest, RoomRules
  <2>2. client'.stopped => client'.reconnect = FALSE
    BY <1>1, <1>2
  <2>3. \A t \in Sockets : sock'[t].end # "connecting"
    BY <1>5
  <2> QED
    BY <1>1, <2>1, <2>2, <2>3, Zenon DEF StaysStopped
<1> QED
  BY <1>4, <1>6, <1>7, <1>8, <1>9, <1>10 DEF MRest

(* What is left of a socket that is given up. *)
LEMMA GivenUpRules ==
  ASSUME NEW k, NEW c, NEW r, NEW o, SocketRules(k, c, r, o)
  PROVE  SocketRules(GivenUp(k), c, r, o) /\ GivenUp(k).end = "none"
<1>1. /\ DOMAIN GivenUp(k) = SocketFields /\ GivenUp(k).end = "none"
      /\ GivenUp(k).session = k.session /\ GivenUp(k).up = k.up /\ GivenUp(k).down = <<>>
  BY SocketShapes, SocketParts DEF SocketRules
<1>2. Queue(<<>>, c, r, o)
  BY EmptyQueue
<1> QED
  BY <1>1, <1>2, Zenon DEF SocketRules

(* A socket that is free. *)
LEMMA NoSocketRules ==
  /\ DOMAIN NoSocket = SocketFields /\ NoSocket.end = "none" /\ NoSocket.session = "none"
  /\ NoSocket.up = <<>> /\ NoSocket.down = <<>> /\ <<>> \in Seq(Requests \cup {"ping"})
  /\ \A c, r, o : SocketRules(NoSocket, c, r, o)
<1>1. /\ DOMAIN NoSocket = SocketFields /\ NoSocket.end = "none" /\ NoSocket.session = "none"
      /\ NoSocket.up = <<>> /\ NoSocket.down = <<>>
  BY SMT DEF NoSocket, SocketFields
<1>2. <<>> \in Seq(Requests \cup {"ping"})
  BY SMT
<1> QED
  BY <1>1, <1>2, EmptyQueue, Zenon DEF SocketRules

(* One more fault. *)
LEMMA FaultCounts ==
  ASSUME MInv, Fault
  PROVE  faults' \in 0 .. MaxFaults
  BY ClientAssumption, SMT DEF MInv, MRest, RoomRules, Fault

(* A code that stands in a queue has a cause. *)
LEMMA CodeHasCause ==
  ASSUME NEW q, NEW c, NEW r, NEW o, Queue(q, c, r, o), q # <<>>,
         Head(q) \in FinalCodes, c.attachment
  PROVE  r = "over" \/ o
<1>1. 1 \in 1 .. Len(q) /\ Head(q) = q[1]
  BY SMT DEF Queue
<1>2. Fits(q[1], c, r, o)
  BY <1>1 DEF Queue
<1> QED
  BY <1>1, <1>2, SMT DEF Fits, FinalCodes

(* A socket is lost. *)
LEMMA LostKeeps ==
  ASSUME MInv, NEW s \in Sockets, Lost(s)
  PROVE  MRest'
<1> DEFINE k == GivenUp(sock[s])
<1>1. SocketRules(k, client, room, ousted) /\ k.end = "none"
  BY GivenUpRules DEF MInv, MRest, SocketsRules
<1>2. sock' = [sock EXCEPT ![s] = k] /\ client' = HandleClose(client, "other_code")
  BY DEF Lost
<1> HIDE DEF k
<1>3. sock[s].end # "none" /\ UNCHANGED <<room, holder, ousted, left>> /\ faults' \in 0 .. MaxFaults
  BY FaultCounts DEF Lost, Server
<1>4. "other_code" \notin FinalCodes
  BY SMT DEF FinalCodes
<1> QED
  BY <1>1, <1>2, <1>3, <1>4, FreedKeeps

(* The handshake of a close ends. *)
LEMMA ClosingEndsKeeps ==
  ASSUME MInv, NEW s \in Sockets, ClosingEnds(s)
  PROVE  MRest'
<1> DEFINE k == GivenUp(sock[s])
           q == sock[s].down
           code == IF q = <<>> THEN "other_code" ELSE Head(q)
<1>1. SocketRules(k, client, room, ousted) /\ k.end = "none"
  BY GivenUpRules DEF MInv, MRest, SocketsRules
<1>2. sock' = [sock EXCEPT ![s] = k] /\ client' = HandleClose(client, code)
  BY DEF ClosingEnds
<1>3. /\ sock[s].end # "none" /\ UNCHANGED <<room, holder, ousted, left>>
      /\ faults' \in 0 .. MaxFaults
  BY DEF ClosingEnds, Server, MInv, MRest, RoomRules
<1>4. code \in FinalCodes /\ client.attachment => room = "over" \/ ousted
  <2>1. Queue(q, client, room, ousted)
    BY DEF MInv, MRest, SocketsRules, SocketRules
  <2>2. CASE q = <<>>
    BY <2>2, SMT DEF FinalCodes
  <2>3. CASE q # <<>>
    BY <2>1, <2>3, CodeHasCause
  <2> QED
    BY <2>2, <2>3
<1> HIDE DEF code, k
<1> QED
  BY <1>1, <1>2, <1>3, <1>4, FreedKeeps

(* What a message that is no close makes of a client c. *)
HandledAs(c, m, d) ==
  /\ ClientRules(d) /\ d.socket = c.socket
  /\ m = "attached" => /\ d.attachment = TRUE /\ d.status = "attached"
                       /\ d.ping = TRUE /\ d.stopped = c.stopped
                       /\ d.pendingFirst = "none" /\ d.reconnect = c.reconnect
  /\ m = "room_closed" => /\ d.attachment = c.attachment /\ d.status = c.status
                          /\ d.ping = FALSE /\ d.reconnect = FALSE /\ d.stopped = TRUE
  /\ m = "error" => /\ d.attachment = c.attachment /\ d.status = c.status
                    /\ d.ping = c.ping /\ d.reconnect = c.reconnect
                    /\ d.stopped => c.stopped \/ c.status # "attached"
                    /\ c.stopped => d.stopped
  /\ m \notin {"attached", "room_closed", "error"} => d = c

(* It makes that of the client's fields. *)
LEMMA HandledRules ==
  ASSUME NEW c, IsClient(c), ClientRules(c), NEW m \in Messages \ Codes, c.socket # 0
  PROVE  HandledAs(c, m, Handled(c, m))
<1> DEFINE d == Handled(c, m)
<1>1. CASE m = "attached"
  <2>1. d = Attached(c)
    BY <1>1, Zenon DEF Handled
  <2>2. /\ d.attachment = TRUE /\ d.status = "attached" /\ d.ping = TRUE
        /\ d.stopped = c.stopped /\ d.pendingFirst = "none" /\ d.socket = c.socket
        /\ d.reconnect = c.reconnect
    BY <2>1, SMT DEF Attached, IsClient, ClientFields
  <2>3. ClientRules(d)
    <3>1. c.stopped \in BOOLEAN
      BY DEF ClientRules
    <3>2. d.stopped \in BOOLEAN
      BY <2>2, <3>1, Zenon
    <3>3. /\ d.status \in {"idle", "connecting", "attached", "reconnecting", "closed"}
          /\ d.pendingFirst \in {"none"} \cup Requests
          /\ d.pendingFirst \notin {"create", "join"}
      BY <2>2, SMT
    <3> QED
      BY <2>2, <3>2, <3>3, Zenon DEF ClientRules
  <2>4. m # "room_closed" /\ m # "error" /\ m \in {"attached", "room_closed", "error"}
    BY <1>1, SMT
  <2> QED
    BY <1>1, <2>2, <2>3, <2>4, Zenon DEF HandledAs
<1>2. CASE m = "room_closed"
  <2>1. d = [c EXCEPT !.stopped = TRUE, !.ping = FALSE, !.reconnect = FALSE]
    BY <1>2, SMT DEF Handled
  <2>2. /\ d.attachment = c.attachment /\ d.status = c.status /\ d.ping = FALSE
        /\ d.reconnect = FALSE /\ d.stopped = TRUE /\ d.pendingFirst = c.pendingFirst
        /\ d.socket = c.socket
    BY <2>1, SMT DEF IsClient, ClientFields
  <2>3. ClientRules(d)
    BY <2>2, Zenon DEF ClientRules
  <2>4. m # "attached" /\ m # "error" /\ m \in {"attached", "room_closed", "error"}
    BY <1>2, SMT
  <2> QED
    BY <1>2, <2>2, <2>3, <2>4, Zenon DEF HandledAs
<1>3. CASE m = "error"
  <2>1. d = [c EXCEPT !.stopped = @ \/ c.status # "attached"]
    BY <1>3, SMT DEF Handled
  <2>2. /\ d.attachment = c.attachment /\ d.status = c.status /\ d.ping = c.ping
        /\ d.reconnect = c.reconnect /\ d.stopped = (c.stopped \/ c.status # "attached")
        /\ d.pendingFirst = c.pendingFirst /\ d.socket = c.socket
    BY <2>1, SMT DEF IsClient, ClientFields
  <2>3. ClientRules(d)
    BY <2>2, SMT DEF ClientRules
  <2>4. m # "attached" /\ m # "room_closed" /\ m \in {"attached", "room_closed", "error"}
    BY <1>3, SMT
  <2> QED
    BY <1>3, <2>2, <2>3, <2>4, Zenon DEF HandledAs
<1>4. CASE m \notin {"attached", "room_closed", "error"}
  <2>1. d = c
    BY <1>4, SMT DEF Handled
  <2> QED
    BY <1>4, <2>1, SMT DEF HandledAs
<1> QED
  BY <1>1, <1>2, <1>3, <1>4

(* A message is handled, or a close of the server's. *)
LEMMA ReceiveKeeps ==
  ASSUME MInv, NEW s \in Sockets, Receive(s)
  PROVE  MRest'
<1> DEFINE q == sock[s].down
           m == Head(q)
           k == IF m \in Codes THEN GivenUp(sock[s]) ELSE Taken(sock[s])
<1>1. /\ SocketRules(sock[s], client, room, ousted) /\ Queue(q, client, room, ousted)
      /\ q # <<>> /\ sock[s].end = "open"
  BY DEF Receive, MInv, MRest, SocketsRules, SocketRules
<1>2. /\ \A t \in Sockets \ {s} : sock[t].end = "none"
      /\ client.reconnect = FALSE /\ client.socket = s /\ left = FALSE /\ client.socket # 0
  <2>1. sock[s].end # "none" /\ sock[s].end \in {"connecting", "open"} /\ s # 0
    BY <1>1, SocketsFacts, SMT
  <2> QED
    BY <2>1, Alive
<1>3. m \in Messages /\ m = q[1] /\ Fits(m, client, room, ousted)
  <2>1. m \in Messages /\ m = q[1] /\ 1 \in 1 .. Len(q)
    BY <1>1, SMT DEF Queue
  <2> QED
    BY <1>1, <2>1 DEF Queue
<1>4. /\ client' = Handled(client, m) /\ sock' = [sock EXCEPT ![s] = k]
      /\ UNCHANGED <<room, holder, ousted, left, faults>>
  BY Zenon DEF Receive, Server
<1>5. IsClient(client) /\ ClientRules(client)
  BY DEF MInv, MRest, IInv, Shape
<1>6. CASE m \in Codes
  <2>1. client' = HandleClose(client, m)
    BY <1>4, <1>6, SMT DEF Handled, Codes, FinalCodes
  <2>2. SocketRules(k, client, room, ousted) /\ k.end = "none"
    BY <1>1, <1>6, GivenUpRules
  <2>3. m \in FinalCodes /\ client.attachment => left \/ room = "over" \/ ousted
    BY <1>1, CodeHasCause
  <2>4. faults' \in 0 .. MaxFaults /\ sock[s].end # "none"
    BY <1>1, <1>4 DEF MInv, MRest, RoomRules
  <2> HIDE DEF m, k
  <2> QED
    BY <1>4, <2>1, <2>2, <2>3, <2>4, FreedKeeps
<1>7. CASE m \notin Codes
  <2> DEFINE d == Handled(client, m)
             j == Taken(sock[s])
  <2> HIDE DEF m
  <2> HIDE DEF d
  <2>1. HandledAs(client, m, d)
    BY <1>2, <1>3, <1>5, <1>7, HandledRules DEF d
  <2>2. /\ ClientRules(d) /\ d.socket = client.socket
        /\ m = "attached" => /\ d.attachment = TRUE /\ d.status = "attached"
                             /\ d.ping = TRUE /\ d.stopped = client.stopped
        /\ m = "room_closed" => /\ d.attachment = client.attachment /\ d.status = client.status
                                /\ d.ping = FALSE /\ d.reconnect = FALSE /\ d.stopped = TRUE
        /\ m = "error" => /\ d.attachment = client.attachment /\ d.status = client.status
                          /\ d.ping = client.ping /\ d.reconnect = client.reconnect
                          /\ d.stopped => client.stopped \/ client.status # "attached"
                          /\ client.stopped => d.stopped
        /\ m \notin {"attached", "room_closed", "error"} => d = client
    BY <2>1, Zenon DEF HandledAs
  <2>3. /\ DOMAIN j = SocketFields /\ j.end = "open" /\ j.session = sock[s].session
        /\ j.up = sock[s].up /\ j.down = Tail(q)
    BY <1>1, SocketShapes, SocketParts DEF SocketRules
  <2>4. d.attachment = client.attachment \/ q[1] = "attached"
    BY <1>3, <2>2
  <2>5. Queue(Tail(q), d, room, ousted)
    BY <1>1, <2>4, RestOfQueue
  <2>6. sock[s].session # "attaching"
    BY <1>1 DEF SocketRules
  <2>7. SocketRules(j, d, room, ousted)
    <3>1. /\ sock[s].session \in {"none", "attaching", "serving"}
          /\ sock[s].up \in Seq(Requests \cup {"ping"})
      BY <1>1 DEF SocketRules
    <3> HIDE DEF j
    <3>2. j.end \in {"none", "connecting", "open", "closing"} /\ j.end # "none" /\ j.end # "connecting"
      BY <2>3, SMT
    <3> QED
      BY <2>3, <2>5, <2>6, <3>1, <3>2, Zenon DEF SocketRules
  <2> HIDE DEF j
  <2>8. client' = d /\ sock' = [sock EXCEPT ![s] = j]
    BY <1>4, <1>7 DEF d, j
  <2>9. /\ SocketsRules(client, room, ousted)'
        /\ \A t \in Sockets : sock'[t] = IF t = s THEN j ELSE sock[t]
    <3>1. SocketRules(j, client', room', ousted')
      BY <1>4, <2>7, <2>8
    <3> QED
      BY <1>2, <2>8, <3>1, SocketStep
  <2>10. ClientRules(client)'
    BY <2>2, <2>8 DEF ClientRules
  <2>11. m = "attached" => room # "none" /\ client.stopped = FALSE
    BY <1>2, <1>3, <1>5 DEF Fits, ClientRules
  <2>12. RoomRules'
    <3>1. client'.attachment => room' # "none"
      BY <1>3, <1>4, <2>2, <2>8, <2>11 DEF MInv, MRest, RoomRules
    <3> QED
      BY <1>2, <1>4, <3>1 DEF MInv, MRest, RoomRules
  <2>13. client.attachment /\ client.stopped => room = "over" \/ ousted
    BY <1>2 DEF MInv, MRest, StopsForCause
  <2>14. StopsForCause'
    <3>1. CASE m = "attached"
      BY <2>2, <2>8, <2>11, <3>1, Zenon DEF StopsForCause
    <3>2. CASE m = "room_closed"
      <4>1. room = "over"
        BY <1>3, <3>2, SMT DEF Fits
      <4> QED
        BY <1>4, <4>1 DEF StopsForCause
    <3>3. CASE m = "error"
      <4>1. client.attachment => room = "over"
        BY <1>3, <3>3 DEF Fits
      <4> QED
        BY <1>4, <2>2, <2>8, <3>3, <4>1, Zenon DEF StopsForCause
    <3>4. CASE m \notin {"attached", "room_closed", "error"}
      BY <1>4, <2>2, <2>8, <2>13, <3>4, Zenon DEF StopsForCause
    <3> QED
      BY <3>1, <3>2, <3>3, <3>4, SMT
  <2>15. StaysStopped'
    <3>1. \A t \in Sockets : sock'[t].end # "connecting"
      BY <1>2, <2>3, <2>9, SMT
    <3>2. client.attachment /\ client.stopped => ~client.ping
      BY DEF MInv, MRest, StaysStopped
    <3>3. client.ping => client.status = "attached"
      BY <1>5 DEF ClientRules
    <3>4. d.attachment /\ d.stopped => ~d.ping /\ ~d.reconnect
      <4>1. CASE m = "attached"
        BY <2>2, <2>11, <4>1, Zenon
      <4>2. CASE m = "room_closed"
        BY <2>2, <4>2, Zenon
      <4>3. CASE m = "error"
        BY <1>2, <2>2, <3>2, <3>3, <4>3, Zenon
      <4>4. CASE m \notin {"attached", "room_closed", "error"}
        BY <1>2, <2>2, <3>2, <4>4, Zenon
      <4> QED
        BY <4>1, <4>2, <4>3, <4>4, SMT
    <3> QED
      BY <1>2, <1>4, <2>8, <3>1, <3>4, Zenon DEF StaysStopped
  <2>16. NeverSilent'
    <3>1. sock[client.socket].end = "open" /\ d.socket = s
      BY <1>1, <1>2, <2>2
    <3>2. client.status = "attached" /\ ~client.stopped => client.ping
      BY <1>2, <3>1 DEF MInv, MRest, NeverSilent
    <3>3. d.status = "attached" /\ ~d.stopped => d.ping
      <4>1. CASE m = "attached"
        BY <2>2, <4>1, Zenon
      <4>2. CASE m = "room_closed"
        BY <2>2, <4>2, Zenon
      <4>3. CASE m = "error"
        BY <2>2, <3>2, <4>3, Zenon
      <4>4. CASE m \notin {"attached", "room_closed", "error"}
        BY <2>2, <3>2, <4>4, Zenon
      <4> QED
        BY <4>1, <4>2, <4>3, <4>4, SMT
    <3> QED
      BY <1>2, <2>8, <3>1, <3>3, Zenon DEF NeverSilent
  <2> QED
    BY <2>9, <2>10, <2>12, <2>14, <2>15, <2>16 DEF MRest
<1> QED
  BY <1>6, <1>7

(* A client without a socket does not ping. *)
LEMMA NoPing ==
  ASSUME MInv, NoneLeft
  PROVE  client.ping = FALSE
<1>1. client.ping \in BOOLEAN /\ (client.ping => client.socket # 0)
  BY DEF MInv, MRest, ClientRules
<1>2. client.socket # 0 => client.socket \in Sockets /\ sock[client.socket].end # "none"
  BY SocketsFacts DEF MInv, IInv, Shape, IsClient, CurrentIsThere
<1>3. client.socket = 0
  BY <1>2 DEF NoneLeft
<1> QED
  BY <1>1, <1>3

(* A client without sockets opens one. *)
LEMMA OpenedKeeps ==
  ASSUME MInv, NoneLeft, Free # {}, left = FALSE,
         NEW c, IsClient(c), c.attachment = client.attachment, c.ping = FALSE,
         NEW first \in Requests, first \in {"create", "join"} => ~c.attachment,
         client' = Opened(c, first),
         sock' = [sock EXCEPT ![NextFree] = [NoSocket EXCEPT !.end = "connecting"]],
         UNCHANGED <<room, holder, ousted, left, faults>>
  PROVE  MRest'
<1> DEFINE n == NextFree
           k == [NoSocket EXCEPT !.end = "connecting"]
           d == Opened(c, first)
<1>1. n \in Sockets /\ \A t \in Sockets \ {n} : sock[t].end = "none"
  BY DEF NextFree, Free, NoneLeft
<1>2. /\ d.attachment = c.attachment /\ d.pendingFirst = first /\ d.stopped = FALSE
      /\ d.ping = FALSE /\ d.socket = n /\ d.status \in {"connecting", "reconnecting"}
  BY SMT DEF IsClient, ClientFields, Opened
<1> HIDE DEF d
<1>3. ClientRules(d)
  <2>1. /\ d.status \in {"idle", "connecting", "attached", "reconnecting", "closed"}
        /\ d.status # "attached" /\ d.pendingFirst \in {"none"} \cup Requests
    BY <1>2, SMT
  <2>2. d.pendingFirst \in {"create", "join"} => ~d.attachment
    BY <1>2
  <2> QED
    BY <1>2, <2>1, <2>2, Zenon DEF ClientRules
<1>4. /\ DOMAIN k = SocketFields /\ k.end = "connecting" /\ k.session = "none"
      /\ k.up = <<>> /\ k.down = <<>>
  BY NoSocketRules, SMT DEF SocketFields
<1> HIDE DEF k, n
<1>5. SocketRules(k, d, room, ousted)
  <2>1. Waits(d)
    BY <1>2, SMT DEF Waits, Requests
  <2>2. k.end # "none" /\ k.end # "open"
        /\ k.end \in {"none", "connecting", "open", "closing"}
    BY <1>4, SMT
  <2>3. <<>> \in Seq(Requests \cup {"ping"})
    BY SMT
  <2> QED
    BY <1>4, <2>1, <2>2, <2>3, EmptyQueue, Zenon DEF SocketRules
<1>6. client' = d /\ sock' = [sock EXCEPT ![n] = k]
  BY DEF d, k, n
<1>7. SocketsRules(client, room, ousted)'
  <2>1. SocketRules(k, client', room', ousted')
    BY <1>5, <1>6
  <2> QED
    BY <1>1, <1>6, <2>1, SocketStep
<1>8. ClientRules(client)'
  BY <1>3, <1>6 DEF ClientRules
<1>9. RoomRules'
  <2>1. client'.attachment => room' # "none"
    BY <1>2, <1>6 DEF MInv, MRest, RoomRules
  <2> QED
    BY <2>1 DEF MInv, MRest, RoomRules
<1>10. client'.stopped = FALSE /\ client'.status # "attached" /\ left' = FALSE
  BY <1>2, <1>6, SMT
<1>11. NeverSilent' /\ StopsForCause' /\ StaysStopped'
  BY <1>10, Zenon DEF NeverSilent, StopsForCause, StaysStopped
<1> QED
  BY <1>7, <1>8, <1>9, <1>11 DEF MRest

(* A user's create or join. *)
LEMMA CreateOrJoinKeeps ==
  ASSUME MInv, CreateOrJoin
  PROVE  MRest'
<1>1. PICK first \in {"create", "join"} : Opens(first)
  BY DEF CreateOrJoin
<1>2. NoneLeft /\ IsClient(client)
  BY DEF MInv, IInv, OpenersHaveNone, CreateOrJoin, Shape
<1>3. client.ping = FALSE
  BY <1>2, NoPing
<1>4. left = FALSE /\ ~client.attachment
  BY DEF CreateOrJoin, MInv, MRest, RoomRules
<1>5. first \in Requests /\ UNCHANGED <<room, holder, ousted, left, faults>>
  BY DEF Requests, CreateOrJoin, Server
<1> QED
  BY <1>1, <1>2, <1>3, <1>4, <1>5, OpenedKeeps DEF Opens

(* A step that changes neither sockets nor what the rules say of them. *)
LEMMA ClientOnly ==
  ASSUME MInv, UNCHANGED <<room, holder, ousted, left, faults>>,
         \A t \in Sockets : /\ sock'[t].end = sock[t].end
                            /\ SocketRules(sock'[t], client, room, ousted),
         ClientRules(client'),
         client'.socket = client.socket, client'.attachment = client.attachment,
         client'.stopped = client.stopped, client'.status = client.status,
         client'.pendingFirst = client.pendingFirst,
         client'.reconnect \in {client.reconnect, FALSE},
         client'.ping => client.ping,
         client'.ping = FALSE => client.ping = FALSE \/ ~CanSend(client)
  PROVE  MRest'
<1>1. ClientRules(client)'
  BY DEF ClientRules
<1>2. SocketsRules(client, room, ousted)'
  <2>1. ASSUME NEW t \in Sockets
        PROVE  SocketRules(sock'[t], client', room', ousted')
    <3>1. SocketRules(sock'[t], client, room, ousted)
      OBVIOUS
    <3>2. Queue(sock'[t].down, client', room', ousted')
      BY <3>1, Zenon DEF SocketRules, Queue, Fits
    <3>3. Waits(client) => Waits(client')
      BY Zenon DEF Waits
    <3> QED
      BY <3>1, <3>2, <3>3, Zenon DEF SocketRules
  <2> QED
    BY <2>1 DEF SocketsRules, SocketRules, Queue, Fits, Waits
<1>3. RoomRules'
  BY Zenon DEF MInv, MRest, RoomRules
<1>4. StopsForCause'
  BY Zenon DEF MInv, MRest, StopsForCause
<1>5. StaysStopped'
  <2>1. left' \/ (client'.attachment /\ client'.stopped) =>
          ~client.ping /\ ~client.reconnect /\ \A s \in Sockets : sock[s].end # "connecting"
    BY Zenon DEF MInv, MRest, StaysStopped
  <2>2. client.reconnect \in BOOLEAN
    BY DEF MInv, IInv, Shape, IsClient
  <2>3. ~client.reconnect => ~client'.reconnect
    BY <2>2
  <2>4. (\A s \in Sockets : sock[s].end # "connecting") =>
          \A s \in Sockets : sock'[s].end # "connecting"
    BY Zenon
  <2> QED
    BY <2>1, <2>3, <2>4, Zenon DEF StaysStopped
<1>6. NeverSilent'
  <2>1. client.socket # 0 => client.socket \in Sockets
    BY SocketsFacts DEF MInv, IInv, Shape, IsClient
  <2>2. client.socket # 0 => sock'[client.socket].end = sock[client.socket].end
    BY <2>1
  <2>3. client'.ping \in BOOLEAN
    BY DEF ClientRules
  <2>4. SUFFICES ASSUME client'.status = "attached", ~client'.stopped
                 PROVE  client'.socket # 0 /\ (sock'[client'.socket].end = "open" => client'.ping)
    BY DEF NeverSilent
  <2>5. /\ client.status = "attached" /\ client.socket # 0
        /\ sock[client.socket].end = "open" => client.ping
    BY <2>4, Zenon DEF MInv, MRest, NeverSilent
  <2>6. sock[client.socket].end = "open" => CanSend(client)
    BY <2>5 DEF CanSend
  <2>7. CASE client'.ping = FALSE
    BY <2>2, <2>5, <2>6, <2>7, Zenon
  <2>8. CASE client'.ping = TRUE
    BY <2>5, <2>8, Zenon
  <2> QED
    BY <2>3, <2>7, <2>8
<1> QED
  BY <1>1, <1>2, <1>3, <1>4, <1>5, <1>6 DEF MRest

(* The reconnect timer. *)
LEMMA ReconnectKeeps ==
  ASSUME MInv, ReconnectFires
  PROVE  MRest'
<1> DEFINE c == [client EXCEPT !.reconnect = FALSE]
<1>1. /\ IsClient(c) /\ c.attachment = client.attachment /\ c.reconnect = FALSE
      /\ c.ping = client.ping /\ c.socket = client.socket /\ c.stopped = client.stopped
      /\ c.status = client.status /\ c.pendingFirst = client.pendingFirst
  BY SMT DEF MInv, IInv, Shape, IsClient, ClientFields
<1>2. NoneLeft /\ client.reconnect /\ Free # {} /\ UNCHANGED <<room, holder, ousted, left, faults>>
  BY DEF MInv, IInv, OpenersHaveNone, ReconnectFires, Server
<1> HIDE DEF c
<1>3. ClientRules(client)
  BY DEF MInv, MRest
<1>4. ClientRules(c)
  BY <1>1, <1>3, Zenon DEF ClientRules
<1>5. CASE client' = c /\ UNCHANGED sock
  <2>1. \A t \in Sockets : /\ sock'[t].end = sock[t].end
                           /\ SocketRules(sock'[t], client, room, ousted)
    BY <1>5 DEF MInv, MRest, SocketsRules
  <2>2. client'.ping => client.ping
    BY <1>1, <1>5
  <2>3. client'.ping = FALSE => client.ping = FALSE
    BY <1>1, <1>5
  <2> QED
    BY <1>1, <1>2, <1>4, <1>5, <2>1, <2>2, <2>3, ClientOnly
<1>6. CASE /\ client' = Opened(c, "reattach")
           /\ sock' = [sock EXCEPT ![NextFree] = [NoSocket EXCEPT !.end = "connecting"]]
  <2>1. client.ping = FALSE
    BY <1>2, NoPing
  <2>2. left = FALSE
    BY <1>2 DEF MInv, MRest, RoomRules, StaysStopped
  <2>3. "reattach" \in Requests /\ "reattach" \notin {"create", "join"}
    BY SMT DEF Requests
  <2> QED
    BY <1>1, <1>2, <1>6, <2>1, <2>2, <2>3, OpenedKeeps
<1> QED
  BY <1>5, <1>6, Zenon DEF ReconnectFires, c

(* The ping timer. *)
LEMMA PingKeeps ==
  ASSUME MInv, PingFires
  PROVE  MRest'
<1> DEFINE can == CanSend(client)
           s == client.socket
<1>1. /\ client.ping /\ client' = [client EXCEPT !.ping = can]
      /\ UNCHANGED <<room, holder, ousted, left, faults>>
  BY DEF PingFires, Server
<1>2. can \in BOOLEAN
  BY DEF CanSend
<1>3. client.ping \in BOOLEAN
  BY DEF MInv, MRest, ClientRules
<1> HIDE DEF can
<1>4. /\ client'.ping = can /\ client'.socket = client.socket
      /\ client'.attachment = client.attachment /\ client'.stopped = client.stopped
      /\ client'.status = client.status /\ client'.pendingFirst = client.pendingFirst
      /\ client'.reconnect = client.reconnect
  BY <1>1, SMT DEF MInv, IInv, Shape, IsClient, ClientFields
<1>5. ClientRules(client)
  BY DEF MInv, MRest
<1>6. ClientRules(client')
  BY <1>1, <1>2, <1>4, <1>5, Zenon DEF ClientRules
<1>7. \A t \in Sockets : /\ sock'[t].end = sock[t].end
                         /\ SocketRules(sock'[t], client, room, ousted)
  <2>1. \A t \in Sockets : SocketRules(sock[t], client, room, ousted)
    BY DEF MInv, MRest, SocketsRules
  <2>2. CASE sock' = sock
    BY <2>1, <2>2
  <2>3. CASE can /\ sock[s].session = "serving" /\ sock' = [sock EXCEPT ![s].up = <<"ping">>]
    <3> DEFINE k == [sock[s] EXCEPT !.up = <<"ping">>]
    <3>1. s \in Sockets
      BY <2>3, SocketsFacts DEF can, CanSend, MInv, IInv, Shape, IsClient
    <3>2. sock' = [sock EXCEPT ![s] = k]
      BY <2>3
    <3>3. /\ DOMAIN k = SocketFields /\ k.end = sock[s].end /\ k.session = "serving"
          /\ k.up = <<"ping">> /\ k.down = sock[s].down
      BY <2>1, <2>3, <3>1, SMT DEF SocketRules, SocketFields
    <3>4. <<"ping">> \in Seq(Requests \cup {"ping"})
      BY SMT
    <3> HIDE DEF k
    <3>5. SocketRules(k, client, room, ousted)
      <4>1. SocketRules(sock[s], client, room, ousted)
        BY <2>1, <3>1
      <4>2. k.session # "attaching" /\ k.end # "connecting"
        BY <2>3, <3>3, <4>1, SMT DEF SocketRules
      <4> QED
        BY <2>3, <3>3, <3>4, <4>1, <4>2, Zenon DEF SocketRules
    <3>6. \A t \in Sockets : sock'[t] = IF t = s THEN k ELSE sock[t]
      BY <3>2, SMT DEF MInv, IInv, Shape
    <3> QED
      BY <2>1, <3>3, <3>5, <3>6, Zenon
  <2> QED
    BY <2>2, <2>3, Zenon DEF PingFires, can
<1>8. client'.ping => client.ping
  BY <1>1
<1>9. client'.ping = FALSE => ~CanSend(client)
  BY <1>4 DEF can
<1>10. client'.reconnect \in {client.reconnect, FALSE}
  BY <1>4
<1> QED
  BY <1>1, <1>4, <1>6, <1>7, <1>8, <1>9, <1>10, ClientOnly

(* A socket opens, and its request is sent. *)
LEMMA SocketOpensKeeps ==
  ASSUME MInv, NEW s \in Sockets, SocketOpens(s)
  PROVE  MRest'
<1> DEFINE P == client.pendingFirst
           k == [sock[s] EXCEPT !.end = "open", !.session = "attaching",
                   !.up = IF P = "none" THEN <<>> ELSE <<P>>]
<1>1. /\ sock' = [sock EXCEPT ![s] = k] /\ sock[s].end = "connecting"
      /\ UNCHANGED <<client, room, holder, ousted, left, faults>>
  BY DEF SocketOpens, Server
<1>2. SocketRules(sock[s], client, room, ousted)
  BY DEF MInv, MRest, SocketsRules
<1>3. Waits(client) /\ P # "none" /\ sock[s].down = <<>>
  BY <1>1, <1>2 DEF SocketRules, Waits
<1>4. P \in Requests /\ <<P>> \in Seq(Requests \cup {"ping"})
  <2>1. P \in Requests
    BY <1>3 DEF MInv, MRest, ClientRules
  <2> QED
    BY <2>1, SMT
<1>5. /\ DOMAIN k = SocketFields /\ k.end = "open" /\ k.session = "attaching"
      /\ k.up = <<P>> /\ k.down = <<>>
  BY <1>2, <1>3, SMT DEF SocketRules, SocketFields
<1> HIDE DEF k
<1>6. SocketRules(k, client, room, ousted)
  <2>1. /\ k.end # "none" /\ k.end # "connecting"
        /\ k.end \in {"none", "connecting", "open", "closing"}
        /\ k.session \in {"none", "attaching", "serving"}
    BY <1>5, SMT
  <2> QED
    BY <1>3, <1>4, <1>5, <2>1, EmptyQueue, Zenon DEF SocketRules
<1>7. \A t \in Sockets \ {s} : sock[t].end = "none"
  <2>1. sock[s].end # "none"
    BY <1>1
  <2> QED
    BY <2>1, Alive
<1>8. SocketsRules(client, room, ousted)' /\ \A t \in Sockets : sock'[t] = IF t = s THEN k ELSE sock[t]
  <2>1. SocketRules(k, client', room', ousted')
    BY <1>1, <1>6
  <2>2. sock' = [sock EXCEPT ![s] = k]
    BY <1>1
  <2>3. SocketsRules(client, room, ousted)'
    BY <1>7, <2>1, <2>2, SocketStep
  <2>4. \A t \in Sockets : sock'[t] = IF t = s THEN k ELSE sock[t]
    BY <2>2, SMT DEF MInv, IInv, Shape
  <2> QED
    BY <2>3, <2>4
<1>9. ClientRules(client)'
  <2>1. ClientRules(client)
    BY DEF MInv, MRest
  <2> QED
    BY <1>1, <2>1 DEF ClientRules
<1>10. RoomRules' /\ StopsForCause'
  BY <1>1 DEF MInv, MRest, RoomRules, StopsForCause
<1>11. StaysStopped'
  <2>1. \A t \in Sockets : sock'[t].end # "connecting"
    BY <1>5, <1>7, <1>8, SMT
  <2> QED
    BY <1>1, <2>1, Zenon DEF MInv, MRest, StaysStopped
<1>12. NeverSilent'
  <2>1. client.status # "attached"
    BY <1>3 DEF MInv, MRest, ClientRules
  <2> QED
    BY <1>1, <2>1 DEF NeverSilent
<1> QED
  BY <1>8, <1>9, <1>10, <1>11, <1>12 DEF MRest

(* The socket that closes hears only the end of its session. *)
LEMMA ClosingRules ==
  ASSUME NEW k, NEW c, NEW r, NEW o, SocketRules(k, c, r, o),
         NEW d, d.attachment = c.attachment
  PROVE  SocketRules(Closing(k), d, r, o) /\ Closing(k).end = "closing"
<1> DEFINE j == Closing(k)
<1>1. /\ DOMAIN j = SocketFields /\ j.end = "closing" /\ j.session = k.session
      /\ j.up = k.up /\ j.down = CodeOf(k.down)
  BY SocketShapes, SocketParts DEF SocketRules
<1>2. Queue(CodeOf(k.down), d, r, o)
  BY CodeOfQueue DEF SocketRules
<1> HIDE DEF j
<1>3. /\ j.end # "none" /\ j.end # "connecting" /\ j.end # "open"
      /\ j.end \in {"none", "connecting", "open", "closing"}
  BY <1>1, SMT
<1>4. k.session \in {"none", "attaching", "serving"} /\ k.up \in Seq(Requests \cup {"ping"})
  BY DEF SocketRules
<1>5. SocketRules(j, d, r, o)
  BY <1>1, <1>2, <1>3, <1>4, Zenon DEF SocketRules
<1> QED
  BY <1>1, <1>5 DEF j

(* The current socket begins to close. *)
LEMMA ClosingKeeps ==
  ASSUME MInv, client.socket # 0, client'.attachment = client.attachment,
         sock' = [sock EXCEPT ![client.socket] = Closing(@)],
         UNCHANGED <<room, ousted>>
  PROVE  /\ SocketsRules(client, room, ousted)'
         /\ \A t \in Sockets : sock'[t].end # "connecting"
         /\ sock'[client.socket].end = "closing"
<1> DEFINE s == client.socket
           k == Closing(sock[s])
<1>1. s \in Sockets
  BY SocketsFacts DEF MInv, IInv, Shape, IsClient
<1>2. sock[s].end # "none"
  BY DEF MInv, IInv, CurrentIsThere
<1>3. \A t \in Sockets \ {s} : sock[t].end = "none"
  BY <1>1, <1>2, Alive
<1>4. SocketRules(k, client', room, ousted) /\ k.end = "closing"
  <2>1. SocketRules(sock[s], client, room, ousted)
    BY <1>1 DEF MInv, MRest, SocketsRules
  <2> QED
    BY <2>1, ClosingRules
<1>5. sock' = [sock EXCEPT ![s] = k]
  OBVIOUS
<1> HIDE DEF k
<1>6. \A t \in Sockets : sock'[t] = IF t = s THEN k ELSE sock[t]
  BY <1>1, <1>5, SMT DEF MInv, IInv, Shape
<1>7. SocketRules(k, client', room', ousted')
  BY <1>4
<1>8. SocketsRules(client, room, ousted)'
  BY <1>1, <1>3, <1>5, <1>7, SocketStep
<1>9. \A t \in Sockets : sock'[t].end # "connecting"
  <2>1. k.end # "connecting"
    BY <1>4, SMT
  <2>2. ASSUME NEW t \in Sockets PROVE sock'[t].end # "connecting"
    <3>1. CASE t = s
      BY <1>6, <2>1, <3>1, Zenon
    <3>2. CASE t # s
      <4>1. sock'[t].end = "none"
        BY <1>3, <1>6, <3>2, Zenon
      <4> QED
        BY <4>1, SMT
    <3> QED
      BY <3>1, <3>2
  <2> QED
    BY <2>2
<1>10. sock'[s].end = "closing"
  BY <1>1, <1>4, <1>6, Zenon
<1> QED
  BY <1>8, <1>9, <1>10

(* The dev drop. *)
LEMMA DropKeeps ==
  ASSUME MInv, DropSocket
  PROVE  MRest'
<1>1. /\ client.socket # 0 /\ client' = client
      /\ sock' = [sock EXCEPT ![client.socket] = Closing(@)]
      /\ UNCHANGED <<room, holder, ousted, left>> /\ faults' \in 0 .. MaxFaults
  BY FaultCounts DEF DropSocket, DropKeepsSocket, Server
<1>2. /\ SocketsRules(client, room, ousted)'
      /\ \A t \in Sockets : sock'[t].end # "connecting"
      /\ sock'[client.socket].end = "closing"
  BY <1>1, ClosingKeeps
<1>3. ClientRules(client)'
  <2>1. ClientRules(client)
    BY DEF MInv, MRest
  <2> QED
    BY <1>1, <2>1 DEF ClientRules
<1>4. RoomRules' /\ StopsForCause'
  BY <1>1 DEF MInv, MRest, RoomRules, StopsForCause
<1>5. StaysStopped'
  BY <1>1, <1>2, Zenon DEF MInv, MRest, StaysStopped
<1>6. NeverSilent'
  <2>1. sock'[client'.socket].end # "open"
    BY <1>1, <1>2, SMT
  <2> QED
    BY <1>1, <2>1, Zenon DEF NeverSilent
<1> QED
  BY <1>2, <1>3, <1>4, <1>5, <1>6 DEF MRest

(* The user leaves. *)
LEMMA LeaveKeeps ==
  ASSUME MInv, Leave
  PROVE  MRest'
<1>1. /\ client.attachment /\ left' = TRUE /\ client' = Leaves(client)
      /\ sock' = IF client.socket = 0 THEN sock
                 ELSE [sock EXCEPT ![client.socket] = Closing(@)]
      /\ UNCHANGED <<room, holder, ousted, faults>>
  BY DEF Leave, Server
<1>2. /\ client'.attachment = client.attachment /\ client'.stopped = TRUE
      /\ client'.ping = FALSE /\ client'.reconnect = FALSE /\ client'.socket = 0
      /\ client'.status = "closed" /\ client'.pendingFirst = client.pendingFirst
  <2>1. DOMAIN client = ClientFields
    BY DEF MInv, IInv, Shape, IsClient
  <2>2. client' = Leaves(client)
    BY <1>1
  <2> QED
    BY <2>1, <2>2, SMT DEF Leaves, ClientFields
<1>3. ClientRules(client)'
  <2>1. ClientRules(client')
    <3>1. ClientRules(client)
      BY DEF MInv, MRest
    <3>2. client'.status # "attached"
          /\ client'.status \in {"idle", "connecting", "attached", "reconnecting", "closed"}
      BY <1>2, SMT
    <3> QED
      BY <1>2, <3>1, <3>2, Zenon DEF ClientRules
  <2> QED
    BY <2>1 DEF ClientRules
<1>4. SocketsRules(client, room, ousted)' /\ \A t \in Sockets : sock'[t].end # "connecting"
  <2>1. CASE client.socket = 0
    <3>1. sock' = sock
      BY <1>1, <2>1
    <3>2. \A t \in Sockets : sock[t].end \notin {"connecting", "open"}
      <4>1. \A t \in Sockets : t # 0
        BY SocketsFacts, Zenon
      <4> QED
        BY <2>1, <4>1, Zenon DEF MInv, IInv, OneSocket
    <3>3. ASSUME NEW t \in Sockets
          PROVE  SocketRules(sock'[t], client', room', ousted')
      <4>1. SocketRules(sock[t], client, room, ousted)
        BY DEF MInv, MRest, SocketsRules
      <4>2. sock[t].end # "connecting" /\ sock[t].end # "open"
        BY <3>2
      <4>3. Queue(sock[t].down, client', room', ousted')
        <5>1. CASE sock[t].end = "none"
          BY <4>1, <5>1, EmptyQueue DEF SocketRules
        <5>2. CASE sock[t].end = "closing"
          BY <1>1, <1>2, <4>1, <5>2, Zenon DEF SocketRules, Queue, Fits
        <5> QED
          BY <4>1, <4>2, <5>1, <5>2 DEF SocketRules
      <4> QED
        BY <3>1, <4>1, <4>2, <4>3, Zenon DEF SocketRules
    <3>4. \A t \in Sockets : sock'[t].end # "connecting"
      BY <3>1, <3>2
    <3>5. SocketsRules(client, room, ousted)'
      BY <3>3 DEF SocketsRules, SocketRules, Queue, Fits, Waits
    <3> QED
      BY <3>4, <3>5
  <2>2. CASE client.socket # 0
    <3>1. sock' = [sock EXCEPT ![client.socket] = Closing(@)]
      BY <1>1, <2>2
    <3> QED
      BY <1>1, <1>2, <2>2, <3>1, ClosingKeeps
  <2> QED
    BY <2>1, <2>2
<1>5. RoomRules'
  BY <1>1, <1>2, Zenon DEF MInv, MRest, RoomRules
<1>6. StopsForCause'
  BY <1>1 DEF StopsForCause
<1>7. StaysStopped'
  BY <1>2, <1>4 DEF StaysStopped
<1>8. NeverSilent'
  BY <1>2, Zenon DEF NeverSilent
<1> QED
  BY <1>3, <1>4, <1>5, <1>6, <1>7, <1>8 DEF MRest

-----------------------------------------------------------------------------
(* The initial states satisfy the invariant. *)
LEMMA InitMInv == Init => MInv
<1> SUFFICES ASSUME Init PROVE MInv
  OBVIOUS
<1>1. IInv
  BY InitIInv
<1>2. ASSUME NEW c \in {NewClient, ClosedClient}
      PROVE  /\ ClientRules(c) /\ c.ping = FALSE /\ c.reconnect = FALSE
             /\ c.attachment = FALSE /\ c.status # "attached"
  <2>1. /\ NewClient.status = "idle" /\ NewClient.attachment = FALSE
        /\ NewClient.stopped = FALSE /\ NewClient.pendingFirst = "none"
        /\ NewClient.ping = FALSE /\ NewClient.reconnect = FALSE
    BY SMT DEF NewClient
  <2>2. /\ ClosedClient.status = "closed" /\ ClosedClient.attachment = FALSE
        /\ ClosedClient.stopped = TRUE /\ ClosedClient.pendingFirst = "none"
        /\ ClosedClient.ping = FALSE /\ ClosedClient.reconnect = FALSE
    BY SMT DEF ClosedClient, NewClient
  <2>3. c.status \in {"idle", "closed"} /\ c.attachment = FALSE /\ c.stopped \in BOOLEAN
        /\ c.pendingFirst = "none" /\ c.ping = FALSE /\ c.reconnect = FALSE
    <3>1. CASE c = NewClient
      BY <2>1, <3>1, Zenon
    <3>2. CASE c = ClosedClient
      BY <2>2, <3>2, Zenon
    <3> QED
      BY <3>1, <3>2
  <2>4. /\ c.status \in {"idle", "connecting", "attached", "reconnecting", "closed"}
        /\ c.status # "attached" /\ c.pendingFirst \in {"none"} \cup Requests
    BY <2>3, SMT
  <2> QED
    BY <2>3, <2>4, Zenon DEF ClientRules
<1>3. /\ ClientRules(client) /\ client.ping = FALSE /\ client.reconnect = FALSE
      /\ client.attachment = FALSE /\ client.status # "attached"
  BY <1>2 DEF Init
<1>4. \A s \in Sockets : sock[s] = NoSocket
  BY DEF Init
<1>5. SocketsRules(client, room, ousted)
  BY <1>4, NoSocketRules DEF SocketsRules
<1>6. RoomRules
  <2>1. 0 \in 0 .. MaxSockets /\ 0 \in 0 .. MaxFaults
    BY ClientAssumption, SMT
  <2>2. /\ room \in {"none", "open", "over"} /\ holder \in 0 .. MaxSockets
        /\ faults \in 0 .. MaxFaults /\ left = FALSE /\ ousted = FALSE
    BY <2>1 DEF Init
  <2> QED
    BY <1>3, <2>2, Zenon DEF RoomRules
<1>7. NeverSilent /\ StopsForCause
  BY <1>3 DEF NeverSilent, StopsForCause
<1>8. StaysStopped
  BY <1>3 DEF Init, StaysStopped
<1> QED
  BY <1>1, <1>3, <1>5, <1>6, <1>7, <1>8 DEF MInv, MRest

(* Every step keeps it. *)
LEMMA NextMInv == MInv /\ [Next]_vars => MInv'
<1> SUFFICES ASSUME MInv, [Next]_vars PROVE MInv'
  OBVIOUS
<1>1. IInv'
  BY NextIInv DEF MInv
<1>2. ASSUME CreateOrJoin PROVE MRest'
  BY <1>2, CreateOrJoinKeeps
<1>3. ASSUME DropSocket PROVE MRest'
  BY <1>3, DropKeeps
<1>4. ASSUME ReconnectFires PROVE MRest'
  BY <1>4, ReconnectKeeps
<1>5. ASSUME PingFires PROVE MRest'
  BY <1>5, PingKeeps
<1>6. ASSUME Leave PROVE MRest'
  BY <1>6, LeaveKeeps
<1>7. ASSUME RoomEnds PROVE MRest'
  BY <1>7, RoomEndsKeeps
<1>8. ASSUME NEW s \in Sockets, OfSocket(s) \/ Lost(s) PROVE MRest'
  <2>1. CASE SocketOpens(s)
    BY <2>1, SocketOpensKeeps
  <2>2. CASE ClosingEnds(s)
    BY <2>2, ClosingEndsKeeps
  <2>3. CASE Receive(s)
    BY <2>3, ReceiveKeeps
  <2>4. CASE FirstAttach(s)
    BY <2>4, FirstAttachKeeps
  <2>5. CASE Reattach(s)
    BY <2>5, ReattachKeeps
  <2>6. CASE Serve(s)
    BY <2>6, ServeKeeps
  <2>7. CASE FindsClientGone(s)
    BY <2>7, FindsClientGoneKeeps
  <2>8. CASE Lost(s)
    BY <2>8, LostKeeps
  <2> QED
    BY <1>8, <2>1, <2>2, <2>3, <2>4, <2>5, <2>6, <2>7, <2>8 DEF OfSocket
<1>9. ASSUME UNCHANGED vars PROVE MRest'
  <2>1. UNCHANGED <<client, sock, room, holder, ousted, left, faults>>
    BY <1>9 DEF vars
  <2> QED
    BY <2>1
       DEF MInv, MRest, ClientRules, RoomRules, SocketsRules, SocketRules, Queue, Fits, Waits,
           NeverSilent, StopsForCause, StaysStopped, CanSend
<1>10. MRest'
  BY <1>2, <1>3, <1>4, <1>5, <1>6, <1>7, <1>8, <1>9 DEF Next
<1> QED
  BY <1>1, <1>10 DEF MInv

(* The invariant holds. *)
LEMMA Messaging == Spec => []MInv
  BY InitMInv, NextMInv, PTL DEF Spec

(* Fields have their ranges, and a request is pending exactly as long as    *)
(* it is to be sent or answered.                                           *)
THEOREM ClientTypeCorrect == Spec => []TypeOK
<1>1. MInv => TypeOK
  <2> SUFFICES ASSUME MInv PROVE TypeOK
    OBVIOUS
  <2>1. ASSUME NEW s \in Sockets
        PROVE  /\ sock[s].end \in {"none", "connecting", "open", "closing"}
               /\ sock[s].session \in {"none", "attaching", "serving"}
               /\ sock[s].end = "connecting" => sock[s].session = "none"
               /\ client.pendingFirst = "none" => sock[s].end # "connecting"
    <3>1. SocketRules(sock[s], client, room, ousted)
      BY DEF MInv, MRest, SocketsRules
    <3> QED
      BY <3>1 DEF SocketRules, Waits
  <2>2. client.pendingFirst \in {"none", "create", "join", "reattach"}
    BY DEF MInv, MRest, ClientRules, Requests
  <2> QED
    BY <2>1, <2>2, Zenon DEF TypeOK, MInv, MRest, ClientRules, RoomRules, IInv, Shape, IsClient
<1> QED
  BY <1>1, Messaging, PTL

(* A client that is attached pings as long as its socket is there, in any  *)
(* order of reattaches, closes and expiring timers (scheduleHeartbeat).    *)
THEOREM ClientKeepsPinging == Spec => []NeverSilent
<1>1. MInv => NeverSilent
  BY DEF MInv, MRest
<1> QED
  BY <1>1, Messaging, PTL

(* A client that was attached is stopped only by its user, by the end of   *)
(* the room or by a newer session (handleMessage and handleClose).         *)
THEOREM ClientStopsForCause == Spec => []StopsForCause
<1>1. MInv => StopsForCause
  BY DEF MInv, MRest
<1> QED
  BY <1>1, Messaging, PTL

(* A client that has left or was stopped opens no socket and sends nothing *)
(* any more (close and scheduleReattach).                                  *)
THEOREM ClientStaysStopped == Spec => []StaysStopped
<1>1. MInv => StaysStopped
  BY DEF MInv, MRest
<1> QED
  BY <1>1, Messaging, PTL
=============================================================================
