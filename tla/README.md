# AnywhereDrop in TLA+

AnywhereDrop sends one file from browser to browser.  A Go server pairs two
peers in a room named by a short code and relays their WebRTC negotiation over
WebSockets; the file then travels over an ordered, reliable data channel, in
chunks, under flow control, into a worker that hashes what it holds.

This directory models the parts of the program whose correctness depends on
order and failure: the room store, the bus and the signaling sessions of the
server, the join limiter, and in the browser the signaling client that keeps a
peer attached, the peer link that negotiates the connection, and the whole
transfer protocol.
`PROJECT.json` holds the same information in tables: which definition stands
for which lines, what each run checks, and what is still open.

## 1. Inventory

| Component | State | Operations | Talks to |
| --- | --- | --- | --- |
| Room store, `backend/internal/rooms` | map of codes to rooms; a room has a state, an age and one or two slots; a slot has an owner, a generation, connected or not, two instants | Create, Join, Reattach, Heartbeat, Disconnect, Close, Get, Sweep | called by sessions and the janitor, under one mutex |
| Bus, `backend/internal/bus` | subscriptions of a room, each with a channel of 256 envelopes | Subscribe, Publish, Close | sessions publish and read |
| Signaling session, `backend/internal/signaling/session.go` | attachment (peer, generation, role), a queue of 64 messages, a close state; three goroutines | attach (create, join, reattach), readLoop (ping, relay, sync), busLoop, writeLoop, detach | store, bus, limiter, the client's socket |
| Join limiter, `limiter.go` | instants of the joins of each address | allow, sweep | sessions, a janitor |
| Sender, `frontend/src/transfer/sender.ts` | state, offsets sent and acknowledged, waiters, hash pass, timer | offer, cancel, the chunk loop, six incoming messages, low event, close, timeout | data channel, file, hash worker |
| Receiver, `transfer/receiver.ts` | state, offer, next index, committed offset, next ACK, terminal record | accept, reject, cancel, five incoming messages, sink callbacks, close | data channel, sink |
| Receive sink, `workers/sink-core.ts`, `receive-sink-client.ts` | state, chunks, committed offset, a chain of requests | begin, write, finalize, abort; replies | posts between page and worker |
| Hash pass, `workers/hash-pass*` | pending, settled or cancelled | start, cancel | sender |
| Data channel, `webrtc/channel.ts` | the browser's buffer, bufferedAmount, readyState | send, events | both ends |
| Peer link, `webrtc/link.ts`, started by `ui/usePeerLink.ts` | epoch, attempts, phase, applied epochs, pending candidates, one timer | start, six events of the client, offer, answer, candidates, timeout, restart, close | signaling client, RTCPeerConnection |
| Signaling client, `signaling/client.ts`, called by `ui/useSignaling.ts` | status, attachment, the pending first request, socket, two timers, stopped | create, join, reattach, ping, the replies and closes, dropSocket, close | server, peer link |
| TURN credentials, health, static files, user interface | none that outlives a call, or React's | | |

What is hard in it:

* **Server.** A peer may have several sockets at once (an old one that has not
  noticed, a new one that reattached).  Each session is three goroutines, its
  store calls and its publications are separate steps, and sessions of one room
  interleave with each other and with the janitor.  Timers decide who is gone.
  The bus may drop.
* **Signaling client.** A socket may be gone at the client while its last request
  is still read by the server, so several sessions of one client meet; closes are
  handled without asking which socket they belong to; two timers and a user's
  exit race with them.
* **Peer link.** Two links change epochs while operations of the browser's
  connection are chained behind each other; every `await` may be outlived by a
  timer, a resync or a restart; relayed messages are lost whenever either peer is
  away, and only one side may offer.
* **Transfer.** Two event loops, two workers and a channel, with two flow-control
  limits whose wake-ups must not be lost, several ways to end at any moment on
  either side, and a last exchange (COMPLETE, finalize, COMPLETE_ACK) that races
  with a timer, a cancel and a close.

What makes each part correct, in a sentence:

* Store: a code has at most one rendezvous of two peers, an attachment that has
  ended stays ended, a peer within its grace keeps its place, and nobody waits
  for ever for a peer that is gone.
* Sessions: slots agree with sessions, only older sessions are superseded, no
  peer misses the pairing, a stale session ends, the client is told why.
* Limiter: never more joins in a window than the limit, and no refusal without
  cause.
* Signaling client: one socket at a time, never silent while attached, stopped
  only for a reason and then for good, and at rest on the session that holds its
  slot once faults cease.
* Peer link: descriptions and candidates only meet the description they belong
  to, attempts are bounded, neither side waits for ever, and a pairing connects
  although something is lost on the way.
* Transfer: bounded memory, no lost wake-up, honest ACKs, verdicts that are
  final and consistent, exact content, and an end on both sides.

## 2. Modules

    Pairing  <--refines--  RoomStore  <--INSTANCE--  Signaling  --EXTENDS-->  Bus
                              |                          |
                         RoomStore_proofs            MCSignaling
                         MCRoomStore                 SignalingLemmas <- Signaling_proofs

    DataChannel <- Sender ----------.
    DataChannel <- SinkCore <- Receiver +-> Transfer  --refines-->  FileDelivery
                                            MCTransfer
                                            TransferLemmas <- Transfer_proofs

    PeerLink <- MCPeerLink              SignalingClient <- MCSignalingClient
             <- PeerLink_proofs                         <- SignalingClient_proofs

    RateLimiter <- MCRateLimiter
                <- RateLimiter_proofs

**RoomStore** has one action per store operation.  An operation's answer is an
operator of its own (`JoinResult`, `HeartbeatResult`...), written in the order of
the code's early returns, and the action is guarded by it; calls that are refused
change nothing and are left to the callers that care (Signaling).  Instants are
kept as ages that `Tick` advances together and that saturate at `AgeCap`, above
every comparison the code makes, so time is unbounded although the state is not.
`Heartbeat` and `Disconnect` come with any generation, since sockets outlive
attachments.

**Pairing** is the store's contract: open, pair, retire.  `RoomStore!Contract`
substitutes the status and the members of each room for its variables.

**Bus** is one room of the in-memory bus.  Publish puts the envelope into every
inbox that has room and drops it elsewhere.  An inbox that nobody will read any
more is kept empty (`deaf`), which only merges states.

**Signaling** composes the store and the bus with the sessions.  `session[s]` is
a record of what the three goroutines of `s` share, with `main` for the place
where run() stands; its comment lists the places.  Wherever the code makes two
calls that others can come between, there are two actions: AttachCreate and
CreateReplies, AttachJoin and Announce, Ping and PartnerGone or Expired, Sync and
SyncAnswers, Detach and Leave.  `told` and `partner` are histories of what the
client has read: which types of messages, and the last word on its partner.
`events` is what may happen in a behaviour, one of `EventSets`: the kinds of message
that clients send once attached, `"failure"` if sockets may fail or fall silent, and
`"time"` if the clock and the janitor run.  What the histories do not keep (`Watched`)
is not told apart in a queue either (`Msg`).  A reattaching session takes the identity
of any session whose client was told one.

**RateLimiter** keeps ages too, and a history of the last calls it admitted, one more
than the limit, which says whether a window ever had a call too many.

**DataChannel** is the browser's side of the contract that `channel.ts` passes
on: messages leave the send buffer in order, bufferedAmount falls as they do, the
low event is queued on crossing the threshold, and a close loses an unknown part
of what was on its way.  It also holds what both ends share, the framing and the
limits.  Its `setup` never changes: whether the file is hashed, whether the
development flag corrupts the first chunk, and which faults may happen, so that
one run covers every combination a configuration names.  **Sender** and **Receiver** have one action per handler and one per
resumption of an `await`; `sender.pc` is the await run() is suspended at.  A
wake-up and the turn of the loop that follows it are one step, because promise
continuations run before the next task.  **SinkCore** is the worker with its two
message queues; abort terminates it together with both.  Payloads are sequences
of file positions, so content can be compared exactly.  **Transfer** is the
composition, and **FileDelivery** what it promises the two users; a transfer's
verdict is its terminal state.  A receiver may be told to accept twice before its
sink is ready: `stray` counts what the first sink's promise still owes, and
`StrayReplies` is that promise's continuation.

**PeerLink** is both links of a room, each with the connection under it, and the
relay.  A description is represented by its epoch.  `pc[r].chain` is the
browser's operations chain: `createOffer`, `setLocal`, `setRemote` and the
additions of candidates settle in the order they were called, and the step that
settles one also runs the continuation of its `await`, which is a microtask.  A
candidate has the epoch it was stamped with and, in `of`, the description it was
gathered for, so that the two can disagree.  One action stands for each handler
of `onSignaling`, for each continuation, for the timer of each role and for what
the user may do; the server's part (`Join`, `Drop`, `Reattach`, `SyncAnswered`)
is what `session.go` relays, announces and answers.  Offers, answers and candidates
that are lost with a socket leave a blank in the other client's queue (`CutOff`), which
`StillWaiting` passes over.  `strict` says whether the
browsers refuse a local offer that is not the last one created; both kinds are
checked.

**SignalingClient** is one client, its sockets, and the sessions the server runs
on them.  A socket has an end at the client (`none`, `connecting`, `open`,
`closing`), a session (`none`, `attaching`, `serving`) and a queue each way.  A
socket that is lost at the client keeps what it had sent, and `Reattach` may read
it at any later time.  The server's side is what Signaling's sessions do as far
as one client can tell: first attach or refusal, reattach with its supersession,
pings, the end of the room.  A session ends once, so its close code is the last
message of its queue (`CodeOf`).

Several modules hold operators marked *Mutant*.  They are not part of any
specification: each is a plausible mistake in the definition that follows it,
kept there to show which property would notice.

## 3. Runs

| Run (configuration) | Instance | Shows |
| --- | --- | --- |
| `MCRoomStore` | 1 code, 3 peers, 2 generations, timers 2/1/1, fair clock and janitor | contract, consistency, finality of attachments; the grace protects a pairing, a peer that stays away is dropped, codes are given back (128 065 states) |
| `MCSignaling_safety` | 2 sessions whose clients ping, relay, sync or send what is malformed; bus of 1, queue of 2, timers 0 | replies first, told before closed, expiry never takes a pairing (1 269 341) |
| `MCSignaling_reattach` | 3 sessions: one creates, the others join or reattach in any order | pairing announced, slots match sessions, only older superseded (1 420 329) |
| `MCSignaling_live` | 3 sessions: one creates, one joins, one reattaches; bus and queue of 1, timers 0, fair; pings only, or one of the later sessions with pings, malformed messages, failures and timers | stale sessions end although the bus drops (329 881) |
| `MCSignaling_stalenews` | as reattach, one property | **violated**, see section 5 |
| `MCRateLimiter` | 2 addresses, 2 joins per window of 3 | the limit holds, refusals are earned (196) |
| `MCTransfer_safety` | sizes 0 to 8; every fault; with and without hashing and corruption | flow control, wake-ups, ACKs, framing, exact content, delivery contract (1 136 196) |
| `MCTransfer_live` | sizes 0 and 5; no faults or every fault; fair | delivery without faults, corruption reported, both sides end (119 940) |
| `MCTransfer_lostchannel` | the channel may close at any time | **violated**, see section 5 |
| `MCPeerLink_recovery` | 3 attempts, one fault; both kinds of browsers; fair | answers and candidates match, attempts bounded, both ends stop waiting, the pairing connects (85 114) |
| `MCPeerLink_exhausted` | the same, one property | **violated**, see section 5 |
| `MCSignalingClient` | 4 sockets, 4 faults; fair | one socket, never silent, stops for cause and for good, comes to rest (42 927) |

### Bounds and why they are enough

* *Peers, sessions.* A room has two places; a third peer shows that it stays
  out, a third session gives a peer two sockets at once beside its partner.
* *Generations* (`MaxGen`). Two are needed for a late call of an old attachment;
  in Signaling each session adds at most one, so the bound is never met.
* *Timers.* Comparisons are strict, so a timer of 0 already separates "within"
  from "after"; `MCRoomStore` uses 1 and 2 so that two timers differ.
  `AgeCap` is one more than their sum.
* *Codes.* `MCRoomStore` has one code, which is opened, closed and opened again;
  that a peer has one slot over several rooms is proved for any number of codes.
* *Bus and queue capacity* (256 and 64 in the code). One or two make overflow
  happen; `BusCap` 9 in the reattach runs makes it impossible, because there the
  question is what ordering alone guarantees, and a client whose queue
  overflows is closed anyway.
* *Sizes.* With chunks of 2: the empty file, whole chunks only, whole chunks
  and a short one, a file over `MaxFileSize` (7).  `HighWater` 3 lets two frames
  into the send buffer and `Window` 5 three chunks on their way, so both limits
  stall in a file of four chunks and neither makes the other idle (in
  `MCTransfer_live` the file has three chunks and the window is 4, two of them); `AckInterval` 3 is not a multiple of the chunk, so ACK
  milestones fall between commits.
* *Clicks.* `accept()` is called twice at most; the two calls have a sink each, and
  a third would only repeat the second.
* *Symmetry* is over sessions, and only in safety runs of Signaling; where
  one session creates, it is over the others.  The other runs use none.
* *Attempts and faults of a link* (`MaxAttempts`, `MaxFaults`). The attempts are the
  code's own three.  A fault is a socket lost with any part of what was on it, a
  timer that fires before everything has come to rest, an event that finds no
  listener yet, a sync or a restart.  One fault can happen at any of its moments;
  two can spend all three attempts, and then the link may fail as it should.
* *Sockets and faults of a client.* `MaxSockets` counts sockets that exist at one
  time, sessions that still have something to read included; four are three old
  ones beside the current one, which `MaxFaults` 4 can produce.  One ping is
  outstanding at a time, since the interval is far above a round trip.
* *Creator.*  The reattach runs let one session create the room, since any other
  Create finds the code taken while the room is there, and it stays (timers off).
* *Events.*  Each behaviour of `MCSignaling_safety` has clients of one kind,
  since the handlers of different requests meet only in the store and the queues,
  where their sessions already interleave with every attach, detach and timer.
  `MCSignaling_live` has two kinds of behaviour (`LiveInit`).  Where everything can
  happen, pings and malformed messages, failing sockets and timers, one of the two
  later sessions is refused at once, so there are two sessions: a creator with a
  joiner, whose room ends, or with a session that reattaches in its place.  In the other, clients
  only ping and nothing fails, and all three take part: the reattaching session takes
  the place of the creator or of the joiner, and the replaced one's inbox of one
  envelope may be full of the joiner's announcement when "superseded" is published, which is
  then dropped.  Its own heartbeat is then the only thing that can end it.
* Deadlock is not checked where the system may stop: a transfer that has ended,
  and a room whose sessions have all ended in instances without timers.

### Fairness

* Store: the clock advances and the janitor's ticker fires (`FairSpec` of
  RoomStore).  No peer is obliged to anything.
* Signaling: run goes on, and writeLoop closes when it was asked to; a client
  either keeps pinging or its read ends (the read has the silence timeout as its
  deadline).  Nothing is asked of busLoop or of the network: an envelope that is
  never forwarded is as good as dropped, and a session must end without it.  New
  sessions, relays, malformed messages and the timers are not fair either.
* Peer link: the page's event loop runs, the browser settles what it was asked and
  gathers a candidate, an armed timer fires, a client that lost its socket attaches
  again, and two ends that have each other's descriptions and a candidate connect.
  Users, faults and a second report of the connection are not fair.
* Signaling client: sockets open or are lost, messages and closes are dispatched,
  the reconnect timer fires, and sessions read what was sent and find their client
  gone.  Users, faults, pings and the end of the room are not fair.
* Transfer: both event loops and the worker run, the network delivers, an armed
  timer fires, and an end learns of the other's close.  Offering, accepting,
  cancelling, failing and closing of one's own accord are not fair.

## 4. Proofs

`RoomStore_proofs.tla` proves, for every set of codes and peers and all timers:

| Theorem | Statement |
| --- | --- |
| `StoreInvariant` | `Spec => []IInv` |
| `TypeCorrect` | `Spec => []TypeOK` |
| `SlotsStayConsistent` | `Spec => []SlotsConsistent` |
| `AttachmentsStayFinal` | `Spec => AttachmentsAreFinal` |
| `GraceIsKept` | `Spec => PairingSurvivesGrace` |
| `Implementation` | `Spec => ImplementsPairing` |

They rest on the named assumptions of RoomStore: timers and `MaxGen` are natural
numbers, and the two null values are no room and no slot.  The inductive
invariant `IInv` is `TypeOK /\ SlotsConsistent`.  `SlotsConsistent` says of each
room that its joiner is there exactly from the pairing on and is not the creator,
and that no peer has places in two rooms; the type invariant alone would not
make `FindSlot(*r.Joiner)` in Sweep meaningful, nor tell whose slot an operation
rewrites.  The conjunct on `lastSeen` and `createdAt` (nobody was seen before the
room existed) is there because every operation keeps it and it is what age
arguments start from.

The argument has three layers.  Lemmas on the helpers say what `FindSlot`,
`WithSlot`, `Swept` and the ageing operators return.  `Keeps(r, w)` says that a
room `w` may stand where `r` stood (same members, same slots up to
`SlotMayBecome`, no revival), and `Maintains` that every room is kept or
deleted; each action other than Create and Join maintains, by one lemma per
action.  `StepKinds` then reduces a step to one of three kinds, from which
`NextIInv`, `StepAttachments` and `ContractStep` each follow in one case per kind.
`StepSurvives` goes through the actions once more, since it asks which of them may close
a room that is `Alive`: no slot of such a room is gone, so none of the tests that close
one succeeds.

`Signaling_proofs.tla` proves, for any number of sessions and any capacities and
timers the module's assumptions allow, with the lemmas of `SignalingLemmas.tla`:

| Theorem | Statement |
| --- | --- |
| `TypeCorrect` | `Spec => []TypeOK` |
| `FenceHolds` | `Spec => []OnlyOlderSuperseded` |
| `SlotsMatch` | `Spec => []SlotsMatchSessions` |
| `RepliesComeFirst` | `Spec => []RepliesFirst`, if replies are among the messages watched |
| `ClosureIsTold` | `Spec => []RoomClosedIsTold`, if `room_closed` is |
| `ExpiryIsSafe` | `Spec => ExpiryClosesOnlyWaiting` |
| `PairingAnnounced` | `Spec /\ []NeverFull => []PairingIsAnnounced`, if `"partner"` is watched and no client sends `sync` |

`Watched` is only the set of types that the history `told` records; a configuration
that does not watch a type cannot ask about it.  The inductive invariant has four
parts.  `SessionsOK` follows one session: which fields agree with the place its
goroutines stand at, that what the client read or will read next is the reply, and
that a close for the end of the room comes behind the message that says so.
`Generations` is the fence: two attachments of a peer have different generations, none
is above the slot's, and a session that is being closed as superseded is strictly
below it.  It needs `NewsIsNotAhead`, that no envelope of the bus carries a generation
the store has not reached, since such an envelope is what a session compares itself
with.  `Matched` is the agreement of slots and sessions in the form that survives the
gap between a disconnect's two calls, and `ExpiredOK` is what a heartbeat's answer
"expired" still says when the Close that follows it is made: the room is closed or is
waiting and too old, whatever came between.

`PairingAnnounced` has hypotheses because the code gives no more.  The bus drops an
envelope for a subscriber whose channel is full, so `NeverFull` says that none is; and
the answer to `sync` is a snapshot that may be older than the news it is queued behind
(`session.go:283`), so a session that was told of its partner could be told otherwise.
Both hypotheses hold in the run that checks the property.  The property itself is about
a moment of rest, when queues are empty, and says nothing of the states before.  `NInv`
fills them in: a client that holds a slot of a paired room and has been answered (`Due`)
knows its partner or has word of it in its queue with nothing behind that takes it
back (`Knows`), or has it in its inbox (`Heard`), or the joiner has its announcement
still to publish (`Awaited`).  The three are the stations of the way from the Join to
the client, and each step moves the word on: Join makes it `Awaited` for the creator in
the same step in which the joiner's own reply makes it `Knows`, Announce makes it
`Heard` (the session subscribed first: `Subscribed`), BusDelivers makes it `Knows`,
and a creator that is only answered after the Join finds it in the room it reads for
its reply (`Completed`: a paired room has its second slot).  A reattach takes the slot in
a generation that nobody else holds (`TakesLatest`), so no other client comes to be due
anything by it.  All other steps take nothing from any client (`Carries`): they leave
it what it knows, or its client hears no more.

`Transfer_proofs.tla` proves, for every file size, every set of faults and every
combination of limits that `LimitsAssumption` allows, with the lemmas of
`TransferLemmas.tla`:

| Theorem | Statement |
| --- | --- |
| `TypeCorrect` | `Spec => []TypeOK` |
| `FlowIsBounded` | `Spec => []BacklogBounded` |
| `FramesAgree` | `Spec => []FramingAgrees` |
| `ContentStaysExact` | `Spec => []ContentIsExact` |
| `WakeUpsAreKept` | `Spec => []NoLostWakeup` |
| `AcksStayHonest` | `Spec => []AcksAreHonest` |
| `DeliveryImplemented` | `Spec => ImplementsDelivery` |

The inductive invariant is about one long pipeline.  `StreamOK` and `PlaceOK` say that the
messages on their way to the receiver are consecutive pieces of the file, that they start
at the receiver's next index and end at the sender's offset, and that nothing but a chunk
comes before the last chunk.  `RequestsOK`, `RepliesOK` and `SinkOK` continue the pipeline
through the worker: the posted writes follow each other from what the sink has
committed to what has arrived, its replies from what the receiver knows to what is
committed, and its chunks are the bytes received so far.  `CountOK` ties
`bufferedAmount` to the frames in the buffer and says that a loop that waits for the
buffer has a low event due or more than `LowWater` to drain; `SenderOK` bounds what is
un-ACKed at each place of the loop; `AcksAreTold` and `EndIsTold` say that an ACK that fell
due, or the receiver's end, is known to the sender or on its way.  `Handshake`, `LifeOK`
and `BackOK` exclude the combinations of states that cannot be (a sender done before the
receiver, a worker that outlives its use).  `NoLostWakeup` then follows without a case on
how the state came about: with an empty pipeline everything sent is committed, so the
ACK that fell due was heard, which contradicts a full window by `LimitsAssumption`
(a window is no smaller than the ACK interval).  `AcksAreHonest` is about the
sink of the moment it was made and has an invariant of its own, `Acknowledged`, since a
sink that was terminated has committed what it had.  For the refinement, `SenderPromises`
and `ReceiverPromises` are what every step of an end keeps; a step of Transfer is one of
these steps, and each is a step of FileDelivery or a stutter.

`SignalingClient_proofs.tla` proves, for every `MaxSockets` and `MaxFaults`:

| Theorem | Statement |
| --- | --- |
| `ClientHasOneSocket` | `Spec => []OneSocket` |
| `ClientTypeCorrect` | `Spec => []TypeOK` |
| `ClientKeepsPinging` | `Spec => []NeverSilent` |
| `ClientStopsForCause` | `Spec => []StopsForCause` |
| `ClientStaysStopped` | `Spec => []StaysStopped` |

`OneSocket` alone is not inductive: a reconnect
timer or a click opens a socket without looking for another one.  `IInv` adds that
whoever may open a socket has none left (`OpenersHaveNone`: a pending reconnect, or a
client without attachment that is not connecting), that no two sockets have an end
at the client, and that the current socket is there until its close is handled.
Every step is then one of four kinds, each with its lemma: it opens a socket when
there is none (`OneOpened`), it frees the only one through `handleClose`
(`SocketFreed`), it closes the current one (`CurrentCloses`), or it leaves all ends
as they are (`EndsKept`).

The other four rest on `MInv`, which adds what is in the queues of the sockets, since that
is what a client is going to act on: a message may be dispatched only by a client it fits
(`Fits`: "room closed" only when the room is over, "superseded" only when the slot was
taken, "attached" only to a client that waits for it), the reply comes first in a queue
and alone (`Queue`), and a request is on its way only from a client that waits for its
answer (`Waits`).  With that, one lemma per handler says what it makes of the client, and
one per kind of change that the other sockets still fit the client they meet.

`PeerLink_proofs.tla` proves, for every `MaxAttempts` above 0, any number of
faults, and browsers of both kinds:

| Theorem | Statement |
| --- | --- |
| `AttemptsStayBounded` | `Spec => []AttemptsBounded` |
| `LinkTypeCorrect` | `Spec => []TypeOK` |
| `AnswersMeetTheirOffers` | `Spec => []AnswersMatch` |
| `DirectCandidatesFit` | `Spec => []DirectCandidatesMatch` |

The first concerns one link at a time: every step writes one link at most
(`OneWritten`), through a helper that keeps it within its attempts.  The others rest on
`NInv`, which relates both links, both chains and both queues.  `CreatorOK` and
`JoinerOK` order what one end has still to do: at the creator, no offer is made or set
after the current one is about to be set; at the joiner, offers are taken up in their
order and each is answered before the next is set.  `Between` is what the ends say of
each other, and is the heart of it.  `AnswersMatch` is a statement about one browser, but
whether an answer fits there was decided when the *other* link stamped it, several
messages earlier, so each stage of that way needs its conjunct.  An offer of the current
epoch that is out is the creator's local description, and nothing that would replace it is
chained (`OffersOK`).  Once an answer of that epoch exists, wherever it is, the joiner has
reached the epoch and has nothing left to do (`AnswersOK`), so there is never a second
answer (`AnswersOnce`), and an epoch marked as applied is the remote description
(`AppliedOK`).  A candidate whose stamp differs from its description's is ahead of the
description of that epoch (`EarlyAtCreator`, `EarlyAtJoiner`): it is the reason why
candidates of an epoch not yet applied have to be kept, and `DirectCandidatesMatch`
depends on it.  A link that is closed, or has not begun, has no connection while
the other's messages are under way, so most conjuncts are conditional on the connection
being there (`There`).

The proof is laid out by how state changes, since many actions change the same thing.
`Shorter` and `Longer` say that a queue or a chain lost its first item or got one behind
it, and one lemma per conjunct says that it survives; a step is `Quiet` if it leaves the
descriptions alone and chains at most additions of candidates.  The steps of the
negotiation proper (a negotiation begins, an offer is made, set, accepted; an answer is
made, told, read, applied) each have a lemma about values, and then one per action.

`RateLimiter_proofs.tla` proves, for every set of addresses, every limit and every window:

| Theorem | Statement |
| --- | --- |
| `LimitHolds` | `Spec => []WindowHolds` |
| `RefusalsStayEarned` | `Spec => []RefusalsAreEarned` |

`IInv` says that the record of an address is ordered and that the history is the record
read from the other side, with everything that is not in the record out of the window
(`Mirrors`).  Since the record is ordered, what allow's filter keeps of it is its end
(`KeptIsTheEnd`), and sweep may judge it by its newest call.  The filter is written by
ranks, its j-th item being the j-th of those that count, so that this needs no induction:
a set of numbers up to n that has every larger one too must be the last ones, by
counting (`LastOnes`).

Every inductive invariant was first checked with TLC on the instance of a run.

Only model-checked, and why: liveness everywhere, for which the prover has no rules, and
`PairingIsAnnounced` where clients ask for snapshots.

## 5. What the runs found

1. **A receiver can survive its channel** (`MCTransfer_lostchannel`).  If the
   channel closes while `accept()` waits for its sink, `onChannelClosed` returns
   because the state is still `offered` (receiver.ts:382), and `accept()` resumes
   into `transferring` (receiver.ts:124-128).  Nothing can end the transfer any
   more except the user.  The comment at receiver.ts:384 and the test "channel loss
   during transfer fails both sides cleanly" (transfer.test.ts:400) say otherwise.
   The sender is not affected: it ends in every run.
2. **News of a disconnect can be late** (`MCSignaling_stalenews`).  `detach` writes
   the disconnect and publishes it in two steps (session.go:326-328).  A reattach
   between them announces itself first; the partner then reads `peer_disconnected`
   after `peer_reattached` and believes a connected peer away.  The comment at
   session.go:319-321 promises that nothing changes for a superseded socket.

3. **A superseded negotiation can fail its link** (`MCPeerLink_exhausted`).  A creator
   that missed `peer_joined` gets `attached` and `resync` in one handler of its client
   when it reattaches (client.ts:178-184), and begins a negotiation for each
   (link.ts:173-175, 187-190).  In browsers that refuse an offer which is not the
   last one created, as the WebRTC specification asks, the first offer is rejected,
   and the catch at link.ts:263-264 fails the link without the test for "superseded
   meanwhile" that the same await gets when it succeeds (link.ts:255).  The test
   "retries with an ICE restart and a new epoch on negotiation timeout, then fails
   after N_neg" (webrtc-link.test.ts:225) says when a link should fail; the test of
   this very case (line 196) sends no resync.  In browsers that set any offer they
   made, `Recovers` shows that the second negotiation connects.

What a proof found: `ExpiryClosesOnlyWaiting` was not inductive, and with four sessions
not even true of the model as it stood.  The model let a session draw a code nobody used
when it began to create, and create the room later, when others had come to use it;
the code draws and creates in one call (`attachCreate`), so the test moved to
`AttachCreate`.  The runs have three sessions at most and could not see it.

What else was seen, and is not held against the code:

* A sync answer can be older than news already queued (session.go:283).
* A second `accept()` before the sink is ready leaves the first worker running; the
  transfer itself is delivered (`AcceptedIsDelivered`).
* A joiner may go on showing "negotiating": an offer that reaches it when it is
  connected changes its phase, and the browser need not report the connection
  again.  After a restart the same holds of both ends.
* An answer to an offer that was replaced while it was made may be refused by the
  browser; the joiner fails, and the creator's next offer takes it up again.
* A reattach that the server reads after its socket was lost supersedes the session
  that lives by then, and the client stops for good, as it must for "superseded"
  (`ousted` in `StopsForCause`).
* Two faults at the wrong moments spend all three attempts of a link.

## 6. What is not modelled

* Of the peer link: the adoption of the data channel and its generation, the
  statistics, and the contents of descriptions and candidates.  Each description
  has one candidate.  That an effect starts late is a fault, since React runs it
  right after the commit.
* Of the signaling client: the length of the backoff, and errors of the service on a
  reattach, which stop the client as they do at a first attach.
* A client's two views of one room: SignalingClient sees its own slot, Signaling the
  sessions of both peers, PeerLink both clients as online or away.
* The five draws of a code: there is one room, and a code is drawn again only
  when no session is subscribed to it (`CodeInUse`, tested where the session
  attaches).  `ErrExists` is modelled.
* Close codes other than "superseded" and "room closed"; what a refused session
  still writes; envelopes that busLoop forwards after a close was asked.
* `maxMessageSize`, protocol versions, byte layout and parsing of messages; the
  transfer identifier, since a sender and a receiver serve one channel each.
* A receive window below the ACK interval.  It is excluded by `LimitsAssumption`,
  as by the defaults (8 MiB and 1 MiB, interfaces.ts:44-52): the receiver would
  not acknowledge and the sender would wait for ever.
* The order in which React makes the receiver after the channel opens.
* SHA-256 is injective; random identifiers and tokens never collide.
* TURN credentials, health, static files, rendering: no state.

## 7. Plan

1. Transfer: a second offer on one channel, an offer on a channel whose close was
   already reported.
2. SignalingClient over Signaling's sessions in place of the sessions it has now.
