------------------------------ MODULE PeerLink ------------------------------
(***************************************************************************)
(* The two PeerLinks of a room (frontend/src/webrtc/link.ts), the browser's *)
(* RTCPeerConnection under each of them and the relay between them.        *)
(*                                                                         *)
(* A description is its epoch: the SDP of offer e and of answer e.  A pc's  *)
(* operations are chained, first in first out, as the WebRTC specification *)
(* has it; a step that settles the first operation also runs the           *)
(* continuation of its await, since that is a microtask.  A candidate      *)
(* carries the epoch it is stamped with and, in `of`, the local description *)
(* it was gathered for.                                                    *)
(***************************************************************************)
EXTENDS Naturals, Sequences

CONSTANTS MaxAttempts,   \* maxNegotiationAttempts, N_neg
          MaxFaults      \* bound: lost sockets, early timers, late starts, clicks

ASSUME LinkAssumption == /\ MaxAttempts \in Nat \ {0}
                         /\ MaxFaults \in Nat

Roles == {"creator", "joiner"}
Other(r) == IF r = "creator" THEN "joiner" ELSE "creator"

VARIABLES
  link,     \* link[r]: the fields of r's PeerLink and of the hook that owns it
  pc,       \* pc[r]: r's RTCPeerConnection
  wire,     \* wire[r]: events of the signaling client that r has not handled
  online,   \* the roles whose signaling client is attached
  paired,   \* the joiner has joined
  faults,   \* what went wrong or was clicked so far
  restarted,\* the user has restarted ICE
  strict    \* the browsers refuse a local offer that is not the last one created

vars == <<link, pc, wire, online, paired, faults, restarted, strict>>

-----------------------------------------------------------------------------
(* Events and operations *)

Plain(type) == [type |-> type, epoch |-> 0, of |-> 0, fresh |-> FALSE]
OfferMsg(e, new) == [type |-> "offer", epoch |-> e, of |-> e, fresh |-> new]
AnswerMsg(e) == [type |-> "answer", epoch |-> e, of |-> e, fresh |-> FALSE]
IceMsg(stamp, e) == [type |-> "ice", epoch |-> stamp, of |-> e, fresh |-> FALSE]

Op(name, e, new) == [op |-> name, epoch |-> e, fresh |-> new, queue |-> <<>>]

(* addIceCandidate of the first of a queue; onIce's own call has one and a *)
(* rejection of it is not caught there.                                    *)
AddOp(name, queue) == [op |-> name, epoch |-> 0, fresh |-> FALSE, queue |-> queue]

NoPc == [exists |-> FALSE, chain |-> <<>>, signaling |-> "stable", made |-> 0,
         local |-> 0, remote |-> 0, gathered |-> FALSE, reachable |-> FALSE, up |-> FALSE]
NewPc == [NoPc EXCEPT !.exists = TRUE]

Chained(p, op) == [p EXCEPT !.chain = Append(@, op)]
Settled(p) == [p EXCEPT !.chain = Tail(@)]

NewLink == [phase |-> "idle", epoch |-> 0, attempts |-> 0, offerWaits |-> 0, timer |-> FALSE,
            snapshot |-> "none", started |-> FALSE, closed |-> FALSE,
            applied |-> {}, pending |-> <<>>]

Init ==
  /\ link = [r \in Roles |-> NewLink]
  /\ pc = [r \in Roles |-> NoPc]
  /\ wire = [r \in Roles |-> <<>>]
  /\ online = {"creator"} /\ paired = FALSE
  /\ faults = 0 /\ restarted = FALSE
  /\ strict \in BOOLEAN

Fault == faults < MaxFaults /\ faults' = faults + 1

Acts(r) == link[r].started /\ ~link[r].closed

(* SignalingClient.relay: what is sent while either end is away is lost.   *)
Relayed(r, m) ==
  IF Roles \subseteq online THEN [wire EXCEPT ![Other(r)] = Append(@, m)] ELSE wire

Becomes(r, l, p) == link' = [link EXCEPT ![r] = l] /\ pc' = [pc EXCEPT ![r] = p]

World == <<online, paired, faults, restarted, strict>>

-----------------------------------------------------------------------------
(* Helpers of PeerLink *)

Fail(l) == [l EXCEPT !.phase = "failed", !.timer = FALSE]

(* The test of startNegotiation.  Mutant: off by one. *)
ExhaustedLate(l) == l.attempts > MaxAttempts /\ l.phase # "connected"

Exhausted(l) == l.attempts >= MaxAttempts /\ l.phase # "connected"

(* startNegotiation: what it makes of the link, up to the first await.     *)
Negotiating(l, p, new) ==
  IF Exhausted(l) THEN Fail(l)
  ELSE [l EXCEPT !.attempts = @ + 1, !.epoch = @ + 1, !.phase = "negotiating",
                 !.applied = IF new \/ ~p.exists THEN {} ELSE @,
                 !.pending = IF new \/ ~p.exists THEN <<>> ELSE @]

(* And of the connection: replaced or restarted, and asked for an offer.   *)
OfferAsked(l, p, new) ==
  IF Exhausted(l) THEN p
  ELSE Chained(IF new \/ ~p.exists THEN NewPc ELSE p, Op("createOffer", l.epoch + 1, new))

StartNegotiation(l, p, new) ==
  Becomes("creator", Negotiating(l, p, new), OfferAsked(l, p, new))

ArmTimer(l) == [l EXCEPT !.timer = TRUE]

(* pending is a sequence of [stamp, of]; one epoch's queue in order.       *)
QueueOf(l, e) == SelectSeq(l.pending, LAMBDA c : c.stamp = e)

(* markRemoteApplied.  Mutant: the queue stays where it is. *)
MarkWithoutFlush(p, queue) == p

FlushInto(p, queue) == IF queue = <<>> THEN p ELSE Chained(p, AddOp("addQueued", queue))

Marked(l, e) == [l EXCEPT !.applied = @ \cup {e},
                          !.pending = SelectSeq(@, LAMBDA c : c.stamp > e)]

-----------------------------------------------------------------------------
(* The room and the hook that owns the link *)

(* The creator reads the reply to create_room.  usePeerLink makes the link. *)
Attach ==
  /\ link["creator"].snapshot = "none"
  /\ link' = [link EXCEPT !["creator"].snapshot = IF paired THEN "paired" ELSE "waiting"]
  /\ UNCHANGED <<pc, wire, World>>

(* The joiner joins and reads its reply; the creator is told if it is there. *)
Join ==
  /\ ~paired
  /\ paired' = TRUE
  /\ online' = online \cup {"joiner"}
  /\ link' = [link EXCEPT !["joiner"].snapshot = "paired"]
  /\ wire' = IF "creator" \in online
             THEN [wire EXCEPT !["creator"] = Append(@, Plain("peer_joined"))] ELSE wire
  /\ UNCHANGED <<pc, faults, restarted, strict>>

(* The effect of usePeerLink calls start, with what the reply said. *)
Start(r) ==
  /\ link[r].snapshot # "none" /\ ~link[r].started /\ ~link[r].closed
  /\ LET l == [link[r] EXCEPT !.started = TRUE]
     IN IF r = "creator" /\ l.snapshot = "paired" THEN StartNegotiation(l, pc[r], TRUE)
        ELSE Becomes(r, IF l.snapshot = "paired" THEN ArmTimer(l) ELSE l, pc[r])
  /\ UNCHANGED <<wire, World>>

(* What is left of a queue of which the messages behind the k-th that the  *)
(* other peer relayed are lost: a blank, which the reader passes over.     *)
CutOff(w, k) ==
  [i \in 1 .. Len(w) |-> IF i > k /\ w[i].type \in {"offer", "answer", "ice"}
                        THEN Plain("lost") ELSE w[i]]

(* A socket is lost, with what the server sent on it and with the last of  *)
(* what its client relayed.                                                *)
Drop(r) ==
  /\ r \in online /\ Acts(r)
  /\ Fault
  /\ online' = online \ {r}
  /\ \E k \in 0 .. Len(wire[Other(r)]) :
       wire' = [wire EXCEPT ![r] = <<>>, ![Other(r)] = CutOff(@, k)]
  /\ UNCHANGED <<link, pc, paired, restarted, strict>>

(* The client is attached again; its first event is the reply's snapshot.  *)
Reattach(r) ==
  /\ r \notin online /\ Acts(r)
  /\ online' = online \cup {r}
  /\ wire' = [wire EXCEPT ![r] = <<Plain(IF paired THEN "attached_paired"
                                         ELSE "attached_waiting")>>]
  /\ UNCHANGED <<link, pc, paired, faults, restarted, strict>>

(* What the server does about a sync_request: handleSyncRequest. *)
SyncAnswered(r) ==
  IF r \notin online THEN wire
  ELSE LET w == [wire EXCEPT ![r] = Append(@, Plain(IF paired THEN "room_paired"
                                                    ELSE "room_waiting"))]
       IN IF r = "joiner" /\ "creator" \in online
          THEN [w EXCEPT !["creator"] = Append(@, Plain("peer_joined"))] ELSE w

(* The sync button. *)
UserSyncs(r) ==
  /\ r \in online /\ link[r].snapshot # "none"
  /\ Fault
  /\ wire' = SyncAnswered(r)
  /\ UNCHANGED <<link, pc, online, paired, restarted, strict>>

RestartIce ==
  /\ Acts("creator") /\ pc["creator"].exists
  /\ Fault
  /\ restarted' = TRUE
  /\ StartNegotiation(link["creator"], pc["creator"], FALSE)
  /\ UNCHANGED <<wire, online, paired, strict>>

(* The user leaves: the link and the signaling client are closed. *)
Close(r) ==
  /\ link[r].snapshot # "none" /\ ~link[r].closed
  /\ Becomes(r, [link[r] EXCEPT !.closed = TRUE, !.timer = FALSE], NoPc)
  /\ wire' = [wire EXCEPT ![r] = <<>>]
  /\ online' = online \ {r}
  /\ UNCHANGED <<paired, faults, restarted, strict>>

-----------------------------------------------------------------------------
(* onSignaling *)

Receives(r, types) ==
  /\ wire[r] # <<>> /\ Head(wire[r]).type \in types
  /\ wire' = [wire EXCEPT ![r] = Tail(@)]

(* What says that the other peer is there. *)
Paired == {"peer_joined", "attached_paired", "room_paired"}

(* A reattached client emits "attached" and then "resync" in one handler,  *)
(* so a creator that was idle goes through startNegotiation twice.         *)
PeerIsThere(r) ==
  /\ Acts(r) /\ Receives(r, Paired)
  /\ LET l  == link[r]
         ev == Head(wire[r]).type
     IN CASE r = "creator" /\ l.phase = "idle" /\ ev # "attached_paired" ->
               StartNegotiation(l, pc[r], TRUE)
          [] r = "creator" /\ l.phase = "idle" /\ ev = "attached_paired" ->
               StartNegotiation(Negotiating(l, pc[r], TRUE), OfferAsked(l, pc[r], TRUE), FALSE)
          [] r = "creator" /\ l.phase = "negotiating" /\ ev = "attached_paired" ->
               StartNegotiation(l, pc[r], FALSE)
          [] r = "joiner" /\ l.phase = "idle" /\ ev = "attached_paired" ->
               Becomes(r, ArmTimer(l), pc[r])
          [] OTHER -> UNCHANGED <<link, pc>>
  /\ UNCHANGED World

(* News of a room that waits changes nothing; nor does what was lost. *)
StillWaiting(r) ==
  /\ Acts(r) /\ Receives(r, {"attached_waiting", "room_waiting", "lost"})
  /\ UNCHANGED <<link, pc>> /\ UNCHANGED World

(* The effect that starts the link is so late that an event of the client  *)
(* comes first and finds no listener.                                      *)
StartsLate(r) ==
  /\ link[r].snapshot # "none" /\ ~link[r].started
  /\ wire[r] # <<>> /\ Receives(r, {Head(wire[r]).type})
  /\ Fault
  /\ UNCHANGED <<link, pc, online, paired, restarted, strict>>

(* onNegotiation's guards.  Mutant: any answer is for the current epoch. *)
AnyAnswer(l, e) == TRUE

CurrentAnswer(l, e) == e = l.epoch

(* acceptOffer up to its first await, or a stale offer. *)
Offer ==
  /\ Acts("joiner") /\ Receives("joiner", {"offer"})
  /\ LET l == link["joiner"]
         p == pc["joiner"]
         m == Head(wire["joiner"])
         replaced == m.fresh \/ ~p.exists
     IN IF m.epoch <= l.epoch THEN UNCHANGED <<link, pc>>
        ELSE Becomes("joiner",
               [l EXCEPT !.epoch = m.epoch, !.phase = "negotiating", !.timer = FALSE,
                         !.applied = IF replaced THEN {} ELSE @,
                         !.pending = IF replaced THEN <<>> ELSE @],
               Chained(IF replaced THEN NewPc ELSE p, Op("setRemote", m.epoch, FALSE)))
  /\ UNCHANGED World

Answer ==
  /\ Acts("creator") /\ Receives("creator", {"answer"})
  /\ LET m == Head(wire["creator"])
     IN Becomes("creator", link["creator"],
          IF pc["creator"].exists /\ CurrentAnswer(link["creator"], m.epoch)
          THEN Chained(pc["creator"], Op("setRemote", m.epoch, FALSE)) ELSE pc["creator"])
  /\ UNCHANGED World

(* onIce: what goes straight to the connection.  Mutant: whatever is not   *)
(* ahead.                                                                  *)
DirectUnlessAhead(l, p, e) == e <= l.epoch /\ p.exists

Direct(l, p, e) == e \in l.applied /\ p.exists

Candidate(r) ==
  /\ Acts(r) /\ Receives(r, {"ice"})
  /\ LET l == link[r]
         m == Head(wire[r])
     IN IF m.epoch < l.epoch \/ m.epoch > l.epoch + 1 THEN UNCHANGED <<link, pc>>
        ELSE IF Direct(l, pc[r], m.epoch)
        THEN Becomes(r, l, Chained(pc[r], AddOp("addDirect", <<[stamp |-> m.epoch, of |-> m.of]>>)))
        ELSE Becomes(r, [l EXCEPT !.pending = Append(@, [stamp |-> m.epoch, of |-> m.of])], pc[r])
  /\ UNCHANGED World

-----------------------------------------------------------------------------
(* The timer: armNegTimer's callback at the creator, armOfferWait's at the *)
(* joiner.                                                                 *)

Matched ==
  LET e == pc["creator"].local
  IN /\ e # 0 /\ \A r \in Roles : /\ pc[r].local = e /\ pc[r].remote = e
                                  /\ pc[r].signaling = "stable"
     /\ \E r \in Roles : pc[r].reachable

CanGather(r) == pc[r].exists /\ pc[r].local # 0 /\ ~pc[r].gathered

Quiet ==
  /\ ~\E r \in Roles : \/ wire[r] # <<>> \/ pc[r].chain # <<>> \/ CanGather(r)
                       \/ (r \notin online \/ ~link[r].started) /\ ~link[r].closed
  /\ Matched => \A r \in Roles : pc[r].up

(* armOfferWait's limit.  Mutant: one more. *)
WaitsSpentLate(l) == l.offerWaits > MaxAttempts

WaitsSpent(l) == l.offerWaits >= MaxAttempts

(* What it does besides the request.  Mutant: it is not armed again. *)
WaitOnce(l) == [l EXCEPT !.offerWaits = @ + 1]

WaitAgain(l) == ArmTimer([l EXCEPT !.offerWaits = @ + 1])

TimerFires(r) ==
  /\ link[r].timer
  /\ IF Quiet THEN UNCHANGED faults ELSE Fault
  /\ LET l == [link[r] EXCEPT !.timer = FALSE]
     IN IF r = "creator"
        THEN /\ IF l.phase = "negotiating" THEN StartNegotiation(l, pc[r], FALSE)
                ELSE Becomes(r, l, pc[r])
             /\ UNCHANGED wire
        ELSE IF l.phase # "idle" THEN Becomes(r, l, pc[r]) /\ UNCHANGED wire
        ELSE IF WaitsSpent(l) THEN Becomes(r, Fail(l), pc[r]) /\ UNCHANGED wire
        ELSE /\ Becomes(r, WaitAgain(l), pc[r])
             /\ wire' = SyncAnswered(r)
  /\ UNCHANGED <<online, paired, restarted, strict>>

-----------------------------------------------------------------------------
(* The connection's operations, and what follows each await *)

Settles(r, op) == pc[r].chain # <<>> /\ Head(pc[r].chain).op = op

OfferCreated ==
  /\ Settles("creator", "createOffer")
  /\ LET o == Head(pc["creator"].chain)
     IN Becomes("creator", link["creator"],
          Chained([Settled(pc["creator"]) EXCEPT !.made = o.epoch],
                  [o EXCEPT !.op = "setLocal"]))
  /\ UNCHANGED <<wire, World>>

(* What startNegotiation does once its offer is set.  Mutant: a retry does *)
(* not arm the timer again.                                                *)
ArmFirst(l, e) == IF e = 1 THEN ArmTimer(l) ELSE l

ArmAgain(l, e) == ArmTimer(l)

(* The WebRTC specification has an offer refused that is not the last one  *)
(* created (InvalidModificationError); not every browser does.             *)
OfferSet ==
  /\ Settles("creator", "setLocal")
  /\ LET o == Head(pc["creator"].chain)
         l == link["creator"]
         p == Settled(pc["creator"])
     IN \/ /\ strict => o.epoch = p.made
           /\ Becomes("creator", IF l.epoch = o.epoch THEN ArmAgain(l, o.epoch) ELSE l,
                      [p EXCEPT !.local = o.epoch, !.signaling = "have-local-offer",
                                !.gathered = FALSE])
           /\ wire' = IF l.epoch = o.epoch THEN Relayed("creator", OfferMsg(o.epoch, o.fresh))
                      ELSE wire
        \/ /\ strict /\ o.epoch # p.made
           /\ Becomes("creator", Fail(l), p)
           /\ UNCHANGED wire
  /\ UNCHANGED World

(* The creator's setRemoteDescription(answer). *)
AnswerApplied ==
  /\ Settles("creator", "setRemote")
  /\ LET o == Head(pc["creator"].chain)
         l == link["creator"]
         p == Settled(pc["creator"])
     IN IF p.signaling # "have-local-offer" THEN Becomes("creator", Fail(l), p)
        ELSE Becomes("creator", Marked(l, o.epoch),
               FlushInto([p EXCEPT !.remote = o.epoch, !.signaling = "stable",
                                   !.reachable = FALSE], QueueOf(l, o.epoch)))
  /\ UNCHANGED <<wire, World>>

(* acceptOffer after setRemoteDescription. *)
OfferApplied ==
  /\ Settles("joiner", "setRemote")
  /\ LET o == Head(pc["joiner"].chain)
         l == link["joiner"]
         p == [Settled(pc["joiner"]) EXCEPT !.remote = o.epoch, !.reachable = FALSE,
                                            !.signaling = "have-remote-offer"]
     IN IF l.epoch # o.epoch THEN Becomes("joiner", l, p)
        ELSE Becomes("joiner", Marked(l, o.epoch),
               Chained(FlushInto(p, QueueOf(l, o.epoch)), Op("createAnswer", o.epoch, FALSE)))
  /\ UNCHANGED <<wire, World>>

AnswerCreated ==
  /\ Settles("joiner", "createAnswer")
  /\ LET o == Head(pc["joiner"].chain)
         p == Settled(pc["joiner"])
     IN IF p.signaling # "have-remote-offer" THEN Becomes("joiner", Fail(link["joiner"]), p)
        ELSE Becomes("joiner", link["joiner"],
               Chained([p EXCEPT !.made = p.remote], [o EXCEPT !.op = "setLocal"]))
  /\ UNCHANGED <<wire, World>>

(* acceptOffer after setLocalDescription.  An answer to an offer that has  *)
(* been replaced in the meantime may be refused.                           *)
AnswerSet ==
  /\ Settles("joiner", "setLocal")
  /\ LET o == Head(pc["joiner"].chain)
         l == link["joiner"]
         p == Settled(pc["joiner"])
     IN \/ /\ p.signaling = "have-remote-offer"
           /\ Becomes("joiner", l, [p EXCEPT !.local = p.made, !.signaling = "stable",
                                             !.gathered = FALSE])
           /\ wire' = IF l.epoch = o.epoch THEN Relayed("joiner", AnswerMsg(o.epoch)) ELSE wire
        \/ /\ p.signaling # "have-remote-offer" \/ p.made # p.remote
           /\ Becomes("joiner", Fail(l), p)
           /\ UNCHANGED wire
  /\ UNCHANGED World

(* A candidate of another description than the remote one is refused: that *)
(* fails the negotiation if it came from onIce, and is logged otherwise.   *)
CandidateAdded(r) ==
  /\ Settles(r, "addDirect") \/ Settles(r, "addQueued")
  /\ LET o    == Head(pc[r].chain)
         p    == Settled(pc[r])
         fits == Head(o.queue).of = p.remote
         q    == IF fits THEN [p EXCEPT !.reachable = TRUE] ELSE p
     IN Becomes(r, IF o.op = "addDirect" /\ ~fits THEN Fail(link[r]) ELSE link[r],
                FlushInto(q, Tail(o.queue)))
  /\ UNCHANGED <<wire, World>>

(* onicecandidate: stamped with the epoch of the moment.  Mutant: with the *)
(* next one.                                                               *)
NextStamp(l) == l.epoch + 1

Stamp(l) == l.epoch

Gather(r) ==
  /\ CanGather(r)
  /\ Becomes(r, link[r], [pc[r] EXCEPT !.gathered = TRUE])
  /\ wire' = Relayed(r, IceMsg(Stamp(link[r]), pc[r].local))
  /\ UNCHANGED World

(* onconnectionstatechange with "connected".  Mutant: the attempts stay. *)
KeepAttempts(l) == [l EXCEPT !.phase = "connected", !.timer = FALSE]

ConnectedLink(l) == [l EXCEPT !.phase = "connected", !.timer = FALSE, !.attempts = 0]

(* The first time, and whenever the browser says so again. *)
Connects(r) ==
  /\ pc[r].exists /\ ~pc[r].up /\ Matched
  /\ Becomes(r, ConnectedLink(link[r]), [pc[r] EXCEPT !.up = TRUE])
  /\ UNCHANGED <<wire, World>>

ConnectsAgain(r) ==
  /\ pc[r].up
  /\ Becomes(r, ConnectedLink(link[r]), pc[r])
  /\ UNCHANGED <<wire, World>>

-----------------------------------------------------------------------------
Handles(r) == PeerIsThere(r) \/ StillWaiting(r) \/ Candidate(r)
                \/ (r = "joiner" /\ Offer) \/ (r = "creator" /\ Answer)

Browser(r) == \/ CandidateAdded(r) \/ Gather(r)
              \/ r = "creator" /\ (OfferCreated \/ OfferSet \/ AnswerApplied)
              \/ r = "joiner" /\ (OfferApplied \/ AnswerCreated \/ AnswerSet)

Next ==
  \/ Attach \/ Join \/ RestartIce
  \/ \E r \in Roles :
       \/ Start(r) \/ Drop(r) \/ Reattach(r) \/ UserSyncs(r) \/ Close(r) \/ StartsLate(r)
       \/ Handles(r) \/ TimerFires(r) \/ Browser(r) \/ Connects(r) \/ ConnectsAgain(r)

Spec == Init /\ [][Next]_vars

(* The page's event loop runs, the browser settles what it was asked and   *)
(* gathers, timers fire, a client that lost its socket attaches again, and *)
(* peers whose descriptions match connect.                                 *)
Fairness ==
  /\ WF_vars(Attach)
  /\ \A r \in Roles :
       /\ WF_vars(Start(r)) /\ WF_vars(Handles(r)) /\ WF_vars(TimerFires(r))
       /\ WF_vars(Reattach(r)) /\ WF_vars(Browser(r)) /\ WF_vars(Connects(r))

FairSpec == Spec /\ Fairness

-----------------------------------------------------------------------------
(* Properties *)

(* Fields have their ranges, only the operations of its role are in a      *)
(* connection's chain, and no message or link is of an epoch the creator   *)
(* has not begun.                                                          *)
TypeOK ==
  /\ online \subseteq Roles /\ paired \in BOOLEAN /\ restarted \in BOOLEAN /\ strict \in BOOLEAN
  /\ faults \in 0 .. MaxFaults
  /\ \A r \in Roles :
       /\ link[r].phase \in {"idle", "negotiating", "connected", "failed"}
       /\ link[r].epoch \in 0 .. link["creator"].epoch /\ link[r].attempts \in Nat
       /\ \A i \in 1 .. Len(wire[r]) : wire[r][i].epoch \in 0 .. link["creator"].epoch
       /\ link[r].offerWaits \in 0 .. MaxAttempts
       /\ pc[r].signaling \in {"stable", "have-local-offer", "have-remote-offer"}
       /\ \A i \in 1 .. Len(pc[r].chain) :
            pc[r].chain[i].op \in {"setRemote", "setLocal", "addDirect", "addQueued"}
              \cup (IF r = "creator" THEN {"createOffer"} ELSE {"createAnswer"})

(* "creator is the only offerer; every negotiation message carries an      *)
(* epoch": an answer reaches the connection only while the offer it        *)
(* answers is the local description, although the epoch is tested before   *)
(* an await and a resync or a timer may begin another one meanwhile.       *)
AnswersMatch ==
  Settles("creator", "setRemote") =>
    /\ pc["creator"].signaling = "have-local-offer"
    /\ Head(pc["creator"].chain).epoch = pc["creator"].local

(* A candidate that skips the queue belongs to the remote description that *)
(* is in place, although it is stamped with the epoch of the moment rather *)
(* than with its own; so onIce never fails a link.                         *)
DirectCandidatesMatch ==
  \A r \in Roles : Settles(r, "addDirect") => Head(Head(pc[r].chain).queue).of = pc[r].remote

(* N_neg bounds what the initiator spends on one connection, and a link    *)
(* that is connected has all of it again.                                  *)
AttemptsBounded ==
  LET l == link["creator"]
  IN l.attempts <= MaxAttempts /\ (l.phase = "connected" => l.attempts = 0)

(* Neither end waits for ever, whatever is lost.  A negotiation at the      *)
(* creator ends, because each retry arms the timer that begins the next    *)
(* one; a joiner without an offer asks for one until its waits are spent.  *)
CreatorEnds ==
  Acts("creator") /\ link["creator"].phase = "negotiating" ~>
    link["creator"].phase # "negotiating" \/ link["creator"].closed

JoinerEnds ==
  Acts("joiner") /\ link["joiner"].phase = "idle" ~>
    link["joiner"].phase # "idle" \/ link["joiner"].closed

WaitsEnd == CreatorEnds /\ JoinerEnds

(* In browsers that set any offer they made, a pairing connects although a *)
(* socket is lost at any moment of it, or a timer fires too early, or a    *)
(* link starts late, unless someone leaves or restarts.  (The joiner       *)
(* may go on showing "negotiating": an offer that reaches it when it is    *)
(* connected already changes its phase, and the browser need not report    *)
(* the connection again.)                                                  *)
Recovers ==
  paired /\ ~strict ~>
    \/ link["creator"].phase = "connected" /\ \A r \in Roles : pc[r].up
    \/ \E r \in Roles : link[r].closed
    \/ restarted

(* "retries ... on negotiation timeout, then fails after N_neg"            *)
(* (webrtc-link.test.ts), and an offer that was "superseded meanwhile" does *)
(* nothing: the creator gives up when its attempts are spent, not before.  *)
FailsOnlyWhenExhausted ==
  link["creator"].phase = "failed" /\ ~restarted => link["creator"].attempts >= MaxAttempts
=============================================================================
