---------------------------- MODULE PeerLink_proofs ----------------------------
(***************************************************************************)
(* Theorems about PeerLink, for any number of attempts and faults.         *)
(*                                                                         *)
(* First the attempts, which concern the creator's link alone.  Then the   *)
(* negotiation: an invariant that relates both links, both chains of       *)
(* operations and both queues of events (Agreed), lemmas on how a queue, a *)
(* chain, or an end may change without breaking it, and one lemma for each *)
(* action.                                                                 *)
(***************************************************************************)
EXTENDS PeerLink, SequenceTheorems, TLAPS

(* The fields of a PeerLink. *)
LinkFields == {"phase", "epoch", "attempts", "offerWaits", "timer",
               "snapshot", "started", "closed", "applied", "pending"}

(* A link that has spent no more than it may, and nothing once connected. *)
Within(l) ==
  /\ DOMAIN l = LinkFields
  /\ l.phase \in {"idle", "negotiating", "connected", "failed"}
  /\ l.offerWaits \in 0 .. MaxAttempts
  /\ l.attempts \in 0 .. MaxAttempts
  /\ l.phase = "connected" => l.attempts = 0

(* Both links are such. *)
IInv == DOMAIN link = Roles /\ \A r \in Roles : Within(link[r])

-----------------------------------------------------------------------------
(* What the helpers make of such a link. *)

(* Giving up spends nothing. *)
LEMMA FailWithin == ASSUME NEW l, Within(l) PROVE Within(Fail(l))
  BY SMT DEF Within, LinkFields, Fail

(* Nor does arming the timer. *)
LEMMA ArmWithin == ASSUME NEW l, Within(l) PROVE Within(ArmTimer(l))
  BY SMT DEF Within, LinkFields, ArmTimer

(* A connection gives all attempts back. *)
LEMMA ConnectedWithin == ASSUME NEW l, Within(l) PROVE Within(ConnectedLink(l))
  BY SMT, LinkAssumption DEF Within, LinkFields, ConnectedLink

(* startNegotiation spends one only if there is one left, or all are there *)
(* again because the link is connected.                                    *)
LEMMA NegotiatingWithin ==
  ASSUME NEW l, Within(l), NEW p, NEW new
  PROVE  Within(Negotiating(l, p, new))
<1>1. CASE Exhausted(l)
  BY <1>1, FailWithin DEF Negotiating
<1>2. CASE ~Exhausted(l)
  <2> DEFINE a == IF new \/ ~p.exists THEN {} ELSE l.applied
             q == IF new \/ ~p.exists THEN <<>> ELSE l.pending
             n == [l EXCEPT !.attempts = @ + 1, !.epoch = @ + 1, !.phase = "negotiating",
                            !.applied = a, !.pending = q]
  <2>1. l.attempts + 1 \in 0 .. MaxAttempts
    BY <1>2, SMT, LinkAssumption DEF Exhausted, Within
  <2>2. Negotiating(l, p, new) = n
    BY <1>2, Zenon DEF Negotiating
  <2> HIDE DEF a, q
  <2>3. Within(n)
    BY <2>1, SMT DEF Within, LinkFields
  <2> QED
    BY <2>2, <2>3
<1> QED
  BY <1>1, <1>2

(* The fields that the other steps write do not matter. *)
LEMMA OtherFields ==
  ASSUME NEW l, Within(l), NEW v
  PROVE  /\ Within([l EXCEPT !.snapshot = v])
         /\ Within([l EXCEPT !.started = v])
         /\ Within([l EXCEPT !.timer = v])
         /\ Within([l EXCEPT !.pending = v])
         /\ Within([l EXCEPT !.closed = TRUE, !.timer = FALSE])
         /\ Within(Marked(l, v))
<1>1. /\ Within([l EXCEPT !.snapshot = v]) /\ Within([l EXCEPT !.started = v])
      /\ Within([l EXCEPT !.timer = v]) /\ Within([l EXCEPT !.pending = v])
      /\ Within([l EXCEPT !.closed = TRUE, !.timer = FALSE])
  BY SMT DEF Within, LinkFields
<1>2. Within(Marked(l, v))
  <2> DEFINE a == l.applied \cup {v}
             q == SelectSeq(l.pending, LAMBDA c : c.stamp > v)
  <2>1. Marked(l, v) = [l EXCEPT !.applied = a, !.pending = q]
    BY Zenon DEF Marked
  <2> HIDE DEF a, q
  <2>2. Within([l EXCEPT !.applied = a, !.pending = q])
    BY SMT DEF Within, LinkFields
  <2> QED
    BY <2>1, <2>2
<1> QED
  BY <1>1, <1>2

(* Nor does a wait, as long as there is one left. *)
LEMMA WaitWithin == ASSUME NEW l, Within(l), ~WaitsSpent(l) PROVE Within(WaitAgain(l))
<1>1. l.offerWaits + 1 \in 0 .. MaxAttempts
  BY SMT, LinkAssumption DEF WaitsSpent, Within
<1>2. Within([l EXCEPT !.offerWaits = @ + 1])
  BY <1>1, SMT DEF Within, LinkFields
<1> QED
  BY <1>2, ArmWithin DEF WaitAgain

-----------------------------------------------------------------------------
(* A step that writes one link keeps the invariant if that link stays      *)
(* within.                                                                 *)
LEMMA OneWritten ==
  ASSUME IInv, NEW r \in Roles, NEW l, Within(l), link' = [link EXCEPT ![r] = l]
  PROVE  IInv'
  BY SMT DEF IInv, Within

(* A step that begins a negotiation at the creator. *)
LEMMA StartsWithin ==
  ASSUME IInv, NEW l, Within(l), NEW p, NEW new, StartNegotiation(l, p, new)
  PROVE  IInv'
<1>1. "creator" \in Roles
  BY DEF Roles
<1>2. Within(Negotiating(l, p, new))
  BY NegotiatingWithin
<1> QED
  BY <1>1, <1>2, OneWritten DEF StartNegotiation, Becomes

-----------------------------------------------------------------------------
(* One lemma per group of actions. *)

(* The room and the hook. *)
LEMMA RoomSteps ==
  IInv /\ (\/ Attach \/ Join \/ RestartIce
           \/ \E r \in Roles : Start(r) \/ Close(r)) => IInv'
<1> SUFFICES ASSUME IInv, \/ Attach \/ Join \/ RestartIce
                          \/ \E r \in Roles : Start(r) \/ Close(r)
             PROVE  IInv'
  OBVIOUS
<1>1. \A r \in Roles : Within(link[r])
  BY DEF IInv
<1>2. "creator" \in Roles /\ "joiner" \in Roles
  BY DEF Roles
<1>3. CASE Attach
  <2> DEFINE v == IF paired THEN "paired" ELSE "waiting"
  <2>1. link' = [link EXCEPT !["creator"] = [link["creator"] EXCEPT !.snapshot = v]]
    BY <1>3, SMT DEF Attach
  <2> HIDE DEF v
  <2>2. Within([link["creator"] EXCEPT !.snapshot = v])
    BY <1>1, <1>2, OtherFields
  <2> QED
    BY <1>2, <2>1, <2>2, OneWritten
<1>4. CASE Join
  <2>1. link' = [link EXCEPT !["joiner"] = [link["joiner"] EXCEPT !.snapshot = "paired"]]
    BY <1>4, SMT DEF Join
  <2>2. Within([link["joiner"] EXCEPT !.snapshot = "paired"])
    BY <1>1, <1>2, OtherFields
  <2> QED
    BY <1>2, <2>1, <2>2, OneWritten
<1>5. CASE RestartIce
  BY <1>1, <1>2, <1>5, StartsWithin DEF RestartIce
<1>6. ASSUME NEW r \in Roles, Start(r) PROVE IInv'
  <2> DEFINE l == [link[r] EXCEPT !.started = TRUE]
  <2>1. Within(l)
    BY <1>1, OtherFields
  <2>2. Within(ArmTimer(l))
    BY <2>1, ArmWithin
  <2>3. \/ StartNegotiation(l, pc[r], TRUE)
        \/ link' = [link EXCEPT ![r] = ArmTimer(l)]
        \/ link' = [link EXCEPT ![r] = l]
    BY <1>6, Zenon DEF Start, Becomes
  <2> HIDE DEF l
  <2> QED
    BY <2>1, <2>2, <2>3, StartsWithin, OneWritten
<1>7. ASSUME NEW r \in Roles, Close(r) PROVE IInv'
  <2> DEFINE l == [link[r] EXCEPT !.closed = TRUE, !.timer = FALSE]
  <2>1. Within(l)
    BY <1>1, OtherFields
  <2>2. link' = [link EXCEPT ![r] = l]
    BY <1>7, Zenon DEF Close, Becomes
  <2> HIDE DEF l
  <2> QED
    BY <2>1, <2>2, OneWritten
<1> QED
  BY <1>3, <1>4, <1>5, <1>6, <1>7

(* Events of the signaling client. *)
LEMMA EventSteps ==
  ASSUME IInv, NEW r \in Roles,
         PeerIsThere(r) \/ Candidate(r) \/ (r = "joiner" /\ Offer) \/ (r = "creator" /\ Answer)
  PROVE  IInv'
<1>1. Within(link[r])
  BY DEF IInv
<1>2. CASE PeerIsThere(r)
  <2>1. \/ \E new \in BOOLEAN : StartNegotiation(link[r], pc[r], new)
        \/ StartNegotiation(Negotiating(link[r], pc[r], TRUE), OfferAsked(link[r], pc[r], TRUE), FALSE)
        \/ link' = [link EXCEPT ![r] = ArmTimer(link[r])]
        \/ link' = link
    BY <1>2, Zenon DEF PeerIsThere, Becomes
  <2>2. Within(Negotiating(link[r], pc[r], TRUE)) /\ Within(ArmTimer(link[r]))
    BY <1>1, NegotiatingWithin, ArmWithin
  <2> QED
    BY <1>1, <2>1, <2>2, StartsWithin, OneWritten, Zenon DEF IInv
<1>3. CASE Candidate(r)
  <2>1. \/ link' = link
        \/ link' = [link EXCEPT ![r] = link[r]]
        \/ \E v : link' = [link EXCEPT ![r] = [link[r] EXCEPT !.pending = v]]
    BY <1>3, Zenon DEF Candidate, Becomes
  <2>2. \A v : Within([link[r] EXCEPT !.pending = v])
    BY <1>1, OtherFields
  <2> QED
    BY <1>1, <2>1, <2>2, OneWritten, Zenon DEF IInv
<1>4. CASE r = "joiner" /\ Offer
  <2> DEFINE l == link["joiner"]
             m == Head(wire["joiner"])
             replaced == m.fresh \/ ~pc["joiner"].exists
             a == IF replaced THEN {} ELSE l.applied
             q == IF replaced THEN <<>> ELSE l.pending
             n == [l EXCEPT !.epoch = m.epoch, !.phase = "negotiating", !.timer = FALSE,
                            !.applied = a, !.pending = q]
  <2>1. link' = link \/ link' = [link EXCEPT !["joiner"] = n]
    BY <1>4, Zenon DEF Offer, Becomes
  <2> HIDE DEF m, replaced, a, q
  <2>2. Within(n)
    BY <1>1, <1>4, SMT DEF Within, LinkFields
  <2> HIDE DEF n
  <2> QED
    BY <1>4, <2>1, <2>2, OneWritten, Zenon DEF IInv
<1>5. CASE r = "creator" /\ Answer
  <2>1. link' = [link EXCEPT !["creator"] = link["creator"]]
    BY <1>5, Zenon DEF Answer, Becomes
  <2> QED
    BY <1>1, <1>5, <2>1, OneWritten
<1> QED
  BY <1>2, <1>3, <1>4, <1>5

(* The timer. *)
LEMMA TimerStep ==
  ASSUME IInv, NEW r \in Roles, TimerFires(r)
  PROVE  IInv'
<1> DEFINE l == [link[r] EXCEPT !.timer = FALSE]
<1>1. Within(l)
  BY OtherFields DEF IInv
<1>2. Within(Fail(l)) /\ (~WaitsSpent(l) => Within(WaitAgain(l)))
  BY <1>1, FailWithin, WaitWithin
<1>3. \/ StartNegotiation(l, pc[r], FALSE)
      \/ link' = [link EXCEPT ![r] = l]
      \/ link' = [link EXCEPT ![r] = Fail(l)]
      \/ ~WaitsSpent(l) /\ link' = [link EXCEPT ![r] = WaitAgain(l)]
  BY ZenonT(30) DEF TimerFires, Becomes
<1> HIDE DEF l
<1> QED
  BY <1>1, <1>2, <1>3, StartsWithin, OneWritten

(* The connection's steps write the link through a helper, or not at all. *)
LEMMA BrowserSteps ==
  ASSUME IInv, NEW r \in Roles, Browser(r) \/ Connects(r) \/ ConnectsAgain(r)
  PROVE  IInv'
<1> DEFINE k == link[r]
<1>1. Within(k) /\ Within(Fail(k)) /\ Within(ArmTimer(k)) /\ Within(ConnectedLink(k))
  BY FailWithin, ArmWithin, ConnectedWithin DEF IInv
<1>2. \A e : Within(Marked(k, e))
  BY <1>1, OtherFields
<1>3. \E l \in {k, Fail(k), ArmTimer(k), ConnectedLink(k)} \cup {Marked(k, e) : e \in {Head(pc[r].chain).epoch}} :
        link' = [link EXCEPT ![r] = l]
  <2>1. CASE CandidateAdded(r)
    BY <2>1, Zenon DEF CandidateAdded, Becomes
  <2>2. CASE Gather(r)
    BY <2>2, Zenon DEF Gather, Becomes
  <2>3. CASE r = "creator" /\ OfferCreated
    BY <2>3, Zenon DEF OfferCreated, Becomes
  <2>4. CASE r = "creator" /\ OfferSet
    BY <2>4, Zenon DEF OfferSet, ArmAgain, Becomes
  <2>5. CASE r = "creator" /\ AnswerApplied
    BY <2>5, Zenon DEF AnswerApplied, Becomes
  <2>6. CASE r = "joiner" /\ OfferApplied
    BY <2>6, Zenon DEF OfferApplied, Becomes
  <2>7. CASE r = "joiner" /\ AnswerCreated
    BY <2>7, Zenon DEF AnswerCreated, Becomes
  <2>8. CASE r = "joiner" /\ AnswerSet
    BY <2>8, Zenon DEF AnswerSet, Becomes
  <2>9. CASE Connects(r) \/ ConnectsAgain(r)
    BY <2>9, Zenon DEF Connects, ConnectsAgain, Becomes
  <2> QED
    BY <2>1, <2>2, <2>3, <2>4, <2>5, <2>6, <2>7, <2>8, <2>9 DEF Browser
<1> HIDE DEF k
<1> QED
  BY <1>1, <1>2, <1>3, OneWritten

-----------------------------------------------------------------------------
(* The initial states, and every step. *)
LEMMA InitIInv == Init => IInv
  BY SMT, LinkAssumption DEF Init, IInv, Within, LinkFields, NewLink

(* And every step keeps it. *)
LEMMA NextIInv == IInv /\ [Next]_vars => IInv'
<1> SUFFICES ASSUME IInv, [Next]_vars PROVE IInv'
  OBVIOUS
<1>1. CASE Attach \/ Join \/ RestartIce
  BY <1>1, RoomSteps
<1>2. ASSUME NEW r \in Roles,
             \/ Start(r) \/ Drop(r) \/ Reattach(r) \/ UserSyncs(r) \/ Close(r) \/ StartsLate(r)
             \/ Handles(r) \/ TimerFires(r) \/ Browser(r) \/ Connects(r) \/ ConnectsAgain(r)
      PROVE  IInv'
  <2>1. CASE Start(r) \/ Close(r)
    BY <2>1, RoomSteps
  <2>2. CASE Drop(r) \/ Reattach(r) \/ UserSyncs(r) \/ StartsLate(r) \/ StillWaiting(r)
    <3>1. link' = link
      BY <2>2 DEF Drop, Reattach, UserSyncs, StartsLate, StillWaiting
    <3> QED
      BY <3>1 DEF IInv
  <2>3. CASE PeerIsThere(r) \/ Candidate(r) \/ (r = "joiner" /\ Offer) \/ (r = "creator" /\ Answer)
    BY <2>3, EventSteps
  <2>4. CASE TimerFires(r)
    BY <2>4, TimerStep
  <2>5. CASE Browser(r) \/ Connects(r) \/ ConnectsAgain(r)
    BY <2>5, BrowserSteps
  <2> QED
    BY <1>2, <2>1, <2>2, <2>3, <2>4, <2>5 DEF Handles
<1>3. CASE UNCHANGED vars
  BY <1>3 DEF vars, IInv
<1> QED
  BY <1>1, <1>2, <1>3 DEF Next

(* The creator never spends more than N_neg attempts on one connection:    *)
(* not by a timer, a resync, a reattach that negotiates twice, or clicks   *)
(* on "restart" in any order with them.                                    *)
THEOREM AttemptsStayBounded == Spec => []AttemptsBounded
<1>1. IInv => AttemptsBounded
  BY SMT, LinkAssumption DEF IInv, Within, AttemptsBounded, Roles
<1> QED
  BY <1>1, InitIInv, NextIInv, PTL DEF Spec

-----------------------------------------------------------------------------
(* The negotiation: what the two links, the two chains of operations and    *)
(* the two queues of events say of the current epoch.  In what follows l   *)
(* and p are the creator's link and connection and v its queue; k, q and w *)
(* are the joiner's.                                                       *)

(* A sequence, whatever it holds, and the places in it. *)
IsSeq(s) == s \in Seq({s[i] : i \in DOMAIN s})

Items(s) == 1 .. Len(s)

(* The fields of a connection and of an operation. *)
PcFields == {"exists", "chain", "signaling", "made", "local", "remote", "gathered",
             "reachable", "up"}

OpFields == {"op", "epoch", "fresh", "queue"}

(* The operations that add a candidate, and those of each end. *)
Additions == {"addDirect", "addQueued"}

CreatorOps == Additions \cup {"createOffer", "setLocal", "setRemote"}

JoinerOps == Additions \cup {"createAnswer", "setLocal", "setRemote"}

(* The connection exists. *)
There(p) == p.exists = TRUE

(* A link has applied no epoch that it has not reached. *)
EpochsOK(l) == DOMAIN l = LinkFields /\ l.epoch \in Nat /\ l.applied \subseteq 0 .. l.epoch

(* A chain of operations of known kinds, of no epoch beyond e. *)
ChainOK(s, e, ops) ==
  /\ IsSeq(s)
  /\ \A i \in Items(s) : /\ DOMAIN s[i] = OpFields
                         /\ s[i].op \in ops /\ s[i].epoch \in 0 .. e

(* A connection, which has operations only while it is there. *)
PcOK(p, e, ops) ==
  /\ DOMAIN p = PcFields
  /\ p.signaling \in {"stable", "have-local-offer", "have-remote-offer"}
  /\ ChainOK(p.chain, e, ops)
  /\ p.chain # <<>> => There(p)

(* A queue of events of no epoch beyond e. *)
QueueOK(w, e) == IsSeq(w) /\ \A i \in Items(w) : w[i].epoch \in 0 .. e

(* None of these operations is in the chain s. *)
Without(s, names) == \A i \in Items(s) : s[i].op \notin names

(* The current offer is the last that is made, and no other is made or set *)
(* once it is about to be set.                                             *)
OfferOrder(s, e) == \A i, j \in Items(s) :
  /\ s[i].op = "createOffer" /\ s[i].epoch = e /\ i < j => s[j].op # "createOffer"
  /\ s[i].op = "setLocal" /\ s[i].epoch = e =>
       s[j].op # "createOffer" /\ (i < j => s[j].op # "setLocal")

(* An answer in the chain finds the offer it answers.                      *)
AnswerFits(p) == \A i \in Items(p.chain) : p.chain[i].op = "setRemote" =>
  /\ p.signaling = "have-local-offer" /\ p.chain[i].epoch = p.local
  /\ \A j \in Items(p.chain) :
       j < i => p.chain[j].op \notin {"createOffer", "setLocal", "setRemote"}

(* A candidate in the chain finds the description it was gathered for.     *)
DirectFits(p) == \A i \in Items(p.chain) : p.chain[i].op = "addDirect" =>
  /\ Head(p.chain[i].queue).of = p.remote
  /\ \A j \in Items(p.chain) : j < i => p.chain[j].op # "setRemote"

(* The joiner takes up offers in their order, and what it makes of one is  *)
(* behind it before the next.  o and n are the i-th and the j-th operation.*)
Ordered(q, i, o, j, n) ==
  /\ o.op = "setRemote" /\ n.op = "setRemote" /\ i < j => o.epoch < n.epoch
  /\ o.op = "createAnswer" =>
       /\ o.epoch = q.remote
       /\ n.op = "createAnswer" => i = j
       /\ n.op = "setLocal" => j < i
       /\ n.op = "setRemote" => i < j /\ o.epoch < n.epoch
  /\ o.op = "setLocal" =>
       /\ o.epoch = q.made
       /\ n.op = "setLocal" => i = j
       /\ n.op \in {"setRemote", "createAnswer"} => o.epoch < n.epoch

(* This of every two operations. *)
AnswerOrder(q) == \A i, j \in Items(q.chain) : Ordered(q, i, q.chain[i], j, q.chain[j])

(* What is at one place of a queue or a chain. *)
OfferAt(w, i, e) == w[i].type = "offer" /\ w[i].epoch = e

AnswerAt(v, i, e) == v[i].type = "answer" /\ v[i].epoch = e

RemoteAt(s, i, e) == s[i].op = "setRemote" /\ s[i].epoch = e

(* The offer of epoch e has been relayed; the current one was answered.    *)
Out(e, k, w) == k.epoch = e \/ \E i \in Items(w) : OfferAt(w, i, e)

Answered(l, p, v) ==
  \/ l.epoch \in l.applied
  \/ \E i \in Items(v) : AnswerAt(v, i, l.epoch)
  \/ \E i \in Items(p.chain) : RemoteAt(p.chain, i, l.epoch)

(* An offer that was relayed is the creator's local description until the *)
(* next is begun, and waits for an answer until one is applied.           *)
OffersOK(l, p, k, w) == There(p) /\ Out(l.epoch, k, w) =>
  /\ p.local = l.epoch /\ Without(p.chain, {"createOffer", "setLocal"})
  /\ l.epoch \notin l.applied => p.signaling = "have-local-offer"

(* So is an answer at the joiner, which then has nothing left to do.       *)
AnswersOK(l, p, v, k, q) == Answered(l, p, v) =>
  /\ k.epoch = l.epoch
  /\ There(q) => /\ q.local = l.epoch
                 /\ Without(q.chain, {"setRemote", "createAnswer", "setLocal"})

(* There is one answer. *)
AnswersOnce(l, p, v) ==
  /\ \A i \in Items(v) : AnswerAt(v, i, l.epoch) =>
       /\ l.epoch \notin l.applied
       /\ \A j \in Items(v) : AnswerAt(v, j, l.epoch) => i = j
       /\ \A j \in Items(p.chain) : ~RemoteAt(p.chain, j, l.epoch)
  /\ \A j \in Items(p.chain) : RemoteAt(p.chain, j, l.epoch) => l.epoch \notin l.applied

(* What is marked as applied is the remote description. *)
AppliedOK(l, p) == There(p) /\ l.epoch \in l.applied =>
  p.remote = l.epoch /\ Without(p.chain, {"setRemote"})

(* A candidate that is stamped with an epoch that is not its own comes     *)
(* before the description of that epoch.                                   *)
Early(m) == m.type = "ice" /\ m.of # m.epoch

(* At the creator: before the answer of that epoch, *)
EarlyAtCreator(l, p, v) == \A i \in Items(v) : Early(v[i]) /\ v[i].epoch = l.epoch =>
  /\ l.epoch \notin l.applied
  /\ \A j \in Items(v) : AnswerAt(v, j, l.epoch) => i < j
  /\ \A j \in Items(p.chain) : ~RemoteAt(p.chain, j, l.epoch)

(* and at the joiner before the offer. *)
EarlyAtJoiner(k, w) == \A i \in Items(w) : Early(w[i]) =>
  /\ k.epoch < w[i].epoch
  /\ \A j \in Items(w) : w[j].type = "offer" /\ j < i => w[j].epoch < w[i].epoch

(* What the creator's end says of itself, what the joiner's does, and what *)
(* the two ends say of each other.                                         *)
CreatorOK(l, p) ==
  /\ EpochsOK(l) /\ PcOK(p, l.epoch, CreatorOps)
  /\ OfferOrder(p.chain, l.epoch) /\ AnswerFits(p) /\ DirectFits(p) /\ AppliedOK(l, p)

JoinerOK(k, q) ==
  /\ EpochsOK(k) /\ PcOK(q, k.epoch, JoinerOps)
  /\ AnswerOrder(q) /\ DirectFits(q) /\ AppliedOK(k, q)

Between(l, p, v, k, q, w) ==
  /\ k.epoch <= l.epoch /\ QueueOK(v, l.epoch) /\ QueueOK(w, l.epoch)
  /\ OffersOK(l, p, k, w) /\ AnswersOK(l, p, v, k, q) /\ AnswersOnce(l, p, v)
  /\ EarlyAtCreator(l, p, v) /\ EarlyAtJoiner(k, w)

(* All of it. *)
Agreed(l, p, v, k, q, w) ==
  CreatorOK(l, p) /\ JoinerOK(k, q) /\ Between(l, p, v, k, q, w)

-----------------------------------------------------------------------------
(* Sequences *)

(* A sequence over any set is a sequence of what it holds. *)
LEMMA SeqOfOwn == ASSUME NEW T, NEW s \in Seq(T) PROVE IsSeq(s)
<1>1. Len(s) \in Nat /\ s \in [1 .. Len(s) -> T] /\ DOMAIN s = 1 .. Len(s)
  BY LenProperties
<1>2. s \in [1 .. Len(s) -> {s[i] : i \in DOMAIN s}]
  BY <1>1
<1> QED
  BY <1>1, <1>2, SeqDef DEF IsSeq

(* The empty sequence, and every sequence's length. *)
LEMMA Lengths == /\ IsSeq(<<>>) /\ Len(<<>>) = 0 /\ Items(<<>>) = {}
                 /\ \A s : IsSeq(s) => Len(s) \in Nat /\ (s = <<>> <=> Len(s) = 0)
<1>1. IsSeq(<<>>) /\ Len(<<>>) = 0
  BY EmptySeq, SeqOfOwn
<1> QED
  BY <1>1, LenProperties, EmptySeq DEF IsSeq, Items

(* t is s without its first item, s with m behind it, or both. *)
Shorter(s, t) ==
  /\ IsSeq(t) /\ Len(s) \in Nat \ {0} /\ Len(t) = Len(s) - 1
  /\ \A i \in Items(t) : i \in Nat \ {0} /\ i + 1 \in Items(s) /\ t[i] = s[i + 1]

Longer(s, t, m) ==
  /\ IsSeq(t) /\ Len(s) \in Nat /\ Len(t) = Len(s) + 1
  /\ \A i \in Items(t) : /\ i \in Nat \ {0}
                         /\ \/ i \in Items(s) /\ t[i] = s[i]
                            \/ i = Len(s) + 1 /\ t[i] = m

(* Tail is the one, Append the other. *)
LEMMA TailShorter ==
  ASSUME NEW s, IsSeq(s), s # <<>>
  PROVE  Shorter(s, Tail(s)) /\ Head(s) = s[1] /\ 1 \in Items(s)
<1>1. PICK T : s \in Seq(T)
  BY DEF IsSeq
<1>2. /\ Tail(s) \in Seq(T) /\ Len(Tail(s)) = Len(s) - 1
      /\ \A i \in 1 .. Len(s) - 1 : Tail(s)[i] = s[i + 1]
  BY <1>1, HeadTailProperties
<1>3. IsSeq(Tail(s)) /\ Len(s) \in Nat \ {0}
  BY <1>1, <1>2, SeqOfOwn, EmptySeq, LenProperties
<1>4. Head(s) = s[1]
  BY <1>1
<1> QED
  BY <1>2, <1>3, <1>4 DEF Shorter, Items

LEMMA AppendLonger ==
  ASSUME NEW s, NEW m, IsSeq(s)
  PROVE  Longer(s, Append(s, m), m) /\ Append(s, m) # <<>>
<1>1. PICK T : s \in Seq(T) /\ m \in T
  <2> DEFINE T == {s[i] : i \in DOMAIN s} \cup {m}
  <2>1. s \in Seq(T) /\ m \in T
    BY SeqMonotonic DEF IsSeq
  <2> QED
    BY <2>1
<1>2. Append(s, m) \in Seq(T)
  BY <1>1, AppendProperties
<1>3. IsSeq(Append(s, m))
  BY <1>2, SeqOfOwn
<1>4. /\ Len(Append(s, m)) = Len(s) + 1 /\ Append(s, m) # <<>> /\ Len(s) \in Nat
      /\ \A i \in 1 .. Len(s) : Append(s, m)[i] = s[i]
      /\ Append(s, m)[Len(s) + 1] = m
  BY <1>1, AppendProperties, LenProperties
<1> QED
  BY <1>3, <1>4 DEF Longer, Items

-----------------------------------------------------------------------------
(* Chains *)

(* What a chain is when its first operation has settled. *)
LEMMA ChainShorter ==
  ASSUME NEW s, NEW t, NEW e, NEW ops, ChainOK(s, e, ops), Shorter(s, t)
  PROVE  /\ ChainOK(t, e, ops)
         /\ \A i \in Items(t) : i + 1 \in Items(s) /\ t[i] = s[i + 1]
         /\ \A names : Without(s, names) => Without(t, names)
BY DEF ChainOK, Shorter, Without

(* And when one is added. *)
LEMMA ChainLonger ==
  ASSUME NEW s, NEW t, NEW e, NEW ops, NEW m, ChainOK(s, e, ops), Longer(s, t, m),
         DOMAIN m = OpFields, m.op \in ops, m.epoch \in 0 .. e
  PROVE  /\ ChainOK(t, e, ops)
         /\ \A names : Without(s, names) /\ m.op \notin names => Without(t, names)
BY DEF ChainOK, Longer, Without

(* Epochs grow. *)
LEMMA ChainLater ==
  ASSUME NEW s, NEW e \in Nat, NEW f \in Nat, e <= f, NEW ops, ChainOK(s, e, ops)
  PROVE  ChainOK(s, f, ops)
BY DEF ChainOK

(* The creator's order, for each change of its chain. *)
LEMMA OrderShorter ==
  ASSUME NEW s, NEW t, NEW e, OfferOrder(s, e), Shorter(s, t)
  PROVE  OfferOrder(t, e)
<1> SUFFICES ASSUME NEW i \in Items(t), NEW j \in Items(t)
             PROVE  /\ t[i].op = "createOffer" /\ t[i].epoch = e /\ i < j => t[j].op # "createOffer"
                    /\ t[i].op = "setLocal" /\ t[i].epoch = e =>
                         t[j].op # "createOffer" /\ (i < j => t[j].op # "setLocal")
  BY DEF OfferOrder
<1>1. /\ i + 1 \in Items(s) /\ j + 1 \in Items(s) /\ t[i] = s[i + 1] /\ t[j] = s[j + 1]
      /\ i < j => i + 1 < j + 1
  BY DEF Shorter, Items
<1> QED
  BY <1>1, SMT DEF OfferOrder

(* What may be put behind the creator's chain: an offer to be made if the  *)
(* current one is not under way, one to be set if it is the last made.     *)
LEMMA OrderLonger ==
  ASSUME NEW s, NEW t, NEW e, NEW m, OfferOrder(s, e), Longer(s, t, m),
         m.op = "createOffer" =>
           \A i \in Items(s) : s[i].epoch = e => s[i].op \notin {"createOffer", "setLocal"},
         m.op = "setLocal" =>
           /\ \A i \in Items(s) : s[i].epoch = e => s[i].op # "setLocal"
           /\ m.epoch = e => Without(s, {"createOffer"})
  PROVE  OfferOrder(t, e)
<1> SUFFICES ASSUME NEW i \in Items(t), NEW j \in Items(t)
             PROVE  /\ t[i].op = "createOffer" /\ t[i].epoch = e /\ i < j => t[j].op # "createOffer"
                    /\ t[i].op = "setLocal" /\ t[i].epoch = e =>
                         t[j].op # "createOffer" /\ (i < j => t[j].op # "setLocal")
  BY DEF OfferOrder
<1>1. /\ (i \in Items(s) /\ t[i] = s[i]) \/ (i = Len(s) + 1 /\ t[i] = m)
      /\ (j \in Items(s) /\ t[j] = s[j]) \/ (j = Len(s) + 1 /\ t[j] = m)
      /\ Len(s) \in Nat
  BY DEF Longer
<1>2. CASE i \in Items(s) /\ t[i] = s[i] /\ j \in Items(s) /\ t[j] = s[j]
  BY <1>2 DEF OfferOrder
<1>3. CASE i \in Items(s) /\ t[i] = s[i] /\ j = Len(s) + 1 /\ t[j] = m
  BY <1>3
<1>4. CASE i = Len(s) + 1 /\ t[i] = m /\ j \in Items(s) /\ t[j] = s[j]
  <2>1. ~(i < j)
    BY <1>1, <1>4 DEF Items
  <2> QED
    BY <1>4, <2>1 DEF Without
<1>5. CASE i = Len(s) + 1 /\ t[i] = m /\ j = Len(s) + 1 /\ t[j] = m
  BY <1>1, <1>5
<1> QED
  BY <1>1, <1>2, <1>3, <1>4, <1>5

(* The joiner's. *)
LEMMA AnswersShorter ==
  ASSUME NEW p, NEW x, AnswerOrder(p), Shorter(p.chain, x.chain),
         x.remote = p.remote \/ Without(x.chain, {"createAnswer"}),
         x.made = p.made \/ Without(x.chain, {"setLocal"})
  PROVE  AnswerOrder(x)
<1> SUFFICES ASSUME NEW i \in Items(x.chain), NEW j \in Items(x.chain)
             PROVE  Ordered(x, i, x.chain[i], j, x.chain[j])
  BY DEF AnswerOrder
<1> DEFINE o == x.chain[i]
           n == x.chain[j]
<1>1. /\ i + 1 \in Items(p.chain) /\ j + 1 \in Items(p.chain)
      /\ o = p.chain[i + 1] /\ n = p.chain[j + 1]
      /\ i \in Nat /\ j \in Nat
  BY DEF Shorter
<1>2. Ordered(p, i + 1, o, j + 1, n)
  BY <1>1 DEF AnswerOrder
<1>3. /\ o.op = "createAnswer" => x.remote = p.remote
      /\ o.op = "setLocal" => x.made = p.made
  BY DEF Without
<1> HIDE DEF o, n
<1>4. Ordered(x, i, o, j, n)
  BY <1>1, <1>2, <1>3 DEF Ordered
<1> QED
  BY <1>4 DEF o, n

(* And behind the joiner's: a newer offer, the answer to the one in place, *)
(* or that answer to be set.                                               *)
LEMMA AnswersLonger ==
  ASSUME NEW p, NEW x, NEW m, AnswerOrder(p), Longer(p.chain, x.chain, m),
         x.remote = p.remote, x.made = p.made,
         m.op = "setRemote" => \A i \in Items(p.chain) : p.chain[i].epoch < m.epoch,
         m.op = "createAnswer" =>
           /\ m.epoch = p.remote /\ Without(p.chain, {"setRemote", "createAnswer"})
           /\ \A i \in Items(p.chain) : p.chain[i].op = "setLocal" => p.chain[i].epoch < m.epoch,
         m.op = "setLocal" =>
           /\ m.epoch = p.made /\ Without(p.chain, {"setLocal", "createAnswer"})
           /\ \A i \in Items(p.chain) : p.chain[i].op = "setRemote" => m.epoch < p.chain[i].epoch
  PROVE  AnswerOrder(x)
<1> SUFFICES ASSUME NEW i \in Items(x.chain), NEW j \in Items(x.chain)
             PROVE  Ordered(x, i, x.chain[i], j, x.chain[j])
  BY DEF AnswerOrder
<1> DEFINE o == x.chain[i]
           n == x.chain[j]
<1>1. /\ (i \in Items(p.chain) /\ o = p.chain[i]) \/ (i = Len(p.chain) + 1 /\ o = m)
      /\ (j \in Items(p.chain) /\ n = p.chain[j]) \/ (j = Len(p.chain) + 1 /\ n = m)
      /\ Len(p.chain) \in Nat
  BY DEF Longer
<1> HIDE DEF o, n
<1> SUFFICES Ordered(x, i, o, j, n)
  BY DEF o, n
<1>2. CASE i \in Items(p.chain) /\ o = p.chain[i] /\ j \in Items(p.chain) /\ n = p.chain[j]
  BY <1>2 DEF AnswerOrder, Ordered
<1>3. CASE i \in Items(p.chain) /\ o = p.chain[i] /\ j = Len(p.chain) + 1 /\ n = m
  <2>1. i < j /\ i # j
    BY <1>1, <1>3 DEF Items
  <2>2. /\ o.op = "createAnswer" => o.epoch = p.remote
        /\ o.op = "setLocal" => o.epoch = p.made
    BY <1>3 DEF AnswerOrder, Ordered
  <2> QED
    BY <1>3, <2>1, <2>2 DEF Without, Ordered
<1>4. CASE i = Len(p.chain) + 1 /\ o = m /\ j \in Items(p.chain) /\ n = p.chain[j]
  <2>1. j < i /\ ~(i < j)
    BY <1>1, <1>4 DEF Items
  <2> QED
    BY <1>4, <2>1 DEF Without, Ordered
<1>5. CASE i = Len(p.chain) + 1 /\ o = m /\ j = Len(p.chain) + 1 /\ n = m
  BY <1>1, <1>5 DEF Ordered
<1> QED
  BY <1>1, <1>2, <1>3, <1>4, <1>5

(* That what is in a chain finds what it is for. *)
LEMMA FitsShorter ==
  ASSUME NEW p, NEW x, Shorter(p.chain, x.chain)
  PROVE  /\ AnswerFits(p) /\ x.local = p.local /\ x.signaling = p.signaling => AnswerFits(x)
         /\ DirectFits(p) /\ x.remote = p.remote => DirectFits(x)
<1>1. ASSUME AnswerFits(p), x.local = p.local, x.signaling = p.signaling PROVE AnswerFits(x)
  <2> SUFFICES ASSUME NEW i \in Items(x.chain), x.chain[i].op = "setRemote"
               PROVE  /\ x.signaling = "have-local-offer" /\ x.chain[i].epoch = x.local
                      /\ \A j \in Items(x.chain) :
                           j < i => x.chain[j].op \notin {"createOffer", "setLocal", "setRemote"}
    BY DEF AnswerFits
  <2>1. i + 1 \in Items(p.chain) /\ p.chain[i + 1] = x.chain[i] /\ i \in Nat
    BY DEF Shorter
  <2>2. \A j \in Items(x.chain) :
          j + 1 \in Items(p.chain) /\ p.chain[j + 1] = x.chain[j] /\ (j < i => j + 1 < i + 1)
    BY <2>1 DEF Shorter
  <2> QED
    BY <1>1, <2>1, <2>2 DEF AnswerFits
<1>2. ASSUME DirectFits(p), x.remote = p.remote PROVE DirectFits(x)
  <2> SUFFICES ASSUME NEW i \in Items(x.chain), x.chain[i].op = "addDirect"
               PROVE  /\ Head(x.chain[i].queue).of = x.remote
                      /\ \A j \in Items(x.chain) : j < i => x.chain[j].op # "setRemote"
    BY DEF DirectFits
  <2>1. i + 1 \in Items(p.chain) /\ p.chain[i + 1] = x.chain[i] /\ i \in Nat
    BY DEF Shorter
  <2>2. \A j \in Items(x.chain) :
          j + 1 \in Items(p.chain) /\ p.chain[j + 1] = x.chain[j] /\ (j < i => j + 1 < i + 1)
    BY <2>1 DEF Shorter
  <2> QED
    BY <1>2, <2>1, <2>2 DEF DirectFits
<1> QED
  BY <1>1, <1>2

(* An answer may be chained that fits the local offer, a candidate that fits *)
(* the remote description.                                                 *)
LEMMA FitsLonger ==
  ASSUME NEW p, NEW x, NEW m, Longer(p.chain, x.chain, m)
  PROVE  /\ /\ AnswerFits(p) /\ x.local = p.local /\ x.signaling = p.signaling
            /\ m.op = "setRemote" =>
                 /\ p.signaling = "have-local-offer" /\ m.epoch = p.local
                 /\ Without(p.chain, {"createOffer", "setLocal", "setRemote"})
            => AnswerFits(x)
         /\ /\ DirectFits(p) /\ x.remote = p.remote
            /\ m.op = "addDirect" =>
                 Head(m.queue).of = p.remote /\ Without(p.chain, {"setRemote"})
            => DirectFits(x)
<1>1. \A i \in Items(x.chain) : /\ (i \in Items(p.chain) /\ x.chain[i] = p.chain[i])
                                   \/ (i = Len(p.chain) + 1 /\ x.chain[i] = m)
                                /\ \A j \in Items(x.chain) : j < i =>
                                     j \in Items(p.chain) /\ x.chain[j] = p.chain[j]
  BY DEF Longer, Items
<1>2. ASSUME AnswerFits(p), x.local = p.local, x.signaling = p.signaling,
             m.op = "setRemote" =>
               /\ p.signaling = "have-local-offer" /\ m.epoch = p.local
               /\ Without(p.chain, {"createOffer", "setLocal", "setRemote"})
      PROVE  AnswerFits(x)
  BY <1>1, <1>2 DEF AnswerFits, Without
<1>3. ASSUME DirectFits(p), x.remote = p.remote,
             m.op = "addDirect" =>
               Head(m.queue).of = p.remote /\ Without(p.chain, {"setRemote"})
      PROVE  DirectFits(x)
  BY <1>1, <1>3 DEF DirectFits, Without
<1> QED
  BY <1>2, <1>3

-----------------------------------------------------------------------------
(* Steps that leave the descriptions alone *)

(* Every operation of t is one of s or adds a candidate. *)
NothingNew(s, t) ==
  \A i \in Items(t) : t[i].op \in Additions \/ \E j \in Items(s) : t[i] = s[j]

(* So it has no description of an epoch that s has none of. *)
LEMMA NewWithout ==
  ASSUME NEW s, NEW t, NothingNew(s, t)
  PROVE  /\ \A names : Without(s, names) /\ names \cap Additions = {} => Without(t, names)
         /\ \A e : (\A i \in Items(s) : ~RemoteAt(s, i, e)) => \A i \in Items(t) : ~RemoteAt(t, i, e)
<1>1. ASSUME NEW names, Without(s, names), names \cap Additions = {} PROVE Without(t, names)
  BY <1>1 DEF NothingNew, Without
<1>2. ASSUME NEW e, \A i \in Items(s) : ~RemoteAt(s, i, e), NEW i \in Items(t) PROVE ~RemoteAt(t, i, e)
  BY <1>2 DEF NothingNew, RemoteAt, Additions
<1> QED
  BY <1>1, <1>2

(* What is said between the two ends, when the creator's chain only shrinks. *)
LEMMA BetweenRest ==
  ASSUME NEW l, NEW p, NEW v, NEW k, NEW q, NEW w, Between(l, p, v, k, q, w),
         NEW m, m.epoch = l.epoch, m.applied = l.applied,
         NEW x, OffersOK(m, x, k, w), NothingNew(p.chain, x.chain)
  PROVE  Between(m, x, v, k, q, w)
<1>1. \A e : (\A i \in Items(p.chain) : ~RemoteAt(p.chain, i, e))
               => \A i \in Items(x.chain) : ~RemoteAt(x.chain, i, e)
  BY NewWithout
<1>2. Answered(m, x, v) => Answered(l, p, v)
  BY <1>1 DEF Answered
<1>3. AnswersOK(m, x, v, k, q)
  BY <1>2 DEF Between, AnswersOK
<1>4. AnswersOnce(m, x, v)
  BY <1>1 DEF Between, AnswersOnce
<1>5. EarlyAtCreator(m, x, v)
  BY <1>1 DEF Between, EarlyAtCreator
<1> QED
  BY <1>3, <1>4, <1>5 DEF Between

(* The same, when neither the local description nor the signaling state    *)
(* changes.                                                                *)
LEMMA BetweenCreator ==
  ASSUME NEW l, NEW p, NEW v, NEW k, NEW q, NEW w, Between(l, p, v, k, q, w),
         NEW m, m.epoch = l.epoch, m.applied = l.applied,
         NEW x, x.local = p.local, x.signaling = p.signaling, There(x) => There(p),
         NothingNew(p.chain, x.chain)
  PROVE  Between(m, x, v, k, q, w)
<1>1. Without(p.chain, {"createOffer", "setLocal"}) => Without(x.chain, {"createOffer", "setLocal"})
  <2>1. {"createOffer", "setLocal"} \cap Additions = {}
    BY DEF Additions
  <2> QED
    BY <2>1, NewWithout
<1>2. OffersOK(m, x, k, w)
  BY <1>1 DEF Between, OffersOK
<1> QED
  BY <1>2, BetweenRest

(* And when the joiner's does. *)
LEMMA BetweenJoiner ==
  ASSUME NEW l, NEW p, NEW v, NEW k, NEW q, NEW w, Between(l, p, v, k, q, w),
         NEW m, m.epoch = k.epoch,
         NEW x, x.local = q.local, There(x) => There(q), NothingNew(q.chain, x.chain)
  PROVE  Between(l, p, v, m, x, w)
<1>1. Without(q.chain, {"setRemote", "createAnswer", "setLocal"})
        => Without(x.chain, {"setRemote", "createAnswer", "setLocal"})
  <2>1. {"setRemote", "createAnswer", "setLocal"} \cap Additions = {}
    BY DEF Additions
  <2> QED
    BY <2>1, NewWithout
<1>2. AnswersOK(l, p, v, m, x)
  BY <1>1 DEF Between, AnswersOK
<1>3. OffersOK(l, p, m, w)
  BY DEF Between, OffersOK, Out
<1>4. EarlyAtJoiner(m, w)
  BY DEF Between, EarlyAtJoiner
<1> QED
  BY <1>2, <1>3, <1>4 DEF Between

(* The addition of a candidate, which fits if it skips the queue. *)
Addition(p, o) ==
  /\ There(p) /\ DOMAIN o = OpFields /\ o.op \in Additions /\ o.epoch = 0
  /\ o.op = "addDirect" => Head(o.queue).of = p.remote /\ Without(p.chain, {"setRemote"})

(* The chain stays, loses its head or is given such an addition. *)
QuietChain(p, x) ==
  \/ x.chain = p.chain
  \/ Shorter(p.chain, x.chain)
  \/ \E o : Addition(p, o) /\ Longer(p.chain, x.chain, o)

(* Such a chain has nothing else that is new. *)
LEMMA QuietIsOld ==
  ASSUME NEW p, NEW x, QuietChain(p, x)
  PROVE  NothingNew(p.chain, x.chain)
BY DEF QuietChain, NothingNew, Shorter, Longer, Addition

(* The parts of such a connection stay what they are. *)
LEMMA QuietPc ==
  ASSUME NEW p, NEW x, NEW e \in Nat, NEW ops, PcOK(p, e, ops), Additions \subseteq ops,
         DOMAIN x = PcFields, There(x) <=> There(p), QuietChain(p, x),
         x.signaling \in {"stable", "have-local-offer", "have-remote-offer"}
  PROVE  PcOK(x, e, ops)
<1>1. CASE x.chain = p.chain
  BY <1>1 DEF PcOK
<1>2. CASE Shorter(p.chain, x.chain)
  <2>1. ChainOK(x.chain, e, ops)
    BY <1>2, ChainShorter DEF PcOK
  <2>2. p.chain # <<>>
    BY <1>2, Lengths DEF Shorter
  <2> QED
    BY <2>1, <2>2 DEF PcOK
<1>3. ASSUME NEW o, Addition(p, o), Longer(p.chain, x.chain, o) PROVE PcOK(x, e, ops)
  <2>1. ChainOK(x.chain, e, ops)
    BY <1>3, ChainLonger DEF PcOK, Addition
  <2> QED
    BY <1>3, <2>1 DEF PcOK, Addition
<1> QED
  BY <1>1, <1>2, <1>3 DEF QuietChain

(* So what the creator's end says of itself stays true, *)
LEMMA QuietCreator ==
  ASSUME NEW l, NEW p, CreatorOK(l, p),
         NEW m, DOMAIN m = LinkFields, m.epoch = l.epoch, m.applied = l.applied,
         NEW x, DOMAIN x = PcFields, There(x) <=> There(p), x.signaling = p.signaling,
         x.local = p.local, x.remote = p.remote, QuietChain(p, x)
  PROVE  CreatorOK(m, x)
<1>1. EpochsOK(m) /\ l.epoch \in Nat
  BY DEF CreatorOK, EpochsOK
<1>2. PcOK(x, m.epoch, CreatorOps)
  BY <1>1, QuietPc DEF CreatorOK, CreatorOps, PcOK
<1>3. OfferOrder(x.chain, m.epoch)
  BY OrderShorter, OrderLonger DEF CreatorOK, QuietChain, Addition, Additions
<1>4. AnswerFits(x) /\ DirectFits(x)
  <2>1. CASE x.chain = p.chain
    BY <2>1 DEF CreatorOK, AnswerFits, DirectFits
  <2>2. CASE Shorter(p.chain, x.chain)
    BY <2>2, FitsShorter DEF CreatorOK
  <2>3. ASSUME NEW o, Addition(p, o), Longer(p.chain, x.chain, o)
        PROVE  AnswerFits(x) /\ DirectFits(x)
    BY <2>3, FitsLonger DEF CreatorOK, Addition, Additions
  <2> QED
    BY <2>1, <2>2, <2>3 DEF QuietChain
<1>5. Without(p.chain, {"setRemote"}) => Without(x.chain, {"setRemote"})
  <2>1. {"setRemote"} \cap Additions = {}
    BY DEF Additions
  <2> QED
    BY <2>1, QuietIsOld, NewWithout
<1>6. AppliedOK(m, x)
  BY <1>5 DEF CreatorOK, AppliedOK
<1> QED
  BY <1>1, <1>2, <1>3, <1>4, <1>6 DEF CreatorOK

(* and what the joiner's does. *)
LEMMA QuietJoiner ==
  ASSUME NEW l, NEW p, JoinerOK(l, p),
         NEW m, DOMAIN m = LinkFields, m.epoch = l.epoch, m.applied = l.applied,
         NEW x, DOMAIN x = PcFields, There(x) <=> There(p),
         x.signaling \in {"stable", "have-local-offer", "have-remote-offer"},
         x.remote = p.remote, x.made = p.made, QuietChain(p, x)
  PROVE  JoinerOK(m, x)
<1>1. EpochsOK(m) /\ l.epoch \in Nat
  BY DEF JoinerOK, EpochsOK
<1>2. PcOK(x, m.epoch, JoinerOps)
  BY <1>1, QuietPc DEF JoinerOK, JoinerOps
<1>3. AnswerOrder(x)
  <2>1. CASE x.chain = p.chain
    BY <2>1 DEF JoinerOK, AnswerOrder, Ordered
  <2>2. CASE Shorter(p.chain, x.chain)
    BY <2>2, AnswersShorter DEF JoinerOK
  <2>3. ASSUME NEW o, Addition(p, o), Longer(p.chain, x.chain, o) PROVE AnswerOrder(x)
    BY <2>3, AnswersLonger DEF JoinerOK, Addition, Additions
  <2> QED
    BY <2>1, <2>2, <2>3 DEF QuietChain
<1>4. DirectFits(x)
  <2>1. CASE x.chain = p.chain
    BY <2>1 DEF JoinerOK, DirectFits
  <2>2. CASE Shorter(p.chain, x.chain)
    BY <2>2, FitsShorter DEF JoinerOK
  <2>3. ASSUME NEW o, Addition(p, o), Longer(p.chain, x.chain, o) PROVE DirectFits(x)
    BY <2>3, FitsLonger DEF JoinerOK, Addition, Additions
  <2> QED
    BY <2>1, <2>2, <2>3 DEF QuietChain
<1>5. Without(p.chain, {"setRemote"}) => Without(x.chain, {"setRemote"})
  <2>1. {"setRemote"} \cap Additions = {}
    BY DEF Additions
  <2> QED
    BY <2>1, QuietIsOld, NewWithout
<1>6. AppliedOK(m, x)
  BY <1>5 DEF JoinerOK, AppliedOK
<1> QED
  BY <1>1, <1>2, <1>3, <1>4, <1>6 DEF JoinerOK

-----------------------------------------------------------------------------
(* The creator begins a negotiation *)

(* A connection fresh from the browser. *)
LEMMA FreshPc ==
  /\ DOMAIN NewPc = PcFields /\ DOMAIN NoPc = PcFields
  /\ There(NewPc) /\ ~There(NoPc)
  /\ NewPc.chain = <<>> /\ NoPc.chain = <<>>
  /\ NewPc.signaling = "stable" /\ NoPc.signaling = "stable"
  /\ NewPc.remote = 0 /\ NewPc.local = 0
BY DEF NewPc, NoPc, PcFields, There

(* An empty chain is in any order. *)
LEMMA EmptyChain ==
  ASSUME NEW p, p.chain = <<>>
  PROVE  /\ \A e, ops : ChainOK(p.chain, e, ops)
         /\ \A e : OfferOrder(p.chain, e)
         /\ \A names : Without(p.chain, names)
         /\ AnswerFits(p) /\ DirectFits(p) /\ AnswerOrder(p)
BY Lengths DEF ChainOK, OfferOrder, Without, AnswerFits, DirectFits, AnswerOrder

(* What an operation at the end of a chain makes of the connection. *)
LEMMA ChainedParts ==
  ASSUME NEW p, DOMAIN p = PcFields, NEW o, IsSeq(p.chain)
  PROVE  /\ DOMAIN Chained(p, o) = PcFields
         /\ Longer(p.chain, Chained(p, o).chain, o) /\ Chained(p, o).chain # <<>>
         /\ There(Chained(p, o)) <=> There(p)
         /\ Chained(p, o).signaling = p.signaling /\ Chained(p, o).made = p.made
         /\ Chained(p, o).local = p.local /\ Chained(p, o).remote = p.remote
<1>1. Chained(p, o).chain = Append(p.chain, o)
  BY DEF Chained, PcFields
<1>2. Longer(p.chain, Append(p.chain, o), o) /\ Append(p.chain, o) # <<>>
  BY AppendLonger
<1>3. /\ DOMAIN Chained(p, o) = PcFields
      /\ There(Chained(p, o)) <=> There(p)
      /\ Chained(p, o).signaling = p.signaling /\ Chained(p, o).made = p.made
      /\ Chained(p, o).local = p.local /\ Chained(p, o).remote = p.remote
  BY DEF Chained, PcFields, There
<1> QED
  BY <1>1, <1>2, <1>3

(* The fields of an operation. *)
LEMMA OpParts ==
  ASSUME NEW name, NEW e, NEW new
  PROVE  /\ DOMAIN Op(name, e, new) = OpFields
         /\ Op(name, e, new).op = name /\ Op(name, e, new).epoch = e
BY DEF Op, OpFields

(* No description of an epoch that has not begun is anywhere. *)
LEMMA NothingOfNext ==
  ASSUME NEW l, NEW p, NEW v, NEW k, NEW q, NEW w, Agreed(l, p, v, k, q, w)
  PROVE  /\ l.epoch \in Nat /\ l.epoch + 1 \notin l.applied
         /\ ~Out(l.epoch + 1, k, w)
         /\ \A i \in Items(v) : v[i].epoch # l.epoch + 1
         /\ QueueOK(v, l.epoch + 1) /\ QueueOK(w, l.epoch + 1)
<1>1. /\ l.epoch \in Nat /\ l.epoch + 1 \notin l.applied
      /\ k.epoch \in Nat /\ k.epoch <= l.epoch
  BY DEF Agreed, CreatorOK, JoinerOK, EpochsOK, Between
<1>2. /\ \A i \in Items(v) : v[i].epoch \in 0 .. l.epoch
      /\ \A i \in Items(w) : w[i].epoch \in 0 .. l.epoch
      /\ IsSeq(v) /\ IsSeq(w)
  BY DEF Agreed, Between, QueueOK
<1> QED
  BY <1>1, <1>2 DEF Out, OfferAt, QueueOK

(* So nothing is to be shown between the ends when the next epoch begins. *)
LEMMA BetweenNext ==
  ASSUME NEW l, NEW p, NEW v, NEW k, NEW q, NEW w, Agreed(l, p, v, k, q, w),
         NEW m, m.epoch = l.epoch + 1, m.applied \subseteq l.applied,
         NEW x, \A i \in Items(x.chain) : ~RemoteAt(x.chain, i, l.epoch + 1)
  PROVE  Between(m, x, v, k, q, w)
<1>1. /\ l.epoch \in Nat /\ m.epoch \notin m.applied
      /\ ~Out(m.epoch, k, w)
      /\ \A i \in Items(v) : v[i].epoch # m.epoch
      /\ QueueOK(v, m.epoch) /\ QueueOK(w, m.epoch)
  BY NothingOfNext
<1>2. k.epoch <= m.epoch
  BY <1>1 DEF Agreed, Between, JoinerOK, EpochsOK
<1>3. OffersOK(m, x, k, w)
  BY <1>1 DEF OffersOK
<1>4. ~Answered(m, x, v)
  BY <1>1 DEF Answered, AnswerAt
<1>5. AnswersOK(m, x, v, k, q)
  BY <1>4 DEF AnswersOK
<1>6. AnswersOnce(m, x, v) /\ EarlyAtCreator(m, x, v)
  BY <1>1 DEF AnswersOnce, EarlyAtCreator, AnswerAt
<1>7. EarlyAtJoiner(k, w)
  BY DEF Agreed, Between
<1> QED
  BY <1>1, <1>2, <1>3, <1>5, <1>6, <1>7 DEF Between

(* The creator's link takes the next epoch and its connection, new or old, *)
(* is asked for an offer.                                                  *)
LEMMA NegotiationBegins ==
  ASSUME NEW l, NEW p, NEW v, NEW k, NEW q, NEW w, Agreed(l, p, v, k, q, w), NEW new,
         NEW m, DOMAIN m = LinkFields, m.epoch = l.epoch + 1, m.applied \subseteq l.applied,
         NEW b, b = NewPc \/ (b = p /\ There(p))
  PROVE  Agreed(m, Chained(b, Op("createOffer", l.epoch + 1, new)), v, k, q, w)
<1> DEFINE o == Op("createOffer", l.epoch + 1, new)
           x == Chained(b, o)
<1>1. /\ l.epoch \in Nat /\ l.epoch + 1 \notin l.applied
      /\ m.epoch \notin m.applied /\ l.applied \subseteq 0 .. l.epoch
  BY NothingOfNext DEF Agreed, CreatorOK, EpochsOK
<1>2. DOMAIN o = OpFields /\ o.op = "createOffer" /\ o.epoch = l.epoch + 1
  BY OpParts
<1>3. /\ DOMAIN b = PcFields /\ There(b) /\ ChainOK(b.chain, l.epoch, CreatorOps)
      /\ b.signaling \in {"stable", "have-local-offer", "have-remote-offer"}
      /\ AnswerFits(b) /\ DirectFits(b)
  <2>1. CASE b = NewPc
    BY <2>1, FreshPc, EmptyChain
  <2>2. CASE b = p /\ There(p)
    BY <2>2 DEF Agreed, CreatorOK, PcOK
  <2> QED
    BY <2>1, <2>2
<1> HIDE DEF o
<1>4. /\ DOMAIN x = PcFields /\ Longer(b.chain, x.chain, o) /\ There(x)
      /\ x.signaling = b.signaling /\ x.local = b.local /\ x.remote = b.remote
  BY <1>3, ChainedParts DEF ChainOK
<1> HIDE DEF x
<1>5. ChainOK(b.chain, m.epoch, CreatorOps)
  BY <1>1, <1>3, ChainLater
<1>6. ChainOK(x.chain, m.epoch, CreatorOps)
  BY <1>1, <1>2, <1>4, <1>5, ChainLonger DEF CreatorOps
<1>7. \A i \in Items(b.chain) : b.chain[i].epoch # l.epoch + 1
  BY <1>1, <1>3 DEF ChainOK
<1>8. OfferOrder(b.chain, m.epoch)
  BY <1>7 DEF OfferOrder
<1>9. OfferOrder(x.chain, m.epoch)
  BY <1>2, <1>4, <1>7, <1>8, OrderLonger
<1>10. AnswerFits(x) /\ DirectFits(x)
  BY <1>2, <1>3, <1>4, FitsLonger
<1>11. CreatorOK(m, x)
  BY <1>1, <1>3, <1>4, <1>6, <1>9, <1>10 DEF CreatorOK, EpochsOK, PcOK, AppliedOK
<1>12. \A i \in Items(x.chain) : ~RemoteAt(x.chain, i, l.epoch + 1)
  BY <1>2, <1>4, <1>7 DEF RemoteAt, Longer
<1>13. Between(m, x, v, k, q, w)
  BY <1>12, BetweenNext
<1> QED
  BY <1>11, <1>13 DEF Agreed, x, o

(* Changes of the creator's link that are not about the negotiation. *)
LEMMA CreatorLink ==
  ASSUME NEW l, NEW p, NEW v, NEW k, NEW q, NEW w, Agreed(l, p, v, k, q, w),
         NEW m, DOMAIN m = LinkFields, m.epoch = l.epoch, m.applied = l.applied
  PROVE  Agreed(m, p, v, k, q, w)
<1>1. CreatorOK(m, p)
  BY QuietCreator DEF Agreed, CreatorOK, PcOK, QuietChain
<1>2. Between(m, p, v, k, q, w)
  BY BetweenCreator DEF Agreed, NothingNew
<1> QED
  BY <1>1, <1>2 DEF Agreed

(* And of the joiner's. *)
LEMMA JoinerLink ==
  ASSUME NEW l, NEW p, NEW v, NEW k, NEW q, NEW w, Agreed(l, p, v, k, q, w),
         NEW m, DOMAIN m = LinkFields, m.epoch = k.epoch, m.applied = k.applied
  PROVE  Agreed(l, p, v, m, q, w)
<1>1. JoinerOK(m, q)
  BY QuietJoiner DEF Agreed, JoinerOK, PcOK, QuietChain
<1>2. Between(l, p, v, m, q, w)
  BY BetweenJoiner DEF Agreed, NothingNew
<1> QED
  BY <1>1, <1>2 DEF Agreed

(* The fields of a link that begins a negotiation. *)
LEMMA NegotiatingParts ==
  ASSUME NEW l, DOMAIN l = LinkFields, NEW p, NEW new
  PROVE  /\ DOMAIN Negotiating(l, p, new) = LinkFields
         /\ Exhausted(l) => /\ Negotiating(l, p, new).epoch = l.epoch
                            /\ Negotiating(l, p, new).applied = l.applied
         /\ ~Exhausted(l) => /\ Negotiating(l, p, new).epoch = l.epoch + 1
                             /\ Negotiating(l, p, new).applied \subseteq l.applied
<1>1. CASE Exhausted(l)
  <2>1. Negotiating(l, p, new) = Fail(l)
    BY <1>1, Zenon DEF Negotiating
  <2>2. DOMAIN Fail(l) = LinkFields /\ Fail(l).epoch = l.epoch /\ Fail(l).applied = l.applied
    BY DEF Fail, LinkFields
  <2> QED
    BY <1>1, <2>1, <2>2
<1>2. CASE ~Exhausted(l)
  <2> DEFINE a == IF new \/ ~p.exists THEN {} ELSE l.applied
             s == IF new \/ ~p.exists THEN <<>> ELSE l.pending
             n == [l EXCEPT !.attempts = @ + 1, !.epoch = @ + 1, !.phase = "negotiating",
                            !.applied = a, !.pending = s]
  <2>1. Negotiating(l, p, new) = n
    BY <1>2, Zenon DEF Negotiating
  <2>2. a \subseteq l.applied
    BY Zenon
  <2> HIDE DEF a, s
  <2>3. DOMAIN n = LinkFields /\ n.epoch = l.epoch + 1 /\ n.applied = a
    BY DEF LinkFields
  <2> QED
    BY <1>2, <2>1, <2>2, <2>3
<1> QED
  BY <1>1, <1>2

(* startNegotiation, whether the attempts are spent or not. *)
LEMMA Negotiated ==
  ASSUME NEW l, NEW p, NEW v, NEW k, NEW q, NEW w, Agreed(l, p, v, k, q, w), NEW new
  PROVE  Agreed(Negotiating(l, p, new), OfferAsked(l, p, new), v, k, q, w)
<1>1. DOMAIN l = LinkFields
  BY DEF Agreed, CreatorOK, EpochsOK
<1>2. CASE Exhausted(l)
  <2>1. OfferAsked(l, p, new) = p
    BY <1>2, Zenon DEF OfferAsked
  <2> QED
    BY <1>1, <1>2, <2>1, NegotiatingParts, CreatorLink
<1>3. CASE ~Exhausted(l)
  <2> DEFINE b == IF new \/ ~p.exists THEN NewPc ELSE p
  <2>1. OfferAsked(l, p, new) = Chained(b, Op("createOffer", l.epoch + 1, new))
    BY <1>3, Zenon DEF OfferAsked
  <2>2. b = NewPc \/ (b = p /\ p.exists)
    BY Zenon
  <2>3. b = NewPc \/ (b = p /\ There(p))
    BY <2>2 DEF There
  <2> HIDE DEF b
  <2>4. Agreed(Negotiating(l, p, new), Chained(b, Op("createOffer", l.epoch + 1, new)),
               v, k, q, w)
    BY <1>1, <1>3, <2>3, NegotiatingParts, NegotiationBegins
  <2> QED
    BY <2>1, <2>4
<1> QED
  BY <1>2, <1>3

-----------------------------------------------------------------------------
(* Queues *)

(* An event is handled. *)
LEMMA CreatorReads ==
  ASSUME NEW l, NEW p, NEW v, NEW k, NEW q, NEW w, Agreed(l, p, v, k, q, w),
         NEW z, Shorter(v, z)
  PROVE  Agreed(l, p, z, k, q, w)
<1>1. /\ \A i \in Items(z) : i + 1 \in Items(v) /\ z[i] = v[i + 1] /\ i \in Nat
      /\ \A i, j \in Items(z) : i + 1 = j + 1 => i = j
      /\ \A i, j \in Items(z) : i + 1 < j + 1 => i < j
  BY DEF Shorter
<1>2. QueueOK(z, l.epoch)
  BY <1>1 DEF Agreed, Between, QueueOK, Shorter
<1>3. Answered(l, p, z) => Answered(l, p, v)
  BY <1>1 DEF Answered, AnswerAt
<1>4. AnswersOK(l, p, z, k, q)
  BY <1>3 DEF Agreed, Between, AnswersOK
<1>5. AnswersOnce(l, p, v) /\ EarlyAtCreator(l, p, v)
  BY DEF Agreed, Between
<1>6. \A i \in Items(z), e \in {l.epoch} : AnswerAt(z, i, e) <=> AnswerAt(v, i + 1, e)
  BY <1>1 DEF AnswerAt
<1>7. AnswersOnce(l, p, z)
  BY <1>1, <1>5, <1>6 DEF AnswersOnce
<1>8. EarlyAtCreator(l, p, z)
  BY <1>1, <1>5, <1>6 DEF EarlyAtCreator
<1> QED
  BY <1>2, <1>4, <1>7, <1>8 DEF Agreed, Between

(* At the joiner too. *)
LEMMA JoinerReads ==
  ASSUME NEW l, NEW p, NEW v, NEW k, NEW q, NEW w, Agreed(l, p, v, k, q, w),
         NEW z, Shorter(w, z)
  PROVE  Agreed(l, p, v, k, q, z)
<1>1. /\ \A i \in Items(z) : i + 1 \in Items(w) /\ z[i] = w[i + 1] /\ i \in Nat
      /\ \A i, j \in Items(z) : i < j => i + 1 < j + 1
  BY DEF Shorter
<1>2. QueueOK(z, l.epoch)
  BY <1>1 DEF Agreed, Between, QueueOK, Shorter
<1>3. Out(l.epoch, k, z) => Out(l.epoch, k, w)
  BY <1>1 DEF Out, OfferAt
<1>4. OffersOK(l, p, k, z)
  BY <1>3 DEF Agreed, Between, OffersOK
<1>5. EarlyAtJoiner(k, w)
  BY DEF Agreed, Between
<1>6. EarlyAtJoiner(k, z)
  BY <1>1, <1>5 DEF EarlyAtJoiner
<1> QED
  BY <1>2, <1>4, <1>6 DEF Agreed, Between

(* A message to the creator, which answers nothing or is the first answer. *)
LEMMA ToCreator ==
  ASSUME NEW l, NEW p, NEW v, NEW k, NEW q, NEW w, Agreed(l, p, v, k, q, w),
         NEW m, m.epoch \in 0 .. l.epoch,
         m.type = "answer" /\ m.epoch = l.epoch =>
           /\ ~Answered(l, p, v) /\ k.epoch = l.epoch
           /\ There(q) => /\ q.local = l.epoch
                          /\ Without(q.chain, {"setRemote", "createAnswer", "setLocal"}),
         Early(m) /\ m.epoch = l.epoch => ~Answered(l, p, v),
         NEW z, Longer(v, z, m)
  PROVE  Agreed(l, p, z, k, q, w)
<1>1. /\ \A i \in Items(z) : (i \in Items(v) /\ z[i] = v[i]) \/ (i = Len(v) + 1 /\ z[i] = m)
      /\ Len(v) \in Nat /\ \A i \in Items(v) : i < Len(v) + 1
  BY DEF Longer, Items
<1>2. QueueOK(z, l.epoch)
  <2>1. \A i \in Items(v) : v[i].epoch \in 0 .. l.epoch
    BY DEF Agreed, Between, QueueOK
  <2>2. \A i \in Items(z) : z[i].epoch \in 0 .. l.epoch
    BY <1>1, <2>1
  <2> QED
    BY <2>2 DEF QueueOK, Longer
<1>3. AnswersOK(l, p, v, k, q) /\ AnswersOnce(l, p, v) /\ EarlyAtCreator(l, p, v)
  BY DEF Agreed, Between
<1>4. Answered(l, p, z) => Answered(l, p, v) \/ (m.type = "answer" /\ m.epoch = l.epoch)
  BY <1>1 DEF Answered, AnswerAt
<1>5. AnswersOK(l, p, z, k, q)
  BY <1>3, <1>4 DEF AnswersOK
<1>6. \A i \in Items(z) : AnswerAt(z, i, l.epoch) =>
        \/ i \in Items(v) /\ AnswerAt(v, i, l.epoch)
        \/ i = Len(v) + 1 /\ m.type = "answer" /\ m.epoch = l.epoch
  BY <1>1 DEF AnswerAt
<1>7. AnswersOnce(l, p, z)
  BY <1>1, <1>3, <1>6 DEF AnswersOnce, Answered
<1>8. EarlyAtCreator(l, p, z)
  <2> SUFFICES ASSUME NEW i \in Items(z), Early(z[i]), z[i].epoch = l.epoch
               PROVE  /\ l.epoch \notin l.applied
                      /\ \A j \in Items(z) : AnswerAt(z, j, l.epoch) => i < j
                      /\ \A j \in Items(p.chain) : ~RemoteAt(p.chain, j, l.epoch)
    BY DEF EarlyAtCreator
  <2>1. CASE i \in Items(v) /\ z[i] = v[i]
    BY <1>1, <1>3, <1>6, <2>1 DEF EarlyAtCreator
  <2>2. CASE i = Len(v) + 1 /\ z[i] = m
    <3>1. ~Answered(l, p, v) /\ m.type # "answer"
      BY <2>2 DEF Early
    <3> QED
      BY <1>6, <3>1 DEF Answered
  <2> QED
    BY <1>1, <2>1, <2>2
<1> QED
  BY <1>2, <1>5, <1>7, <1>8 DEF Agreed, Between

(* A message to the joiner. *)
LEMMA ToJoiner ==
  ASSUME NEW l, NEW p, NEW v, NEW k, NEW q, NEW w, Agreed(l, p, v, k, q, w),
         NEW m, m.epoch \in 0 .. l.epoch,
         m.type = "offer" /\ m.epoch = l.epoch /\ There(p) =>
           /\ p.local = l.epoch /\ Without(p.chain, {"createOffer", "setLocal"})
           /\ l.epoch \notin l.applied => p.signaling = "have-local-offer",
         Early(m) => /\ k.epoch < m.epoch
                     /\ \A j \in Items(w) : w[j].type = "offer" => w[j].epoch < m.epoch,
         NEW z, Longer(w, z, m)
  PROVE  Agreed(l, p, v, k, q, z)
<1>1. /\ \A i \in Items(z) : (i \in Items(w) /\ z[i] = w[i]) \/ (i = Len(w) + 1 /\ z[i] = m)
      /\ Len(w) \in Nat /\ \A i \in Items(w) : i < Len(w) + 1 /\ ~(Len(w) + 1 < i)
  BY DEF Longer, Items
<1>2. QueueOK(z, l.epoch)
  <2>1. \A i \in Items(w) : w[i].epoch \in 0 .. l.epoch
    BY DEF Agreed, Between, QueueOK
  <2>2. \A i \in Items(z) : z[i].epoch \in 0 .. l.epoch
    BY <1>1, <2>1
  <2> QED
    BY <2>2 DEF QueueOK, Longer
<1>3. OffersOK(l, p, k, w) /\ EarlyAtJoiner(k, w)
  BY DEF Agreed, Between
<1>4. Out(l.epoch, k, z) => Out(l.epoch, k, w) \/ (m.type = "offer" /\ m.epoch = l.epoch)
  BY <1>1 DEF Out, OfferAt
<1>5. OffersOK(l, p, k, z)
  BY <1>3, <1>4 DEF OffersOK
<1>6. EarlyAtJoiner(k, z)
  BY <1>1, <1>3 DEF EarlyAtJoiner
<1> QED
  BY <1>2, <1>5, <1>6 DEF Agreed, Between

(* What the server says of the room is neither. *)
LEMMA PlainParts ==
  ASSUME NEW type, type \notin {"offer", "answer", "ice"}
  PROVE  /\ Plain(type).type = type /\ Plain(type).epoch = 0
         /\ ~Early(Plain(type))
BY DEF Plain, Early

(* A queue with blanks in the place of some messages. *)
Blanked(w, z) ==
  /\ IsSeq(z) /\ Items(z) = Items(w)
  /\ \A i \in Items(z) : z[i] = w[i] \/ z[i] = Plain("lost")

(* CutOff leaves such a queue. *)
LEMMA CutOffBlanks == ASSUME NEW w, IsSeq(w), NEW n PROVE Blanked(w, CutOff(w, n))
<1> DEFINE z == CutOff(w, n)
<1>1. Len(w) \in Nat
  BY Lengths
<1>2. z = [i \in 1 .. Len(w) |-> z[i]] /\ \A i \in 1 .. Len(w) : z[i] = w[i] \/ z[i] = Plain("lost")
  BY DEF CutOff
<1> HIDE DEF z
<1>3. z \in Seq({z[i] : i \in 1 .. Len(w)})
  BY <1>1, <1>2
<1>4. Len(z) = Len(w)
  BY <1>1, <1>2
<1> QED
  BY <1>2, <1>3, <1>4, SeqOfOwn DEF Blanked, Items, z

(* What is lost answers nothing, *)
LEMMA BlankedCreator ==
  ASSUME NEW l, NEW p, NEW v, NEW k, NEW q, NEW w, Agreed(l, p, v, k, q, w),
         NEW z, Blanked(v, z)
  PROVE  Agreed(l, p, z, k, q, w)
<1>1. /\ l.epoch \in Nat
      /\ Plain("lost").type = "lost" /\ Plain("lost").epoch = 0 /\ ~Early(Plain("lost"))
  BY PlainParts DEF Agreed, CreatorOK, EpochsOK
<1>2. \A i \in Items(z) : i \in Items(v) /\ (z[i] = v[i] \/ z[i] = Plain("lost"))
  BY DEF Blanked
<1>3. QueueOK(z, l.epoch)
  BY <1>1, <1>2 DEF Agreed, Between, QueueOK, Blanked
<1>4. AnswersOK(l, p, v, k, q) /\ AnswersOnce(l, p, v) /\ EarlyAtCreator(l, p, v)
  BY DEF Agreed, Between
<1>5. \A i \in Items(z) : /\ AnswerAt(z, i, l.epoch) => AnswerAt(v, i, l.epoch)
                          /\ Early(z[i]) => z[i] = v[i]
  BY <1>1, <1>2 DEF AnswerAt
<1>6. AnswersOK(l, p, z, k, q)
  BY <1>2, <1>4, <1>5 DEF AnswersOK, Answered
<1>7. AnswersOnce(l, p, z) /\ EarlyAtCreator(l, p, z)
  BY <1>2, <1>4, <1>5 DEF AnswersOnce, EarlyAtCreator
<1> QED
  BY <1>3, <1>6, <1>7 DEF Agreed, Between

(* and offers nothing. *)
LEMMA BlankedJoiner ==
  ASSUME NEW l, NEW p, NEW v, NEW k, NEW q, NEW w, Agreed(l, p, v, k, q, w),
         NEW z, Blanked(w, z)
  PROVE  Agreed(l, p, v, k, q, z)
<1>1. /\ l.epoch \in Nat
      /\ Plain("lost").type = "lost" /\ Plain("lost").epoch = 0 /\ ~Early(Plain("lost"))
  BY PlainParts DEF Agreed, CreatorOK, EpochsOK
<1>2. \A i \in Items(z) : i \in Items(w) /\ (z[i] = w[i] \/ z[i] = Plain("lost"))
  BY DEF Blanked
<1>3. QueueOK(z, l.epoch)
  BY <1>1, <1>2 DEF Agreed, Between, QueueOK, Blanked
<1>4. OffersOK(l, p, k, w) /\ EarlyAtJoiner(k, w)
  BY DEF Agreed, Between
<1>5. \A i \in Items(z) : /\ OfferAt(z, i, l.epoch) => OfferAt(w, i, l.epoch)
                          /\ z[i].type = "offer" => z[i] = w[i]
                          /\ Early(z[i]) => z[i] = w[i]
  BY <1>1, <1>2 DEF OfferAt
<1>6. OffersOK(l, p, k, z)
  BY <1>2, <1>4, <1>5 DEF OffersOK, Out
<1>7. EarlyAtJoiner(k, z)
  BY <1>2, <1>4, <1>5 DEF EarlyAtJoiner
<1> QED
  BY <1>3, <1>6, <1>7 DEF Agreed, Between

(* A queue that starts again. *)
LEMMA EmptyQueues ==
  ASSUME NEW l, NEW p, NEW v, NEW k, NEW q, NEW w, Agreed(l, p, v, k, q, w)
  PROVE  Agreed(l, p, <<>>, k, q, w) /\ Agreed(l, p, v, k, q, <<>>)
<1>1. /\ QueueOK(<<>>, l.epoch) /\ AnswersOnce(l, p, <<>>) /\ EarlyAtCreator(l, p, <<>>)
      /\ EarlyAtJoiner(k, <<>>)
      /\ Answered(l, p, <<>>) => Answered(l, p, v)
      /\ Out(l.epoch, k, <<>>) => Out(l.epoch, k, w)
  BY Lengths DEF QueueOK, AnswersOnce, EarlyAtCreator, EarlyAtJoiner, Answered, Out,
                 Agreed, Between
<1>2. AnswersOK(l, p, <<>>, k, q) /\ OffersOK(l, p, k, <<>>)
  BY <1>1 DEF Agreed, Between, AnswersOK, OffersOK
<1> QED
  BY <1>1, <1>2 DEF Agreed, Between

(* News of the room is added to either queue. *)
LEMMA PlainArrives ==
  ASSUME NEW l, NEW p, NEW v, NEW k, NEW q, NEW w, Agreed(l, p, v, k, q, w),
         NEW type, type \notin {"offer", "answer", "ice"}
  PROVE  /\ Agreed(l, p, Append(v, Plain(type)), k, q, w)
         /\ Agreed(l, p, v, k, q, Append(w, Plain(type)))
         /\ Agreed(l, p, <<Plain(type)>>, k, q, w)
         /\ Agreed(l, p, v, k, q, <<Plain(type)>>)
<1> DEFINE m == Plain(type)
<1>1. l.epoch \in Nat /\ IsSeq(v) /\ IsSeq(w)
  BY DEF Agreed, CreatorOK, EpochsOK, Between, QueueOK
<1>2. m.type \notin {"offer", "answer", "ice"} /\ m.epoch \in 0 .. l.epoch /\ ~Early(m)
  BY <1>1, PlainParts
<1> HIDE DEF m
<1>3. Longer(v, Append(v, m), m) /\ Longer(w, Append(w, m), m)
  BY <1>1, AppendLonger
<1>4. Longer(<<>>, <<m>>, m)
  <2>1. <<m>> \in Seq({m}) /\ Len(<<m>>) = 1 /\ <<m>>[1] = m
    OBVIOUS
  <2>2. IsSeq(<<m>>)
    BY <2>1, SeqOfOwn
  <2> DEFINE z == <<m>>
  <2> HIDE DEF z
  <2>3. IsSeq(z) /\ Len(z) = 1 /\ z[1] = m
    BY <2>1, <2>2 DEF z
  <2>4. Longer(<<>>, z, m)
    BY <2>3, Lengths DEF Longer, Items
  <2> QED
    BY <2>4 DEF z
<1>5. Agreed(l, p, <<>>, k, q, w) /\ Agreed(l, p, v, k, q, <<>>)
  BY EmptyQueues
<1>6. Agreed(l, p, Append(v, m), k, q, w) /\ Agreed(l, p, <<m>>, k, q, w)
  BY <1>2, <1>3, <1>4, <1>5, ToCreator
<1>7. Agreed(l, p, v, k, q, Append(w, m)) /\ Agreed(l, p, v, k, q, <<m>>)
  BY <1>2, <1>3, <1>4, <1>5, ToJoiner
<1> QED
  BY <1>6, <1>7 DEF m

-----------------------------------------------------------------------------
(* The creator's operations *)

(* The operation that settles, and those behind it. *)
LEMMA FirstOfChain ==
  ASSUME NEW p, NEW e, NEW ops, PcOK(p, e, ops), NEW t, Shorter(p.chain, t)
  PROVE  /\ There(p) /\ 1 \in Items(p.chain)
         /\ DOMAIN p.chain[1] = OpFields /\ p.chain[1].op \in ops /\ p.chain[1].epoch \in 0 .. e
         /\ \A i \in Items(t) : /\ i + 1 \in Items(p.chain) /\ t[i] = p.chain[i + 1]
                                /\ i \in Nat \ {0} /\ i + 1 # 1 /\ 1 < i + 1 /\ ~(i + 1 < 1)
         /\ NothingNew(p.chain, t)
<1>1. Len(p.chain) \in Nat \ {0} /\ p.chain # <<>>
  BY Lengths DEF Shorter
<1>2. 1 \in Items(p.chain)
  BY <1>1 DEF Items
<1>3. There(p) /\ DOMAIN p.chain[1] = OpFields /\ p.chain[1].op \in ops /\ p.chain[1].epoch \in 0 .. e
  BY <1>1, <1>2 DEF PcOK, ChainOK
<1>4. \A i \in Items(t) : /\ i + 1 \in Items(p.chain) /\ t[i] = p.chain[i + 1]
                          /\ i \in Nat \ {0} /\ i + 1 # 1 /\ 1 < i + 1 /\ ~(i + 1 < 1)
  BY DEF Shorter
<1> QED
  BY <1>2, <1>3, <1>4 DEF NothingNew

(* An offer is made: the connection with its head settled, then chained. *)
LEMMA OfferMade ==
  ASSUME NEW l, NEW p, NEW v, NEW k, NEW q, NEW w, Agreed(l, p, v, k, q, w),
         p.chain[1].op = "createOffer",
         NEW y, DOMAIN y = PcFields, Shorter(p.chain, y.chain), There(y) <=> There(p),
         y.signaling = p.signaling, y.local = p.local, y.remote = p.remote,
         NEW x, DOMAIN x = PcFields, There(x) <=> There(y),
         x.signaling = y.signaling, x.local = y.local, x.remote = y.remote,
         NEW o, DOMAIN o = OpFields, o.op = "setLocal", o.epoch = p.chain[1].epoch,
         Longer(y.chain, x.chain, o)
  PROVE  Agreed(l, x, v, k, q, w)
<1>1. PcOK(p, l.epoch, CreatorOps) /\ OfferOrder(p.chain, l.epoch) /\ OffersOK(l, p, k, w)
  BY DEF Agreed, CreatorOK, Between
<1>2. /\ There(p) /\ 1 \in Items(p.chain) /\ p.chain[1].epoch \in 0 .. l.epoch
      /\ \A i \in Items(y.chain) : /\ i + 1 \in Items(p.chain) /\ y.chain[i] = p.chain[i + 1]
                                   /\ 1 < i + 1
      /\ NothingNew(p.chain, y.chain)
  BY <1>1, FirstOfChain
<1>3. CreatorOK(l, y) /\ Between(l, y, v, k, q, w)
  BY <1>2, QuietCreator, BetweenCreator DEF Agreed, QuietChain, CreatorOK, EpochsOK
<1>4. ~Out(l.epoch, k, w)
  BY <1>1, <1>2 DEF OffersOK, Without
<1>5. \A i \in Items(y.chain) : y.chain[i].epoch = l.epoch => y.chain[i].op # "setLocal"
  BY <1>1, <1>2 DEF OfferOrder
<1>6. o.epoch = l.epoch => Without(y.chain, {"createOffer"})
  BY <1>1, <1>2 DEF OfferOrder, Without
<1>7. OfferOrder(x.chain, l.epoch)
  BY <1>3, <1>5, <1>6, OrderLonger DEF CreatorOK
<1>8. ChainOK(x.chain, l.epoch, CreatorOps)
  BY <1>2, <1>3, ChainLonger DEF CreatorOK, PcOK, CreatorOps
<1>9. AnswerFits(x) /\ DirectFits(x)
  BY <1>3, FitsLonger DEF CreatorOK
<1>10. Without(y.chain, {"setRemote"}) => Without(x.chain, {"setRemote"})
  BY <1>3, ChainLonger, <1>2 DEF CreatorOK, PcOK, CreatorOps
<1>11. CreatorOK(l, x)
  BY <1>2, <1>3, <1>7, <1>8, <1>9, <1>10 DEF CreatorOK, PcOK, AppliedOK
<1>12. \A e : (\A i \in Items(y.chain) : ~RemoteAt(y.chain, i, e))
               => \A i \in Items(x.chain) : ~RemoteAt(x.chain, i, e)
  BY DEF RemoteAt, Longer
<1>13. AnswersOK(l, x, v, k, q) /\ AnswersOnce(l, x, v) /\ EarlyAtCreator(l, x, v)
  BY <1>3, <1>12 DEF Between, AnswersOK, Answered, AnswersOnce, EarlyAtCreator
<1>14. Between(l, x, v, k, q, w)
  BY <1>3, <1>4, <1>13 DEF Between, OffersOK
<1> QED
  BY <1>11, <1>14 DEF Agreed

(* It is set, and relayed if it is still the current one. *)
LEMMA OfferTaken ==
  ASSUME NEW l, NEW p, NEW v, NEW k, NEW q, NEW w, Agreed(l, p, v, k, q, w),
         p.chain[1].op = "setLocal",
         NEW m, DOMAIN m = LinkFields, m.epoch = l.epoch, m.applied = l.applied,
         NEW x, DOMAIN x = PcFields, Shorter(p.chain, x.chain), There(x) <=> There(p),
         x.signaling = "have-local-offer", x.local = p.chain[1].epoch, x.remote = p.remote
  PROVE  /\ Agreed(m, x, v, k, q, w)
         /\ p.chain[1].epoch = l.epoch => Without(x.chain, {"createOffer", "setLocal"})
<1>1. /\ PcOK(p, l.epoch, CreatorOps) /\ OfferOrder(p.chain, l.epoch) /\ OffersOK(l, p, k, w)
      /\ AnswerFits(p) /\ DirectFits(p) /\ AppliedOK(l, p) /\ EpochsOK(l)
  BY DEF Agreed, CreatorOK, Between
<1>2. /\ There(p) /\ 1 \in Items(p.chain) /\ p.chain[1].epoch \in 0 .. l.epoch
      /\ \A i \in Items(x.chain) : /\ i + 1 \in Items(p.chain) /\ x.chain[i] = p.chain[i + 1]
                                   /\ 1 < i + 1
      /\ NothingNew(p.chain, x.chain)
  BY <1>1, FirstOfChain
<1>3. ~Out(l.epoch, k, w)
  BY <1>1, <1>2 DEF OffersOK, Without
<1>4. p.chain[1].epoch = l.epoch => Without(x.chain, {"createOffer", "setLocal"})
  BY <1>1, <1>2 DEF OfferOrder, Without
<1>5. Without(x.chain, {"setRemote"})
  BY <1>1, <1>2 DEF AnswerFits, Without
<1>6. AnswerFits(x)
  BY <1>5 DEF AnswerFits, Without
<1>7. DirectFits(x)
  BY <1>1, FitsShorter
<1>8. ChainOK(x.chain, m.epoch, CreatorOps) /\ OfferOrder(x.chain, m.epoch)
  BY <1>1, ChainShorter, OrderShorter DEF PcOK
<1>9. CreatorOK(m, x)
  BY <1>1, <1>2, <1>5, <1>6, <1>7, <1>8 DEF CreatorOK, PcOK, AppliedOK, EpochsOK
<1>10. Between(m, x, v, k, q, w)
  BY <1>2, <1>3, BetweenRest DEF OffersOK, Agreed
<1> QED
  BY <1>4, <1>9, <1>10 DEF Agreed

(* An answer that has arrived goes to the connection. *)
LEMMA AnswerArrives ==
  ASSUME NEW l, NEW p, NEW v, NEW k, NEW q, NEW w, Agreed(l, p, v, k, q, w),
         There(p), NEW z, Shorter(v, z), 1 \in Items(v), AnswerAt(v, 1, l.epoch),
         NEW o, DOMAIN o = OpFields, o.op = "setRemote", o.epoch = l.epoch,
         NEW x, DOMAIN x = PcFields, Longer(p.chain, x.chain, o), There(x),
         x.signaling = p.signaling, x.local = p.local, x.remote = p.remote
  PROVE  Agreed(l, x, z, k, q, w)
<1>1. /\ PcOK(p, l.epoch, CreatorOps) /\ OfferOrder(p.chain, l.epoch) /\ OffersOK(l, p, k, w)
      /\ AnswerFits(p) /\ DirectFits(p) /\ AppliedOK(l, p) /\ EpochsOK(l)
      /\ AnswersOnce(l, p, v) /\ AnswersOK(l, p, v, k, q) /\ EarlyAtCreator(l, p, v)
  BY DEF Agreed, CreatorOK, Between
<1>2. Answered(l, p, v) /\ k.epoch = l.epoch /\ Out(l.epoch, k, w)
  BY <1>1 DEF Answered, AnswersOK, Out
<1>3. /\ l.epoch \notin l.applied
      /\ \A j \in Items(p.chain) : ~RemoteAt(p.chain, j, l.epoch)
      /\ \A j \in Items(v) : AnswerAt(v, j, l.epoch) => j = 1
  BY <1>1 DEF AnswersOnce
<1>4. /\ p.local = l.epoch /\ p.signaling = "have-local-offer"
      /\ Without(p.chain, {"createOffer", "setLocal"})
  BY <1>1, <1>2, <1>3 DEF OffersOK
<1>5. Without(p.chain, {"createOffer", "setLocal", "setRemote"})
  BY <1>1, <1>3, <1>4 DEF AnswerFits, RemoteAt, Without
<1>6. OfferOrder(x.chain, l.epoch)
  BY <1>1, OrderLonger
<1>7. AnswerFits(x) /\ DirectFits(x)
  BY <1>1, <1>4, <1>5, FitsLonger
<1>8. /\ ChainOK(x.chain, l.epoch, CreatorOps)
      /\ Without(x.chain, {"createOffer", "setLocal"})
  <2>1. o.op \in CreatorOps /\ o.epoch \in 0 .. l.epoch /\ o.op \notin {"createOffer", "setLocal"}
    BY <1>1 DEF CreatorOps, EpochsOK
  <2> QED
    BY <1>1, <1>4, <2>1, ChainLonger DEF PcOK
<1>9. CreatorOK(l, x)
  BY <1>1, <1>3, <1>6, <1>7, <1>8 DEF CreatorOK, PcOK, AppliedOK
<1>10. \A i \in Items(z) : /\ i + 1 \in Items(v) /\ z[i] = v[i + 1] /\ 1 < i + 1 /\ ~(i + 1 < 1)
                           /\ i + 1 # 1
  BY DEF Shorter
<1>11. QueueOK(z, l.epoch)
  BY CreatorReads DEF Agreed, Between
<1>12. \A i \in Items(z) : ~AnswerAt(z, i, l.epoch)
  BY <1>3, <1>10 DEF AnswerAt
<1>13. AnswersOnce(l, x, z)
  BY <1>3, <1>12 DEF AnswersOnce
<1>14. EarlyAtCreator(l, x, z)
  BY <1>1, <1>10 DEF EarlyAtCreator
<1>15. AnswersOK(l, x, z, k, q)
  BY <1>1, <1>2 DEF AnswersOK
<1>16. OffersOK(l, x, k, w)
  BY <1>4, <1>8 DEF OffersOK
<1>17. Between(l, x, z, k, q, w)
  BY <1>11, <1>13, <1>14, <1>15, <1>16 DEF Agreed, Between
<1> QED
  BY <1>9, <1>17 DEF Agreed

(* It is applied. *)
LEMMA AnswerTaken ==
  ASSUME NEW l, NEW p, NEW v, NEW k, NEW q, NEW w, Agreed(l, p, v, k, q, w),
         p.chain[1].op = "setRemote",
         NEW m, DOMAIN m = LinkFields, m.epoch = l.epoch,
         m.applied = l.applied \cup {p.chain[1].epoch},
         NEW x, DOMAIN x = PcFields, Shorter(p.chain, x.chain), There(x) <=> There(p),
         x.signaling = "stable", x.local = p.local, x.remote = p.chain[1].epoch
  PROVE  Agreed(m, x, v, k, q, w)
<1>1. /\ PcOK(p, l.epoch, CreatorOps) /\ OfferOrder(p.chain, l.epoch) /\ OffersOK(l, p, k, w)
      /\ AnswerFits(p) /\ DirectFits(p) /\ AppliedOK(l, p) /\ EpochsOK(l)
      /\ AnswersOnce(l, p, v) /\ AnswersOK(l, p, v, k, q) /\ EarlyAtCreator(l, p, v)
  BY DEF Agreed, CreatorOK, Between
<1>2. /\ There(p) /\ 1 \in Items(p.chain) /\ p.chain[1].epoch \in 0 .. l.epoch
      /\ \A i \in Items(x.chain) : /\ i + 1 \in Items(p.chain) /\ x.chain[i] = p.chain[i + 1]
                                   /\ 1 < i + 1
      /\ NothingNew(p.chain, x.chain)
  BY <1>1, FirstOfChain
<1> DEFINE e == p.chain[1].epoch
<1>3. p.local = e /\ l.epoch \notin l.applied
  BY <1>1, <1>2 DEF AnswerFits, AppliedOK, Without
<1>4. Without(x.chain, {"setRemote"})
  BY <1>1, <1>2 DEF AnswerFits, Without
<1>5. AnswerFits(x)
  BY <1>4 DEF AnswerFits, Without
<1>6. DirectFits(x)
  BY <1>1, <1>2 DEF DirectFits
<1>7. ChainOK(x.chain, m.epoch, CreatorOps) /\ OfferOrder(x.chain, m.epoch)
  BY <1>1, ChainShorter, OrderShorter DEF PcOK
<1>8. CreatorOK(m, x)
  BY <1>1, <1>2, <1>3, <1>4, <1>5, <1>6, <1>7 DEF CreatorOK, PcOK, AppliedOK, EpochsOK
<1>9. e = l.epoch => RemoteAt(p.chain, 1, l.epoch)
  BY DEF RemoteAt
<1>10. Answered(m, x, v) => Answered(l, p, v)
  BY <1>2, <1>4, <1>9 DEF Answered, RemoteAt, Without
<1>11. AnswersOK(m, x, v, k, q)
  BY <1>1, <1>10 DEF AnswersOK
<1>12. \A i \in Items(x.chain) : ~RemoteAt(x.chain, i, m.epoch)
  BY <1>4 DEF RemoteAt, Without
<1>13. AnswersOnce(m, x, v)
  BY <1>1, <1>2, <1>9, <1>12 DEF AnswersOnce
<1>14. EarlyAtCreator(m, x, v)
  BY <1>1, <1>2, <1>9, <1>12 DEF EarlyAtCreator
<1>15. OffersOK(m, x, k, w)
  BY <1>1, <1>2, <1>3 DEF OffersOK, Without
<1>16. Between(m, x, v, k, q, w)
  BY <1>11, <1>13, <1>14, <1>15 DEF Agreed, Between
<1> QED
  BY <1>8, <1>16 DEF Agreed

-----------------------------------------------------------------------------
(* The joiner's operations *)

(* The description of a new offer goes to the connection. *)
LEMMA OfferArrives ==
  ASSUME NEW l, NEW p, NEW v, NEW k, NEW q, NEW w, Agreed(l, p, v, k, q, w),
         NEW z, Shorter(w, z), 1 \in Items(w), w[1].type = "offer", ~(w[1].epoch <= k.epoch),
         NEW m, DOMAIN m = LinkFields, m.epoch = w[1].epoch, m.applied \subseteq k.applied,
         NEW b, b = NewPc \/ (b = q /\ There(q)),
         NEW o, DOMAIN o = OpFields, o.op = "setRemote", o.epoch = w[1].epoch,
         NEW x, DOMAIN x = PcFields, Longer(b.chain, x.chain, o), There(x),
         x.signaling = b.signaling, x.local = b.local, x.remote = b.remote, x.made = b.made
  PROVE  Agreed(l, p, v, m, x, z)
<1>1. /\ PcOK(q, k.epoch, JoinerOps) /\ AnswerOrder(q) /\ DirectFits(q)
      /\ EpochsOK(k) /\ EpochsOK(l) /\ k.epoch <= l.epoch /\ QueueOK(w, l.epoch)
      /\ OffersOK(l, p, k, w) /\ AnswersOK(l, p, v, k, q) /\ EarlyAtJoiner(k, w)
  BY DEF Agreed, CreatorOK, JoinerOK, Between
<1>2. /\ k.epoch \in Nat /\ l.epoch \in Nat /\ k.epoch < m.epoch /\ m.epoch <= l.epoch
      /\ m.epoch \in Nat /\ m.epoch \notin m.applied /\ m.applied \subseteq 0 .. m.epoch
  BY <1>1 DEF EpochsOK, QueueOK
<1>3. /\ DOMAIN b = PcFields /\ There(b) /\ ChainOK(b.chain, k.epoch, JoinerOps)
      /\ b.signaling \in {"stable", "have-local-offer", "have-remote-offer"}
      /\ AnswerOrder(b) /\ DirectFits(b)
  <2>1. CASE b = NewPc
    BY <2>1, FreshPc, EmptyChain
  <2>2. CASE b = q /\ There(q)
    BY <1>1, <2>2 DEF PcOK
  <2> QED
    BY <2>1, <2>2
<1>4. ChainOK(x.chain, m.epoch, JoinerOps)
  <2>1. ChainOK(b.chain, m.epoch, JoinerOps)
    BY <1>2, <1>3, ChainLater
  <2>2. o.op \in JoinerOps /\ o.epoch \in 0 .. m.epoch
    BY <1>2 DEF JoinerOps
  <2> QED
    BY <2>1, <2>2, ChainLonger
<1>5. \A i \in Items(b.chain) : b.chain[i].epoch < o.epoch
  BY <1>2, <1>3 DEF ChainOK
<1>6. AnswerOrder(x)
  BY <1>3, <1>5, AnswersLonger
<1>7. DirectFits(x)
  BY <1>3, FitsLonger
<1>8. JoinerOK(m, x)
  BY <1>2, <1>3, <1>4, <1>6, <1>7 DEF JoinerOK, PcOK, AppliedOK, EpochsOK
<1>9. \A i \in Items(z) : i + 1 \in Items(w) /\ z[i] = w[i + 1] /\ 1 < i + 1 /\ i \in Nat
  BY DEF Shorter
<1>10. Out(l.epoch, m, z) => Out(l.epoch, k, w)
  BY <1>9 DEF Out, OfferAt
<1>11. OffersOK(l, p, m, z)
  BY <1>1, <1>10 DEF OffersOK
<1>12. ~Answered(l, p, v)
  BY <1>1, <1>2 DEF AnswersOK
<1>13. AnswersOK(l, p, v, m, x)
  BY <1>12 DEF AnswersOK
<1>14. EarlyAtJoiner(k, z)
  BY JoinerReads DEF Agreed, Between
<1>15. EarlyAtJoiner(m, z)
  BY <1>1, <1>9, <1>14 DEF EarlyAtJoiner
<1>16. QueueOK(z, l.epoch)
  BY JoinerReads DEF Agreed, Between
<1>17. Between(l, p, v, m, x, z)
  BY <1>2, <1>11, <1>13, <1>15, <1>16 DEF Agreed, Between
<1> QED
  BY <1>8, <1>17 DEF Agreed

(* What is left of the chain when an answer of epoch e may be made. *)
Answerable(x, e) ==
  /\ There(x) /\ x.remote = e /\ Without(x.chain, {"setRemote", "createAnswer"})
  /\ \A i \in Items(x.chain) : x.chain[i].op = "setLocal" => x.chain[i].epoch < e

(* It is set; the negotiation may be over by then. *)
LEMMA OfferAccepted ==
  ASSUME NEW l, NEW p, NEW v, NEW k, NEW q, NEW w, Agreed(l, p, v, k, q, w),
         q.chain[1].op = "setRemote",
         NEW m, DOMAIN m = LinkFields, m.epoch = k.epoch,
         \/ m.applied = k.applied /\ q.chain[1].epoch # k.epoch
         \/ m.applied = k.applied \cup {q.chain[1].epoch} /\ q.chain[1].epoch = k.epoch,
         NEW x, DOMAIN x = PcFields, Shorter(q.chain, x.chain), There(x) <=> There(q),
         x.signaling = "have-remote-offer", x.local = q.local,
         x.remote = q.chain[1].epoch, x.made = q.made
  PROVE  /\ Agreed(l, p, v, m, x, w) /\ ~Answered(l, p, v)
         /\ q.chain[1].epoch = k.epoch => Answerable(x, k.epoch)
<1>1. /\ PcOK(q, k.epoch, JoinerOps) /\ AnswerOrder(q) /\ DirectFits(q) /\ AppliedOK(k, q)
      /\ EpochsOK(k) /\ AnswersOK(l, p, v, k, q)
  BY DEF Agreed, JoinerOK, Between
<1>2. /\ There(q) /\ 1 \in Items(q.chain) /\ q.chain[1].epoch \in 0 .. k.epoch
      /\ \A i \in Items(x.chain) : /\ i + 1 \in Items(q.chain) /\ x.chain[i] = q.chain[i + 1]
                                   /\ 1 < i + 1 /\ ~(i + 1 < 1)
      /\ NothingNew(q.chain, x.chain)
  BY <1>1, FirstOfChain
<1>3. \A i \in Items(x.chain) : /\ Ordered(q, 1, q.chain[1], i + 1, x.chain[i])
                                /\ Ordered(q, i + 1, x.chain[i], 1, q.chain[1])
                                /\ x.chain[i].epoch \in 0 .. k.epoch
  BY <1>1, <1>2 DEF AnswerOrder, PcOK, ChainOK
<1>4. Without(x.chain, {"createAnswer"})
  BY <1>2, <1>3 DEF Ordered, Without
<1>5. \A i \in Items(x.chain) :
        /\ x.chain[i].op = "setRemote" => q.chain[1].epoch < x.chain[i].epoch
        /\ x.chain[i].op = "setLocal" => x.chain[i].epoch < q.chain[1].epoch
  BY <1>2, <1>3 DEF Ordered
<1>6. AnswerOrder(x)
  BY <1>1, <1>4, AnswersShorter
<1>7. DirectFits(x)
  BY <1>1, <1>2 DEF DirectFits
<1>8. ChainOK(x.chain, m.epoch, JoinerOps)
  BY <1>1, ChainShorter DEF PcOK
<1>9. k.epoch \notin k.applied
  BY <1>1, <1>2 DEF AppliedOK, Without
<1>10. q.chain[1].epoch = k.epoch => Without(x.chain, {"setRemote"})
  BY <1>1, <1>3, <1>5 DEF Without, EpochsOK
<1>11. AppliedOK(m, x)
  BY <1>9, <1>10 DEF AppliedOK
<1>12. JoinerOK(m, x)
  BY <1>1, <1>2, <1>6, <1>7, <1>8, <1>11 DEF JoinerOK, PcOK, EpochsOK
<1>13. ~Answered(l, p, v)
  BY <1>1, <1>2 DEF AnswersOK, Without
<1>14. Between(l, p, v, m, x, w)
  BY <1>2, BetweenJoiner DEF Agreed
<1>15. q.chain[1].epoch = k.epoch => Answerable(x, k.epoch)
  BY <1>2, <1>4, <1>5, <1>10 DEF Answerable, Without
<1> QED
  BY <1>12, <1>13, <1>14, <1>15 DEF Agreed

(* A candidate more in the chain does not change that. *)
LEMMA StillAnswerable ==
  ASSUME NEW p, NEW x, NEW e, Answerable(p, e), There(x), x.remote = p.remote,
         NothingNew(p.chain, x.chain)
  PROVE  Answerable(x, e)
<1>1. Without(x.chain, {"setRemote", "createAnswer"})
  <2>1. {"setRemote", "createAnswer"} \cap Additions = {}
    BY DEF Additions
  <2> QED
    BY <2>1, NewWithout DEF Answerable
<1>2. \A i \in Items(x.chain) : x.chain[i].op = "setLocal" => x.chain[i].epoch < e
  BY DEF Answerable, NothingNew, Additions
<1> QED
  BY <1>1, <1>2 DEF Answerable

(* An answer is asked for. *)
LEMMA AnswerAsked ==
  ASSUME NEW l, NEW p, NEW v, NEW k, NEW q, NEW w, Agreed(l, p, v, k, q, w),
         ~Answered(l, p, v), Answerable(q, k.epoch),
         NEW o, DOMAIN o = OpFields, o.op = "createAnswer", o.epoch = k.epoch,
         NEW x, DOMAIN x = PcFields, Longer(q.chain, x.chain, o), There(x) <=> There(q),
         x.signaling = q.signaling, x.local = q.local, x.remote = q.remote, x.made = q.made
  PROVE  Agreed(l, p, v, k, x, w)
<1>1. /\ PcOK(q, k.epoch, JoinerOps) /\ AnswerOrder(q) /\ DirectFits(q) /\ AppliedOK(k, q)
      /\ EpochsOK(k)
  BY DEF Agreed, JoinerOK
<1>2. AnswerOrder(x)
  BY <1>1, AnswersLonger DEF Answerable
<1>3. DirectFits(x)
  BY <1>1, FitsLonger
<1>4. ChainOK(x.chain, k.epoch, JoinerOps) /\ Without(x.chain, {"setRemote"})
  <2>1. o.op \in JoinerOps /\ o.epoch \in 0 .. k.epoch /\ o.op \notin {"setRemote"}
    BY <1>1 DEF JoinerOps, EpochsOK
  <2>2. Without(q.chain, {"setRemote"})
    BY DEF Answerable, Without
  <2> QED
    BY <1>1, <2>1, <2>2, ChainLonger DEF PcOK
<1>5. JoinerOK(k, x)
  BY <1>1, <1>2, <1>3, <1>4 DEF JoinerOK, PcOK, AppliedOK, Answerable
<1>6. AnswersOK(l, p, v, k, x)
  BY DEF AnswersOK
<1> QED
  BY <1>5, <1>6 DEF Agreed, Between

(* It is made: the connection with its head settled, then chained. *)
LEMMA AnswerMade ==
  ASSUME NEW l, NEW p, NEW v, NEW k, NEW q, NEW w, Agreed(l, p, v, k, q, w),
         q.chain[1].op = "createAnswer",
         NEW y, DOMAIN y = PcFields, Shorter(q.chain, y.chain), There(y) <=> There(q),
         y.signaling = q.signaling, y.local = q.local, y.remote = q.remote, y.made = q.remote,
         NEW o, DOMAIN o = OpFields, o.op = "setLocal", o.epoch = q.chain[1].epoch,
         NEW x, DOMAIN x = PcFields, Longer(y.chain, x.chain, o), There(x) <=> There(y),
         x.signaling = y.signaling, x.local = y.local, x.remote = y.remote, x.made = y.made
  PROVE  Agreed(l, p, v, k, x, w)
<1>1. /\ PcOK(q, k.epoch, JoinerOps) /\ AnswerOrder(q) /\ DirectFits(q) /\ AppliedOK(k, q)
      /\ EpochsOK(k) /\ AnswersOK(l, p, v, k, q)
  BY DEF Agreed, JoinerOK, Between
<1>2. /\ There(q) /\ 1 \in Items(q.chain) /\ q.chain[1].epoch \in 0 .. k.epoch
      /\ \A i \in Items(y.chain) : /\ i + 1 \in Items(q.chain) /\ y.chain[i] = q.chain[i + 1]
                                   /\ 1 < i + 1 /\ ~(i + 1 < 1) /\ i + 1 # 1
      /\ NothingNew(q.chain, y.chain)
  BY <1>1, FirstOfChain
<1>3. \A i \in Items(y.chain) : Ordered(q, 1, q.chain[1], i + 1, y.chain[i])
  BY <1>1, <1>2 DEF AnswerOrder
<1>4. /\ Without(y.chain, {"setLocal", "createAnswer"})
      /\ \A i \in Items(y.chain) : y.chain[i].op = "setRemote" => o.epoch < y.chain[i].epoch
  BY <1>2, <1>3 DEF Ordered, Without
<1>5. o.epoch = y.made
  BY <1>1, <1>2 DEF AnswerOrder, Ordered
<1>6. AnswerOrder(y)
  <2>1. Without(y.chain, {"setLocal"})
    BY <1>4 DEF Without
  <2> QED
    BY <1>1, <2>1, AnswersShorter
<1>7. AnswerOrder(x)
  BY <1>4, <1>5, <1>6, AnswersLonger
<1>8. DirectFits(x)
  BY <1>1, FitsShorter, FitsLonger
<1>9. /\ ChainOK(x.chain, k.epoch, JoinerOps)
      /\ Without(q.chain, {"setRemote"}) => Without(x.chain, {"setRemote"})
  <2>1. o.op \in JoinerOps /\ o.epoch \in 0 .. k.epoch /\ o.op \notin {"setRemote"}
    BY <1>2 DEF JoinerOps
  <2>2. /\ ChainOK(y.chain, k.epoch, JoinerOps)
        /\ Without(q.chain, {"setRemote"}) => Without(y.chain, {"setRemote"})
    BY <1>1, ChainShorter DEF PcOK
  <2> QED
    BY <2>1, <2>2, ChainLonger
<1>10. JoinerOK(k, x)
  BY <1>1, <1>2, <1>7, <1>8, <1>9 DEF JoinerOK, PcOK, AppliedOK
<1>11. ~Answered(l, p, v)
  BY <1>1, <1>2 DEF AnswersOK, Without
<1>12. AnswersOK(l, p, v, k, x)
  BY <1>11 DEF AnswersOK
<1> QED
  BY <1>10, <1>12 DEF Agreed, Between

(* It is set. *)
LEMMA AnswerTold ==
  ASSUME NEW l, NEW p, NEW v, NEW k, NEW q, NEW w, Agreed(l, p, v, k, q, w),
         q.chain[1].op = "setLocal",
         NEW x, DOMAIN x = PcFields, Shorter(q.chain, x.chain), There(x) <=> There(q),
         x.signaling = "stable", x.local = q.made, x.remote = q.remote, x.made = q.made
  PROVE  /\ Agreed(l, p, v, k, x, w) /\ ~Answered(l, p, v)
         /\ q.chain[1].epoch = k.epoch =>
              /\ x.local = k.epoch
              /\ Without(x.chain, {"setRemote", "createAnswer", "setLocal"})
<1>1. /\ PcOK(q, k.epoch, JoinerOps) /\ AnswerOrder(q) /\ EpochsOK(k) /\ AnswersOK(l, p, v, k, q)
  BY DEF Agreed, JoinerOK, Between
<1>2. /\ There(q) /\ 1 \in Items(q.chain) /\ q.chain[1].epoch \in 0 .. k.epoch
      /\ \A i \in Items(x.chain) : /\ i + 1 \in Items(q.chain) /\ x.chain[i] = q.chain[i + 1]
                                   /\ i + 1 # 1
      /\ NothingNew(q.chain, x.chain)
  BY <1>1, FirstOfChain
<1>3. \A i \in Items(x.chain) : /\ Ordered(q, 1, q.chain[1], i + 1, x.chain[i])
                                /\ x.chain[i].epoch \in 0 .. k.epoch
  BY <1>1, <1>2 DEF AnswerOrder, PcOK, ChainOK
<1>4. q.chain[1].epoch = q.made
  BY <1>1, <1>2 DEF AnswerOrder, Ordered
<1>5. q.chain[1].epoch = k.epoch => Without(x.chain, {"setRemote", "createAnswer", "setLocal"})
  BY <1>1, <1>2, <1>3 DEF Ordered, Without, EpochsOK
<1>6. JoinerOK(k, x)
  BY QuietJoiner, <1>1 DEF Agreed, QuietChain, JoinerOK, EpochsOK
<1>7. ~Answered(l, p, v)
  BY <1>1, <1>2 DEF AnswersOK, Without
<1>8. AnswersOK(l, p, v, k, x)
  BY <1>7 DEF AnswersOK
<1> QED
  BY <1>4, <1>5, <1>6, <1>7, <1>8 DEF Agreed, Between

-----------------------------------------------------------------------------
(* What the actions write *)

(* What was said above, of the two ends as they are. *)
Agree == Agreed(link["creator"], pc["creator"], wire["creator"],
                link["joiner"], pc["joiner"], wire["joiner"])

(* Each end has a link, a connection and a queue. *)
Shaped == DOMAIN link = Roles /\ DOMAIN pc = Roles /\ DOMAIN wire = Roles

(* A step at the creator, and one at the joiner. *)
LEMMA CreatorWrites ==
  ASSUME Shaped, NEW m, NEW x, Becomes("creator", m, x)
  PROVE  /\ link'["creator"] = m /\ pc'["creator"] = x
         /\ link'["joiner"] = link["joiner"] /\ pc'["joiner"] = pc["joiner"]
BY DEF Shaped, Becomes, Roles

LEMMA JoinerWrites ==
  ASSUME Shaped, NEW m, NEW x, Becomes("joiner", m, x)
  PROVE  /\ link'["joiner"] = m /\ pc'["joiner"] = x
         /\ link'["creator"] = link["creator"] /\ pc'["creator"] = pc["creator"]
BY DEF Shaped, Becomes, Roles

(* One queue is written. *)
LEMMA WireWritten ==
  ASSUME Shaped, NEW r \in Roles, NEW s, wire' = [wire EXCEPT ![r] = s]
  PROVE  /\ wire'[r] = s
         /\ \A t \in Roles \ {r} : wire'[t] = wire[t]
         /\ r = "creator" => wire'["joiner"] = wire["joiner"]
         /\ r = "joiner" => wire'["creator"] = wire["creator"]
BY DEF Shaped, Roles

(* What a peer relays is in the other's queue, or lost. *)
LEMMA CreatorRelays ==
  ASSUME Shaped, NEW m, wire' = Relayed("creator", m)
  PROVE  /\ wire'["creator"] = wire["creator"]
         /\ wire'["joiner"] = wire["joiner"] \/ wire'["joiner"] = Append(wire["joiner"], m)
<1>1. Other("creator") = "joiner" /\ "joiner" \in Roles
  BY DEF Other, Roles
<1>2. wire' = wire \/ wire' = [wire EXCEPT !["joiner"] = Append(wire["joiner"], m)]
  BY <1>1, Zenon DEF Relayed
<1> QED
  BY <1>1, <1>2, WireWritten

LEMMA JoinerRelays ==
  ASSUME Shaped, NEW m, wire' = Relayed("joiner", m)
  PROVE  /\ wire'["joiner"] = wire["joiner"]
         /\ wire'["creator"] = wire["creator"] \/ wire'["creator"] = Append(wire["creator"], m)
<1>1. Other("joiner") = "creator" /\ "creator" \in Roles
  BY DEF Other, Roles
<1>2. wire' = wire \/ wire' = [wire EXCEPT !["creator"] = Append(wire["creator"], m)]
  BY <1>1, Zenon DEF Relayed
<1> QED
  BY <1>1, <1>2, WireWritten

(* The fields a step of the connection writes. *)
LEMMA SettledParts ==
  ASSUME NEW p, DOMAIN p = PcFields, IsSeq(p.chain), p.chain # <<>>
  PROVE  /\ DOMAIN Settled(p) = PcFields /\ Shorter(p.chain, Settled(p).chain)
         /\ There(Settled(p)) <=> There(p)
         /\ Settled(p).signaling = p.signaling /\ Settled(p).made = p.made
         /\ Settled(p).local = p.local /\ Settled(p).remote = p.remote
         /\ Head(p.chain) = p.chain[1]
<1>1. Settled(p).chain = Tail(p.chain)
  BY DEF Settled, PcFields
<1>2. Shorter(p.chain, Tail(p.chain)) /\ Head(p.chain) = p.chain[1]
  BY TailShorter
<1>3. /\ DOMAIN Settled(p) = PcFields
      /\ There(Settled(p)) <=> There(p)
      /\ Settled(p).signaling = p.signaling /\ Settled(p).made = p.made
      /\ Settled(p).local = p.local /\ Settled(p).remote = p.remote
  BY DEF Settled, PcFields, There
<1> QED
  BY <1>1, <1>2, <1>3

(* What a step makes of a link without touching what it has negotiated. *)
Keeps(l, m) == DOMAIN m = LinkFields /\ m.epoch = l.epoch /\ m.applied = l.applied

(* So do the steps that are not about descriptions. *)
LEMMA LinkSteps ==
  ASSUME NEW l, DOMAIN l = LinkFields, NEW s
  PROVE  /\ Keeps(l, l) /\ Keeps(l, Fail(l)) /\ Keeps(l, ArmTimer(l))
         /\ Keeps(l, ConnectedLink(l)) /\ Keeps(l, WaitAgain(l))
         /\ Keeps(l, [l EXCEPT !.snapshot = s]) /\ Keeps(l, [l EXCEPT !.started = s])
         /\ Keeps(l, [l EXCEPT !.timer = s]) /\ Keeps(l, [l EXCEPT !.pending = s])
         /\ Keeps(l, [l EXCEPT !.closed = TRUE, !.timer = FALSE])
<1>1. /\ DOMAIN [l EXCEPT !.offerWaits = @ + 1] = LinkFields
      /\ [l EXCEPT !.offerWaits = @ + 1].epoch = l.epoch
      /\ [l EXCEPT !.offerWaits = @ + 1].applied = l.applied
  BY DEF LinkFields
<1>2. Keeps(l, WaitAgain(l))
  BY <1>1 DEF Keeps, LinkFields, WaitAgain, ArmTimer
<1>3. /\ Keeps(l, l) /\ Keeps(l, Fail(l)) /\ Keeps(l, ArmTimer(l)) /\ Keeps(l, ConnectedLink(l))
      /\ Keeps(l, [l EXCEPT !.snapshot = s]) /\ Keeps(l, [l EXCEPT !.started = s])
      /\ Keeps(l, [l EXCEPT !.timer = s]) /\ Keeps(l, [l EXCEPT !.pending = s])
      /\ Keeps(l, [l EXCEPT !.closed = TRUE, !.timer = FALSE])
  BY DEF LinkFields, Fail, ArmTimer, ConnectedLink, Keeps
<1> QED
  BY <1>2, <1>3

(* One after the other. *)
LEMMA KeepsBoth == ASSUME NEW l, NEW m, NEW n, Keeps(l, m), Keeps(m, n) PROVE Keeps(l, n)
BY DEF Keeps

(* markRemoteApplied adds the epoch to those applied. *)
LEMMA MarkedParts ==
  ASSUME NEW l, DOMAIN l = LinkFields, NEW e
  PROVE  /\ DOMAIN Marked(l, e) = LinkFields /\ Marked(l, e).epoch = l.epoch
         /\ Marked(l, e).applied = l.applied \cup {e}
<1> DEFINE a == l.applied \cup {e}
           s == SelectSeq(l.pending, LAMBDA c : c.stamp > e)
<1>1. Marked(l, e) = [l EXCEPT !.applied = a, !.pending = s]
  BY Zenon DEF Marked
<1> HIDE DEF a, s
<1>2. /\ DOMAIN Marked(l, e) = LinkFields /\ Marked(l, e).epoch = l.epoch
      /\ Marked(l, e).applied = a
  BY <1>1 DEF LinkFields
<1> QED
  BY <1>2 DEF a

(* The fields of a candidate's operation. *)
LEMMA AddOpParts ==
  ASSUME NEW name, NEW s
  PROVE  /\ DOMAIN AddOp(name, s) = OpFields /\ AddOp(name, s).op = name
         /\ AddOp(name, s).epoch = 0 /\ AddOp(name, s).queue = s
BY DEF AddOp, OpFields

-----------------------------------------------------------------------------
(* Steps of either end that are not about a description *)

(* At the creator. *)
LEMMA CreatorQuiet ==
  ASSUME NEW l, NEW p, NEW v, NEW k, NEW q, NEW w, Agreed(l, p, v, k, q, w),
         NEW m, DOMAIN m = LinkFields, m.epoch = l.epoch, m.applied = l.applied,
         NEW x, DOMAIN x = PcFields, There(x) <=> There(p), x.signaling = p.signaling,
         x.local = p.local, x.remote = p.remote, QuietChain(p, x)
  PROVE  Agreed(m, x, v, k, q, w)
<1>1. CreatorOK(m, x)
  BY QuietCreator DEF Agreed
<1>2. Between(m, x, v, k, q, w)
  BY QuietIsOld, BetweenCreator DEF Agreed
<1> QED
  BY <1>1, <1>2 DEF Agreed

(* At the joiner. *)
LEMMA JoinerQuiet ==
  ASSUME NEW l, NEW p, NEW v, NEW k, NEW q, NEW w, Agreed(l, p, v, k, q, w),
         NEW m, DOMAIN m = LinkFields, m.epoch = k.epoch, m.applied = k.applied,
         NEW x, DOMAIN x = PcFields, There(x) <=> There(q), x.signaling = q.signaling,
         x.local = q.local, x.remote = q.remote, x.made = q.made, QuietChain(q, x)
  PROVE  Agreed(l, p, v, m, x, w)
<1>1. JoinerOK(m, x)
  BY QuietJoiner DEF Agreed, JoinerOK, PcOK
<1>2. Between(l, p, v, m, x, w)
  BY QuietIsOld, BetweenJoiner DEF Agreed
<1> QED
  BY <1>1, <1>2 DEF Agreed

(* A candidate is handed to the connection. *)
LEMMA CandidateChained ==
  ASSUME NEW p, DOMAIN p = PcFields, IsSeq(p.chain), NEW o, Addition(p, o)
  PROVE  LET x == Chained(p, o)
         IN /\ DOMAIN x = PcFields /\ (There(x) <=> There(p)) /\ x.signaling = p.signaling
            /\ x.local = p.local /\ x.remote = p.remote /\ x.made = p.made
            /\ QuietChain(p, x)
BY ChainedParts DEF QuietChain

(* So is the queue of those that came before their description. *)
LEMMA Flushed ==
  ASSUME NEW p, DOMAIN p = PcFields, IsSeq(p.chain), There(p), NEW s
  PROVE  LET x == FlushInto(p, s)
         IN /\ DOMAIN x = PcFields /\ There(x) /\ x.signaling = p.signaling
            /\ x.local = p.local /\ x.remote = p.remote /\ x.made = p.made
            /\ QuietChain(p, x)
<1> DEFINE o == AddOp("addQueued", s)
<1>1. Addition(p, o)
  BY AddOpParts DEF Addition, Additions
<1> HIDE DEF o
<1>2. FlushInto(p, s) = p \/ FlushInto(p, s) = Chained(p, o)
  BY Zenon DEF FlushInto, o
<1>3. CASE FlushInto(p, s) = p
  BY <1>3 DEF QuietChain
<1>4. CASE FlushInto(p, s) = Chained(p, o)
  BY <1>1, <1>4, CandidateChained
<1> QED
  BY <1>2, <1>3, <1>4

-----------------------------------------------------------------------------
(* One lemma per action: the two ends still agree after it. *)

(* The shapes that the steps below rest on. *)
LEMMA Parts ==
  ASSUME Agree
  PROVE  /\ \A r \in Roles : /\ DOMAIN link[r] = LinkFields /\ DOMAIN pc[r] = PcFields
                             /\ IsSeq(pc[r].chain) /\ IsSeq(wire[r])
                             /\ link[r].epoch \in Nat
                             /\ pc[r].chain # <<>> => There(pc[r])
         /\ "creator" \in Roles /\ "joiner" \in Roles
         /\ link["joiner"].epoch <= link["creator"].epoch
BY SMTT(30) DEF Agree, Agreed, CreatorOK, JoinerOK, EpochsOK, PcOK, ChainOK, Between, QueueOK, Roles

(* No queue is touched. *)
LEMMA SameWire ==
  ASSUME wire' = wire
  PROVE  wire'["creator"] = wire["creator"] /\ wire'["joiner"] = wire["joiner"]
OBVIOUS

(* An event is taken from a queue. *)
LEMMA Reads ==
  ASSUME Shaped, Agree, NEW r \in Roles, wire[r] # <<>>, wire' = [wire EXCEPT ![r] = Tail(@)]
  PROVE  /\ Shorter(wire[r], wire'[r]) /\ Head(wire[r]) = wire[r][1] /\ 1 \in Items(wire[r])
         /\ r = "creator" => wire'["joiner"] = wire["joiner"]
         /\ r = "joiner" => wire'["creator"] = wire["creator"]
         /\ Agreed(link["creator"], pc["creator"], wire'["creator"],
                   link["joiner"], pc["joiner"], wire'["joiner"])
<1>1. IsSeq(wire[r])
  BY Parts
<1>2. Shorter(wire[r], Tail(wire[r])) /\ Head(wire[r]) = wire[r][1] /\ 1 \in Items(wire[r])
  BY <1>1, TailShorter
<1>3. /\ wire'[r] = Tail(wire[r])
      /\ r = "creator" => wire'["joiner"] = wire["joiner"]
      /\ r = "joiner" => wire'["creator"] = wire["creator"]
  BY WireWritten
<1>4. CASE r = "creator"
  BY <1>2, <1>3, <1>4, CreatorReads DEF Agree
<1>5. CASE r = "joiner"
  BY <1>2, <1>3, <1>5, JoinerReads DEF Agree
<1> QED
  BY <1>2, <1>3, <1>4, <1>5 DEF Roles

(* A link is written that negotiates nothing. *)
LEMMA LinkWritten ==
  ASSUME Shaped, NEW r \in Roles, NEW m, Keeps(link[r], m),
         (link' = [link EXCEPT ![r] = m] /\ pc' = pc) \/ Becomes(r, m, pc[r]),
         Agreed(link["creator"], pc["creator"], wire'["creator"],
                link["joiner"], pc["joiner"], wire'["joiner"])
  PROVE  Agree'
<1>1. CASE r = "creator"
  <2>1. /\ link'["creator"] = m /\ link'["joiner"] = link["joiner"]
        /\ pc'["creator"] = pc["creator"] /\ pc'["joiner"] = pc["joiner"]
    BY <1>1 DEF Shaped, Roles, Becomes
  <2> QED
    BY <1>1, <2>1, CreatorLink DEF Agree, Keeps
<1>2. CASE r = "joiner"
  <2>1. /\ link'["joiner"] = m /\ link'["creator"] = link["creator"]
        /\ pc'["creator"] = pc["creator"] /\ pc'["joiner"] = pc["joiner"]
    BY <1>2 DEF Shaped, Roles, Becomes
  <2> QED
    BY <1>2, <2>1, JoinerLink DEF Agree, Keeps
<1> QED
  BY <1>1, <1>2 DEF Roles

(* A negotiation begins. *)
LEMMA StartAgrees ==
  ASSUME Shaped, NEW m, Keeps(link["creator"], m),
         NEW new, StartNegotiation(m, pc["creator"], new),
         Agreed(link["creator"], pc["creator"], wire'["creator"],
                link["joiner"], pc["joiner"], wire'["joiner"])
  PROVE  Agree'
<1> DEFINE n == Negotiating(m, pc["creator"], new)
           x == OfferAsked(m, pc["creator"], new)
<1>1. Agreed(m, pc["creator"], wire'["creator"], link["joiner"], pc["joiner"], wire'["joiner"])
  BY CreatorLink DEF Keeps
<1>2. Agreed(n, x, wire'["creator"], link["joiner"], pc["joiner"], wire'["joiner"])
  BY <1>1, Negotiated
<1>3. Becomes("creator", n, x)
  BY DEF StartNegotiation
<1> HIDE DEF n, x
<1>4. /\ link'["creator"] = n /\ pc'["creator"] = x
      /\ link'["joiner"] = link["joiner"] /\ pc'["joiner"] = pc["joiner"]
  BY <1>3, CreatorWrites
<1> QED
  BY <1>2, <1>4 DEF Agree

(* The room and the hook. *)
LEMMA AttachAgrees == ASSUME Shaped, Agree, Attach PROVE Agree'
<1> DEFINE s == IF paired THEN "paired" ELSE "waiting"
           m == [link["creator"] EXCEPT !.snapshot = s]
<1>1. link' = [link EXCEPT !["creator"] = m] /\ pc' = pc /\ wire' = wire
  BY SMT DEF Attach
<1> HIDE DEF s
<1>2. Keeps(link["creator"], m)
  <2>1. DOMAIN link["creator"] = LinkFields
    BY Parts
  <2> QED
    BY <2>1 DEF Keeps, LinkFields
<1> HIDE DEF m
<1> QED
  BY <1>1, <1>2, Parts, SameWire, LinkWritten DEF Agree

(* The joiner joins; the creator may hear of it. *)
LEMMA JoinAgrees == ASSUME Shaped, Agree, Join PROVE Agree'
<1> DEFINE m == [link["joiner"] EXCEPT !.snapshot = "paired"]
<1>1. /\ link' = [link EXCEPT !["joiner"] = m] /\ pc' = pc
      /\ \/ wire' = wire
         \/ wire' = [wire EXCEPT !["creator"] = Append(wire["creator"], Plain("peer_joined"))]
  BY SMT DEF Join
<1>2. Keeps(link["joiner"], m)
  <2>1. DOMAIN link["joiner"] = LinkFields
    BY Parts
  <2> QED
    BY <2>1 DEF Keeps, LinkFields
<1> HIDE DEF m
<1>3. wire'["joiner"] = wire["joiner"] /\ wire'["creator"] \in
        {wire["creator"], Append(wire["creator"], Plain("peer_joined"))}
  BY <1>1, Parts, WireWritten
<1>4. Agreed(link["creator"], pc["creator"], wire'["creator"],
             link["joiner"], pc["joiner"], wire'["joiner"])
  BY <1>3, PlainArrives DEF Agree
<1> QED
  BY <1>1, <1>2, <1>4, Parts, LinkWritten

(* The link starts, and with it a negotiation if the other peer is there. *)
LEMMA StartStepAgrees == ASSUME Shaped, Agree, NEW r \in Roles, Start(r) PROVE Agree'
<1> DEFINE l == [link[r] EXCEPT !.started = TRUE]
<1>1. /\ wire' = wire
      /\ \/ r = "creator" /\ StartNegotiation(l, pc[r], TRUE)
         \/ Becomes(r, ArmTimer(l), pc[r])
         \/ Becomes(r, l, pc[r])
  BY Zenon DEF Start
<1>2. Keeps(link[r], l)
  <2>1. DOMAIN link[r] = LinkFields
    BY Parts
  <2> QED
    BY <2>1 DEF Keeps, LinkFields
<1> HIDE DEF l
<1>3. Keeps(link[r], ArmTimer(l))
  BY <1>2, LinkSteps, KeepsBoth DEF Keeps
<1>4. Agreed(link["creator"], pc["creator"], wire'["creator"],
             link["joiner"], pc["joiner"], wire'["joiner"])
  BY <1>1, SameWire DEF Agree
<1>5. CASE r = "creator" /\ StartNegotiation(l, pc[r], TRUE)
  BY <1>2, <1>4, <1>5, StartAgrees
<1>6. ASSUME NEW m \in {l, ArmTimer(l)}, Becomes(r, m, pc[r]) PROVE Agree'
  <2>1. Keeps(link[r], m)
    BY <1>2, <1>3, <1>6
  <2> QED
    BY <1>4, <1>6, <2>1, LinkWritten
<1> QED
  BY <1>1, <1>5, <1>6

(* A socket is lost: one queue starts again, the other is cut off. *)
LEMMA DropAgrees == ASSUME Shaped, Agree, NEW r \in Roles, Drop(r) PROVE Agree'
<1>1. PICK n : /\ wire' = [wire EXCEPT ![r] = <<>>, ![Other(r)] = CutOff(@, n)]
               /\ link' = link /\ pc' = pc
  BY Zenon DEF Drop
<1>2. Blanked(wire["creator"], CutOff(wire["creator"], n)) /\ Blanked(wire["joiner"], CutOff(wire["joiner"], n))
  BY Parts, CutOffBlanks
<1>3. CASE r = "creator"
  <2>1. wire'["creator"] = <<>> /\ wire'["joiner"] = CutOff(wire["joiner"], n)
    BY <1>1, <1>3 DEF Shaped, Roles, Other
  <2> QED
    BY <1>1, <1>2, <2>1, EmptyQueues, BlankedJoiner DEF Agree
<1>4. CASE r = "joiner"
  <2>1. wire'["joiner"] = <<>> /\ wire'["creator"] = CutOff(wire["creator"], n)
    BY <1>1, <1>4 DEF Shaped, Roles, Other
  <2> QED
    BY <1>1, <1>2, <2>1, EmptyQueues, BlankedCreator DEF Agree
<1> QED
  BY <1>3, <1>4 DEF Roles

(* A client attaches again: its queue is the snapshot. *)
LEMMA ReattachAgrees == ASSUME Shaped, Agree, NEW r \in Roles, Reattach(r) PROVE Agree'
<1> DEFINE type == IF paired THEN "attached_paired" ELSE "attached_waiting"
<1>1. link' = link /\ pc' = pc /\ wire' = [wire EXCEPT ![r] = <<Plain(type)>>]
  BY Zenon DEF Reattach
<1>2. type \notin {"offer", "answer", "ice"}
  OBVIOUS
<1> HIDE DEF type
<1>3. CASE r = "creator"
  <2>1. wire'["creator"] = <<Plain(type)>> /\ wire'["joiner"] = wire["joiner"]
    BY <1>1, <1>3, WireWritten
  <2> QED
    BY <1>1, <1>2, <2>1, PlainArrives DEF Agree
<1>4. CASE r = "joiner"
  <2>1. wire'["joiner"] = <<Plain(type)>> /\ wire'["creator"] = wire["creator"]
    BY <1>1, <1>4, WireWritten
  <2> QED
    BY <1>1, <1>2, <2>1, PlainArrives DEF Agree
<1> QED
  BY <1>3, <1>4 DEF Roles

(* What the server answers to a sync_request. *)
LEMMA SyncAgrees ==
  ASSUME Shaped, Agree, NEW r \in Roles, wire' = SyncAnswered(r)
  PROVE  Agreed(link["creator"], pc["creator"], wire'["creator"],
                link["joiner"], pc["joiner"], wire'["joiner"])
<1> DEFINE type == IF paired THEN "room_paired" ELSE "room_waiting"
           s == [wire EXCEPT ![r] = Append(@, Plain(type))]
<1>1. \/ wire' = wire
      \/ wire' = s
      \/ r = "joiner" /\ wire' = [s EXCEPT !["creator"] = Append(s["creator"], Plain("peer_joined"))]
  BY Zenon DEF SyncAnswered
<1>2. type \notin {"offer", "answer", "ice"}
  OBVIOUS
<1> HIDE DEF type
<1>3. r = "creator" \/ r = "joiner"
  BY DEF Roles
<1>4. \/ wire'["creator"] = wire["creator"] /\ wire'["joiner"] = wire["joiner"]
      \/ wire'["creator"] = Append(wire["creator"], Plain(type)) /\ wire'["joiner"] = wire["joiner"]
      \/ wire'["creator"] = wire["creator"] /\ wire'["joiner"] = Append(wire["joiner"], Plain(type))
      \/ /\ wire'["creator"] = Append(wire["creator"], Plain("peer_joined"))
         /\ wire'["joiner"] = Append(wire["joiner"], Plain(type))
  BY <1>1, <1>3, SMT DEF Shaped, Roles
<1>5. Agreed(link["creator"], pc["creator"], wire["creator"],
             link["joiner"], pc["joiner"], Append(wire["joiner"], Plain(type)))
  BY <1>2, PlainArrives DEF Agree
<1>6. Agreed(link["creator"], pc["creator"], Append(wire["creator"], Plain("peer_joined")),
             link["joiner"], pc["joiner"], Append(wire["joiner"], Plain(type)))
  BY <1>5, PlainArrives
<1> QED
  BY <1>2, <1>4, <1>5, <1>6, PlainArrives DEF Agree

(* The sync button. *)
LEMMA UserSyncsAgrees == ASSUME Shaped, Agree, NEW r \in Roles, UserSyncs(r) PROVE Agree'
<1>1. link' = link /\ pc' = pc /\ wire' = SyncAnswered(r)
  BY Zenon DEF UserSyncs
<1> QED
  BY <1>1, SyncAgrees DEF Agree

(* The restart button. *)
LEMMA RestartAgrees == ASSUME Shaped, Agree, RestartIce PROVE Agree'
<1>1. StartNegotiation(link["creator"], pc["creator"], FALSE) /\ wire' = wire
  BY Zenon DEF RestartIce
<1>2. Keeps(link["creator"], link["creator"])
  BY Parts DEF Keeps
<1> QED
  BY <1>1, <1>2, SameWire, StartAgrees DEF Agree

(* A link is closed, and its connection with it. *)
LEMMA CreatorClosed ==
  ASSUME NEW l, NEW p, NEW v, NEW k, NEW q, NEW w, Agreed(l, p, v, k, q, w), NEW m, Keeps(l, m)
  PROVE  Agreed(m, NoPc, <<>>, k, q, w)
<1>1. CreatorOK(m, NoPc)
  BY FreshPc, EmptyChain DEF Agreed, CreatorOK, PcOK, EpochsOK, AppliedOK, Keeps
<1>2. OffersOK(m, NoPc, k, w) /\ NothingNew(p.chain, NoPc.chain)
  BY FreshPc, Lengths DEF OffersOK, NothingNew
<1>3. Between(m, NoPc, v, k, q, w)
  BY <1>2, BetweenRest DEF Agreed, Keeps
<1> QED
  BY <1>1, <1>3, EmptyQueues DEF Agreed

(* The same at the joiner. *)
LEMMA JoinerClosed ==
  ASSUME NEW l, NEW p, NEW v, NEW k, NEW q, NEW w, Agreed(l, p, v, k, q, w), NEW m, Keeps(k, m)
  PROVE  Agreed(l, p, v, m, NoPc, <<>>)
<1>1. JoinerOK(m, NoPc)
  BY FreshPc, EmptyChain DEF Agreed, JoinerOK, PcOK, EpochsOK, AppliedOK, Keeps
<1>2. Agreed(l, p, v, m, q, w)
  BY JoinerLink DEF Keeps
<1>3. AnswersOK(l, p, v, m, NoPc)
  BY <1>2, FreshPc DEF AnswersOK, Agreed, Between
<1> QED
  BY <1>1, <1>2, <1>3, EmptyQueues DEF Agreed, Between

(* Leaving, at either end. *)
LEMMA CloseAgrees == ASSUME Shaped, Agree, NEW r \in Roles, Close(r) PROVE Agree'
<1> DEFINE m == [link[r] EXCEPT !.closed = TRUE, !.timer = FALSE]
<1>1. Becomes(r, m, NoPc) /\ wire' = [wire EXCEPT ![r] = <<>>]
  BY Zenon DEF Close
<1>2. Keeps(link[r], m)
  <2>1. DOMAIN link[r] = LinkFields
    BY Parts
  <2> QED
    BY <2>1 DEF Keeps, LinkFields
<1> HIDE DEF m
<1>3. CASE r = "creator"
  <2>1. /\ link'["creator"] = m /\ pc'["creator"] = NoPc
        /\ link'["joiner"] = link["joiner"] /\ pc'["joiner"] = pc["joiner"]
    BY <1>1, <1>3, CreatorWrites
  <2>2. wire'["creator"] = <<>> /\ wire'["joiner"] = wire["joiner"]
    BY <1>1, <1>3, WireWritten
  <2> QED
    BY <1>2, <1>3, <2>1, <2>2, CreatorClosed DEF Agree
<1>4. CASE r = "joiner"
  <2>1. /\ link'["joiner"] = m /\ pc'["joiner"] = NoPc
        /\ link'["creator"] = link["creator"] /\ pc'["creator"] = pc["creator"]
    BY <1>1, <1>4, JoinerWrites
  <2>2. wire'["joiner"] = <<>> /\ wire'["creator"] = wire["creator"]
    BY <1>1, <1>4, WireWritten
  <2> QED
    BY <1>2, <1>4, <2>1, <2>2, JoinerClosed DEF Agree
<1> QED
  BY <1>3, <1>4 DEF Roles

(* Events that change nothing. *)
LEMMA StillWaitingAgrees == ASSUME Shaped, Agree, NEW r \in Roles, StillWaiting(r) PROVE Agree'
<1>1. wire[r] # <<>> /\ wire' = [wire EXCEPT ![r] = Tail(@)] /\ link' = link /\ pc' = pc
  BY Zenon DEF StillWaiting, Receives
<1> QED
  BY <1>1, Reads DEF Agree

(* Nor do those that find no listener. *)
LEMMA StartsLateAgrees == ASSUME Shaped, Agree, NEW r \in Roles, StartsLate(r) PROVE Agree'
<1>1. wire[r] # <<>> /\ wire' = [wire EXCEPT ![r] = Tail(@)] /\ link' = link /\ pc' = pc
  BY Zenon DEF StartsLate, Receives
<1> QED
  BY <1>1, Reads DEF Agree

(* News of the other peer. *)
LEMMA PeerIsThereAgrees == ASSUME Shaped, Agree, NEW r \in Roles, PeerIsThere(r) PROVE Agree'
<1> DEFINE l == link[r]
           n == Negotiating(l, pc[r], TRUE)
           x == OfferAsked(l, pc[r], TRUE)
<1>1. wire[r] # <<>> /\ wire' = [wire EXCEPT ![r] = Tail(@)]
  BY Zenon DEF PeerIsThere, Receives
<1>2. \/ r = "creator" /\ \E new \in BOOLEAN : StartNegotiation(l, pc[r], new)
      \/ r = "creator" /\ StartNegotiation(n, x, FALSE)
      \/ Becomes(r, ArmTimer(l), pc[r])
      \/ link' = link /\ pc' = pc
  BY Zenon DEF PeerIsThere
<1>3. Agreed(link["creator"], pc["creator"], wire'["creator"],
             link["joiner"], pc["joiner"], wire'["joiner"])
  BY <1>1, Reads
<1>4. Keeps(l, l) /\ Keeps(l, ArmTimer(l))
  <2>1. DOMAIN link[r] = LinkFields
    BY Parts
  <2> QED
    BY <2>1 DEF Keeps, LinkFields, ArmTimer
<1>5. CASE r = "creator" /\ \E new \in BOOLEAN : StartNegotiation(l, pc[r], new)
  BY <1>3, <1>4, <1>5, StartAgrees
<1>6. CASE r = "creator" /\ StartNegotiation(n, x, FALSE)
  <2> DEFINE n2 == Negotiating(n, x, FALSE)
             x2 == OfferAsked(n, x, FALSE)
  <2>1. Agreed(n, x, wire'["creator"], link["joiner"], pc["joiner"], wire'["joiner"])
    BY <1>3, <1>6, Negotiated
  <2>2. Becomes("creator", n2, x2)
    BY <1>6 DEF StartNegotiation
  <2> HIDE DEF l, n, x
  <2>3. Agreed(n2, x2, wire'["creator"], link["joiner"], pc["joiner"], wire'["joiner"])
    BY <2>1, Negotiated
  <2> HIDE DEF n2, x2
  <2> QED
    BY <2>2, <2>3, CreatorWrites DEF Agree
<1>7. CASE Becomes(r, ArmTimer(l), pc[r])
  BY <1>3, <1>4, <1>7, LinkWritten
<1>8. CASE link' = link /\ pc' = pc
  BY <1>3, <1>8 DEF Agree
<1> QED
  BY <1>2, <1>5, <1>6, <1>7, <1>8

(* An offer: it is taken up if it is newer than what the joiner has. *)
LEMMA OfferAgrees == ASSUME Shaped, Agree, Offer PROVE Agree'
<1> DEFINE k == link["joiner"]
           q == pc["joiner"]
           w == wire["joiner"]
           h == Head(w)
           replaced == h.fresh \/ ~q.exists
           a == IF replaced THEN {} ELSE k.applied
           s == IF replaced THEN <<>> ELSE k.pending
           m == [k EXCEPT !.epoch = h.epoch, !.phase = "negotiating", !.timer = FALSE,
                          !.applied = a, !.pending = s]
           b == IF replaced THEN NewPc ELSE q
           o == Op("setRemote", h.epoch, FALSE)
<1>1. /\ w # <<>> /\ h.type = "offer" /\ wire' = [wire EXCEPT !["joiner"] = Tail(@)]
      /\ \/ link' = link /\ pc' = pc
         \/ ~(h.epoch <= k.epoch) /\ Becomes("joiner", m, Chained(b, o))
  <2>1. w # <<>> /\ h.type = "offer" /\ wire' = [wire EXCEPT !["joiner"] = Tail(@)]
    BY SMT DEF Offer, Receives
  <2>2. \/ link' = link /\ pc' = pc
        \/ ~(h.epoch <= k.epoch) /\ Becomes("joiner", m, Chained(b, o))
    BY Zenon DEF Offer
  <2> QED
    BY <2>1, <2>2
<1>2. /\ Shorter(w, wire'["joiner"]) /\ h = w[1] /\ 1 \in Items(w)
      /\ wire'["creator"] = wire["creator"]
      /\ Agreed(link["creator"], pc["creator"], wire'["creator"], k, q, wire'["joiner"])
  BY <1>1, Parts, Reads
<1>3. a \subseteq k.applied /\ (b = NewPc \/ (b = q /\ q.exists))
  BY Zenon
<1>4. b = NewPc \/ (b = q /\ There(q))
  BY <1>3 DEF There
<1>5. DOMAIN k = LinkFields /\ DOMAIN q = PcFields /\ IsSeq(q.chain)
  BY Parts
<1> HIDE DEF replaced, a, s, b
<1>6. DOMAIN m = LinkFields /\ m.epoch = h.epoch /\ m.applied = a
  BY <1>5 DEF LinkFields
<1>7. DOMAIN b = PcFields /\ IsSeq(b.chain) /\ There(b)
  BY <1>4, <1>5, FreshPc, Lengths
<1>8. DOMAIN o = OpFields /\ o.op = "setRemote" /\ o.epoch = h.epoch
  BY DEF Op, OpFields
<1> HIDE DEF o, m
<1>9. CASE link' = link /\ pc' = pc
  BY <1>2, <1>9 DEF Agree
<1>10. CASE ~(h.epoch <= k.epoch) /\ Becomes("joiner", m, Chained(b, o))
  <2> DEFINE x == Chained(b, o)
  <2>1. /\ DOMAIN x = PcFields /\ Longer(b.chain, x.chain, o) /\ There(x)
        /\ x.signaling = b.signaling /\ x.made = b.made
        /\ x.local = b.local /\ x.remote = b.remote
    BY <1>7, ChainedParts
  <2>2. Becomes("joiner", m, x)
    BY <1>10
  <2> HIDE DEF x
  <2>3. /\ link'["joiner"] = m /\ pc'["joiner"] = x
        /\ link'["creator"] = link["creator"] /\ pc'["creator"] = pc["creator"]
    BY <2>2, JoinerWrites
  <2>4. Agreed(link["creator"], pc["creator"], wire["creator"], k, q, w)
    BY DEF Agree
  <2>5. w[1].type = "offer" /\ ~(w[1].epoch <= k.epoch) /\ m.epoch = w[1].epoch
        /\ m.applied \subseteq k.applied /\ o.epoch = w[1].epoch
    BY <1>1, <1>2, <1>3, <1>6, <1>8, <1>10
  <2> HIDE DEF h, k, q, w
  <2>6. Agreed(link["creator"], pc["creator"], wire["creator"], m, x, wire'["joiner"])
    BY <1>2, <1>4, <1>6, <1>8, <2>1, <2>4, <2>5, OfferArrives
  <2> QED
    BY <1>2, <2>3, <2>6 DEF Agree
<1> QED
  BY <1>1, <1>9, <1>10

(* An answer: it is for the connection if it is of the current epoch. *)
LEMMA AnswerAgrees == ASSUME Shaped, Agree, Answer PROVE Agree'
<1> DEFINE l == link["creator"]
           p == pc["creator"]
           v == wire["creator"]
           h == Head(v)
           o == Op("setRemote", h.epoch, FALSE)
<1>1. v # <<>> /\ h.type = "answer" /\ wire' = [wire EXCEPT !["creator"] = Tail(@)]
  BY SMT DEF Answer, Receives
<1>2. \/ Becomes("creator", l, p)
      \/ p.exists /\ h.epoch = l.epoch /\ Becomes("creator", l, Chained(p, o))
  BY Zenon DEF Answer, CurrentAnswer
<1>3. /\ Shorter(v, wire'["creator"]) /\ h = v[1] /\ 1 \in Items(v)
      /\ wire'["joiner"] = wire["joiner"]
      /\ Agreed(l, p, wire'["creator"], link["joiner"], pc["joiner"], wire'["joiner"])
  BY <1>1, Parts, Reads
<1>4. DOMAIN l = LinkFields /\ DOMAIN p = PcFields /\ IsSeq(p.chain)
  BY Parts
<1>5. DOMAIN o = OpFields /\ o.op = "setRemote" /\ o.epoch = h.epoch
  BY DEF Op, OpFields
<1> HIDE DEF o
<1>6. CASE Becomes("creator", l, p)
  BY <1>3, <1>6, CreatorWrites DEF Agree
<1>7. CASE p.exists /\ h.epoch = l.epoch /\ Becomes("creator", l, Chained(p, o))
  <2> DEFINE x == Chained(p, o)
  <2>1. There(p)
    BY <1>7 DEF There
  <2>2. /\ DOMAIN x = PcFields /\ Longer(p.chain, x.chain, o) /\ There(x)
        /\ x.signaling = p.signaling /\ x.local = p.local /\ x.remote = p.remote
    BY <1>4, <2>1, ChainedParts
  <2>3. Becomes("creator", l, x)
    BY <1>7
  <2> HIDE DEF x
  <2>4. /\ link'["creator"] = l /\ pc'["creator"] = x
        /\ link'["joiner"] = link["joiner"] /\ pc'["joiner"] = pc["joiner"]
    BY <2>3, CreatorWrites
  <2>5. Agreed(l, p, v, link["joiner"], pc["joiner"], wire["joiner"])
    BY DEF Agree
  <2>6. AnswerAt(v, 1, l.epoch) /\ o.epoch = l.epoch
    BY <1>1, <1>3, <1>5, <1>7 DEF AnswerAt
  <2> HIDE DEF h, l, p, v
  <2>7. Agreed(l, x, wire'["creator"], link["joiner"], pc["joiner"], wire["joiner"])
    BY <1>3, <1>5, <2>1, <2>2, <2>5, <2>6, AnswerArrives
  <2> QED
    BY <1>3, <2>4, <2>7 DEF Agree
<1> QED
  BY <1>2, <1>6, <1>7

(* A candidate that skips the queue is of the description in place. *)
LEMMA DirectIsAddition ==
  ASSUME Agree, NEW r \in Roles, 1 \in Items(wire[r]),
         wire[r][1].type = "ice", ~(wire[r][1].epoch < link[r].epoch),
         Direct(link[r], pc[r], wire[r][1].epoch)
  PROVE  /\ There(pc[r]) /\ wire[r][1].of = pc[r].remote
         /\ Without(pc[r].chain, {"setRemote"})
<1> DEFINE e == wire[r][1].epoch
<1>1. There(pc[r]) /\ e \in link[r].applied
  BY DEF Direct, There
<1>2. /\ EpochsOK(link[r]) /\ AppliedOK(link[r], pc[r]) /\ QueueOK(wire[r], link["creator"].epoch)
      /\ EpochsOK(link["creator"])
  BY DEF Agree, Agreed, CreatorOK, JoinerOK, Between, Roles
<1>3. e = link[r].epoch
  BY <1>1, <1>2 DEF EpochsOK, QueueOK
<1>4. pc[r].remote = e /\ Without(pc[r].chain, {"setRemote"})
  BY <1>1, <1>2, <1>3 DEF AppliedOK
<1>5. ~Early(wire[r][1])
  <2>1. CASE r = "creator"
    <3>1. EarlyAtCreator(link[r], pc[r], wire[r])
      BY <2>1 DEF Agree, Agreed, Between
    <3> QED
      BY <1>1, <1>3, <3>1 DEF EarlyAtCreator
  <2>2. CASE r = "joiner"
    <3>1. EarlyAtJoiner(link[r], wire[r])
      BY <2>2 DEF Agree, Agreed, Between
    <3>2. ~(link[r].epoch < e)
      BY <1>2, <1>3 DEF EpochsOK
    <3> QED
      BY <3>1, <3>2 DEF EarlyAtJoiner
  <2> QED
    BY <2>1, <2>2 DEF Roles
<1> QED
  BY <1>1, <1>4, <1>5 DEF Early

(* A connection is changed by no description. *)
LEMMA QuietWritten ==
  ASSUME Shaped, NEW r \in Roles, NEW m, Keeps(link[r], m), NEW x, Becomes(r, m, x),
         DOMAIN x = PcFields, There(x) <=> There(pc[r]), x.signaling = pc[r].signaling,
         x.local = pc[r].local, x.remote = pc[r].remote, x.made = pc[r].made,
         QuietChain(pc[r], x),
         Agreed(link["creator"], pc["creator"], wire'["creator"],
                link["joiner"], pc["joiner"], wire'["joiner"])
  PROVE  Agree'
<1>1. CASE r = "creator"
  <2>1. /\ link'["creator"] = m /\ pc'["creator"] = x
        /\ link'["joiner"] = link["joiner"] /\ pc'["joiner"] = pc["joiner"]
    BY <1>1, CreatorWrites
  <2>2. Agreed(m, x, wire'["creator"], link["joiner"], pc["joiner"], wire'["joiner"])
    BY <1>1, CreatorQuiet DEF Keeps
  <2> QED
    BY <2>1, <2>2 DEF Agree
<1>2. CASE r = "joiner"
  <2>1. /\ link'["joiner"] = m /\ pc'["joiner"] = x
        /\ link'["creator"] = link["creator"] /\ pc'["creator"] = pc["creator"]
    BY <1>2, JoinerWrites
  <2>2. Agreed(link["creator"], pc["creator"], wire'["creator"], m, x, wire'["joiner"])
    BY <1>2, JoinerQuiet DEF Keeps
  <2> QED
    BY <2>1, <2>2 DEF Agree
<1> QED
  BY <1>1, <1>2 DEF Roles

(* A candidate is ignored, chained at once, or kept for its description. *)
LEMMA CandidateAgrees == ASSUME Shaped, Agree, NEW r \in Roles, Candidate(r) PROVE Agree'
<1> DEFINE l == link[r]
           p == pc[r]
           h == Head(wire[r])
           c == [stamp |-> h.epoch, of |-> h.of]
           o == AddOp("addDirect", <<c>>)
           s == Append(l.pending, c)
<1>1. wire[r] # <<>> /\ h.type = "ice" /\ wire' = [wire EXCEPT ![r] = Tail(@)]
  BY SMT DEF Candidate, Receives
<1>2. \/ link' = link /\ pc' = pc
      \/ ~(h.epoch < l.epoch) /\ Direct(l, p, h.epoch) /\ Becomes(r, l, Chained(p, o))
      \/ Becomes(r, [l EXCEPT !.pending = s], p)
  BY Zenon DEF Candidate
<1>3. /\ h = wire[r][1] /\ 1 \in Items(wire[r])
      /\ Agreed(link["creator"], pc["creator"], wire'["creator"],
                link["joiner"], pc["joiner"], wire'["joiner"])
  BY <1>1, Reads
<1>4. DOMAIN l = LinkFields /\ DOMAIN p = PcFields /\ IsSeq(p.chain)
  BY Parts
<1>5. CASE link' = link /\ pc' = pc
  BY <1>3, <1>5 DEF Agree
<1>6. CASE ~(h.epoch < l.epoch) /\ Direct(l, p, h.epoch) /\ Becomes(r, l, Chained(p, o))
  <2>1. There(p) /\ h.of = p.remote /\ Without(p.chain, {"setRemote"})
    BY <1>1, <1>3, <1>6, DirectIsAddition
  <2>2. Head(<<c>>) = c /\ c.of = h.of
    OBVIOUS
  <2>3. DOMAIN o = OpFields /\ o.op = "addDirect" /\ o.epoch = 0 /\ o.queue = <<c>>
    BY AddOpParts
  <2>4. Addition(p, o)
    BY <2>1, <2>2, <2>3 DEF Addition, Additions
  <2> DEFINE x == Chained(p, o)
  <2> HIDE DEF o
  <2>5. /\ DOMAIN x = PcFields /\ (There(x) <=> There(p)) /\ x.signaling = p.signaling
        /\ x.local = p.local /\ x.remote = p.remote /\ x.made = p.made
        /\ QuietChain(p, x)
    BY <1>4, <2>4, CandidateChained
  <2>6. Keeps(l, l)
    BY <1>4 DEF Keeps
  <2>7. Becomes(r, l, x)
    BY <1>6
  <2> HIDE DEF x
  <2> QED
    BY <1>3, <2>5, <2>6, <2>7, QuietWritten
<1>7. CASE Becomes(r, [l EXCEPT !.pending = s], p)
  <2> HIDE DEF s
  <2>1. Keeps(l, [l EXCEPT !.pending = s])
    BY <1>4 DEF Keeps, LinkFields
  <2> QED
    BY <1>3, <1>7, <2>1, LinkWritten
<1> QED
  BY <1>2, <1>5, <1>6, <1>7

(* The timer. *)
LEMMA TimerAgrees == ASSUME Shaped, Agree, NEW r \in Roles, TimerFires(r) PROVE Agree'
<1> DEFINE l == [link[r] EXCEPT !.timer = FALSE]
<1>1. wire' = wire \/ wire' = SyncAnswered(r)
  BY Zenon DEF TimerFires
<1>2. \/ r = "creator" /\ StartNegotiation(l, pc[r], FALSE)
      \/ Becomes(r, l, pc[r])
      \/ Becomes(r, Fail(l), pc[r])
      \/ Becomes(r, WaitAgain(l), pc[r])
  BY ZenonT(30) DEF TimerFires
<1>3. Agreed(link["creator"], pc["creator"], wire'["creator"],
             link["joiner"], pc["joiner"], wire'["joiner"])
  BY <1>1, SyncAgrees DEF Agree
<1>4. Keeps(link[r], l)
  <2>1. DOMAIN link[r] = LinkFields
    BY Parts
  <2> QED
    BY <2>1 DEF Keeps, LinkFields
<1> HIDE DEF l
<1>5. Keeps(link[r], Fail(l)) /\ Keeps(link[r], WaitAgain(l))
  BY <1>4, LinkSteps, KeepsBoth DEF Keeps
<1>6. CASE r = "creator" /\ StartNegotiation(l, pc[r], FALSE)
  BY <1>3, <1>4, <1>6, StartAgrees
<1>7. ASSUME NEW m \in {l, Fail(l), WaitAgain(l)}, Becomes(r, m, pc[r]) PROVE Agree'
  <2>1. Keeps(link[r], m)
    BY <1>4, <1>5, <1>7
  <2> QED
    BY <1>3, <1>7, <2>1, LinkWritten
<1> QED
  BY <1>2, <1>6, <1>7

-----------------------------------------------------------------------------
(* The connection's steps. *)

(* The first operation settles. *)
LEMMA Settling ==
  ASSUME Agree, NEW r \in Roles, pc[r].chain # <<>>
  PROVE  /\ DOMAIN Settled(pc[r]) = PcFields
         /\ Shorter(pc[r].chain, Settled(pc[r]).chain) /\ IsSeq(Settled(pc[r]).chain)
         /\ There(Settled(pc[r])) /\ There(pc[r])
         /\ Settled(pc[r]).signaling = pc[r].signaling /\ Settled(pc[r]).made = pc[r].made
         /\ Settled(pc[r]).local = pc[r].local /\ Settled(pc[r]).remote = pc[r].remote
         /\ Head(pc[r].chain) = pc[r].chain[1]
         /\ QuietChain(pc[r], Settled(pc[r]))
<1>1. DOMAIN pc[r] = PcFields /\ IsSeq(pc[r].chain) /\ There(pc[r])
  BY Parts
<1> QED
  BY <1>1, SettledParts DEF QuietChain, Shorter

(* And it is given up on. *)
LEMMA SettledQuietly ==
  ASSUME Shaped, Agree, wire' = wire, NEW r \in Roles, pc[r].chain # <<>>,
         NEW m, Keeps(link[r], m), Becomes(r, m, Settled(pc[r]))
  PROVE  Agree'
<1>1. Agreed(link["creator"], pc["creator"], wire'["creator"],
             link["joiner"], pc["joiner"], wire'["joiner"])
  BY SameWire DEF Agree
<1> QED
  BY <1>1, Settling, QuietWritten

(* The offer is made and goes on to be set. *)
LEMMA OfferCreatedAgrees == ASSUME Shaped, Agree, OfferCreated PROVE Agree'
<1> DEFINE l == link["creator"]
           p == pc["creator"]
           h == Head(p.chain)
           y == [Settled(p) EXCEPT !.made = h.epoch]
           o == [h EXCEPT !.op = "setLocal"]
           x == Chained(y, o)
<1>1. /\ p.chain # <<>> /\ h.op = "createOffer" /\ wire' = wire
      /\ Becomes("creator", l, x)
  BY Zenon DEF OfferCreated, Settles
<1>2. /\ DOMAIN Settled(p) = PcFields /\ Shorter(p.chain, Settled(p).chain)
      /\ IsSeq(Settled(p).chain) /\ There(Settled(p)) /\ There(p) /\ h = p.chain[1]
      /\ Settled(p).signaling = p.signaling /\ Settled(p).local = p.local
      /\ Settled(p).remote = p.remote
  BY <1>1, Parts, Settling
<1>3. DOMAIN h = OpFields
  <2>1. ChainOK(p.chain, l.epoch, CreatorOps) /\ 1 \in Items(p.chain)
    BY <1>1, <1>2, TailShorter DEF Agree, Agreed, CreatorOK, PcOK, ChainOK
  <2> QED
    BY <1>2, <2>1 DEF ChainOK
<1>4. DOMAIN o = OpFields /\ o.op = "setLocal" /\ o.epoch = h.epoch
  BY <1>3 DEF OpFields
<1>5. /\ DOMAIN y = PcFields /\ y.chain = Settled(p).chain /\ There(y)
      /\ y.signaling = p.signaling /\ y.local = p.local /\ y.remote = p.remote
  BY <1>2 DEF PcFields, There
<1> HIDE DEF o, y
<1>6. /\ DOMAIN x = PcFields /\ Longer(y.chain, x.chain, o) /\ There(x)
      /\ x.signaling = y.signaling /\ x.local = y.local /\ x.remote = y.remote
  BY <1>2, <1>5, ChainedParts
<1> HIDE DEF x
<1>7. /\ link'["creator"] = l /\ pc'["creator"] = x
      /\ link'["joiner"] = link["joiner"] /\ pc'["joiner"] = pc["joiner"]
  BY <1>1, CreatorWrites
<1>8. Agreed(l, p, wire["creator"], link["joiner"], pc["joiner"], wire["joiner"])
  BY DEF Agree
<1>9. p.chain[1].op = "createOffer" /\ o.epoch = p.chain[1].epoch
  BY <1>1, <1>2, <1>4
<1> HIDE DEF h, l, p
<1>10. Agreed(l, x, wire["creator"], link["joiner"], pc["joiner"], wire["joiner"])
  BY <1>2, <1>4, <1>5, <1>6, <1>8, <1>9, OfferMade
<1> QED
  BY <1>1, <1>7, <1>10 DEF Agree

(* Once an offer is set, it is the local description that is relayed. *)
LEMMA OfferSetAgrees == ASSUME Shaped, Agree, OfferSet PROVE Agree'
<1> DEFINE l == link["creator"]
           p == pc["creator"]
           w == wire["joiner"]
           h == Head(p.chain)
           e == h.epoch
           x == [Settled(p) EXCEPT !.local = e, !.signaling = "have-local-offer", !.gathered = FALSE]
           msg == OfferMsg(e, h.fresh)
           n == IF l.epoch = e THEN ArmTimer(l) ELSE l
<1>1. /\ p.chain # <<>> /\ h.op = "setLocal"
      /\ \/ /\ Becomes("creator", n, x)
            /\ wire' = IF l.epoch = e THEN Relayed("creator", msg) ELSE wire
         \/ Becomes("creator", Fail(l), Settled(p)) /\ wire' = wire
  BY Zenon DEF OfferSet, Settles, ArmAgain
<1>2. /\ DOMAIN Settled(p) = PcFields /\ Shorter(p.chain, Settled(p).chain)
      /\ There(Settled(p)) /\ There(p) /\ h = p.chain[1] /\ Settled(p).remote = p.remote
  BY <1>1, Parts, Settling
<1>3. DOMAIN l = LinkFields /\ l.epoch \in Nat /\ IsSeq(w)
  BY Parts
<1>4. Keeps(l, l) /\ Keeps(l, ArmTimer(l)) /\ Keeps(l, Fail(l))
  BY <1>3 DEF Keeps, LinkFields, ArmTimer, Fail
<1>5. CASE Becomes("creator", Fail(l), Settled(p)) /\ wire' = wire
  BY <1>1, <1>4, <1>5, Parts, SettledQuietly
<1>6. ASSUME NEW m, Keeps(l, m), Becomes("creator", m, x),
             wire' = IF l.epoch = e THEN Relayed("creator", msg) ELSE wire
      PROVE  Agree'
  <2>1. /\ DOMAIN x = PcFields /\ x.chain = Settled(p).chain /\ There(x)
        /\ x.signaling = "have-local-offer" /\ x.local = e /\ x.remote = p.remote
    BY <1>2 DEF PcFields, There
  <2>2. msg.type = "offer" /\ msg.epoch = e /\ ~Early(msg)
    BY DEF OfferMsg, Early
  <2> HIDE DEF x, msg
  <2>3. /\ link'["creator"] = m /\ pc'["creator"] = x
        /\ link'["joiner"] = link["joiner"] /\ pc'["joiner"] = pc["joiner"]
    BY <1>6, CreatorWrites
  <2>4. Agreed(l, p, wire["creator"], link["joiner"], pc["joiner"], w)
    BY DEF Agree
  <2>5. p.chain[1].op = "setLocal" /\ e = p.chain[1].epoch
    BY <1>1, <1>2
  <2> HIDE DEF e, h, p, l, w
  <2>6. /\ Agreed(m, x, wire["creator"], link["joiner"], pc["joiner"], w)
        /\ e = l.epoch => Without(x.chain, {"createOffer", "setLocal"})
    BY <1>2, <1>6, <2>1, <2>4, <2>5, OfferTaken DEF Keeps
  <2>7. CASE wire' = wire
    BY <2>3, <2>6, <2>7 DEF Agree, w
  <2>8. CASE l.epoch = e /\ wire' = Relayed("creator", msg)
    <3>1. /\ wire'["creator"] = wire["creator"]
          /\ wire'["joiner"] = w \/ wire'["joiner"] = Append(w, msg)
      BY <2>8, CreatorRelays DEF w
    <3>2. Longer(w, Append(w, msg), msg)
      BY <1>3, AppendLonger
    <3>3. Agreed(m, x, wire["creator"], link["joiner"], pc["joiner"], Append(w, msg))
      BY <1>3, <1>6, <2>1, <2>2, <2>6, <2>8, <3>2, ToJoiner DEF Keeps
    <3> QED
      BY <2>3, <2>6, <3>1, <3>3 DEF Agree
  <2> QED
    BY <1>6, <2>7, <2>8
<1>7. Keeps(l, n)
  BY <1>4
<1> QED
  BY <1>1, <1>5, <1>6, <1>7

(* An answer is applied, and the candidates kept for it follow. *)
LEMMA AnswerAppliedAgrees == ASSUME Shaped, Agree, AnswerApplied PROVE Agree'
<1> DEFINE l == link["creator"]
           p == pc["creator"]
           h == Head(p.chain)
           e == h.epoch
           m == Marked(l, e)
           y == [Settled(p) EXCEPT !.remote = e, !.signaling = "stable", !.reachable = FALSE]
           s == QueueOf(l, e)
           x == FlushInto(y, s)
<1>1. /\ p.chain # <<>> /\ h.op = "setRemote" /\ wire' = wire
      /\ Becomes("creator", Fail(l), Settled(p)) \/ Becomes("creator", m, x)
  BY Zenon DEF AnswerApplied, Settles
<1>2. /\ DOMAIN Settled(p) = PcFields /\ Shorter(p.chain, Settled(p).chain)
      /\ IsSeq(Settled(p).chain) /\ There(Settled(p)) /\ There(p) /\ h = p.chain[1]
      /\ Settled(p).local = p.local
  BY <1>1, Parts, Settling
<1>3. DOMAIN l = LinkFields
  BY Parts
<1>4. CASE Becomes("creator", Fail(l), Settled(p))
  <2>1. Keeps(l, Fail(l))
    BY <1>3 DEF Keeps, LinkFields, Fail
  <2> QED
    BY <1>1, <1>4, <2>1, Parts, SettledQuietly
<1>5. CASE Becomes("creator", m, x)
  <2>1. /\ DOMAIN y = PcFields /\ y.chain = Settled(p).chain /\ There(y)
        /\ y.signaling = "stable" /\ y.local = p.local /\ y.remote = e
    BY <1>2 DEF PcFields, There
  <2>2. DOMAIN m = LinkFields /\ m.epoch = l.epoch /\ m.applied = l.applied \cup {e}
    BY <1>3, MarkedParts
  <2> HIDE DEF m, y, s
  <2>3. /\ DOMAIN x = PcFields /\ There(x) /\ x.signaling = y.signaling
        /\ x.local = y.local /\ x.remote = y.remote /\ QuietChain(y, x)
    BY <1>2, <2>1, Flushed
  <2> HIDE DEF x
  <2>4. /\ link'["creator"] = m /\ pc'["creator"] = x
        /\ link'["joiner"] = link["joiner"] /\ pc'["joiner"] = pc["joiner"]
    BY <1>5, CreatorWrites
  <2>5. Agreed(l, p, wire["creator"], link["joiner"], pc["joiner"], wire["joiner"])
    BY DEF Agree
  <2>6. p.chain[1].op = "setRemote" /\ e = p.chain[1].epoch
    BY <1>1, <1>2
  <2> HIDE DEF e, h, p, l
  <2>7. Agreed(m, y, wire["creator"], link["joiner"], pc["joiner"], wire["joiner"])
    BY <1>2, <2>1, <2>2, <2>5, <2>6, AnswerTaken
  <2>8. Agreed(m, x, wire["creator"], link["joiner"], pc["joiner"], wire["joiner"])
    BY <2>1, <2>2, <2>3, <2>7, CreatorQuiet
  <2> QED
    BY <1>1, <2>4, <2>8 DEF Agree
<1> QED
  BY <1>1, <1>4, <1>5

(* An offer is applied, and an answer asked for if it is still the current *)
(* one.                                                                    *)
LEMMA OfferAppliedAgrees == ASSUME Shaped, Agree, OfferApplied PROVE Agree'
<1> DEFINE k == link["joiner"]
           q == pc["joiner"]
           h == Head(q.chain)
           e == h.epoch
           y == [Settled(q) EXCEPT !.remote = e, !.reachable = FALSE,
                                   !.signaling = "have-remote-offer"]
           m == Marked(k, e)
           s == QueueOf(k, e)
           z == FlushInto(y, s)
           o == Op("createAnswer", e, FALSE)
           x == Chained(z, o)
<1>1. /\ q.chain # <<>> /\ h.op = "setRemote" /\ wire' = wire
      /\ \/ k.epoch # e /\ Becomes("joiner", k, y)
         \/ k.epoch = e /\ Becomes("joiner", m, x)
  BY Zenon DEF OfferApplied, Settles
<1>2. /\ DOMAIN Settled(q) = PcFields /\ Shorter(q.chain, Settled(q).chain)
      /\ IsSeq(Settled(q).chain) /\ There(Settled(q)) /\ There(q) /\ h = q.chain[1]
      /\ Settled(q).local = q.local /\ Settled(q).made = q.made
  BY <1>1, Parts, Settling
<1>3. DOMAIN k = LinkFields
  BY Parts
<1>4. /\ DOMAIN y = PcFields /\ y.chain = Settled(q).chain /\ There(y)
      /\ y.signaling = "have-remote-offer" /\ y.local = q.local /\ y.remote = e /\ y.made = q.made
  BY <1>2 DEF PcFields, There
<1>5. DOMAIN m = LinkFields /\ m.epoch = k.epoch /\ m.applied = k.applied \cup {e}
  BY <1>3, MarkedParts
<1>6. DOMAIN o = OpFields /\ o.op = "createAnswer" /\ o.epoch = e
  BY DEF Op, OpFields
<1> HIDE DEF m, y, s, o
<1>7. Agreed(link["creator"], pc["creator"], wire["creator"], k, q, wire["joiner"])
  BY DEF Agree
<1>8. q.chain[1].op = "setRemote" /\ e = q.chain[1].epoch
  BY <1>1, <1>2
<1> HIDE DEF e, h
<1>9. CASE k.epoch # e /\ Becomes("joiner", k, y)
  <2>1. /\ link'["joiner"] = k /\ pc'["joiner"] = y
        /\ link'["creator"] = link["creator"] /\ pc'["creator"] = pc["creator"]
    BY <1>9, JoinerWrites
  <2> HIDE DEF k, q
  <2>2. Agreed(link["creator"], pc["creator"], wire["creator"], k, y, wire["joiner"])
    BY <1>2, <1>3, <1>4, <1>7, <1>8, <1>9, OfferAccepted
  <2> QED
    BY <1>1, <2>1, <2>2 DEF Agree
<1>10. CASE k.epoch = e /\ Becomes("joiner", m, x)
  <2>1. /\ DOMAIN z = PcFields /\ There(z) /\ z.signaling = y.signaling
        /\ z.local = y.local /\ z.remote = y.remote /\ z.made = y.made /\ QuietChain(y, z)
    BY <1>2, <1>4, Flushed
  <2> HIDE DEF z
  <2>2. Agreed(link["creator"], pc["creator"], wire["creator"], m, z, wire["joiner"])
        /\ ~Answered(link["creator"], pc["creator"], wire["creator"])
        /\ Answerable(z, m.epoch)
    <3> HIDE DEF k, q
    <3>1. /\ Agreed(link["creator"], pc["creator"], wire["creator"], m, y, wire["joiner"])
          /\ ~Answered(link["creator"], pc["creator"], wire["creator"])
          /\ Answerable(y, k.epoch)
      BY <1>2, <1>4, <1>5, <1>7, <1>8, <1>10, OfferAccepted
    <3>2. Agreed(link["creator"], pc["creator"], wire["creator"], m, z, wire["joiner"])
      BY <1>4, <1>5, <2>1, <3>1, JoinerQuiet
    <3>3. Answerable(z, m.epoch)
      BY <1>5, <2>1, <3>1, QuietIsOld, StillAnswerable
    <3> QED
      BY <3>1, <3>2, <3>3
  <2>3. IsSeq(z.chain)
    BY <2>2 DEF Agreed, JoinerOK, PcOK, ChainOK
  <2>4. /\ DOMAIN x = PcFields /\ Longer(z.chain, x.chain, o) /\ There(x)
        /\ x.signaling = z.signaling /\ x.made = z.made
        /\ x.local = z.local /\ x.remote = z.remote
    BY <2>1, <2>3, ChainedParts
  <2>5. Becomes("joiner", m, x)
    BY <1>10
  <2> HIDE DEF x
  <2>6. /\ link'["joiner"] = m /\ pc'["joiner"] = x
        /\ link'["creator"] = link["creator"] /\ pc'["creator"] = pc["creator"]
    BY <2>5, JoinerWrites
  <2>7. o.epoch = m.epoch
    BY <1>5, <1>6, <1>10
  <2>8. Agreed(link["creator"], pc["creator"], wire["creator"], m, x, wire["joiner"])
    BY <1>6, <2>1, <2>2, <2>4, <2>7, AnswerAsked
  <2> QED
    BY <1>1, <2>6, <2>8 DEF Agree
<1> QED
  BY <1>1, <1>9, <1>10

(* The answer is made and goes on to be set. *)
LEMMA AnswerCreatedAgrees == ASSUME Shaped, Agree, AnswerCreated PROVE Agree'
<1> DEFINE k == link["joiner"]
           q == pc["joiner"]
           h == Head(q.chain)
           y == [Settled(q) EXCEPT !.made = Settled(q).remote]
           o == [h EXCEPT !.op = "setLocal"]
           x == Chained(y, o)
<1>1. /\ q.chain # <<>> /\ h.op = "createAnswer" /\ wire' = wire
      /\ Becomes("joiner", Fail(k), Settled(q)) \/ Becomes("joiner", k, x)
  BY Zenon DEF AnswerCreated, Settles
<1>2. /\ DOMAIN Settled(q) = PcFields /\ Shorter(q.chain, Settled(q).chain)
      /\ IsSeq(Settled(q).chain) /\ There(Settled(q)) /\ There(q) /\ h = q.chain[1]
      /\ Settled(q).signaling = q.signaling /\ Settled(q).local = q.local
      /\ Settled(q).remote = q.remote
  BY <1>1, Parts, Settling
<1>3. DOMAIN k = LinkFields
  BY Parts
<1>4. CASE Becomes("joiner", Fail(k), Settled(q))
  <2>1. Keeps(k, Fail(k))
    BY <1>3 DEF Keeps, LinkFields, Fail
  <2> QED
    BY <1>1, <1>4, <2>1, Parts, SettledQuietly
<1>5. CASE Becomes("joiner", k, x)
  <2>1. DOMAIN h = OpFields
    <3>1. ChainOK(q.chain, k.epoch, JoinerOps) /\ 1 \in Items(q.chain)
      BY <1>1, <1>2, TailShorter DEF Agree, Agreed, JoinerOK, PcOK, ChainOK
    <3> QED
      BY <1>2, <3>1 DEF ChainOK
  <2>2. DOMAIN o = OpFields /\ o.op = "setLocal" /\ o.epoch = h.epoch
    BY <2>1 DEF OpFields
  <2>3. /\ DOMAIN y = PcFields /\ y.chain = Settled(q).chain /\ There(y)
        /\ y.signaling = q.signaling /\ y.local = q.local /\ y.remote = q.remote
        /\ y.made = q.remote
    BY <1>2 DEF PcFields, There
  <2> HIDE DEF o, y
  <2>4. /\ DOMAIN x = PcFields /\ Longer(y.chain, x.chain, o) /\ There(x)
        /\ x.signaling = y.signaling /\ x.made = y.made
        /\ x.local = y.local /\ x.remote = y.remote
    BY <1>2, <2>3, ChainedParts
  <2> HIDE DEF x
  <2>5. /\ link'["joiner"] = k /\ pc'["joiner"] = x
        /\ link'["creator"] = link["creator"] /\ pc'["creator"] = pc["creator"]
    BY <1>5, JoinerWrites
  <2>6. Agreed(link["creator"], pc["creator"], wire["creator"], k, q, wire["joiner"])
    BY DEF Agree
  <2>7. q.chain[1].op = "createAnswer" /\ o.epoch = q.chain[1].epoch
    BY <1>1, <1>2, <2>2
  <2> HIDE DEF h, k, q
  <2>8. Agreed(link["creator"], pc["creator"], wire["creator"], k, x, wire["joiner"])
    BY <1>2, <2>2, <2>3, <2>4, <2>6, <2>7, AnswerMade
  <2> QED
    BY <1>1, <2>5, <2>8 DEF Agree
<1> QED
  BY <1>1, <1>4, <1>5

(* And its answer is the joiner's. *)
LEMMA AnswerSetAgrees == ASSUME Shaped, Agree, AnswerSet PROVE Agree'
<1> DEFINE k == link["joiner"]
           q == pc["joiner"]
           l == link["creator"]
           p == pc["creator"]
           v == wire["creator"]
           h == Head(q.chain)
           e == h.epoch
           x == [Settled(q) EXCEPT !.local = Settled(q).made, !.signaling = "stable",
                                   !.gathered = FALSE]
           msg == AnswerMsg(e)
<1>1. /\ q.chain # <<>> /\ h.op = "setLocal"
      /\ \/ /\ Becomes("joiner", k, x)
            /\ wire' = IF k.epoch = e THEN Relayed("joiner", msg) ELSE wire
         \/ Becomes("joiner", Fail(k), Settled(q)) /\ wire' = wire
  BY Zenon DEF AnswerSet, Settles
<1>2. /\ DOMAIN Settled(q) = PcFields /\ Shorter(q.chain, Settled(q).chain)
      /\ There(Settled(q)) /\ There(q) /\ h = q.chain[1]
      /\ Settled(q).made = q.made /\ Settled(q).remote = q.remote
  BY <1>1, Parts, Settling
<1>3. /\ DOMAIN k = LinkFields /\ IsSeq(v) /\ k.epoch \in Nat /\ l.epoch \in Nat
      /\ k.epoch <= l.epoch
  BY Parts
<1>4. CASE Becomes("joiner", Fail(k), Settled(q)) /\ wire' = wire
  <2>1. Keeps(k, Fail(k))
    BY <1>3 DEF Keeps, LinkFields, Fail
  <2> QED
    BY <1>1, <1>4, <2>1, Parts, SettledQuietly
<1>5. CASE /\ Becomes("joiner", k, x)
           /\ wire' = IF k.epoch = e THEN Relayed("joiner", msg) ELSE wire
  <2>1. /\ DOMAIN x = PcFields /\ x.chain = Settled(q).chain /\ There(x)
        /\ x.signaling = "stable" /\ x.local = q.made /\ x.remote = q.remote /\ x.made = q.made
    BY <1>2 DEF PcFields, There
  <2>2. msg.type = "answer" /\ msg.epoch = e /\ ~Early(msg)
    BY DEF AnswerMsg, Early
  <2> HIDE DEF x, msg
  <2>3. /\ link'["joiner"] = k /\ pc'["joiner"] = x
        /\ link'["creator"] = l /\ pc'["creator"] = p
    BY <1>5, JoinerWrites
  <2>4. Agreed(l, p, v, k, q, wire["joiner"])
    BY DEF Agree
  <2>5. q.chain[1].op = "setLocal" /\ e = q.chain[1].epoch
    BY <1>1, <1>2
  <2> HIDE DEF e, h, k, q, l, p, v
  <2>6. /\ Agreed(l, p, v, k, x, wire["joiner"]) /\ ~Answered(l, p, v)
        /\ e = k.epoch =>
             /\ x.local = k.epoch
             /\ Without(x.chain, {"setRemote", "createAnswer", "setLocal"})
    BY <1>2, <2>1, <2>4, <2>5, AnswerTold
  <2>7. CASE wire' = wire
    BY <2>3, <2>6, <2>7 DEF Agree, v
  <2>8. CASE k.epoch = e /\ wire' = Relayed("joiner", msg)
    <3>1. /\ wire'["joiner"] = wire["joiner"]
          /\ wire'["creator"] = v \/ wire'["creator"] = Append(v, msg)
      BY <2>8, JoinerRelays DEF v
    <3>2. Longer(v, Append(v, msg), msg)
      BY <1>3, AppendLonger
    <3>3. Agreed(l, p, Append(v, msg), k, x, wire["joiner"])
      BY <1>3, <2>1, <2>2, <2>6, <2>8, <3>2, ToCreator
    <3> QED
      BY <2>3, <2>6, <3>1, <3>3 DEF Agree
  <2> QED
    BY <1>5, <2>7, <2>8
<1> QED
  BY <1>1, <1>4, <1>5

(* A candidate settles and hands the next of its queue on. *)
LEMMA CandidateAddedAgrees == ASSUME Shaped, Agree, NEW r \in Roles, CandidateAdded(r) PROVE Agree'
<1> DEFINE l == link[r]
           p == pc[r]
           h == Head(p.chain)
           fits == Head(h.queue).of = Settled(p).remote
           y == IF fits THEN [Settled(p) EXCEPT !.reachable = TRUE] ELSE Settled(p)
           s == Tail(h.queue)
           x == FlushInto(y, s)
           m == IF h.op = "addDirect" /\ ~fits THEN Fail(l) ELSE l
<1>1. p.chain # <<>> /\ wire' = wire /\ Becomes(r, m, x)
  BY Zenon DEF CandidateAdded, Settles
<1>2. /\ DOMAIN Settled(p) = PcFields /\ Shorter(p.chain, Settled(p).chain)
      /\ IsSeq(Settled(p).chain) /\ There(Settled(p)) /\ There(p)
      /\ Settled(p).signaling = p.signaling /\ Settled(p).made = p.made
      /\ Settled(p).local = p.local /\ Settled(p).remote = p.remote
  BY <1>1, Settling
<1>3. y \in {Settled(p), [Settled(p) EXCEPT !.reachable = TRUE]} /\ m \in {l, Fail(l)}
  OBVIOUS
<1> HIDE DEF fits, y, s, h, m
<1>4. /\ DOMAIN y = PcFields /\ y.chain = Settled(p).chain /\ There(y)
      /\ y.signaling = p.signaling /\ y.local = p.local /\ y.remote = p.remote
      /\ y.made = p.made
  BY <1>2, <1>3 DEF PcFields, There
<1>5. DOMAIN l = LinkFields
  BY Parts
<1>6. Keeps(l, m)
  BY <1>3, <1>5 DEF Keeps, LinkFields, Fail
<1>7. /\ DOMAIN x = PcFields /\ There(x) /\ x.signaling = y.signaling
      /\ x.local = y.local /\ x.remote = y.remote /\ x.made = y.made /\ QuietChain(y, x)
  BY <1>2, <1>4, Flushed
<1> HIDE DEF x
<1>8. QuietChain(p, y)
  BY <1>2, <1>4 DEF QuietChain
<1>9. CASE r = "creator"
  <2>1. /\ link'["creator"] = m /\ pc'["creator"] = x
        /\ link'["joiner"] = link["joiner"] /\ pc'["joiner"] = pc["joiner"]
    BY <1>1, <1>9, CreatorWrites
  <2>2. Agreed(l, p, wire["creator"], link["joiner"], pc["joiner"], wire["joiner"])
    BY <1>9 DEF Agree
  <2> HIDE DEF l, p
  <2>3. Agreed(m, y, wire["creator"], link["joiner"], pc["joiner"], wire["joiner"])
    BY <1>2, <1>4, <1>6, <1>8, <2>2, CreatorQuiet DEF Keeps
  <2>4. Agreed(m, x, wire["creator"], link["joiner"], pc["joiner"], wire["joiner"])
    BY <1>4, <1>6, <1>7, <2>3, CreatorQuiet DEF Keeps
  <2> QED
    BY <1>1, <2>1, <2>4 DEF Agree
<1>10. CASE r = "joiner"
  <2>1. /\ link'["joiner"] = m /\ pc'["joiner"] = x
        /\ link'["creator"] = link["creator"] /\ pc'["creator"] = pc["creator"]
    BY <1>1, <1>10, JoinerWrites
  <2>2. Agreed(link["creator"], pc["creator"], wire["creator"], l, p, wire["joiner"])
    BY <1>10 DEF Agree
  <2> HIDE DEF l, p
  <2>3. Agreed(link["creator"], pc["creator"], wire["creator"], m, y, wire["joiner"])
    BY <1>2, <1>4, <1>6, <1>8, <2>2, JoinerQuiet DEF Keeps
  <2>4. Agreed(link["creator"], pc["creator"], wire["creator"], m, x, wire["joiner"])
    BY <1>4, <1>6, <1>7, <2>3, JoinerQuiet DEF Keeps
  <2> QED
    BY <1>1, <2>1, <2>4 DEF Agree
<1> QED
  BY <1>9, <1>10 DEF Roles

(* A candidate is gathered and relayed.  If it is stamped with another     *)
(* epoch than its description's, that epoch's description is not out yet.  *)
LEMMA GatherAgrees == ASSUME Shaped, Agree, NEW r \in Roles, Gather(r) PROVE Agree'
<1> DEFINE l == link["creator"]
           p == pc["creator"]
           v == wire["creator"]
           k == link["joiner"]
           q == pc["joiner"]
           w == wire["joiner"]
           x == [pc[r] EXCEPT !.gathered = TRUE]
           msg == IceMsg(link[r].epoch, pc[r].local)
<1>1. pc[r].exists /\ Becomes(r, link[r], x) /\ wire' = Relayed(r, msg)
  BY Zenon DEF Gather, CanGather, Stamp
<1>2. There(pc[r])
  BY <1>1 DEF There
<1>3. msg.type = "ice" /\ msg.epoch = link[r].epoch /\ msg.of = pc[r].local
  BY DEF IceMsg
<1>4. /\ DOMAIN pc[r] = PcFields /\ DOMAIN link[r] = LinkFields
      /\ l.epoch \in Nat /\ k.epoch \in Nat /\ k.epoch <= l.epoch
      /\ IsSeq(v) /\ IsSeq(w)
  BY Parts
<1>5. /\ DOMAIN x = PcFields /\ x.chain = pc[r].chain /\ There(x)
      /\ x.signaling = pc[r].signaling /\ x.local = pc[r].local /\ x.remote = pc[r].remote
      /\ x.made = pc[r].made
  BY <1>2, <1>4 DEF PcFields, There
<1> HIDE DEF x, msg
<1>6. Longer(v, Append(v, msg), msg) /\ Longer(w, Append(w, msg), msg)
  BY <1>4, AppendLonger
<1>7. Agreed(l, p, v, k, q, w)
  BY DEF Agree
<1>8. Agreed(l, p, wire'["creator"], k, q, wire'["joiner"])
  <2>1. CASE r = "creator"
    <3>1. OffersOK(l, p, k, w) /\ QueueOK(w, l.epoch) /\ There(p)
      BY <1>2, <1>7, <2>1 DEF Agreed, Between
    <3>2. Early(msg) => ~Out(l.epoch, k, w)
      BY <1>3, <2>1, <3>1 DEF Early, OffersOK
    <3>3. Early(msg) => /\ k.epoch < msg.epoch
                        /\ \A j \in Items(w) : w[j].type = "offer" => w[j].epoch < msg.epoch
      BY <1>3, <1>4, <2>1, <3>1, <3>2 DEF Out, OfferAt, QueueOK
    <3>4. Agreed(l, p, v, k, q, Append(w, msg))
      BY <1>3, <1>4, <1>6, <1>7, <2>1, <3>3, ToJoiner
    <3> QED
      BY <1>1, <1>7, <2>1, <3>4, CreatorRelays
  <2>2. CASE r = "joiner"
    <3>1. AnswersOK(l, p, v, k, q) /\ There(q)
      BY <1>2, <1>7, <2>2 DEF Agreed, Between
    <3>2. Early(msg) /\ msg.epoch = l.epoch => ~Answered(l, p, v)
      BY <1>3, <2>2, <3>1 DEF Early, AnswersOK
    <3>3. Agreed(l, p, Append(v, msg), k, q, w)
      BY <1>3, <1>4, <1>6, <1>7, <2>2, <3>2, ToCreator
    <3> QED
      BY <1>1, <1>7, <2>2, <3>3, JoinerRelays
  <2> QED
    BY <2>1, <2>2 DEF Roles
<1>9. Keeps(link[r], link[r]) /\ QuietChain(pc[r], x)
  BY <1>4, <1>5 DEF Keeps, QuietChain
<1> QED
  BY <1>1, <1>2, <1>5, <1>8, <1>9, QuietWritten

(* The browser reports the connection. *)
LEMMA ConnectsAgrees ==
  ASSUME Shaped, Agree, NEW r \in Roles, Connects(r) \/ ConnectsAgain(r)
  PROVE  Agree'
<1> DEFINE x == [pc[r] EXCEPT !.up = TRUE]
<1>1. wire' = wire /\ (Becomes(r, ConnectedLink(link[r]), x) \/ Becomes(r, ConnectedLink(link[r]), pc[r]))
  BY Zenon DEF Connects, ConnectsAgain
<1>2. DOMAIN pc[r] = PcFields /\ DOMAIN link[r] = LinkFields
  BY Parts
<1>3. Keeps(link[r], ConnectedLink(link[r]))
  BY <1>2 DEF Keeps, LinkFields, ConnectedLink
<1>4. /\ DOMAIN x = PcFields /\ x.chain = pc[r].chain /\ (There(x) <=> There(pc[r]))
      /\ x.signaling = pc[r].signaling /\ x.local = pc[r].local /\ x.remote = pc[r].remote
      /\ x.made = pc[r].made
  BY <1>2 DEF PcFields, There
<1> HIDE DEF x
<1>5. QuietChain(pc[r], x)
  BY <1>4 DEF QuietChain
<1>6. Agreed(link["creator"], pc["creator"], wire'["creator"],
             link["joiner"], pc["joiner"], wire'["joiner"])
  BY <1>1, SameWire DEF Agree
<1>7. CASE Becomes(r, ConnectedLink(link[r]), x)
  BY <1>3, <1>4, <1>5, <1>6, <1>7, QuietWritten
<1>8. CASE Becomes(r, ConnectedLink(link[r]), pc[r])
  BY <1>3, <1>6, <1>8, LinkWritten
<1> QED
  BY <1>1, <1>7, <1>8

(* All steps of the connection, *)
LEMMA BrowserAgrees == ASSUME Shaped, Agree, NEW r \in Roles, Browser(r) PROVE Agree'
BY CandidateAddedAgrees, GatherAgrees, OfferCreatedAgrees, OfferSetAgrees, AnswerAppliedAgrees,
   OfferAppliedAgrees, AnswerCreatedAgrees, AnswerSetAgrees DEF Browser

(* all handlers of events, *)
LEMMA HandlesAgrees == ASSUME Shaped, Agree, NEW r \in Roles, Handles(r) PROVE Agree'
BY PeerIsThereAgrees, StillWaitingAgrees, CandidateAgrees, OfferAgrees, AnswerAgrees DEF Handles

(* and every step. *)
LEMMA NextAgrees == ASSUME Shaped, Agree, [Next]_vars PROVE Agree'
<1>1. CASE Attach \/ Join \/ RestartIce
  BY <1>1, AttachAgrees, JoinAgrees, RestartAgrees
<1>2. ASSUME NEW r \in Roles,
             \/ Start(r) \/ Drop(r) \/ Reattach(r) \/ UserSyncs(r) \/ Close(r) \/ StartsLate(r)
             \/ Handles(r) \/ TimerFires(r) \/ Browser(r) \/ Connects(r) \/ ConnectsAgain(r)
      PROVE  Agree'
  BY <1>2, StartStepAgrees, DropAgrees, ReattachAgrees, UserSyncsAgrees, CloseAgrees,
     StartsLateAgrees, HandlesAgrees, TimerAgrees, BrowserAgrees, ConnectsAgrees
<1>3. CASE UNCHANGED vars
  BY <1>3 DEF vars, Agree
<1> QED
  BY <1>1, <1>2, <1>3, Zenon DEF Next

-----------------------------------------------------------------------------
(* The rest of the state. *)

(* The rest has its ranges. *)
WorldOK ==
  /\ online \subseteq Roles /\ paired \in BOOLEAN /\ restarted \in BOOLEAN /\ strict \in BOOLEAN
  /\ faults \in 0 .. MaxFaults

(* The functions that write a link, a connection or a queue keep its roles. *)
LEMMA DomainsKept ==
  /\ \A r, m, x : Becomes(r, m, x) => DOMAIN link' = DOMAIN link /\ DOMAIN pc' = DOMAIN pc
  /\ \A r, m : DOMAIN Relayed(r, m) = DOMAIN wire
  /\ \A r : DOMAIN SyncAnswered(r) = DOMAIN wire
<1>1. \A r, m, x : Becomes(r, m, x) => DOMAIN link' = DOMAIN link /\ DOMAIN pc' = DOMAIN pc
  BY DEF Becomes
<1>2. ASSUME NEW r, NEW m PROVE DOMAIN Relayed(r, m) = DOMAIN wire
  BY DEF Relayed
<1>3. ASSUME NEW r PROVE DOMAIN SyncAnswered(r) = DOMAIN wire
  BY DEF SyncAnswered
<1> QED
  BY <1>1, <1>2, <1>3

(* No step changes what is a role's and what is not. *)
LEMMA NextShaped == ASSUME Shaped, [Next]_vars PROVE Shaped'
<1> DEFINE Kept == /\ DOMAIN link' = DOMAIN link /\ DOMAIN pc' = DOMAIN pc
                   /\ DOMAIN wire' = DOMAIN wire
<1>1. ASSUME Attach \/ Join \/ RestartIce PROVE Kept
  <2>1. CASE Attach
    BY <2>1 DEF Attach
  <2>2. CASE Join
    BY <2>2 DEF Join
  <2>3. CASE RestartIce
    BY <2>3, DomainsKept, Zenon DEF RestartIce, StartNegotiation
  <2> QED
    BY <1>1, <2>1, <2>2, <2>3
<1>2. ASSUME NEW r \in Roles,
             Start(r) \/ Drop(r) \/ Reattach(r) \/ UserSyncs(r) \/ Close(r) \/ StartsLate(r)
      PROVE  Kept
  <2>1. CASE Start(r)
    BY <2>1, DomainsKept, Zenon DEF Start, StartNegotiation
  <2>2. CASE Drop(r) \/ Reattach(r) \/ StartsLate(r)
    BY <2>2 DEF Drop, Reattach, StartsLate, Receives
  <2>3. CASE UserSyncs(r)
    BY <2>3, DomainsKept, Zenon DEF UserSyncs
  <2>4. CASE Close(r)
    <3>1. \E m : Becomes(r, m, NoPc) /\ wire' = [wire EXCEPT ![r] = <<>>]
      BY <2>4, Zenon DEF Close
    <3> QED
      BY <3>1, DomainsKept
  <2> QED
    BY <1>2, <2>1, <2>2, <2>3, <2>4
<1>3. ASSUME NEW r \in Roles, Handles(r) PROVE Kept
  <2>1. wire' = [wire EXCEPT ![r] = Tail(wire[r])]
    BY <1>3, Zenon DEF Handles, PeerIsThere, StillWaiting, Candidate, Offer, Answer, Receives
  <2>2. (link' = link /\ pc' = pc) \/ \E m, x : Becomes(r, m, x)
    <3>1. CASE PeerIsThere(r)
      BY <3>1, Zenon DEF PeerIsThere, StartNegotiation
    <3>2. CASE StillWaiting(r) \/ Candidate(r)
      BY <3>2, Zenon DEF StillWaiting, Candidate
    <3>3. CASE (r = "joiner" /\ Offer) \/ (r = "creator" /\ Answer)
      BY <3>3, Zenon DEF Offer, Answer
    <3> QED
      BY <1>3, <3>1, <3>2, <3>3 DEF Handles
  <2> QED
    BY <2>1, <2>2, DomainsKept
<1>4. ASSUME NEW r \in Roles, TimerFires(r) PROVE Kept
  <2>1. wire' = wire \/ wire' = SyncAnswered(r)
    BY <1>4, Zenon DEF TimerFires
  <2>2. \E m, x : Becomes(r, m, x)
    BY <1>4, ZenonT(30) DEF TimerFires, StartNegotiation
  <2> QED
    BY <2>1, <2>2, DomainsKept
<1>5. ASSUME NEW r \in Roles, Browser(r) \/ Connects(r) \/ ConnectsAgain(r) PROVE Kept
  <2>1. wire' = wire \/ \E m : wire' = Relayed(r, m)
    BY <1>5, ZenonT(30) DEF Browser, CandidateAdded, Gather, OfferCreated, OfferSet, AnswerApplied,
         OfferApplied, AnswerCreated, AnswerSet, Connects, ConnectsAgain
  <2>2. \E m, x : Becomes(r, m, x)
    BY <1>5, ZenonT(30) DEF Browser, CandidateAdded, Gather, OfferCreated, OfferSet, AnswerApplied,
         OfferApplied, AnswerCreated, AnswerSet, Connects, ConnectsAgain
  <2> QED
    BY <2>1, <2>2, DomainsKept
<1>6. ASSUME UNCHANGED vars PROVE Kept
  BY <1>6 DEF vars
<1>7. Kept
  BY <1>1, <1>2, <1>3, <1>4, <1>5, <1>6 DEF Next
<1> QED
  BY <1>7 DEF Shaped

(* Clients come and go, flags are raised, and faults are counted up to their *)
(* bound.                                                                  *)
LEMMA NextWorld == ASSUME WorldOK, [Next]_vars PROVE WorldOK'
<1> DEFINE Stays == /\ online' = online \/ \E r \in Roles : online' \in {online \cup {r}, online \ {r}}
                    /\ paired' = paired \/ paired' = TRUE
                    /\ restarted' = restarted \/ restarted' = TRUE
                    /\ strict' = strict
                    /\ faults' = faults \/ Fault
<1>1. ASSUME Attach \/ Join \/ RestartIce PROVE Stays
  <2>1. "joiner" \in Roles
    BY DEF Roles
  <2> QED
    BY <1>1, <2>1, Zenon DEF Attach, Join, RestartIce, World
<1>2. ASSUME NEW r \in Roles,
             Start(r) \/ Drop(r) \/ Reattach(r) \/ UserSyncs(r) \/ Close(r) \/ StartsLate(r)
      PROVE  Stays
  BY <1>2, Zenon DEF Start, Drop, Reattach, UserSyncs, Close, StartsLate, World
<1>3. ASSUME NEW r \in Roles, Handles(r) PROVE Stays
  BY <1>3, Zenon DEF Handles, PeerIsThere, StillWaiting, Candidate, Offer, Answer, World
<1>4. ASSUME NEW r \in Roles, TimerFires(r) PROVE Stays
  BY <1>4, Zenon DEF TimerFires
<1>5. ASSUME NEW r \in Roles, Browser(r) \/ Connects(r) \/ ConnectsAgain(r) PROVE Stays
  BY <1>5, Zenon DEF Browser, CandidateAdded, Gather, OfferCreated, OfferSet, AnswerApplied,
       OfferApplied, AnswerCreated, AnswerSet, Connects, ConnectsAgain, World
<1>6. ASSUME UNCHANGED vars PROVE Stays
  BY <1>6, Zenon DEF vars
<1>7. Stays
  BY <1>1, <1>2, <1>3, <1>4, <1>5, <1>6 DEF Next
<1>8. online' \subseteq Roles
  BY <1>7, SMT DEF WorldOK
<1>9. paired' \in BOOLEAN /\ restarted' \in BOOLEAN /\ strict' \in BOOLEAN
  BY <1>7, Zenon DEF WorldOK
<1>10. faults' \in 0 .. MaxFaults
  BY <1>7, SMT, LinkAssumption DEF WorldOK, Fault
<1> QED
  BY <1>8, <1>9, <1>10 DEF WorldOK

-----------------------------------------------------------------------------
(* The invariant, and what it says of each run. *)

(* The inductive invariant. *)
NInv == IInv /\ Shaped /\ WorldOK /\ Agree

(* It holds at the start, *)
LEMMA InitNInv == Init => NInv
<1> SUFFICES ASSUME Init PROVE NInv
  OBVIOUS
<1>1. Shaped /\ WorldOK
  <2>1. Shaped /\ online \subseteq Roles /\ faults \in 0 .. MaxFaults
    BY SMT, LinkAssumption DEF Init, Shaped, Roles
  <2>2. paired \in BOOLEAN /\ restarted \in BOOLEAN /\ strict \in BOOLEAN
    BY Zenon DEF Init
  <2> QED
    BY <2>1, <2>2 DEF WorldOK
<1>2. /\ link["creator"] = NewLink /\ link["joiner"] = NewLink
      /\ pc["creator"] = NoPc /\ pc["joiner"] = NoPc
      /\ wire["creator"] = <<>> /\ wire["joiner"] = <<>>
  BY DEF Init, Roles
<1>3. DOMAIN NewLink = LinkFields /\ NewLink.epoch = 0 /\ NewLink.applied = {}
  BY DEF NewLink, LinkFields
<1>4. CreatorOK(NewLink, NoPc) /\ JoinerOK(NewLink, NoPc)
  BY <1>3, FreshPc, EmptyChain, Lengths DEF CreatorOK, JoinerOK, EpochsOK, PcOK, AppliedOK
<1>5. Between(NewLink, NoPc, <<>>, NewLink, NoPc, <<>>)
  BY <1>3, FreshPc, Lengths DEF Between, QueueOK, OffersOK, AnswersOK, AnswersOnce,
       EarlyAtCreator, EarlyAtJoiner
<1>6. Agree
  BY <1>2, <1>4, <1>5 DEF Agree, Agreed
<1> QED
  BY <1>1, <1>6, InitIInv DEF NInv

(* and every step keeps it. *)
LEMMA NextNInv == NInv /\ [Next]_vars => NInv'
BY NextIInv, NextShaped, NextWorld, NextAgrees DEF NInv

(* Whatever is lost, retried or clicked, no link is ahead of the epochs    *)
(* the creator has begun, no more is waited for than N_neg allows, and a   *)
(* connection is only ever asked for what its role asks for.               *)
THEOREM LinkTypeCorrect == Spec => []TypeOK
<1>1. NInv => TypeOK
  <2> SUFFICES ASSUME NInv PROVE TypeOK
    OBVIOUS
  <2>1. /\ online \subseteq Roles /\ paired \in BOOLEAN /\ restarted \in BOOLEAN
        /\ strict \in BOOLEAN /\ faults \in 0 .. MaxFaults
    BY DEF NInv, WorldOK
  <2>2. \A r \in Roles :
          /\ link[r].phase \in {"idle", "negotiating", "connected", "failed"}
          /\ link[r].attempts \in Nat /\ link[r].offerWaits \in 0 .. MaxAttempts
    BY SMT, LinkAssumption DEF NInv, IInv, Within
  <2>3. \A r \in Roles :
          /\ link[r].epoch \in 0 .. link["creator"].epoch
          /\ \A i \in 1 .. Len(wire[r]) : wire[r][i].epoch \in 0 .. link["creator"].epoch
    BY DEF NInv, Agree, Agreed, CreatorOK, JoinerOK, EpochsOK, Between, QueueOK, Items, Roles
  <2>4. /\ PcOK(pc["creator"], link["creator"].epoch, CreatorOps)
        /\ PcOK(pc["joiner"], link["joiner"].epoch, JoinerOps)
    BY DEF NInv, Agree, Agreed, CreatorOK, JoinerOK
  <2>5. \A r \in Roles :
          /\ pc[r].signaling \in {"stable", "have-local-offer", "have-remote-offer"}
          /\ \A i \in 1 .. Len(pc[r].chain) :
               pc[r].chain[i].op \in {"setRemote", "setLocal", "addDirect", "addQueued"}
                 \cup (IF r = "creator" THEN {"createOffer"} ELSE {"createAnswer"})
    BY <2>4 DEF PcOK, ChainOK, CreatorOps, JoinerOps, Additions, Items, Roles
  <2> QED
    BY <2>1, <2>2, <2>3, <2>5 DEF TypeOK
<1> QED
  BY <1>1, InitNInv, NextNInv, PTL DEF Spec

(* An answer is applied to the offer it answers: onNegotiation tests the   *)
(* epoch before it awaits the connection, and no timer, resync or restart  *)
(* in between makes the test stale.                                        *)
THEOREM AnswersMeetTheirOffers == Spec => []AnswersMatch
<1>1. NInv => AnswersMatch
  <2> SUFFICES ASSUME NInv, Settles("creator", "setRemote")
               PROVE  /\ pc["creator"].signaling = "have-local-offer"
                      /\ Head(pc["creator"].chain).epoch = pc["creator"].local
    BY DEF AnswersMatch
  <2>1. AnswerFits(pc["creator"]) /\ IsSeq(pc["creator"].chain)
    BY DEF NInv, Agree, Agreed, CreatorOK, PcOK, ChainOK
  <2>2. pc["creator"].chain # <<>> /\ Head(pc["creator"].chain).op = "setRemote"
    BY Zenon DEF Settles
  <2>3. Head(pc["creator"].chain) = pc["creator"].chain[1] /\ 1 \in Items(pc["creator"].chain)
    BY <2>1, <2>2, TailShorter
  <2> QED
    BY <2>1, <2>2, <2>3 DEF AnswerFits
<1> QED
  BY <1>1, InitNInv, NextNInv, PTL DEF Spec

(* A candidate that onIce hands to the connection at once is of the remote *)
(* description in place, although the sender stamps it with the epoch of   *)
(* the moment: so no candidate fails a negotiation.                        *)
THEOREM DirectCandidatesFit == Spec => []DirectCandidatesMatch
<1>1. NInv => DirectCandidatesMatch
  <2> SUFFICES ASSUME NInv, NEW r \in Roles, Settles(r, "addDirect")
               PROVE  Head(Head(pc[r].chain).queue).of = pc[r].remote
    BY DEF DirectCandidatesMatch
  <2>1. DirectFits(pc[r]) /\ IsSeq(pc[r].chain)
    BY DEF NInv, Agree, Agreed, CreatorOK, JoinerOK, PcOK, ChainOK, Roles
  <2>2. pc[r].chain # <<>> /\ Head(pc[r].chain).op = "addDirect"
    BY Zenon DEF Settles
  <2>3. Head(pc[r].chain) = pc[r].chain[1] /\ 1 \in Items(pc[r].chain)
    BY <2>1, <2>2, TailShorter
  <2> QED
    BY <2>1, <2>2, <2>3 DEF DirectFits
<1> QED
  BY <1>1, InitNInv, NextNInv, PTL DEF Spec
=============================================================================
