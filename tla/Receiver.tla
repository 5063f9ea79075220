------------------------------ MODULE Receiver ------------------------------
(***************************************************************************)
(* frontend/src/transfer/receiver.ts: the receiving side of one transfer,  *)
(* over the worker sink.  A Receiver meets one FILE_OFFER in its life (its *)
(* peer's Sender makes one per channel), so transfer identifiers match and *)
(* are left out.                                                           *)
(***************************************************************************)
EXTENDS SinkCore

VARIABLE receiver

ReceiverInit ==
  receiver = [state |-> "idle", accepting |-> "no", stray |-> FALSE, size |-> 0, expectedIndex |-> 0,
              committedOffset |-> 0, nextAckAt |-> 0, error |-> "none",
              terminal |-> "none", result |-> <<>>]

ReceiverTerminal(r) == r.state \in TerminalStates

-----------------------------------------------------------------------------
(* Helpers *)

(* fail() and protocolError() end the transfer here, in the sink and, by   *)
(* an ERROR, at the sender; only fail() looks whether it has ended before. *)
(* It is called for a sink error, after which the worker is terminated.    *)
(* Mutant: the sender is not told.                                         *)
EndWithErrorSilently(r, code) ==
  /\ receiver' = [r EXCEPT !.state = "failed", !.error = code]
  /\ UNCHANGED back
  /\ SinkAbort

EndWithError(r, code) ==
  /\ receiver' = [r EXCEPT !.state = "failed", !.error = code]
  /\ ReceiverSends(<<Error(code)>>)
  /\ SinkAbort

ReceiverFail(code) == IF ReceiverTerminal(receiver)
                      THEN SinkAbort /\ UNCHANGED <<receiver, back>>
                      ELSE EndWithError(receiver, code)

ProtocolError(code) == EndWithError(receiver, code)

ExpectedPayloadLength(size, index) ==
  IF index = TotalChunks(size) - 1 THEN size - index * ChunkSize ELSE ChunkSize

-----------------------------------------------------------------------------
(* The user *)

(* accept(), up to sink.begin.  A second click before the worker is ready  *)
(* makes another sink; the first worker is stray, but its reply will come. *)
(* Bound: two clicks.                                                      *)
Accept ==
  /\ receiver.state = "offered" /\ ~receiver.stray
  /\ receiver' = [receiver EXCEPT !.accepting = "begin", !.stray = (receiver.accepting = "begin")]
  /\ SinkBegin(receiver.size)
  /\ UNCHANGED channelVars

Reject ==
  /\ receiver.state = "offered"
  /\ receiver' = [receiver EXCEPT !.state = "rejected"]
  /\ ReceiverSends(<<[type |-> "FILE_REJECT"]>>)
  /\ UNCHANGED <<senderReady, receiverReady, buf, bufferedAmount, lowEvent, net, sinkVars>>

ReceiverCancel ==
  /\ "cancel" \in setup.faults
  /\ ~ReceiverTerminal(receiver) /\ receiver.state # "idle"
  /\ receiver' = [receiver EXCEPT !.state = "cancelled"]
  /\ ReceiverSends(<<[type |-> "CANCEL"]>>)
  /\ SinkAbort
  /\ UNCHANGED <<senderReady, receiverReady, buf, bufferedAmount, lowEvent, net>>

-----------------------------------------------------------------------------
(* onMessage *)

OnOffer(m) ==
  /\ UNCHANGED sinkVars
  /\ IF receiver.state # "idle" /\ ~ReceiverTerminal(receiver)
     THEN UNCHANGED <<receiver, back>>
     ELSE IF m.size > MaxFileSize
     THEN ReceiverSends(<<Error("too_large")>>) /\ UNCHANGED receiver
     ELSE /\ receiver' = [receiver EXCEPT !.state = "offered", !.size = m.size,
                            !.expectedIndex = 0, !.committedOffset = 0, !.error = "none"]
          /\ UNCHANGED back

OnFrame(m) ==
  LET r       == receiver
      payload == IF setup.corrupt /\ m.index = 0 /\ m.data # <<>>
                 THEN [m.data EXCEPT ![1] = -1] ELSE m.data
  IN IF r.state # "transferring" THEN UNCHANGED <<receiver, back, sinkVars>>
     ELSE IF m.index >= TotalChunks(r.size) \/ Len(m.data) # ExpectedPayloadLength(r.size, m.index)
     THEN ProtocolError("bad_frame")
     ELSE IF m.index < r.expectedIndex THEN UNCHANGED <<receiver, back, sinkVars>>
     ELSE IF m.index > r.expectedIndex THEN ProtocolError("out_of_sequence")
     ELSE /\ receiver' = [r EXCEPT !.expectedIndex = @ + 1]
          /\ SinkPost([type |-> "write", offset |-> m.index * ChunkSize, data |-> payload])
          /\ UNCHANGED back

CompleteAck(verdict) == [type |-> "COMPLETE_ACK", ok |-> verdict = "ok"]

(* A finished transfer is answered from its record.  Mutant: COMPLETE is   *)
(* acknowledged before the sink has finalized.                             *)
OnCompleteEarly(m) ==
  IF receiver.state # "transferring" THEN UNCHANGED <<receiver, back, sinkVars>>
  ELSE /\ receiver' = [receiver EXCEPT !.state = "completing"]
       /\ ReceiverSends(<<CompleteAck("ok")>>)
       /\ SinkPost([type |-> "finalize", expected |-> m.sha256])

OnComplete(m) ==
  IF receiver.terminal # "none"
  THEN ReceiverSends(<<CompleteAck(receiver.terminal)>>) /\ UNCHANGED <<receiver, sinkVars>>
  ELSE IF receiver.state # "transferring" THEN UNCHANGED <<receiver, back, sinkVars>>
  ELSE /\ receiver' = [receiver EXCEPT !.state = "completing"]
       /\ SinkPost([type |-> "finalize", expected |-> m.sha256])
       /\ UNCHANGED back

(* CANCEL and ERROR *)
OnPeerEnds(state, code) ==
  /\ IF ReceiverTerminal(receiver) \/ receiver.state = "idle"
     THEN UNCHANGED <<receiver, sinkVars>>
     ELSE /\ receiver' = [receiver EXCEPT !.state = state, !.error = code]
          /\ SinkAbort
  /\ UNCHANGED back

ReceiverReceives ==
  /\ net # <<>>
  /\ net' = Tail(net)
  /\ LET m == Head(net)
     IN \/ m.type = "FILE_OFFER" /\ OnOffer(m)
        \/ m.type = "CHUNK" /\ OnFrame(m)
        \/ m.type = "COMPLETE" /\ OnComplete(m)
        \/ m.type = "CANCEL" /\ OnPeerEnds("cancelled", receiver.error)
        \/ m.type = "ERROR" /\ OnPeerEnds("failed", m.code)
  /\ UNCHANGED <<senderReady, receiverReady, buf, bufferedAmount, lowEvent>>

-----------------------------------------------------------------------------
(* Replies of the sink *)

(* accept() after sink.begin has resolved. *)
OnReady(r) ==
  /\ IF r.state = "offered"
     THEN /\ receiver' = [r EXCEPT !.state = "transferring", !.accepting = "over",
                                   !.nextAckAt = AckInterval]
          /\ ReceiverSends(<<[type |-> "FILE_ACCEPT"]>>)
     ELSE receiver' = [r EXCEPT !.accepting = "over"] /\ UNCHANGED back
  /\ UNCHANGED sink

(* The first multiple of the ACK interval, from n on, beyond offset. *)
AckMilestone(n, offset) ==
  IF n > offset THEN n ELSE n + AckInterval * ((offset - n) \div AckInterval + 1)

(* Mutant: what is acknowledged is what arrived, not what was committed. *)
OnCommittedAcksArrived(offset) ==
  LET due     == offset >= receiver.nextAckAt \/ offset >= receiver.size
      arrived == IF receiver.expectedIndex * ChunkSize < receiver.size
                 THEN receiver.expectedIndex * ChunkSize ELSE receiver.size
  IN /\ receiver' = [receiver EXCEPT !.committedOffset = offset,
                       !.nextAckAt = IF due THEN AckMilestone(@, offset) ELSE @]
     /\ ReceiverSends(IF due THEN <<[type |-> "ACK", committedOffset |-> arrived]>> ELSE <<>>)
     /\ UNCHANGED sink

OnCommitted(offset) ==
  LET due == offset >= receiver.nextAckAt \/ offset >= receiver.size
  IN /\ receiver' = [receiver EXCEPT !.committedOffset = offset,
                       !.nextAckAt = IF due THEN AckMilestone(@, offset) ELSE @]
     /\ ReceiverSends(IF due THEN <<[type |-> "ACK", committedOffset |-> offset]>> ELSE <<>>)
     /\ UNCHANGED sink

OnDone(rep) ==
  LET verdict == IF rep.ok THEN "ok" ELSE "mismatch"
  IN /\ IF receiver.state # "completing" THEN UNCHANGED <<receiver, back>>
        ELSE /\ receiver' = [receiver EXCEPT
                   !.state    = IF rep.ok THEN "done" ELSE "failed",
                   !.error    = IF rep.ok THEN @ ELSE "hash_mismatch",
                   !.terminal = verdict,
                   !.result   = IF rep.ok THEN rep.result ELSE <<>>]
             /\ ReceiverSends(<<CompleteAck(verdict)>>)
     /\ sink' = [NoSink EXCEPT !.state = "terminated"]

(* The reply of the first of two workers: the await of its accept() goes   *)
(* on, or onError is called.                                               *)
StrayReplies ==
  /\ receiver.stray
  /\ LET r == [receiver EXCEPT !.stray = FALSE]
     IN \/ OnReady(r) /\ UNCHANGED <<toSink, fromSink>>
        \/ /\ "sink" \in setup.faults
           /\ IF ReceiverTerminal(r) THEN receiver' = r /\ UNCHANGED <<back, sinkVars>>
              ELSE EndWithError(r, "sink_failure")
  /\ UNCHANGED <<senderReady, receiverReady, buf, bufferedAmount, lowEvent, net>>

SinkReplies ==
  /\ fromSink # <<>>
  /\ LET rep == Head(fromSink)
     IN \/ rep.type = "ready" /\ OnReady(receiver) /\ fromSink' = Tail(fromSink) /\ UNCHANGED toSink
        \/ /\ rep.type = "committed"
           /\ OnCommitted(rep.committedOffset)
           /\ fromSink' = Tail(fromSink) /\ UNCHANGED toSink
        \/ /\ rep.type = "done"
           /\ OnDone(rep)
           /\ fromSink' = <<>> /\ toSink' = <<>>
        \/ rep.type = "error" /\ ReceiverFail(rep.code)
  /\ UNCHANGED <<senderReady, receiverReady, buf, bufferedAmount, lowEvent, net>>

-----------------------------------------------------------------------------
(* onclose: a transfer that completes is finalized all the same. *)
ReceiverClosed ==
  /\ receiverReady = "closing"
  /\ receiverReady' = "closed"
  /\ IF receiver.state = "transferring"
     THEN /\ receiver' = [receiver EXCEPT !.state = "failed", !.error = "channel_lost"]
          /\ SinkAbort
     ELSE UNCHANGED <<receiver, sinkVars>>
  /\ UNCHANGED <<senderReady, buf, bufferedAmount, lowEvent, net, back>>
=============================================================================
