------------------------------ MODULE Transfer ------------------------------
(***************************************************************************)
(* One file transfer: the sender, the data channel, the receiver and its   *)
(* sink worker, each taking its steps in any order.                        *)
(***************************************************************************)
EXTENDS Sender, Receiver

vars == <<setup, channelVars, sender, sinkVars, receiver>>

Init == SetupInit /\ ChannelInit /\ SenderInit /\ SinkInit /\ ReceiverInit

senderVars == <<setup, sender>>
receiverVars == <<setup, receiver, sinkVars>>

Next ==
  \/ \E size \in Sizes : Offer(size) /\ UNCHANGED receiverVars
  \/ SenderCancel /\ UNCHANGED receiverVars
  \/ SenderReceives /\ UNCHANGED receiverVars
  \/ ReadSettles /\ UNCHANGED receiverVars
  \/ HashPassEnds /\ UNCHANGED receiverVars
  \/ HashAwaited /\ UNCHANGED receiverVars
  \/ SenderLow /\ UNCHANGED receiverVars
  \/ AckTimeout /\ UNCHANGED receiverVars
  \/ SenderClosed /\ UNCHANGED receiverVars
  \/ Accept /\ UNCHANGED senderVars
  \/ Reject /\ UNCHANGED senderVars
  \/ ReceiverCancel /\ UNCHANGED senderVars
  \/ ReceiverReceives /\ UNCHANGED senderVars
  \/ SinkReplies /\ UNCHANGED senderVars
  \/ StrayReplies /\ UNCHANGED senderVars
  \/ ReceiverClosed /\ UNCHANGED senderVars
  \/ SinkStep /\ UNCHANGED <<senderVars, channelVars, receiver>>
  \/ Transmit /\ UNCHANGED <<sender, receiverVars>>
  \/ SenderCloses /\ UNCHANGED <<sender, receiverVars>>
  \/ ReceiverCloses /\ UNCHANGED <<sender, receiverVars>>

Spec == Init /\ [][Next]_vars

(* The event loops of both pages and the worker run, the network delivers, *)
(* an armed timer fires, and an end learns of the other's close.  Nobody   *)
(* has to offer, accept, cancel or fail.                                   *)
Fairness ==
  /\ WF_vars(SenderReceives /\ UNCHANGED receiverVars)
  /\ WF_vars(ReadSettles /\ UNCHANGED receiverVars)
  /\ WF_vars(HashPassEnds /\ UNCHANGED receiverVars)
  /\ WF_vars(HashAwaited /\ UNCHANGED receiverVars)
  /\ WF_vars(SenderLow /\ UNCHANGED receiverVars)
  /\ WF_vars(AckTimeout /\ UNCHANGED receiverVars)
  /\ WF_vars(SenderClosed /\ UNCHANGED receiverVars)
  /\ WF_vars(ReceiverReceives /\ UNCHANGED senderVars)
  /\ WF_vars(SinkReplies /\ UNCHANGED senderVars)
  /\ WF_vars(StrayReplies /\ UNCHANGED senderVars)
  /\ WF_vars(ReceiverClosed /\ UNCHANGED senderVars)
  /\ WF_vars(SinkStep /\ UNCHANGED <<senderVars, channelVars, receiver>>)
  /\ WF_vars(Transmit /\ UNCHANGED <<sender, receiverVars>>)
  /\ WF_vars(receiverReady # "open" /\ SenderCloses /\ UNCHANGED <<sender, receiverVars>>)
  /\ WF_vars(senderReady # "open" /\ ReceiverCloses /\ UNCHANGED <<sender, receiverVars>>)

FairSpec == Spec /\ Fairness

-----------------------------------------------------------------------------
(* Properties *)

SenderStates == {"idle", "offered", "transferring", "completing"} \cup TerminalStates

(* The sender's and the receiver's records have the fields stats.* have,   *)
(* and the channel's counters the ranges the browser gives them.           *)
TypeOK ==
  /\ senderReady \in ReadyState /\ receiverReady \in ReadyState
  /\ bufferedAmount \in Nat /\ lowEvent \in {"none", "due"}
  /\ sender.state \in SenderStates /\ sender.pc \in {"off", "low", "ack", "read", "hash"}
  /\ sender.size \in Nat /\ sender.nextOffset \in 0 .. sender.size
  /\ sender.ackedOffset \in 0 .. sender.nextOffset
  /\ sender.hash \in {"none", "pending", "ok", "failed"}
  /\ sender.ackTimer \in {"off", "armed"}
  /\ receiver.state \in SenderStates /\ receiver.expectedIndex \in Nat
  /\ receiver.committedOffset \in Nat /\ receiver.nextAckAt \in Nat
  /\ receiver.terminal \in {"none", "ok", "mismatch"}

(* Flow control: whatever the network and the worker do, the un-ACKed      *)
(* bytes stay below the window plus one chunk and the send buffer below    *)
(* high water plus one frame, so memory is bounded on both sides.          *)
BacklogBounded ==
  /\ sender.nextOffset - sender.ackedOffset < Window + ChunkSize
  /\ bufferedAmount <= HighWater + HeaderSize + ChunkSize

(* What is on its way from one loop turn to the ACK that answers it. *)
PipelineEmpty == /\ buf = <<>> /\ net = <<>> /\ back = <<>>
                 /\ toSink = <<>> /\ fromSink = <<>>

(* No wake-up is lost: a loop suspended on the send buffer has a low event *)
(* coming, and one suspended on the window has something in the pipeline   *)
(* that will lead to an ACK or to the end of the transfer.                 *)
NoLostWakeup ==
  senderReady = "open" =>
    /\ sender.pc = "low" => bufferedAmount > LowWater \/ lowEvent = "due"
    /\ sender.pc = "ack" /\ receiverReady = "open" => ~PipelineEmpty

(* An ACK only ever covers bytes the sink has committed, and the sender    *)
(* never counts more as delivered than the receiver has reported.          *)
AcksAreHonest ==
  /\ sender.ackedOffset <= receiver.committedOffset
  /\ receiver.committedOffset <= sender.nextOffset
  /\ \A i \in 1 .. Len(back) :
       back[i].type = "ACK" => back[i].committedOffset <= receiver.committedOffset

(* The two sides compute the same framing, down to the short last chunk    *)
(* and the empty file: the receiver never finds a frame of the sender      *)
(* malformed, out of sequence or missing at COMPLETE.                      *)
FramingAgrees ==
  /\ receiver.error \notin {"bad_frame", "out_of_sequence", "short_write", "too_large"}
  /\ receiver.error = "sink_failure" => "sink" \in setup.faults

(* A receiver that is done holds exactly the bytes of the file offered,    *)
(* by the protocol alone when there is no hash pass; and with it, a file   *)
(* corrupted on the way is never presented as done.                        *)
ContentIsExact ==
  receiver.state = "done" /\ (setup.corrupt => setup.useHash) =>
    receiver.result = FileBytes(sender.size)

(* The transfer implements the delivery contract: verdicts are final, the  *)
(* receiver is done only with the whole file committed, and the sender is  *)
(* done only after the receiver, however cancels, failures, timeouts and   *)
(* closes race with the last messages.                                     *)
Verdict(state) == IF state \in TerminalStates THEN state ELSE "none"

Delivery == INSTANCE FileDelivery WITH
  size            <- sender.size,
  held            <- receiver.committedOffset,
  senderVerdict   <- Verdict(sender.state),
  receiverVerdict <- Verdict(receiver.state)

ImplementsDelivery == Delivery!Spec

(* A transfer that was accepted comes to an end at the sender, and one     *)
(* that was only offered does with its channel.                            *)
SenderEnds ==
  \/ sender.state \in {"transferring", "completing"}
  \/ sender.state = "offered" /\ senderReady = "closing"
  ~> sender.state \in TerminalStates

(* A transfer the receiver takes part in comes to an end there: no lost    *)
(* channel, failed worker or silent peer leaves it in progress for ever.   *)
Receiving == receiver.state \in {"transferring", "completing"}

ReceiverEnds == Receiving ~> receiver.state \in TerminalStates

(* It does whenever it was in progress before its channel had closed.      *)
OpenReceiverEnds == Receiving /\ receiverReady # "closed" ~> receiver.state \in TerminalStates

(* When nothing goes wrong, an accepted file is delivered and confirmed.   *)
AcceptedIsDelivered ==
  receiver.state = "transferring" /\ setup.faults = {} /\ ~setup.corrupt ~>
    sender.state = "done" /\ receiver.state = "done"

(* When only a byte is corrupted on the way, both sides report the         *)
(* mismatch and neither presents the file as delivered.                    *)
CorruptionIsReported ==
  /\ receiver.state = "transferring" /\ receiver.size > 0
  /\ setup.faults = {} /\ setup.corrupt /\ setup.useHash
  ~> sender.error = "hash_mismatch" /\ receiver.error = "hash_mismatch"
=============================================================================
