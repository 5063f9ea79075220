---------------------------- MODULE Transfer_proofs ----------------------------
(* The invariants of Transfer, and that it implements FileDelivery, for any  *)
(* chunk size, window, ACK interval, buffer limits, file and faults.         *)
EXTENDS TransferLemmas

-----------------------------------------------------------------------------
(* What a step leaves alone *)

(* The sink's part of the invariant does not depend on the sender's state. *)
LEMMA SinkKept ==
  ASSUME SinkOK, RequestsOK, RepliesOK, LifeOK,
         UNCHANGED <<setup, receiver, sinkVars>>, sender'.size = sender.size
  PROVE  SinkOK' /\ RequestsOK' /\ RepliesOK' /\ LifeOK'
<1> USE DEF sinkVars
<1>1. /\ \A i \in Int : Posted(i)' = Posted(i)
      /\ \A i \in Int : Reported(i)' = Reported(i)
      /\ Received' = Received /\ Announced' = Announced /\ Arrived' = Arrived
  BY DEF Posted, Reported, Received, Announced, Arrived, CommittedOffset, Least
<1>2. \A b, n : Piece(b, n)' = Piece(b, n)
  BY DEF Piece, Least
<1>3. CommittedOffset' = CommittedOffset
  BY DEF CommittedOffset
<1>4. SinkOK'
  <2>1. Len(fromSink) \in Nat
    BY Length DEF SinkOK
  <2> QED
    BY <1>1, <1>3, <2>1 DEF SinkOK, IsSeq
<1>5. RequestsOK'
  <2>1. Len(toSink) \in Nat
    BY Length DEF SinkOK
  <2>2. ASSUME NEW i \in 1 .. Len(toSink), RequestOK(i) PROVE RequestOK(i)'
    <3>1. Posted(i - 1)' = Posted(i - 1)
      BY <1>1, <2>1
    <3> QED
      BY <1>1, <2>2, <3>1 DEF RequestOK, Piece, Least
  <2> QED
    BY <1>1, <2>1, <2>2 DEF RequestsOK
<1>6. RepliesOK'
  <2>1. Len(fromSink) \in Nat
    BY Length DEF SinkOK
  <2>2. ASSUME NEW i \in 1 .. Len(fromSink), ReplyOK(i) PROVE ReplyOK(i)'
    <3>1. Reported(i - 1)' = Reported(i - 1)
      BY <1>1, <2>1
    <3> QED
      BY <1>1, <2>2, <3>1 DEF ReplyOK, Honest, FileBytes
  <2> QED
    BY <1>1, <2>1, <2>2 DEF RepliesOK
<1>7. LifeOK'
  BY DEF LifeOK
<1> QED
  BY <1>4, <1>5, <1>6, <1>7

-----------------------------------------------------------------------------
(* Moves of the sender that send no chunk *)

(* What a sender may become without sending a chunk. *)
SenderMoves(s, t) ==
  /\ t.size = s.size /\ t.nextOffset = s.nextOffset /\ s.ackedOffset <= t.ackedOffset
  /\ SenderTerminal(s) => t.state = s.state
  /\ s.state \in Past => t.state \in Past
  /\ t.state = "idle" => s.state = "idle"
  /\ Unaccepted(receiver) => /\ t.state \notin {"transferring", "completing", "done"}
                             /\ t.pc = "off"
  /\ t.state = "done" => receiver.state = "done"
  /\ t.state = "rejected" => receiver.state = "rejected"

(* A step of the sender says at most one thing, that is no chunk, ... *)
Says == \/ buf' = buf /\ (senderReady' = senderReady \/ senderReady # "open")
        \/ /\ senderReady = "open" /\ senderReady' = "open"
           /\ \E m : /\ buf' = Append(buf, m) /\ m.type \in {"COMPLETE", "CANCEL", "ERROR"}
                     /\ SentOK(m)'

(* ... and hears at most one. *)
Hears == \/ back' = back
         \/ /\ back # <<>> /\ back' = Tail(back)
            /\ Head(back).type = "ACK" => Head(back).committedOffset <= sender'.ackedOffset
            /\ Head(back).type \in Enders => SenderTerminal(sender')

(* Such a move, with what it says and hears, keeps the invariant. *)
LEMMA SenderStep ==
  ASSUME IInv, UNCHANGED <<setup, receiver, sinkVars, receiverReady, net, bufferedAmount>>,
         senderReady' \in ReadyState, senderReady' = "open" => senderReady = "open",
         lowEvent' \in {"none", "due"},
         Says, Hears, SenderOK(sender'), SenderMoves(sender, sender'),
         buf' # buf => sender'.state # "idle",
         sender'.pc = "read" => bufferedAmount <= HighWater,
         senderReady' = "open" /\ sender'.pc = "low" => bufferedAmount > LowWater \/ lowEvent' = "due"
  PROVE  IInv'
<1> USE DEF IInv
<1>1. SetupOK' /\ SenderOK(sender)'
  BY DEF SetupOK, SenderOK, SenderType, LoopOK, StateOK
<1>2. Received' = Received /\ Arrived' = Arrived /\ Announced' = Announced
  BY DEF SenderMoves, Received, Arrived, Announced, Least
<1>3. ReceiverOK'
  BY <1>2 DEF ReceiverOK, ReceiverType, SenderMoves, Honest
<1>4. IsSeq(buf) /\ IsSeq(net) /\ IsSeq(back) /\ IsSeq(Stream)
  BY Joined DEF ChannelOK, Stream
<1>5. IsSeq(buf') /\ IsSeq(back') /\ IsSeq(net')
  <2>1. IsSeq(buf')
    BY <1>4, Appended DEF Says
  <2>2. IsSeq(back')
    BY <1>4, Tailed DEF Hears
  <2> QED
    BY <1>4, <2>1, <2>2
<1>6. ChannelOK'
  <2>1. IsSeq(buf)' /\ IsSeq(back)' /\ IsSeq(net)'
    BY <1>5 DEF IsSeq
  <2> QED
    BY <2>1 DEF ChannelOK, Says
<1>7. \/ Stream' = Stream /\ buf' = buf
      \/ /\ senderReady = "open" /\ senderReady' = "open"
         /\ \E m : /\ Stream' = Append(Stream, m) /\ buf' = Append(buf, m)
                   /\ m.type \in {"COMPLETE", "CANCEL", "ERROR"} /\ SentOK(m)'
  BY <1>4, Streams DEF Says, Stream
<1>8. Handshake'
  <2>1. receiver.state = "idle" => back' = <<>>
    BY DEF Hears, Handshake
  <2>2. sender'.state = "idle" => Stream' = <<>>
    BY <1>7 DEF SenderMoves, Handshake
  <2> QED
    BY <2>1, <2>2 DEF Handshake, SenderMoves, Unaccepted
<1>9. CountOK'
  <2>1. senderReady' = "open" => Buffered' = Buffered
    <3>1. CASE buf' = buf
      BY <3>1 DEF Buffered, SenderMoves, Wire, From
    <3>2. CASE buf' # buf
      <4>1. PICK m : buf' = Append(buf, m) /\ m.type # "CHUNK"
        BY <3>2 DEF Says
      <4>2. buf' # <<>> /\ (IF buf = <<>> THEN buf'[1] = m ELSE buf'[1] = buf[1])
        BY <1>4, <4>1, Appended, Length
      <4> QED
        BY <4>1, <4>2 DEF Buffered, SenderMoves, Wire, From
    <3> QED
      BY <3>1, <3>2
  <2> QED
    BY <2>1 DEF CountOK
<1>10. \A m : SentOK(m) => SentOK(m)'
  BY <1>2 DEF SentOK, ChunkOK, SenderMoves, SenderTerminal, Piece, Least, From, To, Honest, FileBytes
<1>11. \A a, b : Follows(a, b) => Follows(a, b)'
  BY DEF Follows, SenderMoves, To, From
<1>12. Len(Stream) \in Nat
  BY <1>4, Length
<1>13. StreamOK'
  <2>1. CASE Stream' = Stream
    BY <1>10, <1>11, <1>12, <2>1 DEF StreamOK
  <2>2. CASE Stream' # Stream
    <3>1. PICK m : Stream' = Append(Stream, m) /\ m.type \in {"COMPLETE", "CANCEL", "ERROR"} /\ SentOK(m)'
      BY <1>7, <2>2
    <3>2. /\ Len(Stream') = Len(Stream) + 1 /\ Stream'[Len(Stream) + 1] = m
          /\ \A i \in 1 .. Len(Stream) : Stream'[i] = Stream[i]
      BY <1>4, <3>1, Appended
    <3>3. \A i \in 1 .. Len(Stream') : SentOK(Stream[i])'
      BY <1>10, <1>12, <3>1, <3>2 DEF StreamOK
    <3>4. ASSUME NEW i \in 1 .. Len(Stream') - 1 PROVE Follows(Stream[i], Stream[i + 1])'
      <4>1. CASE i < Len(Stream)
        BY <1>11, <1>12, <3>2, <4>1 DEF StreamOK
      <4>2. CASE i = Len(Stream)
        <5>1. senderReady = "open"
          BY <1>7, <2>2
        <5>2. Stream # <<>> /\ Stream'[i] = Stream[Len(Stream)] /\ Stream'[i + 1] = m
          BY <1>4, <1>12, <3>2, <4>2, Length
        <5>3. Stream[Len(Stream)].type = "CHUNK" => To(Stream[Len(Stream)]) = sender'.nextOffset
          BY <5>1, <5>2 DEF PlaceOK, SenderMoves
        <5> QED
          BY <3>1, <5>2, <5>3 DEF Follows, To, From
      <4> QED
        BY <1>12, <3>2, <4>1, <4>2
    <3> QED
      BY <3>3, <3>4 DEF StreamOK
  <2> QED
    BY <2>1, <2>2
<1>14. PlaceOK'
  <2>1. CASE Stream' = Stream
    BY <1>2, <2>1 DEF PlaceOK, SenderMoves, To, From
  <2>2. CASE Stream' # Stream
    <3>1. PICK m : Stream' = Append(Stream, m) /\ m.type \in {"COMPLETE", "CANCEL", "ERROR"}
      BY <1>7, <2>2
    <3>2. /\ Len(Stream') = Len(Stream) + 1 /\ Stream'[Len(Stream) + 1] = m /\ Stream' # <<>>
          /\ \A i \in 1 .. Len(Stream) : Stream'[i] = Stream[i]
      BY <1>4, <3>1, Appended
    <3>3. IF Stream = <<>> THEN Stream'[1] = m ELSE Stream'[1] = Stream[1]
      BY <1>4, <1>12, <3>2, Length
    <3>4. senderReady = "open"
      BY <1>7, <2>2
    <3> QED
      BY <1>2, <3>1, <3>2, <3>3, <3>4 DEF PlaceOK, SenderMoves
  <2> QED
    BY <2>1, <2>2
<1>15. BackOK'
  <2>1. \A m : AnswerOK(m) => AnswerOK(m)'
    BY DEF AnswerOK, SenderMoves, Honest
  <2>2. \A i \in 1 .. Len(back') : \E j \in 1 .. Len(back) : back'[i] = back[j]
    <3>1. CASE back' = back
      BY <3>1
    <3>2. CASE back # <<>> /\ back' = Tail(back)
      <4>1. Len(back) \in Nat \ {0} /\ Len(back') = Len(back) - 1
            /\ \A i \in 1 .. Len(back) - 1 : back'[i] = back[i + 1]
        BY <1>4, <3>2, Tailed
      <4>2. ASSUME NEW i \in 1 .. Len(back') PROVE i + 1 \in 1 .. Len(back) /\ back'[i] = back[i + 1]
        BY <4>1
      <4> QED
        BY <4>2
    <3> QED
      BY <3>1, <3>2 DEF Hears
  <2> QED
    BY <2>1, <2>2 DEF BackOK
<1>16. ASSUME NEW i \in 1 .. Len(back)
       PROVE  \/ \E j \in 1 .. Len(back') : back'[j] = back[i]
              \/ /\ back[i].type = "ACK" => back[i].committedOffset <= sender'.ackedOffset
                 /\ back[i].type \in Enders => SenderTerminal(sender')
  <2>1. CASE back' = back
    BY <2>1
  <2>2. CASE back' # back
    <3>1. /\ back # <<>> /\ back' = Tail(back)
          /\ Head(back).type = "ACK" => Head(back).committedOffset <= sender'.ackedOffset
          /\ Head(back).type \in Enders => SenderTerminal(sender')
      BY <2>2 DEF Hears
    <3>2. /\ Len(back) \in Nat \ {0} /\ Len(back') = Len(back) - 1 /\ Head(back) = back[1]
          /\ \A j \in 1 .. Len(back) - 1 : back'[j] = back[j + 1]
      BY <1>4, <3>1, Tailed
    <3>3. CASE i = 1
      BY <3>1, <3>2, <3>3
    <3>4. CASE i # 1
      <4>1. i - 1 \in 1 .. Len(back') /\ back'[i - 1] = back[i]
        <5>1. i - 1 \in 1 .. Len(back) - 1 /\ (i - 1) + 1 = i
          BY <3>2, <3>4
        <5> QED
          BY <5>1, <3>2
      <4> QED
        BY <4>1
    <3> QED
      BY <3>3, <3>4
  <2> QED
    BY <2>1, <2>2
<1>17. EndIsTold'
  BY <1>16 DEF EndIsTold, SenderMoves, SenderTerminal, ReceiverTerminal
<1>18. AcksAreTold'
  <2> SUFFICES ASSUME senderReady' = "open", receiverReady' = "open", receiver'.state = "transferring"
               PROVE  AcksAreTold'
    BY DEF AcksAreTold
  <2>0. /\ sender.ackedOffset \in Nat /\ sender'.ackedOffset \in Nat
        /\ receiver.nextAckAt \in Nat /\ AckInterval \in Nat
    BY LimitsAssumption DEF SenderOK, SenderType, ReceiverOK, ReceiverType
  <2>1. CASE receiver.nextAckAt <= sender.ackedOffset + AckInterval
    BY <2>0, <2>1 DEF AcksAreTold, SenderMoves
  <2>2. CASE \E i \in 1 .. Len(back) :
               back[i].type = "ACK" /\ receiver.nextAckAt <= back[i].committedOffset + AckInterval
    <3>1. PICK i \in 1 .. Len(back) :
               back[i].type = "ACK" /\ receiver.nextAckAt <= back[i].committedOffset + AckInterval
      BY <2>2
    <3>2. CASE \E j \in 1 .. Len(back') : back'[j] = back[i]
      BY <3>1, <3>2 DEF AcksAreTold
    <3>3. CASE back[i].committedOffset <= sender'.ackedOffset
      <4>1. AnswerOK(back[i])
        BY <3>1 DEF BackOK
      <4>2. back[i].committedOffset \in Nat
        BY <3>1, <4>1 DEF AnswerOK, ReceiverOK, ReceiverType
      <4> QED
        BY <2>0, <3>1, <3>3, <4>2 DEF AcksAreTold
    <3> QED
      BY <1>16, <3>1, <3>2, <3>3
  <2> QED
    BY <2>1, <2>2 DEF AcksAreTold
<1>19. SinkOK' /\ RequestsOK' /\ RepliesOK' /\ LifeOK'
  BY SinkKept DEF SenderMoves
<1> QED
  BY <1>1, <1>3, <1>6, <1>8, <1>9, <1>13, <1>14, <1>15, <1>17, <1>18, <1>19

(* send puts one message in the buffer, or none when the channel closes. *)
LEMMA OneSaid ==
  ASSUME ChannelOK, NEW m, SenderSends(<<m>>), UNCHANGED senderReady,
         m.type \in {"COMPLETE", "CANCEL", "ERROR"}, SentOK(m)'
  PROVE  Says
<1>1. buf \o <<m>> = Append(buf, m)
  BY Appended DEF ChannelOK
<1> QED
  BY <1>1 DEF SenderSends, Says

(* Nothing to send leaves the buffer alone. *)
LEMMA NoneSaid == ASSUME ChannelOK, SenderSends(<<>>) PROVE buf' = buf
BY Appended DEF ChannelOK, SenderSends

-----------------------------------------------------------------------------
(* The sender's actions *)

(* cancel(). *)
LEMMA SenderCancelKeeps == ASSUME IInv, SenderCancel, UNCHANGED receiverVars PROVE IInv'
<1> USE DEF IInv
<1> DEFINE s == [sender EXCEPT !.state = "cancelled", !.hash = HashCancelled(@)]
           t == WakeAll(s)
<1>1. /\ sender' = t /\ SenderSends(<<[type |-> "CANCEL"]>>) /\ ~SenderTerminal(sender)
      /\ UNCHANGED <<setup, receiver, sinkVars, senderReady, receiverReady, net, back,
                     bufferedAmount, lowEvent>>
  BY DEF SenderCancel, receiverVars
<1>2. SenderType(s) /\ SameOffsets(sender, s) /\ s.state = "cancelled" /\ s.pc = sender.pc
  BY Cancelled DEF SenderOK
<1> HIDE DEF s
<1>3. /\ SenderType(t) /\ SameOffsets(s, t) /\ t.state = "cancelled"
      /\ t.pc = IF s.pc \in {"low", "ack"} THEN "off" ELSE s.pc
  BY <1>2, Woken
<1> HIDE DEF t
<1>4. SenderOK(sender')
  BY <1>1, <1>2, <1>3 DEF SenderOK, LoopOK, StateOK, SameOffsets
<1>5. SenderMoves(sender, sender')
  BY <1>1, <1>2, <1>3 DEF SenderMoves, SameOffsets, Past, TerminalStates, Handshake,
    SenderTerminal, SenderOK, SenderType
<1>6. SentOK([type |-> "CANCEL"])'
  BY <1>1, <1>3 DEF SentOK, SenderTerminal, TerminalStates
<1>7. Says /\ Hears
  BY <1>1, <1>6, OneSaid DEF Hears
<1>8. sender'.pc = "read" => bufferedAmount <= HighWater
  BY <1>1, <1>2, <1>3 DEF CountOK
<1> QED
  BY <1>1, <1>2, <1>3, <1>4, <1>5, <1>7, <1>8, SenderStep DEF ChannelOK

(* The hash pass ends. *)
LEMMA HashPassEndsKeeps == ASSUME IInv, HashPassEnds, UNCHANGED receiverVars PROVE IInv'
<1> USE DEF IInv
<1>1. PICK h \in {"ok", "failed"} : sender' = [sender EXCEPT !.hash = h]
  BY DEF HashPassEnds
<1>2. UNCHANGED <<setup, receiver, sinkVars, channelVars>>
  BY DEF HashPassEnds, receiverVars
<1>3. /\ DOMAIN sender' = DOMAIN sender /\ sender'.hash = h /\ SameOffsets(sender, sender')
      /\ sender'.state = sender.state /\ sender'.pc = sender.pc
      /\ sender'.ackTimer = sender.ackTimer
  BY <1>1 DEF SenderOK, SenderType, SameOffsets
<1>4. SenderOK(sender')
  BY <1>3 DEF SenderOK, SenderType, LoopOK, StateOK, SameOffsets
<1>5. SenderMoves(sender, sender')
  BY <1>3 DEF SenderMoves, SameOffsets, Handshake, SenderOK, SenderType
<1>6. Says /\ Hears
  BY <1>2 DEF Says, Hears, channelVars
<1> QED
  BY <1>2, <1>3, <1>4, <1>5, <1>6, SenderStep DEF ChannelOK, CountOK, channelVars

(* onbufferedamountlow. *)
LEMMA SenderLowKeeps == ASSUME IInv, SenderLow, UNCHANGED receiverVars PROVE IInv'
<1> USE DEF IInv
<1>1. /\ lowEvent' = "none" /\ lowEvent = "due"
      /\ UNCHANGED <<setup, receiver, sinkVars, senderReady, receiverReady, buf, net, back,
                     bufferedAmount>>
  BY DEF SenderLow, receiverVars
<1>2. Says /\ Hears
  BY <1>1 DEF Says, Hears
<1>3. HighWater \in Nat /\ LowWater \in Nat /\ LowWater <= HighWater
  BY LimitsAssumption
<1>4. CASE sender.pc = "low"
  <2> PICK t : t = Resume(sender, bufferedAmount)
    OBVIOUS
  <2>1. sender' = t
    BY <1>4 DEF SenderLow
  <2>2. /\ SenderOK(t) /\ SameOffsets(sender, t) /\ t.state = "transferring"
        /\ t.pc = "read" => bufferedAmount <= HighWater
        /\ t.pc = "low" => bufferedAmount > HighWater
    <3>1. sender.state = "transferring" /\ SenderType(sender) /\ bufferedAmount \in Nat
      BY <1>4 DEF SenderOK, LoopOK, CountOK
    <3>2. /\ sender.size <= MaxFileSize
          /\ sender.nextOffset < sender.size =>
               sender.nextOffset = (sender.nextOffset \div ChunkSize) * ChunkSize
          /\ sender.nextOffset - sender.ackedOffset < Window + ChunkSize
      BY DEF SenderOK, LoopOK, StateOK
    <3> QED
      BY <3>1, <3>2, Resumed
  <2>3. SenderMoves(sender, sender')
    BY <1>4, <2>1, <2>2 DEF SenderMoves, SameOffsets, Handshake, SenderOK, SenderType, LoopOK,
      Past, SenderTerminal, TerminalStates
  <2>4. sender'.pc = "low" => bufferedAmount > LowWater
    BY <1>3, <2>1, <2>2 DEF CountOK
  <2> QED
    BY <1>1, <1>2, <2>1, <2>2, <2>3, <2>4, SenderStep DEF ChannelOK
<1>5. CASE sender.pc # "low"
  <2>1. sender' = sender
    BY <1>5 DEF SenderLow
  <2>2. SenderMoves(sender, sender')
    BY <2>1 DEF SenderMoves, Handshake, SenderOK, SenderType
  <2> QED
    BY <1>1, <1>2, <1>5, <2>1, <2>2, SenderStep DEF ChannelOK, CountOK
<1> QED
  BY <1>4, <1>5

(* A move whose record differs only in what the rest does not see. *)
LEMMA QuietMove ==
  ASSUME IInv, UNCHANGED <<setup, receiver, sinkVars, receiverReady, net, bufferedAmount, lowEvent>>,
         senderReady' \in ReadyState, senderReady' = "open" => senderReady = "open", Says, Hears,
         SenderType(sender'), SameOffsets(sender, sender'),
         sender'.pc \in {sender.pc, "off"},
         sender'.state # sender.state \/ buf' # buf => sender'.pc = "off" /\ sender.state # "idle",
         sender'.state \in {sender.state, "failed", "cancelled"},
         SenderTerminal(sender) => sender'.state = sender.state
  PROVE  IInv'
<1> USE DEF IInv
<1>1. SenderOK(sender')
  BY DEF SenderOK, LoopOK, StateOK, SameOffsets
<1>2. SenderMoves(sender, sender')
  BY DEF SenderMoves, SameOffsets, Past, TerminalStates, Handshake, SenderTerminal,
    SenderOK, SenderType
<1> QED
  BY <1>1, <1>2, SenderStep DEF CountOK, ChannelOK, SenderTerminal, TerminalStates

(* The wait for COMPLETE_ACK is over. *)
LEMMA AckTimeoutKeeps == ASSUME IInv, AckTimeout, UNCHANGED receiverVars PROVE IInv'
<1> USE DEF IInv
<1> DEFINE s == [sender EXCEPT !.ackTimer = "off"]
<1>1. /\ IF s.state = "completing"
         THEN sender' = SenderFail(s, "internal") /\ SenderSends(<<Error("internal")>>)
         ELSE sender' = s /\ buf' = buf
      /\ UNCHANGED <<setup, receiver, sinkVars, senderReady, receiverReady, net, back,
                     bufferedAmount, lowEvent>>
  BY DEF AckTimeout, receiverVars
<1>2. SenderType(s) /\ SameOffsets(sender, s) /\ s.state = sender.state /\ s.pc = sender.pc
  BY Stopped DEF SenderOK
<1> HIDE DEF s
<1>3. Hears /\ senderReady' \in ReadyState
  BY <1>1 DEF Hears, ChannelOK
<1>4. CASE s.state = "completing"
  <2>1. /\ SenderType(sender') /\ SameOffsets(s, sender') /\ sender'.pc = s.pc
        /\ sender'.state = "failed"
    BY <1>1, <1>2, <1>4, Failed DEF SenderTerminal, TerminalStates
  <2>2. SentOK(Error("internal"))'
    BY <1>1, <2>1 DEF SentOK, SenderTerminal, TerminalStates, Error, Honest
  <2>3. Says
    BY <1>1, <1>4, <2>2, OneSaid DEF Error
  <2>4. sender.pc = "off"
    BY <1>2, <1>4 DEF SenderOK, StateOK
  <2> QED
    BY <1>1, <1>2, <1>3, <1>4, <2>1, <2>3, <2>4, QuietMove DEF SameOffsets, SenderTerminal,
      TerminalStates
<1>5. CASE s.state # "completing"
  <2>1. Says
    BY <1>1, <1>5 DEF Says
  <2> QED
    BY <1>1, <1>2, <1>3, <1>5, <2>1, QuietMove
<1> QED
  BY <1>4, <1>5

(* onclose. *)
LEMMA SenderClosedKeeps == ASSUME IInv, SenderClosed, UNCHANGED receiverVars PROVE IInv'
<1> USE DEF IInv
<1> DEFINE r == [sender EXCEPT !.ackTimer = "off"]
           s == WakeAll(r)
<1>1. /\ sender' = IF s.state = "idle" THEN s ELSE SenderFail(s, "channel_lost")
      /\ senderReady = "closing" /\ senderReady' = "closed" /\ buf' = buf
      /\ UNCHANGED <<setup, receiver, sinkVars, receiverReady, net, back, bufferedAmount, lowEvent>>
  BY DEF SenderClosed, receiverVars
<1>2. SenderType(r) /\ SameOffsets(sender, r) /\ r.state = sender.state /\ r.pc = sender.pc
  BY Stopped DEF SenderOK
<1> HIDE DEF r
<1>3. /\ SenderType(s) /\ SameOffsets(sender, s) /\ s.state = sender.state
      /\ s.pc = IF sender.pc \in {"low", "ack"} THEN "off" ELSE sender.pc
  BY <1>2, Woken DEF SameOffsets
<1> HIDE DEF s
<1>4. /\ SenderType(sender') /\ SameOffsets(sender, sender') /\ sender'.pc = s.pc
      /\ sender'.state \in {sender.state, "failed"}
      /\ SenderTerminal(sender) \/ sender.state = "idle" => sender'.state = sender.state
  BY <1>1, <1>3, Failed DEF SameOffsets, SenderTerminal
<1>5. Says /\ Hears /\ senderReady' \in ReadyState
  BY <1>1 DEF Says, Hears, ReadyState
<1>6. SenderOK(sender')
  BY <1>3, <1>4 DEF SenderOK, LoopOK, StateOK, SameOffsets
<1>7. SenderMoves(sender, sender')
  BY <1>3, <1>4 DEF SenderMoves, SameOffsets, Past, TerminalStates, Handshake, SenderTerminal,
    SenderOK, SenderType
<1> QED
  BY <1>1, <1>3, <1>4, <1>5, <1>6, <1>7, SenderStep DEF CountOK, ChannelOK, ReadyState

(* fail() says ERROR to a sender that had not ended. *)
LEMMA FailSaid ==
  ASSUME ChannelOK, UNCHANGED <<setup, senderReady>>, NEW code, Honest(code),
         SenderSends(SenderFailSends(sender, code)), SenderTerminal(sender'),
         sender.state # "idle" \/ buf' = buf
  PROVE  Says
<1>1. CASE SenderFailSends(sender, code) = <<>>
  BY <1>1, NoneSaid DEF Says
<1>2. CASE SenderFailSends(sender, code) = <<Error(code)>>
  <2>1. SentOK(Error(code))'
    BY DEF SentOK, Error, Honest
  <2> QED
    BY <1>2, <2>1, OneSaid DEF Error
<1> QED
  BY <1>1, <1>2 DEF SenderFailSends

(* The end of run(), once the hash is there. *)
LEMMA HashAwaitedKeeps == ASSUME IInv, HashAwaited, UNCHANGED receiverVars PROVE IInv'
<1> USE DEF IInv
<1> DEFINE off == [sender EXCEPT !.pc = "off"]
<1>1. /\ \/ /\ sender' = SenderFail(off, "read_failure")
            /\ SenderSends(SenderFailSends(sender, "read_failure"))
         \/ sender' = off /\ buf' = buf
         \/ /\ sender.state = "transferring"
            /\ SenderSends(<<[type |-> "COMPLETE", sha256 |->
                 IF setup.useHash THEN Digest(FileBytes(sender.size)) ELSE NoHash]>>)
            /\ sender' = [off EXCEPT !.state = "completing", !.ackTimer = "armed"]
      /\ sender.pc = "hash"
      /\ UNCHANGED <<setup, receiver, sinkVars, senderReady, receiverReady, net, back,
                     bufferedAmount, lowEvent>>
  BY DEF HashAwaited, receiverVars
<1>2. SenderType(off) /\ SameOffsets(sender, off) /\ off.state = sender.state /\ off.pc = "off"
  <2>1. off.pc = "off"
    BY DEF SenderOK, SenderType
  <2> QED
    BY <2>1, Stopped DEF SenderOK
<1> HIDE DEF off
<1>3. Hears /\ senderReady' \in ReadyState
  BY <1>1 DEF Hears, ChannelOK
<1>4. sender.nextOffset = sender.size /\ sender.state # "idle"
  BY <1>1 DEF SenderOK, LoopOK, StateOK
<1>5. CASE /\ sender' = SenderFail(off, "read_failure")
           /\ SenderSends(SenderFailSends(sender, "read_failure"))
  <2>1. /\ SenderType(sender') /\ SameOffsets(off, sender') /\ sender'.pc = "off"
        /\ sender'.state = IF SenderTerminal(off) THEN off.state ELSE "failed"
    BY <1>2, <1>5, Failed
  <2>2. SenderTerminal(sender') /\ (SenderTerminal(sender) => sender'.state = sender.state)
        /\ sender'.state \in {sender.state, "failed"}
    BY <1>2, <2>1 DEF SenderTerminal, TerminalStates
  <2>3. Says
    BY <1>1, <1>4, <1>5, <2>2, FailSaid DEF Honest
  <2> QED
    BY <1>1, <1>2, <1>3, <1>4, <2>1, <2>2, <2>3, QuietMove DEF SameOffsets
<1>6. CASE sender' = off /\ buf' = buf
  <2>1. Says
    BY <1>1, <1>6 DEF Says
  <2> QED
    BY <1>1, <1>2, <1>3, <1>6, <2>1, QuietMove
<1>7. CASE /\ sender.state = "transferring"
           /\ SenderSends(<<[type |-> "COMPLETE", sha256 |->
                IF setup.useHash THEN Digest(FileBytes(sender.size)) ELSE NoHash]>>)
           /\ sender' = [off EXCEPT !.state = "completing", !.ackTimer = "armed"]
  <2> PICK m : m = [type |-> "COMPLETE", sha256 |-> Announced]
    OBVIOUS
  <2>1. /\ DOMAIN sender' = DOMAIN off /\ sender'.state = "completing" /\ sender'.ackTimer = "armed"
        /\ sender'.pc = "off" /\ sender'.hash = off.hash /\ SameOffsets(off, sender')
    BY <1>2, <1>7 DEF SenderType, SameOffsets
  <2>2. SenderOK(sender')
    BY <1>2, <1>4, <2>1 DEF SenderOK, SenderType, LoopOK, StateOK, SameOffsets, SenderStates
  <2>3. SenderMoves(sender, sender')
    BY <1>2, <1>7, <2>1 DEF SenderMoves, SameOffsets, Past, SenderTerminal, TerminalStates,
      Handshake, SenderOK, SenderType
  <2>4. Announced' = Announced
    BY <1>1, <2>3 DEF Announced, SenderMoves
  <2>5. SentOK(m)'
    BY <1>4, <2>1, <2>3, <2>4 DEF SentOK, SenderMoves, Past
  <2>6. Says
    BY <1>1, <1>7, <2>5, OneSaid DEF Announced
  <2> QED
    BY <1>1, <1>3, <2>1, <2>2, <2>3, <2>6, SenderStep DEF ChannelOK
<1> QED
  BY <1>1, <1>5, <1>6, <1>7

(* FILE_ACCEPT starts the loop of a sender whose offer is open. *)
LEMMA AcceptHeard ==
  ASSUME IInv, UNCHANGED <<setup, receiver, sinkVars, senderReady, receiverReady, net, buf,
                           bufferedAmount, lowEvent>>,
         back # <<>>, back' = Tail(back), Head(back).type = "FILE_ACCEPT", ~Unaccepted(receiver),
         sender' = IF sender.state = "offered" THEN Started(sender) ELSE sender
  PROVE  IInv'
<1> USE DEF IInv
<1>1. Says /\ Hears /\ senderReady' \in ReadyState /\ lowEvent' \in {"none", "due"}
  BY DEF Says, Hears, ChannelOK, Enders
<1>2. CASE sender.state # "offered"
  BY <1>1, <1>2, QuietMove DEF SenderOK, SameOffsets
<1>3. CASE sender.state = "offered"
  <2> DEFINE s == [sender EXCEPT !.state = "transferring",
                                 !.hash = IF setup.useHash THEN "pending" ELSE "ok"]
  <2>1. sender' = Resume(s, bufferedAmount)
    BY <1>3 DEF Started
  <2>2. /\ DOMAIN s = DOMAIN sender /\ s.state = "transferring" /\ s.hash \in {"pending", "ok"}
        /\ s.pc = sender.pc /\ s.ackTimer = sender.ackTimer /\ SameOffsets(sender, s)
    BY DEF SenderOK, SenderType, SameOffsets
  <2> HIDE DEF s
  <2>3. SenderType(s) /\ s.nextOffset = 0 /\ s.size <= MaxFileSize
    BY <1>3, <2>2 DEF SenderOK, SenderType, StateOK, SameOffsets, SenderStates
  <2>4. 0 = (0 \div ChunkSize) * ChunkSize
    BY LimitsAssumption
  <2>5. s.nextOffset - s.ackedOffset < Window + ChunkSize
    BY <2>3, LimitsAssumption DEF SenderType
  <2> PICK t : t = Resume(s, bufferedAmount)
    OBVIOUS
  <2>6. /\ SenderOK(t) /\ SameOffsets(s, t) /\ t.state = "transferring"
        /\ t.pc = "read" => bufferedAmount <= HighWater
        /\ t.pc = "low" => bufferedAmount > HighWater
    BY <2>2, <2>3, <2>4, <2>5, Resumed DEF CountOK
  <2>7. SenderMoves(sender, t)
    BY <1>3, <2>2, <2>6 DEF SenderMoves, SameOffsets, Past, SenderTerminal, TerminalStates,
      SenderOK, SenderType
  <2>8. t.pc = "low" => bufferedAmount > LowWater
    BY <2>6, LimitsAssumption DEF CountOK
  <2> QED
    BY <1>1, <2>1, <2>6, <2>7, <2>8, SenderStep
<1> QED
  BY <1>2, <1>3

(* FILE_REJECT ends an offer that is open. *)
LEMMA RejectHeard ==
  ASSUME IInv, UNCHANGED <<setup, receiver, sinkVars, senderReady, receiverReady, net, buf,
                           bufferedAmount, lowEvent>>,
         back # <<>>, back' = Tail(back), Head(back).type = "FILE_REJECT",
         receiver.state = "rejected",
         sender' = IF sender.state = "offered" THEN [sender EXCEPT !.state = "rejected"] ELSE sender
  PROVE  IInv'
<1> USE DEF IInv
<1>1. Says /\ senderReady' \in ReadyState /\ lowEvent' \in {"none", "due"}
  BY DEF Says, ChannelOK
<1>2. sender.state \in {"offered"} \cup TerminalStates /\ sender.pc \in {"off", "low", "ack", "read", "hash"}
  BY DEF Handshake, Unaccepted, SenderOK, SenderType, SenderStates
<1>3. CASE sender.state # "offered"
  <2>1. Hears
    BY <1>2, <1>3 DEF Hears, SenderTerminal
  <2> QED
    BY <1>1, <1>3, <2>1, QuietMove DEF SenderOK, SameOffsets
<1>4. CASE sender.state = "offered"
  <2>1. /\ DOMAIN sender' = DOMAIN sender /\ sender'.state = "rejected" /\ sender'.hash = sender.hash
        /\ sender'.pc = sender.pc /\ sender'.ackTimer = sender.ackTimer /\ SameOffsets(sender, sender')
    BY <1>4 DEF SenderOK, SenderType, SameOffsets
  <2>2. SenderOK(sender')
    BY <1>4, <2>1 DEF SenderOK, SenderType, LoopOK, StateOK, SameOffsets, SenderStates, TerminalStates
  <2>3. SenderMoves(sender, sender')
    BY <1>4, <2>1 DEF SenderMoves, SameOffsets, Past, SenderTerminal, TerminalStates, Handshake,
      SenderOK, SenderType
  <2>4. Hears
    BY <2>1 DEF Hears, SenderTerminal, TerminalStates
  <2> QED
    BY <1>1, <1>4, <2>1, <2>2, <2>3, <2>4, SenderStep DEF CountOK
<1> QED
  BY <1>3, <1>4

(* An ACK moves the window on, and wakes a loop that waits for it. *)
LEMMA AckHeard ==
  ASSUME IInv, UNCHANGED <<setup, receiver, sinkVars, senderReady, receiverReady, net, buf,
                           bufferedAmount, lowEvent>>,
         back # <<>>, back' = Tail(back), NEW m, m = Head(back), m.type = "ACK",
         m.committedOffset \in 0 .. receiver.committedOffset,
         sender' = OnAck(sender, m)
  PROVE  IInv'
<1> USE DEF IInv
<1>1. Says /\ senderReady' \in ReadyState /\ lowEvent' \in {"none", "due"}
  BY DEF Says, ChannelOK
<1>2. /\ m.committedOffset \in Nat /\ sender.nextOffset \in Nat /\ sender.ackedOffset \in Nat
      /\ m.committedOffset <= sender.nextOffset
  <2>1. receiver.committedOffset \in Nat /\ Arrived \in Nat
    <3>1. receiver.expectedIndex * ChunkSize \in Nat
      BY Multiples DEF ReceiverOK, ReceiverType
    <3> QED
      BY <3>1 DEF ReceiverOK, ReceiverType, Arrived, Least
  <2> QED
    BY <2>1 DEF ReceiverOK, SenderOK, SenderType
<1>3. CASE ~(m.committedOffset > sender.ackedOffset)
  <2>1. sender' = sender
    BY <1>3 DEF OnAck
  <2>2. Hears
    BY <1>2, <1>3, <2>1 DEF Hears, Enders
  <2> QED
    BY <1>1, <2>1, <2>2, QuietMove DEF SenderOK, SameOffsets
<1>4. CASE m.committedOffset > sender.ackedOffset
  <2> DEFINE t == [sender EXCEPT !.ackedOffset = m.committedOffset]
  <2>1. sender' = IF t.pc = "ack" THEN Resume(t, bufferedAmount) ELSE t
    BY <1>2, <1>4 DEF OnAck
  <2>2. /\ DOMAIN t = DOMAIN sender /\ t.state = sender.state /\ t.hash = sender.hash
        /\ t.pc = sender.pc /\ t.ackTimer = sender.ackTimer /\ t.size = sender.size
        /\ t.nextOffset = sender.nextOffset /\ t.ackedOffset = m.committedOffset
    BY DEF SenderOK, SenderType
  <2> HIDE DEF t
  <2>3. Window \in Nat /\ ChunkSize \in Nat /\ LowWater \in Nat /\ HighWater \in Nat /\ LowWater <= HighWater
    BY LimitsAssumption
  <2>4. SenderType(t) /\ t.size <= MaxFileSize
    BY <1>2, <1>4, <2>2 DEF SenderOK, SenderType, StateOK
  <2>5. /\ t.nextOffset < t.size => t.nextOffset = (t.nextOffset \div ChunkSize) * ChunkSize
        /\ t.nextOffset - t.ackedOffset < Window + ChunkSize
    BY <1>2, <1>4, <2>2, <2>3 DEF SenderOK, LoopOK
  <2>6. CASE t.pc # "ack"
    <3>1. SenderOK(t)
      BY <1>2, <1>4, <2>2, <2>3, <2>4, <2>5, <2>6 DEF SenderOK, LoopOK, StateOK
    <3>2. SenderMoves(sender, t)
      BY <1>2, <1>4, <2>2 DEF SenderMoves, SenderTerminal, Handshake, SenderOK, SenderType
    <3>3. Hears
      BY <1>2, <2>1, <2>2, <2>6 DEF Hears, Enders
    <3> QED
      BY <1>1, <2>1, <2>2, <2>6, <3>1, <3>2, <3>3, SenderStep DEF CountOK
  <2>7. CASE t.pc = "ack"
    <3>1. t.state = "transferring"
      BY <2>2, <2>7 DEF SenderOK, LoopOK
    <3> PICK r : r = Resume(t, bufferedAmount)
      OBVIOUS
    <3>2. /\ SenderOK(r) /\ SameOffsets(t, r) /\ r.state = "transferring"
          /\ r.pc = "read" => bufferedAmount <= HighWater
          /\ r.pc = "low" => bufferedAmount > HighWater
      BY <2>4, <2>5, <3>1, Resumed DEF CountOK
    <3>3. SenderMoves(sender, r)
      BY <1>2, <1>4, <2>2, <2>7, <3>1, <3>2 DEF SenderMoves, SameOffsets, SenderTerminal,
        TerminalStates, Past, Handshake, SenderOK, SenderType
    <3>4. Hears
      BY <1>2, <2>1, <2>2, <2>7, <3>2 DEF Hears, Enders, SameOffsets
    <3>5. r.pc = "low" => bufferedAmount > LowWater
      BY <2>3, <3>2 DEF CountOK
    <3> QED
      BY <1>1, <2>1, <2>7, <3>2, <3>3, <3>4, <3>5, SenderStep
  <2> QED
    BY <2>6, <2>7
<1> QED
  BY <1>3, <1>4

(* COMPLETE_ACK is the verdict a completing sender waits for. *)
LEMMA CompleteAckHeard ==
  ASSUME IInv, UNCHANGED <<setup, receiver, sinkVars, senderReady, receiverReady, net,
                           bufferedAmount, lowEvent>>,
         back # <<>>, back' = Tail(back), NEW m, m = Head(back), m.type = "COMPLETE_ACK",
         m.ok => receiver.state = "done", sender.state \in Past,
         sender' = OnCompleteAck(sender, m),
         SenderSends(IF sender.state = "completing" /\ ~m.ok
                     THEN SenderFailSends(sender, "hash_mismatch") ELSE <<>>)
  PROVE  IInv'
<1> USE DEF IInv
<1>1. senderReady' \in ReadyState /\ lowEvent' \in {"none", "due"}
  BY DEF ChannelOK
<1>2. CASE sender.state # "completing"
  <2>1. sender' = sender /\ buf' = buf
    BY <1>2, NoneSaid DEF OnCompleteAck
  <2>2. Says /\ Hears
    BY <1>2, <2>1 DEF Says, Hears, Past, SenderTerminal
  <2> QED
    BY <1>1, <2>1, <2>2, QuietMove DEF SenderOK, SameOffsets
<1>3. CASE sender.state = "completing" /\ ~m.ok
  <2>1. sender' = SenderFail(sender, "hash_mismatch")
        /\ SenderSends(SenderFailSends(sender, "hash_mismatch"))
    BY <1>3 DEF OnCompleteAck
  <2>2. /\ SenderType(sender') /\ SameOffsets(sender, sender') /\ sender'.pc = sender.pc
        /\ sender'.state = "failed" /\ sender.pc = "off"
    BY <1>3, <2>1, Failed DEF SenderOK, StateOK, SenderTerminal, TerminalStates
  <2>3. Says
    BY <1>3, <2>1, <2>2, FailSaid DEF SenderTerminal, TerminalStates, Honest
  <2>4. Hears
    BY <2>2 DEF Hears, SenderTerminal, TerminalStates
  <2> QED
    BY <1>1, <1>3, <2>2, <2>3, <2>4, QuietMove DEF SenderTerminal, TerminalStates
<1>4. CASE sender.state = "completing" /\ m.ok
  <2>1. buf' = buf
    BY <1>4, NoneSaid
  <2>2. sender' = [sender EXCEPT !.state = "done", !.ackTimer = "off"]
    BY <1>4 DEF OnCompleteAck
  <2>3. /\ DOMAIN sender' = DOMAIN sender /\ sender'.state = "done" /\ sender'.hash = sender.hash
        /\ sender'.pc = sender.pc /\ sender'.ackTimer = "off" /\ SameOffsets(sender, sender')
    BY <2>2 DEF SenderOK, SenderType, SameOffsets
  <2>4. sender.pc = "off"
    BY <1>4 DEF SenderOK, StateOK
  <2>5. SenderOK(sender')
    BY <2>3, <2>4 DEF SenderOK, SenderType, LoopOK, StateOK, SameOffsets, SenderStates, TerminalStates
  <2>6. SenderMoves(sender, sender')
    BY <1>4, <2>3 DEF SenderMoves, SameOffsets, Past, SenderTerminal, TerminalStates, Handshake,
      SenderOK, SenderType, Unaccepted
  <2>7. Says /\ Hears
    BY <2>1, <2>3 DEF Says, Hears, SenderTerminal, TerminalStates
  <2> QED
    BY <1>1, <2>1, <2>3, <2>4, <2>5, <2>6, <2>7, SenderStep
<1> QED
  BY <1>2, <1>3, <1>4

(* CANCEL and ERROR end the transfer at the sender. *)
LEMMA EndHeard ==
  ASSUME IInv, UNCHANGED <<setup, receiver, sinkVars, senderReady, receiverReady, net,
                           bufferedAmount, lowEvent>>,
         back # <<>>, back' = Tail(back), NEW m, m = Head(back),
         \/ /\ m.type = "CANCEL" /\ buf' = buf
            /\ sender' = IF SenderTerminal(sender) THEN sender
                         ELSE WakeAll([sender EXCEPT !.state = "cancelled",
                                                     !.hash = HashCancelled(@)])
         \/ /\ m.type = "ERROR" /\ Honest(m.code)
            /\ sender' = IF SenderTerminal(sender) THEN sender
                         ELSE WakeAll(SenderFail(sender, m.code))
            /\ SenderSends(SenderFailSends(sender, m.code))
  PROVE  IInv'
<1> USE DEF IInv
<1>1. senderReady' \in ReadyState /\ lowEvent' \in {"none", "due"}
  BY DEF ChannelOK
<1>2. sender.state # "idle"
  BY DEF Handshake
<1>3. CASE SenderTerminal(sender)
  <2>1. sender' = sender /\ buf' = buf
    BY <1>3, NoneSaid DEF SenderFailSends
  <2>2. Says /\ Hears
    BY <1>3, <2>1 DEF Says, Hears
  <2> QED
    BY <1>1, <2>1, <2>2, QuietMove DEF SenderOK, SameOffsets
<1>4. CASE ~SenderTerminal(sender)
  <2>1. PICK s : /\ SenderType(s) /\ SameOffsets(sender, s) /\ s.state \in {"failed", "cancelled"}
                 /\ s.pc = sender.pc /\ sender' = WakeAll(s)
    <3>1. CASE m.type = "CANCEL"
      <4> DEFINE s == [sender EXCEPT !.state = "cancelled", !.hash = HashCancelled(@)]
      <4>1. SenderType(s) /\ SameOffsets(sender, s) /\ s.state = "cancelled" /\ s.pc = sender.pc
        BY Cancelled DEF SenderOK
      <4>2. sender' = WakeAll(s)
        BY <1>4, <3>1
      <4> HIDE DEF s
      <4> QED
        BY <4>1, <4>2
    <3>2. CASE m.type = "ERROR"
      <4> PICK s : s = SenderFail(sender, m.code)
        OBVIOUS
      <4>1. SenderType(s) /\ SameOffsets(sender, s) /\ s.state = "failed" /\ s.pc = sender.pc
        BY <1>4, Failed DEF SenderOK
      <4> QED
        BY <1>4, <3>2, <4>1
    <3> QED
      BY <3>1, <3>2
  <2>2. /\ SenderType(sender') /\ SameOffsets(sender, sender') /\ sender'.state \in {"failed", "cancelled"}
        /\ sender'.pc = IF sender.pc \in {"low", "ack"} THEN "off" ELSE sender.pc
    BY <2>1, Woken DEF SameOffsets
  <2>3. SenderTerminal(sender')
    BY <2>2 DEF SenderTerminal, TerminalStates
  <2>4. Says
    <3>1. CASE m.type = "CANCEL"
      BY <3>1 DEF Says
    <3>2. CASE m.type = "ERROR"
      BY <1>2, <2>3, <3>2, FailSaid
    <3> QED
      BY <3>1, <3>2
  <2>5. Hears
    BY <2>3 DEF Hears
  <2>6. SenderOK(sender')
    BY <2>2 DEF SenderOK, LoopOK, StateOK, SameOffsets
  <2>7. SenderMoves(sender, sender')
    BY <1>4, <2>2 DEF SenderMoves, SameOffsets, Past, SenderTerminal, TerminalStates, Handshake,
      SenderOK, SenderType
  <2> QED
    BY <1>1, <2>2, <2>4, <2>5, <2>6, <2>7, SenderStep DEF CountOK
<1> QED
  BY <1>3, <1>4

(* onMessage. *)
LEMMA SenderReceivesKeeps == ASSUME IInv, SenderReceives, UNCHANGED receiverVars PROVE IInv'
<1> PICK m : m = Head(back)
  OBVIOUS
<1>1. back # <<>> /\ back' = Tail(back)
  BY DEF SenderReceives
<1>2. UNCHANGED <<setup, receiver, sinkVars, senderReady, receiverReady, net, bufferedAmount, lowEvent>>
  BY DEF SenderReceives, receiverVars
<1>3. AnswerOK(m)
  BY <1>1, Tailed DEF IInv, BackOK, ChannelOK
<1>4. CASE m.type = "FILE_ACCEPT"
  <2>1. buf' = buf /\ sender' = IF sender.state = "offered" THEN Started(sender) ELSE sender
    BY <1>4 DEF SenderReceives
  <2> QED
    BY <1>1, <1>2, <1>3, <1>4, <2>1, AcceptHeard DEF AnswerOK
<1>5. CASE m.type = "FILE_REJECT"
  <2>1. /\ buf' = buf
        /\ sender' = IF sender.state = "offered" THEN [sender EXCEPT !.state = "rejected"] ELSE sender
    BY <1>5 DEF SenderReceives
  <2> QED
    BY <1>1, <1>2, <1>3, <1>5, <2>1, RejectHeard DEF AnswerOK
<1>6. CASE m.type = "ACK"
  <2>1. buf' = buf /\ sender' = OnAck(sender, m)
    BY <1>6 DEF SenderReceives
  <2>2. m.committedOffset \in 0 .. receiver.committedOffset
    BY <1>3, <1>6 DEF AnswerOK
  <2> QED
    BY <1>1, <1>2, <1>6, <2>1, <2>2, AckHeard
<1>7. CASE m.type = "COMPLETE_ACK"
  <2>1. /\ sender' = OnCompleteAck(sender, m)
        /\ SenderSends(IF sender.state = "completing" /\ ~m.ok
                       THEN SenderFailSends(sender, "hash_mismatch") ELSE <<>>)
    BY <1>7 DEF SenderReceives
  <2>2. (m.ok => receiver.state = "done") /\ sender.state \in Past
    BY <1>3, <1>7 DEF AnswerOK
  <2> QED
    BY <1>1, <1>2, <1>7, <2>1, <2>2, CompleteAckHeard
<1>8. CASE m.type \in {"CANCEL", "ERROR"}
  <2>1. \/ /\ m.type = "CANCEL" /\ buf' = buf
           /\ sender' = IF SenderTerminal(sender) THEN sender
                        ELSE WakeAll([sender EXCEPT !.state = "cancelled",
                                                    !.hash = HashCancelled(@)])
        \/ /\ m.type = "ERROR"
           /\ sender' = IF SenderTerminal(sender) THEN sender
                        ELSE WakeAll(SenderFail(sender, m.code))
           /\ SenderSends(SenderFailSends(sender, m.code))
    BY <1>8 DEF SenderReceives
  <2>2. m.type = "ERROR" => Honest(m.code)
    BY <1>3 DEF AnswerOK
  <2> QED
    BY <1>1, <1>2, <2>1, <2>2, EndHeard
<1> QED
  BY <1>3, <1>4, <1>5, <1>6, <1>7, <1>8 DEF AnswerOK

-----------------------------------------------------------------------------
(* A chunk is sent *)

(* While the transfer is under way only chunks are on their way. *)
LEMMA OnlyChunks ==
  ASSUME StreamOK, Handshake, sender.state = "transferring"
  PROVE  \A i \in 1 .. Len(Stream) : Stream[i].type = "CHUNK" /\ ChunkOK(Stream[i])
BY DEF StreamOK, SentOK, Handshake, Unaccepted, SenderTerminal, Past, TerminalStates

(* The chunk continues the file, in its buffer and in its weight. *)
LEMMA ChunkSent ==
  ASSUME IInv, UNCHANGED <<setup, receiver, sinkVars, senderReady, receiverReady, lowEvent, net, back>>,
         sender.pc = "read", sender.state = "transferring", senderReady = "open",
         NEW m, m.type = "CHUNK", m.index = sender.nextOffset \div ChunkSize,
         m.data = Payload(sender),
         buf' = Append(buf, m), bufferedAmount' = bufferedAmount + HeaderSize + Len(m.data),
         SenderOK(sender'), sender'.state = "transferring", sender'.size = sender.size,
         sender'.ackedOffset = sender.ackedOffset,
         sender'.nextOffset = sender.nextOffset + PayloadLength(sender),
         sender'.pc = "read" => bufferedAmount' <= HighWater,
         sender'.pc = "low" => bufferedAmount' > HighWater
  PROVE  IInv'
<1> USE DEF IInv
<1> PICK next : next = sender.nextOffset
  OBVIOUS
<1> PICK n : n = PayloadLength(sender)
  OBVIOUS
<1> PICK k : k = next \div ChunkSize
  OBVIOUS
<1>1. /\ next \in Nat /\ sender.size \in Nat /\ next < sender.size /\ sender.ackedOffset \in 0 .. next
      /\ next = k * ChunkSize
  BY DEF SenderOK, SenderType, LoopOK
<1>2. /\ ChunkSize \in Nat \ {0} /\ HeaderSize \in Nat /\ HighWater \in Nat /\ LowWater \in Nat
      /\ LowWater <= HighWater
  BY LimitsAssumption
<1>3. k \in Nat
  BY <1>1, <1>2, Division
<1>4. /\ m.data = Piece(FileBytes(sender.size), next) /\ n = Len(m.data) /\ n \in 1 .. ChunkSize
      /\ next + n <= sender.size
  BY <1>1, PayloadIsPiece
<1>5. m.index = k /\ From(m) = next /\ To(m) = next + n /\ sender'.nextOffset = next + n
  BY <1>1, <1>4 DEF From, To
<1>6. ~Unaccepted(receiver) /\ receiver.size = sender.size
  BY DEF Handshake, ReceiverOK, Unaccepted
<1>7. receiver.state \notin {"idle", "completing", "done"} /\ receiver.terminal = "none"
  BY <1>6 DEF ReceiverOK, Past, TerminalStates, Unaccepted
<1>8. Received' = Received /\ Announced' = Announced /\ Arrived' = Arrived
  BY DEF Received, Announced, Arrived, Least
<1>9. SetupOK' /\ SenderOK(sender)'
  BY DEF SetupOK, SenderOK, SenderType, LoopOK, StateOK
<1>10. ReceiverOK'
  <2>1. receiver.committedOffset <= Arrived /\ Arrived <= next /\ Arrived \in Nat
    <3>1. receiver.expectedIndex * ChunkSize \in Nat
      BY Multiples DEF ReceiverOK, ReceiverType
    <3> QED
      BY <3>1 DEF ReceiverOK, ReceiverType, Arrived, Least
  <2>2. Arrived' <= sender'.nextOffset
    BY <1>1, <1>4, <1>5, <1>8, <2>1
  <2> QED
    BY <1>7, <1>8, <2>2 DEF ReceiverOK, ReceiverType, Honest
<1>11. Handshake'
  BY <1>6, <1>7 DEF Handshake, Unaccepted
<1>12. IsSeq(buf) /\ IsSeq(net) /\ IsSeq(Stream) /\ Len(Stream) \in Nat
  BY Joined, Length DEF ChannelOK, Stream
<1>13. ChannelOK'
  <2>1. IsSeq(buf')
    BY <1>12, Appended
  <2> QED
    BY <2>1 DEF ChannelOK, IsSeq
<1>14. /\ Stream' = Append(Stream, m) /\ Stream' # <<>>
       /\ Len(Stream') = Len(Stream) + 1 /\ Stream'[Len(Stream) + 1] = m
       /\ \A i \in 1 .. Len(Stream) : Stream'[i] = Stream[i]
  <2>1. Stream' = Append(Stream, m)
    BY <1>12, Streams DEF Stream
  <2> QED
    BY <1>12, <2>1, Appended
<1>15. \A i \in 1 .. Len(Stream) : Stream[i].type = "CHUNK" /\ ChunkOK(Stream[i])
  BY OnlyChunks
<1>16. ASSUME Stream # <<>>
       PROVE  Stream[Len(Stream)].index + 1 = k
  <2> PICK a : a = Stream[Len(Stream)]
    OBVIOUS
  <2>1. Len(Stream) \in 1 .. Len(Stream)
    BY <1>12, <1>16, Length
  <2>2. a.type = "CHUNK" /\ ChunkOK(a) /\ To(a) = next
    BY <1>15, <1>16, <2>1 DEF PlaceOK
  <2>3. a.index \in Nat /\ From(a) \in Nat /\ From(a) < sender.size
        /\ a.data = Piece(FileBytes(sender.size), From(a))
    BY <2>2, Multiples DEF ChunkOK, From
  <2>4. Len(a.data) = ChunkSize
    <3>1. IsSeq(FileBytes(sender.size)) /\ Len(FileBytes(sender.size)) = sender.size
      BY <1>1, Files
    <3> PICK f : f = From(a)
      OBVIOUS
    <3>2. f + Len(Piece(FileBytes(sender.size), f)) = next
      BY <2>2, <2>3 DEF To
    <3>3. f \in Nat /\ f < Len(FileBytes(sender.size)) /\ a.data = Piece(FileBytes(sender.size), f)
      BY <2>3, <3>1
    <3>4. f + Len(Piece(FileBytes(sender.size), f)) < Len(FileBytes(sender.size))
      BY <1>1, <3>1, <3>2
    <3>5. Len(Piece(FileBytes(sender.size), f)) = ChunkSize
      BY <3>1, <3>3, <3>4, Pieces
    <3> QED
      BY <3>3, <3>5
  <2>5. (a.index + 1) * ChunkSize = k * ChunkSize
    BY <1>1, <2>2, <2>3, <2>4, Multiples DEF To, From
  <2>6. a.index + 1 \in Nat
    BY <2>3
  <2> QED
    BY <1>3, <2>5, <2>6, Multiples
<1>17. CountOK'
  <2>1. bufferedAmount \in Nat /\ bufferedAmount <= HighWater /\ bufferedAmount = Buffered
    BY DEF CountOK
  <2>2. Wire(next + n) = Wire(next) + HeaderSize + n
    BY <1>1, <1>3, <1>4, WireOfChunk
  <2>3. bufferedAmount' = Buffered'
    <3>1. CASE buf = <<>>
      <4>1. buf' # <<>> /\ buf'[1] = m
        BY <1>12, <3>1, Appended, Length
      <4>2. Wire(next) \in Nat /\ bufferedAmount = 0
        BY <1>1, <2>1, <3>1, WireGrows DEF Buffered
      <4>3. Buffered' = Wire(next + n) - Wire(next)
        BY <1>5, <4>1 DEF Buffered, From, Wire
      <4> QED
        BY <1>2, <1>4, <2>2, <4>2, <4>3
    <3>2. CASE buf # <<>>
      <4>1. Len(buf) \in Nat \ {0} /\ Len(net) \in Nat
        BY <1>12, <3>2, Length
      <4>2. Stream[Len(net) + 1] = buf[1] /\ Len(net) + 1 \in 1 .. Len(Stream)
        BY <1>12, <4>1, Joined DEF Stream
      <4>3. buf[1].type = "CHUNK" /\ ChunkOK(buf[1])
        BY <1>15, <4>2
      <4>4. buf' # <<>> /\ buf'[1] = buf[1]
        BY <1>12, <4>1, Appended
      <4> PICK f : f = From(buf[1])
        OBVIOUS
      <4>5. f \in Nat
        BY <4>3, Multiples DEF ChunkOK, From
      <4>6. Buffered = Wire(next) - Wire(f) /\ Buffered' = Wire(next + n) - Wire(f)
        BY <1>5, <3>2, <4>3, <4>4 DEF Buffered, From, Wire
      <4>7. Wire(next) \in Nat /\ Wire(f) \in Nat
        BY <1>1, <4>5, WireGrows
      <4>8. \A a, b, c, h, l \in Int : c = a + h + l => c - b = (a - b) + h + l
        OBVIOUS
      <4>9. Wire(next + n) \in Int /\ n \in Int
        BY <1>2, <1>4, <2>2, <4>7
      <4>10. Wire(next + n) - Wire(f) = (Wire(next) - Wire(f)) + HeaderSize + n
        BY <1>2, <2>2, <4>7, <4>8, <4>9
      <4>11. bufferedAmount' = Buffered + HeaderSize + n
        BY <1>4, <2>1
      <4> QED
        BY <4>6, <4>10, <4>11
    <3> QED
      BY <3>1, <3>2
  <2> QED
    BY <1>2, <1>4, <2>1, <2>3 DEF CountOK
<1>18. StreamOK'
  <2>1. ASSUME NEW i \in 1 .. Len(Stream') PROVE SentOK(Stream[i])'
    <3> PICK a : a = Stream'[i]
      OBVIOUS
    <3>1. a.type = "CHUNK" /\ ChunkOK(a)'
      <4>0. ChunkOK(a)' <=> /\ a.index \in Nat /\ From(a) < sender.size
                            /\ To(a) <= sender'.nextOffset
                            /\ a.data = Piece(FileBytes(sender.size), From(a))
        BY DEF ChunkOK, From, To, Piece, Least, FileBytes
      <4>1. CASE i = Len(Stream) + 1
        <5>1. a = m
          BY <1>14, <4>1
        <5> QED
          BY <1>1, <1>3, <1>4, <1>5, <4>0, <5>1
      <4>2. CASE i # Len(Stream) + 1
        <5>1. i \in 1 .. Len(Stream)
          BY <1>12, <1>14, <4>2
        <5>2. a.type = "CHUNK" /\ ChunkOK(a)
          BY <1>14, <1>15, <5>1
        <5>3. From(a) \in Nat /\ Len(a.data) \in Nat
          <6>1. IsSeq(FileBytes(sender.size)) /\ Len(FileBytes(sender.size)) = sender.size
            BY <1>1, Files
          <6>2. From(a) \in Nat /\ From(a) < sender.size
                /\ a.data = Piece(FileBytes(sender.size), From(a))
            BY <5>2, Multiples DEF ChunkOK, From
          <6> PICK f : f = From(a)
            OBVIOUS
          <6>3. Len(Piece(FileBytes(sender.size), f)) \in Nat
            BY <1>2, <6>1, <6>2, Pieces
          <6> QED
            BY <6>2, <6>3
        <5>4. To(a) <= next + n
          BY <1>1, <1>4, <5>2, <5>3 DEF ChunkOK, To
        <5> QED
          BY <1>5, <4>0, <5>2, <5>4 DEF ChunkOK
      <4> QED
        BY <4>1, <4>2
    <3> QED
      BY <3>1 DEF SentOK, ChunkOK, From, To
  <2>2. ASSUME NEW i \in 1 .. Len(Stream') - 1 PROVE Follows(Stream[i], Stream[i + 1])'
    <3>1. CASE i < Len(Stream)
      <4>1. i \in 1 .. Len(Stream) - 1 /\ i \in 1 .. Len(Stream) /\ i + 1 \in 1 .. Len(Stream)
        BY <1>12, <3>1
      <4>2. Follows(Stream[i], Stream[i + 1]) /\ Stream[i + 1].type = "CHUNK"
        BY <1>15, <4>1 DEF StreamOK
      <4> QED
        BY <1>14, <4>1, <4>2 DEF Follows
    <3>2. CASE i = Len(Stream)
      <4>1. Stream # <<>> /\ Len(Stream) \in 1 .. Len(Stream)
        BY <1>12, <3>2, Length
      <4> QED
        BY <1>5, <1>14, <1>15, <1>16, <3>2, <4>1 DEF Follows
    <3> QED
      BY <1>12, <1>14, <3>1, <3>2
  <2> QED
    BY <2>1, <2>2 DEF StreamOK
<1>19. PlaceOK'
  <2>1. To(m) = sender'.nextOffset /\ Stream'[Len(Stream')] = m
    BY <1>5, <1>14
  <2>2. ASSUME receiver.state = "transferring", receiverReady = "open"
        PROVE  Stream'[1].type = "CHUNK" /\ Stream'[1].index = receiver.expectedIndex
    <3>1. CASE Stream = <<>>
      <4>1. Arrived = next /\ Stream'[1] = m
        BY <1>14, <2>2, <3>1, Empty DEF PlaceOK
      <4>2. receiver.expectedIndex \in Nat /\ receiver.expectedIndex * ChunkSize = k * ChunkSize
        BY <1>1, <1>6, <4>1, Multiples DEF Arrived, Least, ReceiverOK, ReceiverType
      <4> QED
        BY <1>3, <1>5, <4>1, <4>2, Multiples
    <3>2. CASE Stream # <<>>
      <4>1. 1 \in 1 .. Len(Stream)
        BY <1>12, <3>2, Length
      <4> QED
        BY <1>14, <1>15, <2>2, <3>2, <4>1 DEF PlaceOK
    <3> QED
      BY <3>1, <3>2
  <2> QED
    BY <1>14, <2>1, <2>2 DEF PlaceOK, To, From
<1>20. BackOK'
  BY DEF BackOK, AnswerOK, Honest, Past, TerminalStates
<1>21. EndIsTold' /\ AcksAreTold'
  BY DEF EndIsTold, AcksAreTold, SenderTerminal, TerminalStates
<1>22. SinkOK' /\ RequestsOK' /\ RepliesOK' /\ LifeOK'
  BY SinkKept
<1> QED
  BY <1>9, <1>10, <1>11, <1>13, <1>17, <1>18, <1>19, <1>20, <1>21, <1>22

(* source.read settles. *)
LEMMA ReadSettlesKeeps == ASSUME IInv, ReadSettles, UNCHANGED receiverVars PROVE IInv'
<1> USE DEF IInv
<1> DEFINE m   == [type |-> "CHUNK", index |-> sender.nextOffset \div ChunkSize,
                   data |-> Payload(sender)]
           off == [sender EXCEPT !.pc = "off"]
           s   == [sender EXCEPT !.nextOffset = @ + PayloadLength(sender)]
<1>1. /\ sender.pc = "read" /\ lowEvent' = lowEvent
      /\ UNCHANGED <<setup, receiver, sinkVars, senderReady, receiverReady, net, back>>
  BY DEF ReadSettles, receiverVars
<1>2. \/ sender' = off /\ buf' = buf /\ bufferedAmount' = bufferedAmount
      \/ /\ sender.state = "transferring" /\ senderReady = "open"
         /\ buf' = Append(buf, m) /\ bufferedAmount' = bufferedAmount + Weight(m)
         /\ sender' = Resume(s, bufferedAmount')
      \/ /\ sender.state = "transferring" /\ sender' = SenderFail(off, "send_failure")
         /\ buf' = buf /\ bufferedAmount' = bufferedAmount
      \/ /\ sender' = SenderFail(off, "read_failure") /\ bufferedAmount' = bufferedAmount
         /\ SenderSends(SenderFailSends(sender, "read_failure"))
  BY DEF ReadSettles
<1>3. SenderType(off) /\ SameOffsets(sender, off) /\ off.state = sender.state /\ off.pc = "off"
  <2>1. off.pc = "off"
    BY DEF SenderOK, SenderType
  <2> QED
    BY <2>1, Stopped DEF SenderOK
<1>4. Hears /\ senderReady' \in ReadyState /\ sender.state # "idle"
  BY <1>1 DEF Hears, ChannelOK, SenderOK, StateOK
<1> HIDE DEF off
<1>5. CASE sender' = off /\ buf' = buf /\ bufferedAmount' = bufferedAmount
  <2>1. Says
    BY <1>1, <1>5 DEF Says
  <2> QED
    BY <1>1, <1>3, <1>4, <1>5, <2>1, QuietMove
<1>6. CASE /\ sender.state = "transferring" /\ sender' = SenderFail(off, "send_failure")
           /\ buf' = buf /\ bufferedAmount' = bufferedAmount
  <2>1. /\ SenderType(sender') /\ SameOffsets(off, sender') /\ sender'.pc = "off"
        /\ sender'.state = "failed"
    BY <1>3, <1>6, Failed DEF SenderTerminal, TerminalStates
  <2>2. Says
    BY <1>1, <1>6 DEF Says
  <2> QED
    BY <1>1, <1>3, <1>4, <1>6, <2>1, <2>2, QuietMove DEF SameOffsets, SenderTerminal, TerminalStates
<1>7. CASE /\ sender' = SenderFail(off, "read_failure") /\ bufferedAmount' = bufferedAmount
           /\ SenderSends(SenderFailSends(sender, "read_failure"))
  <2>1. /\ SenderType(sender') /\ SameOffsets(off, sender') /\ sender'.pc = "off"
        /\ sender'.state = IF SenderTerminal(off) THEN off.state ELSE "failed"
    BY <1>3, <1>7, Failed
  <2>2. SenderTerminal(sender') /\ (SenderTerminal(sender) => sender'.state = sender.state)
        /\ sender'.state \in {sender.state, "failed"}
    BY <1>3, <2>1 DEF SenderTerminal, TerminalStates
  <2>3. Says
    BY <1>1, <1>4, <1>7, <2>2, FailSaid DEF Honest
  <2> QED
    BY <1>1, <1>3, <1>4, <1>7, <2>1, <2>2, <2>3, QuietMove DEF SameOffsets
<1>8. CASE /\ sender.state = "transferring" /\ senderReady = "open"
           /\ buf' = Append(buf, m) /\ bufferedAmount' = bufferedAmount + Weight(m)
           /\ sender' = Resume(s, bufferedAmount')
  <2> PICK n : n = PayloadLength(sender)
    OBVIOUS
  <2> PICK next : next = sender.nextOffset
    OBVIOUS
  <2>1. /\ next \in Nat /\ sender.size \in Nat /\ next < sender.size
        /\ sender.ackedOffset \in 0 .. next /\ next - sender.ackedOffset < Window
        /\ sender.size <= MaxFileSize
    BY <1>1 DEF SenderOK, SenderType, LoopOK, StateOK
  <2>2. /\ ChunkSize \in Nat \ {0} /\ HeaderSize \in Nat /\ Window \in Nat
    BY LimitsAssumption
  <2>3. /\ n = Len(m.data) /\ n \in 1 .. ChunkSize /\ next + n <= sender.size
        /\ next + n < sender.size => n = ChunkSize
    BY <2>1, PayloadIsPiece
  <2>4. m.type = "CHUNK" /\ m.index = sender.nextOffset \div ChunkSize /\ m.data = Payload(sender)
    OBVIOUS
  <2>5. bufferedAmount' = bufferedAmount + HeaderSize + Len(m.data) /\ bufferedAmount' \in Nat
    BY <1>8, <2>2, <2>3, <2>4 DEF Weight, CountOK
  <2> HIDE DEF m
  <2>6. /\ DOMAIN s = DOMAIN sender /\ s.state = "transferring" /\ s.hash = sender.hash
        /\ s.pc = "read" /\ s.ackTimer = sender.ackTimer /\ s.size = sender.size
        /\ s.ackedOffset = sender.ackedOffset /\ s.nextOffset = next + n
    BY <1>1, <1>8 DEF SenderOK, SenderType
  <2> HIDE DEF s
  <2>7. SenderType(s)
    <3>1. s.nextOffset \in 0 .. s.size /\ s.ackedOffset \in 0 .. s.nextOffset /\ s.size \in Nat
      BY <2>1, <2>2, <2>3, <2>6
    <3>2. /\ DOMAIN sender = {"state", "pc", "size", "nextOffset", "ackedOffset", "hash",
                             "ackTimer", "error"}
          /\ sender.hash \in {"none", "pending", "ok", "failed"} /\ sender.ackTimer \in {"off", "armed"}
      BY DEF SenderOK, SenderType
    <3> QED
      BY <2>6, <3>1, <3>2 DEF SenderType, SenderStates
  <2>8. s.nextOffset < s.size => s.nextOffset = (s.nextOffset \div ChunkSize) * ChunkSize
    <3>1. SUFFICES ASSUME s.nextOffset < s.size
                   PROVE  s.nextOffset = (s.nextOffset \div ChunkSize) * ChunkSize
      OBVIOUS
    <3> PICK k : k = next \div ChunkSize
      OBVIOUS
    <3>2. k \in Nat
      BY <2>1, <2>2, Division
    <3>3. s.nextOffset = (k + 1) * ChunkSize
      <4>1. next = k * ChunkSize
        BY <2>1 DEF SenderOK, LoopOK
      <4>2. s.nextOffset = next + ChunkSize
        BY <2>3, <2>6, <3>1
      <4> QED
        BY <3>2, <4>1, <4>2, Multiples
    <3>4. ((k + 1) * ChunkSize + 0) \div ChunkSize = k + 1 /\ (k + 1) * ChunkSize \in Nat
      BY <2>2, <3>2, Quotient, Multiples
    <3> QED
      BY <3>3, <3>4
  <2>9. s.nextOffset - s.ackedOffset < Window + ChunkSize
    BY <2>1, <2>2, <2>3, <2>6
  <2> PICK b : b = bufferedAmount'
    OBVIOUS
  <2> PICK t : t = Resume(s, b)
    OBVIOUS
  <2>10. /\ SenderOK(t) /\ SameOffsets(s, t) /\ t.state = "transferring"
         /\ t.pc = "read" => b <= HighWater
         /\ t.pc = "low" => b > HighWater
    BY <2>1, <2>5, <2>6, <2>7, <2>8, <2>9, Resumed
  <2>11. sender' = t
    BY <1>8
  <2>12. /\ sender'.size = sender.size /\ sender'.ackedOffset = sender.ackedOffset
         /\ sender'.nextOffset = sender.nextOffset + PayloadLength(sender)
    BY <2>6, <2>10, <2>11 DEF SameOffsets
  <2> QED
    BY <1>1, <1>8, <2>4, <2>5, <2>10, <2>11, <2>12, ChunkSent
<1> QED
  BY <1>2, <1>5, <1>6, <1>7, <1>8

-----------------------------------------------------------------------------
(* The file is offered *)

(* offer(). *)
LEMMA OfferKeeps ==
  ASSUME IInv, NEW size \in Sizes, Offer(size), UNCHANGED receiverVars
  PROVE  IInv'
<1> USE DEF IInv
<1>1. /\ sender.state = "idle"
      /\ UNCHANGED <<setup, receiver, sinkVars, senderReady, receiverReady, net, back,
                     bufferedAmount, lowEvent>>
  BY DEF Offer, receiverVars
<1>2. size \in Nat /\ MaxFileSize \in Nat
  BY LimitsAssumption
<1>3. /\ sender.size = 0 /\ sender.nextOffset = 0 /\ sender.ackedOffset = 0 /\ sender.pc = "off"
      /\ SenderType(sender)
  BY <1>1 DEF SenderOK, SenderType, StateOK
<1>4. receiver.state = "idle" /\ Stream = <<>> /\ back = <<>> /\ sink.state = "none"
      /\ toSink = <<>> /\ fromSink = <<>>
  BY <1>1 DEF Handshake, LifeOK, SinkOK
<1>5. IsSeq(buf) /\ IsSeq(net) /\ buf = <<>> /\ net = <<>>
  <2>1. IsSeq(buf) /\ IsSeq(net)
    BY DEF ChannelOK
  <2>2. Len(buf) \in Nat /\ Len(net) \in Nat /\ Len(net) + Len(buf) = 0
    BY <1>4, <2>1, Joined, Length, Empty DEF Stream
  <2>3. Len(buf) = 0 /\ Len(net) = 0
    BY <2>2
  <2> QED
    BY <2>1, <2>3, Length
<1>6. CASE size > MaxFileSize
  <2>1. sender' = SenderFail(sender, "too_large") /\ buf' = buf
    BY <1>6 DEF Offer
  <2>2. /\ SenderType(sender') /\ SameOffsets(sender, sender') /\ sender'.pc = sender.pc
        /\ sender'.state = "failed"
    BY <1>1, <1>3, <2>1, Failed DEF SenderTerminal, TerminalStates
  <2>3. SenderOK(sender')
    BY <1>3, <2>2 DEF SenderOK, LoopOK, StateOK, SameOffsets
  <2>4. SenderMoves(sender, sender')
    BY <1>1, <1>3, <2>2 DEF SenderMoves, SameOffsets, Past, SenderTerminal, TerminalStates, SenderType
  <2>5. Says /\ Hears
    BY <1>1, <2>1 DEF Says, Hears
  <2> QED
    BY <1>1, <1>3, <2>1, <2>2, <2>3, <2>4, <2>5, SenderStep DEF ChannelOK
<1>7. CASE ~(size > MaxFileSize)
  <2> DEFINE m == [type |-> "FILE_OFFER", size |-> size]
  <2>1. sender' = [sender EXCEPT !.state = "offered", !.size = size] /\ SenderSends(<<m>>)
    BY <1>7 DEF Offer
  <2>2. /\ DOMAIN sender' = DOMAIN sender /\ sender'.state = "offered" /\ sender'.size = size
        /\ sender'.hash = sender.hash /\ sender'.ackTimer = sender.ackTimer /\ sender'.pc = "off"
        /\ sender'.nextOffset = 0 /\ sender'.ackedOffset = 0
    BY <1>3, <2>1 DEF SenderType
  <2>3. 0 = (0 \div ChunkSize) * ChunkSize /\ Window \in Nat \ {0} /\ ChunkSize \in Nat
        /\ HeaderSize \in Nat /\ HighWater \in Nat
    BY LimitsAssumption
  <2>4. SenderOK(sender)'
    BY <1>2, <1>3, <1>7, <2>2, <2>3 DEF SenderOK, SenderType, LoopOK, StateOK, SenderStates
  <2>5. \/ senderReady = "open" /\ buf' = <<m>>
        \/ buf' = <<>>
    BY <1>5, <2>1, Appended, Joined DEF SenderSends
  <2>6. Stream' = buf' /\ IsSeq(buf')
    <3>1. IsSeq(buf')
      BY <1>5, <2>1, Appended DEF SenderSends
    <3>2. Stream' = net \o buf'
      BY <1>1 DEF Stream
    <3> QED
      BY <1>5, <3>1, <3>2, Joined
  <2>7. m.type = "FILE_OFFER" /\ m.size = size
    OBVIOUS
  <2> HIDE DEF m
  <2>8. \A i \in 1 .. Len(buf') : buf'[i] = m /\ i = 1 /\ Len(buf') = 1
    BY <2>5
  <2>9. receiver.size = 0 /\ Arrived = 0 /\ receiver.committedOffset = 0 /\ receiver.terminal = "none"
        /\ receiver.expectedIndex = 0
    BY <1>4, <2>3 DEF ReceiverOK, ReceiverType, Handshake, Unaccepted, Arrived, Least
  <2>10. Arrived' = 0
    BY <1>1, <2>9 DEF Arrived, Least
  <2>11. SetupOK' /\ ReceiverOK'
    BY <1>1, <1>4, <2>2, <2>9, <2>10 DEF SetupOK, ReceiverOK, ReceiverType, Honest
  <2>12. Handshake'
    BY <1>1, <1>4, <2>2, <2>9 DEF Handshake, Unaccepted
  <2>13. ChannelOK'
    BY <1>1, <1>5, <2>5, <2>6 DEF ChannelOK, IsSeq
  <2>14. CountOK'
    <3>1. senderReady = "open" => bufferedAmount = 0
      BY <1>5 DEF CountOK, Buffered
    <3>2. Buffered' = 0
      BY <2>5, <2>7 DEF Buffered
    <3> QED
      BY <1>1, <1>3, <2>2, <3>1, <3>2 DEF CountOK
  <2>15. StreamOK'
    BY <1>1, <1>4, <2>2, <2>6, <2>7, <2>8 DEF StreamOK, SentOK
  <2>16. PlaceOK'
    <3>1. Stream' = <<>> \/ Stream'[Len(Stream')].type # "CHUNK"
      BY <2>5, <2>6, <2>7
    <3> QED
      BY <1>1, <1>4, <3>1 DEF PlaceOK
  <2>17. BackOK' /\ EndIsTold' /\ AcksAreTold'
    BY <1>1, <1>4, Empty DEF BackOK, EndIsTold, AcksAreTold, ReceiverTerminal, TerminalStates
  <2>18. SinkOK' /\ RequestsOK' /\ RepliesOK' /\ LifeOK'
    BY <1>1, <1>4, Empty DEF SinkOK, RequestsOK, RepliesOK, LifeOK, sinkVars, IsSeq
  <2> QED
    BY <2>4, <2>11, <2>12, <2>13, <2>14, <2>15, <2>16, <2>17, <2>18
<1> QED
  BY <1>6, <1>7

-----------------------------------------------------------------------------
(* The channel's actions *)

(* A stretch of the stream is well formed when the stream is.  An offer is  *)
(* only ever its first message.                                            *)
LEMMA StreamShrinks ==
  ASSUME StreamOK, Len(Stream) \in Nat, NEW d \in Nat, NEW n \in Nat, d + n <= Len(Stream),
         Len(Stream') = n, \A i \in 1 .. n : Stream'[i] = Stream[d + i],
         UNCHANGED <<setup, sender>>, d > 0 \/ receiver'.state = receiver.state
  PROVE  StreamOK'
<1>1. ASSUME NEW i \in 1 .. n PROVE SentOK(Stream[i])'
  <2>1. d + i \in 1 .. Len(Stream) /\ (d > 0 => d + i - 1 \in 1 .. Len(Stream) - 1)
    OBVIOUS
  <2>2. SentOK(Stream[d + i]) /\ Stream'[i] = Stream[d + i]
    BY <2>1 DEF StreamOK
  <2>3. d > 0 => Stream[d + i].type # "FILE_OFFER"
    <3>1. SUFFICES ASSUME d > 0 PROVE Stream[d + i].type # "FILE_OFFER"
      OBVIOUS
    <3>2. Follows(Stream[d + i - 1], Stream[d + i - 1 + 1])
      BY <2>1, <3>1 DEF StreamOK
    <3>3. d + i - 1 + 1 = d + i
      OBVIOUS
    <3> QED
      BY <3>2, <3>3 DEF Follows
  <2>4. \A m : SentOK(m) /\ m.type # "FILE_OFFER" => SentOK(m)'
    BY DEF SentOK, ChunkOK, SenderTerminal, Piece, Least, From, To, Honest, FileBytes, Announced,
      Digest, NoHash
  <2>5. CASE d > 0
    BY <2>2, <2>3, <2>4, <2>5
  <2>6. CASE receiver'.state = receiver.state
    <3>1. \A m : SentOK(m) => SentOK(m)'
      BY <2>6 DEF SentOK, ChunkOK, SenderTerminal, Piece, Least, From, To, Honest, FileBytes,
        Announced, Digest, NoHash
    <3> QED
      BY <2>2, <3>1
  <2> QED
    BY <2>5, <2>6
<1>2. ASSUME NEW i \in 1 .. n - 1 PROVE Follows(Stream[i], Stream[i + 1])'
  <2>1. d + i \in 1 .. Len(Stream) - 1 /\ i \in 1 .. n /\ i + 1 \in 1 .. n /\ d + (i + 1) = d + i + 1
    OBVIOUS
  <2>2. Follows(Stream[d + i], Stream[d + i + 1])
    BY <2>1 DEF StreamOK
  <2>3. Stream'[i] = Stream[d + i] /\ Stream'[i + 1] = Stream[d + i + 1]
    BY <2>1
  <2>4. \A a, b : Follows(a, b) => Follows(a, b)'
    BY DEF Follows, To, From
  <2> QED
    BY <2>2, <2>3, <2>4
<1> QED
  BY <1>1, <1>2 DEF StreamOK

(* Everything that does not depend on the channel. *)
LEMMA EndsKept ==
  ASSUME IInv, UNCHANGED <<setup, sender, receiver, sinkVars>>
  PROVE  /\ SetupOK' /\ SenderOK(sender)' /\ ReceiverOK'
         /\ SinkOK' /\ RequestsOK' /\ RepliesOK' /\ LifeOK'
<1> USE DEF IInv
<1>1. Received' = Received /\ Arrived' = Arrived /\ Announced' = Announced
  BY DEF Received, Arrived, Announced, Least
<1>2. SetupOK' /\ SenderOK(sender)'
  BY DEF SetupOK, SenderOK, SenderType, LoopOK, StateOK
<1>3. ReceiverOK'
  BY <1>1 DEF ReceiverOK, ReceiverType, Honest
<1> QED
  BY <1>2, <1>3, SinkKept

(* The first buffered message, what it weighs, and what is left. *)
LEMMA Drained ==
  ASSUME IInv, UNCHANGED sender, buf # <<>>, buf' = Tail(buf)
  PROVE  /\ Buffered' = Buffered - Weight(Head(buf)) /\ Buffered' \in Nat
         /\ Weight(Head(buf)) \in Nat
<1>0. SenderOK(sender) /\ ChannelOK /\ StreamOK /\ PlaceOK
  BY DEF IInv
<1> PICK h : h = Head(buf)
  OBVIOUS
<1> PICK next : next = sender.nextOffset
  OBVIOUS
<1>1. /\ IsSeq(buf) /\ IsSeq(net) /\ Len(buf) \in Nat \ {0} /\ Len(net) \in Nat
      /\ senderReady = "open" /\ h = buf[1]
  BY <1>0, Tailed, Length DEF ChannelOK
<1>2. /\ IsSeq(buf') /\ Len(buf') = Len(buf) - 1 /\ \A i \in 1 .. Len(buf) - 1 : buf'[i] = buf[i + 1]
  BY <1>1, Tailed
<1>3. /\ IsSeq(Stream) /\ Len(Stream) = Len(net) + Len(buf)
      /\ \A i \in 1 .. Len(buf) : Stream[Len(net) + i] = buf[i]
  BY <1>1, Joined DEF Stream
<1>4. ChunkSize \in Nat \ {0} /\ HeaderSize \in Nat /\ next \in Nat /\ sender.size \in Nat
  BY <1>0, LimitsAssumption DEF SenderOK, SenderType
<1>5. Stream # <<>> /\ Len(Stream) \in Nat
  BY <1>1, <1>3, Empty
<1>6. SentOK(h)
  <2>1. Len(net) + 1 \in 1 .. Len(Stream) /\ 1 \in 1 .. Len(buf)
    BY <1>1, <1>3
  <2> QED
    BY <1>0, <1>1, <1>3, <2>1 DEF StreamOK
<1>7. ASSUME buf' # <<>>
      PROVE  Len(buf') \in Nat \ {0} /\ Follows(h, buf'[1]) /\ SentOK(buf'[1])
  <2>1. Len(buf') # 0 /\ Len(buf') \in Nat
    BY <1>2, <1>7, Length
  <2>2. Len(net) + 1 \in 1 .. Len(Stream) - 1 /\ Len(net) + 2 \in 1 .. Len(Stream)
        /\ 1 \in 1 .. Len(buf) /\ 2 \in 1 .. Len(buf) /\ Len(net) + 1 + 1 = Len(net) + 2
        /\ 1 \in 1 .. Len(buf) - 1
    <3>1. \A a, b, c \in Nat : c = a + b /\ b > 1 =>
            /\ a + 1 \in 1 .. c - 1 /\ a + 2 \in 1 .. c /\ 1 \in 1 .. b /\ 2 \in 1 .. b
            /\ a + 1 + 1 = a + 2 /\ 1 \in 1 .. b - 1
      OBVIOUS
    <3>2. Len(buf) > 1
      BY <1>1, <1>2, <2>1
    <3> HIDE <1>7
    <3> QED
      BY <1>1, <1>3, <1>5, <3>1, <3>2
  <2>3. Stream[Len(net) + 1] = h /\ Stream[Len(net) + 2] = buf'[1]
    BY <1>1, <1>2, <1>3, <2>2
  <2> QED
    BY <1>0, <2>1, <2>2, <2>3 DEF StreamOK
<1>8. ASSUME buf' = <<>>, h.type = "CHUNK" PROVE To(h) = next
  <2>1. Len(buf) = 1 /\ Stream[Len(Stream)] = h
    BY <1>1, <1>2, <1>3, <1>8, Empty
  <2> QED
    BY <1>0, <1>1, <1>5, <1>8, <2>1 DEF PlaceOK
<1>9. CASE h.type # "CHUNK"
  <2>1. buf' # <<>> => buf'[1].type # "CHUNK"
    BY <1>7, <1>9 DEF Follows
  <2> QED
    BY <1>1, <1>9, <2>1 DEF Buffered, Weight
<1>10. CASE h.type = "CHUNK"
  <2> PICK f : f = From(h)
    OBVIOUS
  <2> PICK n : n = Len(h.data)
    OBVIOUS
  <2>1. /\ h.index \in Nat /\ f \in Nat /\ f = h.index * ChunkSize /\ f < sender.size
        /\ h.data = Piece(FileBytes(sender.size), f) /\ f + n <= next /\ To(h) = f + n
    <3>1. /\ h.index \in Nat /\ f < sender.size /\ To(h) <= next /\ To(h) = f + n
          /\ h.data = Piece(FileBytes(sender.size), f)
      BY <1>6, <1>10 DEF SentOK, ChunkOK, To
    <3>2. f = h.index * ChunkSize
      BY DEF From
    <3>3. f \in Nat
      BY <3>1, <3>2, Multiples
    <3> QED
      BY <3>1, <3>2, <3>3
  <2>2. n \in 1 .. ChunkSize /\ (f + n < sender.size => n = ChunkSize)
    <3>1. IsSeq(FileBytes(sender.size)) /\ Len(FileBytes(sender.size)) = sender.size
      BY <1>4, Files
    <3> QED
      BY <2>1, <3>1, Pieces
  <2>3. Wire(f + n) = Wire(f) + HeaderSize + n
    <3>1. h.index \in Nat
      BY <2>1
    <3>2. Wire(h.index * ChunkSize + n) = Wire(h.index * ChunkSize) + HeaderSize + n
      BY <2>2, <3>1, WireOfChunk
    <3> QED
      BY <2>1, <3>2
  <2>4. Wire(next) \in Nat /\ Wire(f) \in Nat /\ Wire(f + n) \in Nat /\ Wire(f + n) <= Wire(next)
    <3>1. f \in Nat /\ f + n \in Nat /\ f <= next /\ f + n <= next
      BY <1>4, <2>1, <2>2
    <3> HIDE <2>1, <2>2
    <3> QED
      BY <1>4, <3>1, WireGrows
  <2>5. Weight(h) = HeaderSize + n /\ Buffered = Wire(next) - Wire(f)
    BY <1>1, <1>10 DEF Weight, Buffered
  <2>6. Buffered' = Wire(next) - Wire(f + n)
    <3>1. CASE buf' # <<>> /\ buf'[1].type = "CHUNK"
      <4>1. buf'[1].index = h.index + 1 /\ ChunkOK(buf'[1])
        BY <1>7, <3>1 DEF Follows, SentOK
      <4>2. buf'[1].index * ChunkSize = f + ChunkSize /\ f + ChunkSize < sender.size
        <5>1. buf'[1].index * ChunkSize < sender.size
          BY <4>1 DEF ChunkOK, From
        <5>2. PICK k \in Nat : k = h.index
          BY <2>1
        <5>3. (k + 1) * ChunkSize = k * ChunkSize + ChunkSize
          BY <5>2, Multiples
        <5>4. (k + 1) * ChunkSize = f + ChunkSize /\ buf'[1].index = k + 1
          BY <2>1, <4>1, <5>2, <5>3
        <5> QED
          BY <5>1, <5>4
      <4>3. n = ChunkSize
        <5>1. f + ChunkSize < sender.size /\ f \in Nat
          BY <2>1, <4>2
        <5> QED
          BY <1>4, <2>2, <5>1
      <4>4. Buffered' = Wire(next) - Wire(buf'[1].index * ChunkSize)
        BY <3>1 DEF Buffered, From, Wire
      <4> QED
        BY <4>2, <4>3, <4>4
    <3>2. CASE ~(buf' # <<>> /\ buf'[1].type = "CHUNK")
      <4>1. f + n = next
        BY <1>7, <1>8, <1>10, <2>1, <3>2 DEF Follows
      <4>2. Buffered' = 0
        BY <3>2 DEF Buffered
      <4> QED
        BY <2>4, <4>1, <4>2
    <3> QED
      BY <3>1, <3>2
  <2> QED
    <3>1. n \in Nat
      BY <1>4, <2>2
    <3>8. PICK w, v, u : w = Wire(next) /\ v = Wire(f) /\ u = Wire(f + n)
      OBVIOUS
    <3>2. w \in Nat /\ v \in Nat /\ u \in Nat /\ u <= w /\ u = v + HeaderSize + n
      BY <2>3, <2>4, <3>8
    <3>3. Weight(Head(buf)) = HeaderSize + n /\ Buffered = w - v /\ Buffered' = w - u
      BY <2>5, <2>6, <3>8
    <3> HIDE <1>10
    <3>4. HeaderSize + n \in Nat
      BY <1>4, <3>1
    <3>5. Weight(Head(buf)) \in Nat
      BY <3>3, <3>4
    <3>6. Buffered' \in Nat
      BY <3>2, <3>3
    <3>7. Buffered' = Buffered - Weight(Head(buf))
      <4>1. w - u = (w - v) - (HeaderSize + n)
        BY <1>4, <3>1, <3>2
      <4> QED
        BY <3>3, <4>1
    <3> QED
      BY <3>5, <3>6, <3>7
<1> QED
  BY <1>9, <1>10

(* The oldest buffered message leaves. *)
LEMMA TransmitKeeps == ASSUME IInv, Transmit, UNCHANGED <<sender, receiverVars>> PROVE IInv'
<1> USE DEF IInv
<1>1. /\ UNCHANGED <<setup, sender, receiver, sinkVars, senderReady, receiverReady, back>>
      /\ buf # <<>> /\ buf' = Tail(buf) /\ bufferedAmount' = bufferedAmount - Weight(Head(buf))
      /\ lowEvent' = (IF bufferedAmount > LowWater /\ bufferedAmount' <= LowWater
                      THEN "due" ELSE lowEvent)
      /\ net' = IF receiverReady = "open" THEN Append(net, Head(buf)) ELSE net
  BY DEF Transmit, receiverVars
<1>2. /\ SetupOK' /\ SenderOK(sender)' /\ ReceiverOK'
      /\ SinkOK' /\ RequestsOK' /\ RepliesOK' /\ LifeOK'
  BY <1>1, EndsKept
<1>3. IsSeq(buf) /\ IsSeq(net) /\ IsSeq(Stream) /\ Len(Stream) \in Nat /\ senderReady = "open"
  BY <1>1, Joined, Length DEF ChannelOK, Stream
<1>4. IsSeq(buf') /\ IsSeq(net')
  BY <1>1, <1>3, Tailed, Appended
<1>5. ChannelOK'
  BY <1>1, <1>3, <1>4 DEF ChannelOK, IsSeq
<1>6. CountOK'
  <2>1. /\ Buffered' = Buffered - Weight(Head(buf)) /\ Buffered' \in Nat
        /\ Weight(Head(buf)) \in Nat
    BY <1>1, Drained
  <2>2. bufferedAmount' = Buffered' /\ bufferedAmount' <= bufferedAmount /\ bufferedAmount \in Nat
    <3>1. bufferedAmount = Buffered /\ bufferedAmount \in Nat
      BY <1>3 DEF CountOK
    <3>2. bufferedAmount' = bufferedAmount - Weight(Head(buf))
      BY <1>1
    <3> HIDE DEF IInv
    <3> QED
      BY <2>1, <3>1, <3>2
  <2>3. HighWater \in Nat /\ HeaderSize \in Nat /\ ChunkSize \in Nat /\ LowWater \in Nat
    BY LimitsAssumption
  <2> QED
    BY <1>1, <2>1, <2>2, <2>3 DEF CountOK
<1>7. CASE receiverReady = "open"
  <2>1. Stream' = Stream
    BY <1>1, <1>3, <1>7, Streams DEF Stream
  <2>2. StreamOK'
    <3>1. /\ 0 + Len(Stream) <= Len(Stream) /\ Len(Stream') = Len(Stream)
          /\ \A i \in 1 .. Len(Stream) : Stream'[i] = Stream[0 + i]
      BY <1>3, <2>1
    <3> QED
      BY <1>1, <1>3, <3>1, StreamShrinks
  <2>3. PlaceOK' /\ Handshake' /\ BackOK' /\ EndIsTold' /\ AcksAreTold'
    BY <1>1, <2>1 DEF PlaceOK, Arrived, Least, To, From, Handshake, Unaccepted, BackOK, AnswerOK,
      Honest, EndIsTold, AcksAreTold, SenderTerminal, ReceiverTerminal
  <2> QED
    BY <1>2, <1>5, <1>6, <2>2, <2>3
<1>8. CASE receiverReady # "open"
  <2>1. net = <<>> /\ net' = <<>>
    BY <1>1, <1>8 DEF ChannelOK
  <2>2. Stream = buf /\ Stream' = Tail(Stream) /\ Stream # <<>>
    BY <1>1, <1>3, <1>4, <2>1, Joined DEF Stream
  <2>3. /\ Len(Stream') = Len(Stream) - 1 /\ Len(Stream) \in Nat \ {0} /\ IsSeq(Stream')
        /\ \A i \in 1 .. Len(Stream) - 1 : Stream'[i] = Stream[i + 1]
    BY <1>3, <2>2, Tailed
  <2>4. StreamOK'
    <3>1. /\ 1 + (Len(Stream) - 1) <= Len(Stream) /\ Len(Stream) - 1 \in Nat
          /\ \A i \in 1 .. Len(Stream) - 1 : Stream'[i] = Stream[1 + i]
      BY <2>3
    <3> QED
      BY <1>1, <1>3, <2>3, <3>1, StreamShrinks
  <2>5. PlaceOK'
    <3>1. Stream' # <<>> => Stream'[Len(Stream')] = Stream[Len(Stream)]
      <4>1. SUFFICES ASSUME Stream' # <<>> PROVE Stream'[Len(Stream')] = Stream[Len(Stream)]
        OBVIOUS
      <4>2. Len(Stream') # 0
        BY <2>3, <4>1, Length
      <4>3. Len(Stream) - 1 \in 1 .. Len(Stream) - 1 /\ Len(Stream) - 1 + 1 = Len(Stream)
        BY <2>3, <4>2
      <4> QED
        BY <2>3, <4>3
    <3> QED
      BY <1>1, <1>8, <2>2, <3>1 DEF PlaceOK, To, From
  <2>6. Handshake' /\ BackOK' /\ EndIsTold' /\ AcksAreTold'
    BY <1>1, <1>8, <2>2 DEF Handshake, Unaccepted, BackOK, AnswerOK, Honest, EndIsTold, AcksAreTold
  <2> QED
    BY <1>2, <1>5, <1>6, <2>4, <2>5, <2>6
<1> QED
  BY <1>7, <1>8

(* The sender's end starts to close, and a prefix of what it sent arrives. *)
LEMMA SenderClosesKeeps ==
  ASSUME IInv, SenderCloses, UNCHANGED <<sender, receiverVars>>
  PROVE  IInv'
<1> USE DEF IInv
<1>1. /\ UNCHANGED <<setup, sender, receiver, sinkVars, receiverReady, bufferedAmount, lowEvent>>
      /\ senderReady = "open" /\ senderReady' = "closing" /\ buf' = <<>> /\ back' = <<>>
      /\ IF receiverReady = "open" THEN \E k \in 0 .. Len(Stream) : net' = SubSeq(Stream, 1, k)
         ELSE net' = <<>>
  BY DEF SenderCloses, receiverVars, Stream
<1>2. /\ SetupOK' /\ SenderOK(sender)' /\ ReceiverOK'
      /\ SinkOK' /\ RequestsOK' /\ RepliesOK' /\ LifeOK'
  BY <1>1, EndsKept
<1>3. IsSeq(buf) /\ IsSeq(net) /\ IsSeq(Stream) /\ Len(Stream) \in Nat
  BY Joined, Length DEF ChannelOK, Stream
<1>4. PICK k \in 0 .. Len(Stream) : net' = SubSeq(Stream, 1, k) /\ (receiverReady # "open" => k = 0)
  <2>1. CASE receiverReady = "open"
    BY <1>1, <2>1
  <2>2. CASE receiverReady # "open"
    <3>1. 0 \in 0 .. Len(Stream) /\ SubSeq(Stream, 1, 0) = <<>>
      <4>1. 0 \in 0 .. Len(Stream)
        BY <1>3
      <4>2. IsSeq(SubSeq(Stream, 1, 0)) /\ Len(SubSeq(Stream, 1, 0)) = 0
        BY <1>3, <4>1, Prefixed
      <4> QED
        BY <4>1, <4>2, Length
    <3> QED
      BY <1>1, <2>2, <3>1
  <2> QED
    BY <2>1, <2>2
<1>5. /\ IsSeq(net') /\ Len(net') = k /\ \A i \in 1 .. k : net'[i] = Stream[i]
      /\ k \in Nat /\ k <= Len(Stream)
  BY <1>3, <1>4, Prefixed
<1>6. Stream' = net'
  BY <1>1, <1>5, Joined, Empty DEF Stream
<1>7. ChannelOK'
  <2>1. IsSeq(<<>>)
    BY Empty
  <2>2. receiverReady # "open" => net' = <<>>
    BY <1>4, <1>5, Length
  <2> QED
    BY <1>1, <1>5, <2>1, <2>2 DEF ChannelOK, ReadyState, IsSeq
<1>8. CountOK'
  BY <1>1 DEF CountOK
<1>9. StreamOK'
  <2>1. /\ 0 + k <= Len(Stream) /\ Len(Stream') = k
        /\ \A i \in 1 .. k : Stream'[i] = Stream[0 + i]
    BY <1>5, <1>6
  <2> QED
    BY <1>1, <1>3, <1>5, <2>1, StreamShrinks
<1>10. Stream' # <<>> => Stream # <<>> /\ Stream'[1] = Stream[1]
  <2>1. SUFFICES ASSUME k > 0 PROVE Stream # <<>> /\ Stream'[1] = Stream[1]
    <3>1. Stream' # <<>> => Len(Stream') # 0
      BY <1>5, <1>6, Length
    <3> QED
      BY <1>5, <1>6, <3>1
  <2>2. 1 \in 1 .. k /\ Len(Stream) # 0
    BY <1>3, <1>5, <2>1
  <2> QED
    BY <1>5, <1>6, <2>2, Empty
<1>11. PlaceOK'
  BY <1>1, <1>10 DEF PlaceOK, Arrived, Least
<1>12. Handshake'
  BY <1>1, <1>10 DEF Handshake, Unaccepted
<1>13. BackOK'
  BY <1>1, Empty DEF BackOK
<1>14. EndIsTold' /\ AcksAreTold'
  BY <1>1 DEF EndIsTold, AcksAreTold
<1> QED
  BY <1>2, <1>7, <1>8, <1>9, <1>11, <1>12, <1>13, <1>14

(* The receiver's end starts to close: what is on its way to it is lost. *)
LEMMA ReceiverClosesKeeps ==
  ASSUME IInv, ReceiverCloses, UNCHANGED <<sender, receiverVars>>
  PROVE  IInv'
<1> USE DEF IInv
<1>1. /\ UNCHANGED <<setup, sender, receiver, sinkVars, senderReady, buf, bufferedAmount, lowEvent>>
      /\ receiverReady = "open" /\ receiverReady' = "closing" /\ net' = <<>>
      /\ \E k \in 0 .. Len(back) : back' = SubSeq(back, 1, k)
  BY DEF ReceiverCloses, receiverVars
<1>2. /\ SetupOK' /\ SenderOK(sender)' /\ ReceiverOK'
      /\ SinkOK' /\ RequestsOK' /\ RepliesOK' /\ LifeOK'
  BY <1>1, EndsKept
<1>3. /\ IsSeq(buf) /\ IsSeq(net) /\ IsSeq(back) /\ Len(net) \in Nat /\ Len(buf) \in Nat
      /\ Len(Stream) = Len(net) + Len(buf) /\ \A i \in 1 .. Len(buf) : Stream[Len(net) + i] = buf[i]
  BY Joined, Length DEF ChannelOK, Stream
<1>4. PICK k \in 0 .. Len(back) : back' = SubSeq(back, 1, k)
  BY <1>1
<1>5. IsSeq(back') /\ Len(back') = k /\ \A i \in 1 .. k : back'[i] = back[i]
  BY <1>3, <1>4, Prefixed
<1>6. Stream' = buf
  BY <1>1, <1>3, Joined, Empty DEF Stream
<1>7. ChannelOK'
  <2>1. IsSeq(<<>>)
    BY Empty
  <2> QED
    BY <1>1, <1>5, <2>1 DEF ChannelOK, ReadyState, IsSeq
<1>8. CountOK'
  BY <1>1 DEF CountOK, Buffered, Wire, From
<1>9. StreamOK'
  <2>1. /\ Len(net) + Len(buf) <= Len(Stream) /\ Len(Stream) \in Nat /\ Len(Stream') = Len(buf)
        /\ \A i \in 1 .. Len(buf) : Stream'[i] = Stream[Len(net) + i]
    BY <1>3, <1>6
  <2> QED
    BY <1>1, <1>3, <2>1, StreamShrinks
<1>10. buf # <<>> => Stream # <<>> /\ buf[Len(buf)] = Stream[Len(Stream)]
  <2>1. SUFFICES ASSUME buf # <<>> PROVE Stream # <<>> /\ buf[Len(buf)] = Stream[Len(Stream)]
    OBVIOUS
  <2>2. Len(buf) # 0
    BY <1>3, <2>1, Length
  <2>3. Len(buf) \in 1 .. Len(buf) /\ Len(Stream) # 0
    BY <1>3, <2>2
  <2> QED
    BY <1>3, <2>3, Empty
<1>11. PlaceOK'
  BY <1>1, <1>6, <1>10 DEF PlaceOK, To, From
<1>12. back = <<>> => back' = <<>>
  BY <1>3, <1>4, <1>5, Length
<1>13. Handshake'
  BY <1>1, <1>6, <1>10, <1>12 DEF Handshake, Unaccepted
<1>14. BackOK'
  <2>1. Len(back) \in Nat
    BY <1>3, Length
  <2> QED
    <3>1. ASSUME NEW m, AnswerOK(m) PROVE AnswerOK(m)'
      BY <1>1, <3>1 DEF AnswerOK, Honest, Unaccepted
    <3>2. ASSUME NEW i \in 1 .. k PROVE AnswerOK(back[i])'
      <4>1. PICK m : m = back[i]
        OBVIOUS
      <4>2. i \in 1 .. Len(back) /\ back'[i] = m
        BY <1>5, <2>1, <4>1
      <4>3. AnswerOK(m)
        BY <4>1, <4>2 DEF BackOK
      <4>4. AnswerOK(m)'
        BY <3>1, <4>3
      <4> QED
        BY <4>2, <4>4 DEF AnswerOK, Honest
    <3> QED
      BY <1>5, <3>2 DEF BackOK
<1>15. EndIsTold' /\ AcksAreTold'
  BY <1>1 DEF EndIsTold, AcksAreTold
<1> QED
  BY <1>2, <1>7, <1>8, <1>9, <1>11, <1>13, <1>14, <1>15

-----------------------------------------------------------------------------
(* Moves of the receiver *)

(* What a receiver may become. *)
ReceiverMoves(r, t) ==
  /\ t.state = "idle" => t = r
  /\ t.state # "idle" => sender.state # "idle"
  /\ Unaccepted(t) => Unaccepted(r) /\ t.expectedIndex = 0 /\ t.committedOffset = 0
                      /\ t.terminal = "none"
  /\ r.committedOffset <= t.committedOffset
  /\ ReceiverTerminal(r) => t.state = r.state

(* What it sends, which tells of an end and of an ACK that is due. *)
Answers ==
  /\ \/ back' = back
     \/ receiver'.state # "idle" /\ \E m : back' = Append(back, m) /\ AnswerOK(m)'
  /\ senderReady = "open" /\ receiverReady' = "open" =>
       /\ ReceiverTerminal(receiver') =>
            \/ ReceiverTerminal(receiver) \/ SenderTerminal(sender)
            \/ \E m : back' = Append(back, m) /\ m.type \in Enders
       /\ receiver'.state = "transferring" =>
            \/ receiver.state = "transferring" /\ receiver'.nextAckAt = receiver.nextAckAt
            \/ receiver'.nextAckAt <= sender.ackedOffset + AckInterval
            \/ \E m : /\ back' = Append(back, m) /\ m.type = "ACK"
                      /\ receiver'.nextAckAt <= m.committedOffset + AckInterval

(* A step of the receiver keeps the invariant when it keeps the parts that *)
(* are about what it has taken in.                                         *)
LEMMA ReceiverStep ==
  ASSUME IInv, UNCHANGED <<setup, sender, senderReady, buf, bufferedAmount, lowEvent>>,
         receiverReady' \in ReadyState, receiverReady' = "open" <=> receiverReady = "open",
         IsSeq(net'), net = <<>> => net' = <<>>, Stream = <<>> => Stream' = <<>>,
         ReceiverMoves(receiver, receiver'), Answers,
         ReceiverOK', StreamOK', PlaceOK', SinkOK', RequestsOK', RepliesOK', LifeOK'
  PROVE  IInv'
<1> USE DEF IInv
<1>1. SetupOK' /\ SenderOK(sender)'
  BY DEF SetupOK, SenderOK, SenderType, LoopOK, StateOK
<1>2. IsSeq(back) /\ IsSeq(back') /\ Len(back) \in Nat
  BY Appended, Length DEF Answers, ChannelOK
<1>3. ChannelOK'
  <2>1. IsSeq(buf)'
    BY DEF ChannelOK, IsSeq
  <2>2. IsSeq(back)' /\ IsSeq(net)'
    BY <1>2 DEF IsSeq
  <2> QED
    BY <2>1, <2>2 DEF ChannelOK
<1>4. CountOK'
  BY DEF CountOK, Buffered, Wire, From
<1>5. Handshake'
  <2>1. receiver'.state = "idle" => back' = back /\ receiver' = receiver
    BY DEF Answers, ReceiverMoves
  <2>3. receiver.state \in {"done", "rejected"} => receiver'.state = receiver.state
    BY DEF ReceiverMoves, ReceiverTerminal, TerminalStates
  <2>4. /\ Unaccepted(receiver') => Unaccepted(receiver) /\ receiver'.expectedIndex = 0
             /\ receiver'.committedOffset = 0 /\ receiver'.terminal = "none"
        /\ receiver'.state # "idle" => sender.state # "idle"
    BY DEF ReceiverMoves
  <2>5. Unaccepted(receiver)' <=> Unaccepted(receiver')
    BY DEF Unaccepted
  <2> QED
    BY <2>1, <2>3, <2>4, <2>5 DEF Handshake
<1>6. ASSUME NEW m, AnswerOK(m) PROVE AnswerOK(m)'
  <2>1. ~Unaccepted(receiver) => ~Unaccepted(receiver)'
    BY DEF ReceiverMoves, Unaccepted
  <2>2. receiver.state \in {"done", "rejected"} => receiver'.state = receiver.state
    BY DEF ReceiverMoves, ReceiverTerminal, TerminalStates
  <2>3. /\ receiver.committedOffset \in Nat /\ receiver'.committedOffset \in Nat
        /\ receiver.committedOffset <= receiver'.committedOffset
    BY DEF ReceiverMoves, ReceiverOK, ReceiverType
  <2>4. m.type = "ACK" /\ m.committedOffset \in 0 .. receiver.committedOffset =>
          m.committedOffset \in 0 .. receiver'.committedOffset
    BY <2>3
  <2>5. Honest(m.code) => Honest(m.code)'
    BY DEF Honest
  <2> QED
    BY <1>6, <2>1, <2>2, <2>4, <2>5 DEF AnswerOK
<1>7. ASSUME NEW m, back' = Append(back, m)
      PROVE  /\ \A i \in 1 .. Len(back) : back'[i] = back[i]
             /\ Len(back)' = Len(back) + 1 /\ back'[Len(back) + 1] = m
             /\ Len(back) + 1 \in 1 .. Len(back)'
  BY <1>2, <1>7, Appended
<1>8. BackOK'
  <2>1. CASE back' = back
    <3>1. ASSUME NEW i \in 1 .. Len(back) PROVE AnswerOK(back[i])'
      <4>1. PICK m : m = back[i]
        OBVIOUS
      <4>2. AnswerOK(m)
        BY <4>1 DEF BackOK
      <4>3. AnswerOK(m)'
        BY <1>6, <4>2
      <4> QED
        BY <2>1, <4>1, <4>3 DEF AnswerOK, Honest
    <3> QED
      BY <2>1, <3>1 DEF BackOK
  <2>2. ASSUME NEW n, back' = Append(back, n), AnswerOK(n)' PROVE BackOK'
    <3>1. ASSUME NEW i \in 1 .. Len(back)' PROVE AnswerOK(back[i])'
      <4>1. PICK m : m = back'[i]
        OBVIOUS
      <4>2. AnswerOK(m)'
        <5>1. CASE i \in 1 .. Len(back)
          <6>1. AnswerOK(m)
            BY <1>7, <2>2, <4>1, <5>1 DEF BackOK
          <6> QED
            BY <1>6, <6>1
        <5>2. CASE i = Len(back) + 1
          <6>1. m = n
            BY <1>7, <2>2, <4>1, <5>2
          <6> QED
            BY <2>2, <6>1
        <5> QED
          BY <1>2, <1>7, <2>2, <5>1, <5>2
      <4> QED
        BY <4>1, <4>2 DEF AnswerOK, Honest
    <3> QED
      BY <3>1 DEF BackOK
  <2> QED
    BY <2>1, <2>2 DEF Answers
<1>9. \A i \in 1 .. Len(back) : i \in 1 .. Len(back') /\ back'[i] = back[i]
  BY <1>2, <1>7 DEF Answers
<1>10. EndIsTold'
  <2>1. SUFFICES ASSUME senderReady = "open", receiverReady = "open", ReceiverTerminal(receiver'),
                        ~SenderTerminal(sender)
                 PROVE  \E i \in 1 .. Len(back') : back'[i].type \in Enders
    BY DEF EndIsTold, ReceiverTerminal, SenderTerminal, Enders
  <2>2. CASE ReceiverTerminal(receiver)
    <3>1. PICK i \in 1 .. Len(back) : back[i].type \in Enders
      BY <2>1, <2>2 DEF EndIsTold
    <3> QED
      BY <1>9, <3>1
  <2>3. CASE ~ReceiverTerminal(receiver)
    <3>1. PICK m : back' = Append(back, m) /\ m.type \in Enders
      BY <2>1, <2>3 DEF Answers
    <3> QED
      BY <1>7, <3>1
  <2> QED
    BY <2>2, <2>3
<1>11. AcksAreTold'
  <2>1. SUFFICES ASSUME senderReady = "open", receiverReady = "open",
                        receiver'.state = "transferring"
                 PROVE  \/ receiver'.nextAckAt <= sender.ackedOffset + AckInterval
                        \/ \E i \in 1 .. Len(back') :
                             /\ back'[i].type = "ACK"
                             /\ receiver'.nextAckAt <= back'[i].committedOffset + AckInterval
    BY DEF AcksAreTold
  <2>2. CASE receiver.state = "transferring" /\ receiver'.nextAckAt = receiver.nextAckAt
    <3>1. CASE receiver.nextAckAt <= sender.ackedOffset + AckInterval
      BY <2>2, <3>1
    <3>2. CASE \E i \in 1 .. Len(back) : back[i].type = "ACK"
                 /\ receiver.nextAckAt <= back[i].committedOffset + AckInterval
      <4>1. PICK i \in 1 .. Len(back) : back[i].type = "ACK"
                 /\ receiver.nextAckAt <= back[i].committedOffset + AckInterval
        BY <3>2
      <4> QED
        BY <1>9, <2>2, <4>1
    <3> QED
      BY <2>1, <2>2, <3>1, <3>2 DEF AcksAreTold
  <2>3. ASSUME NEW m, back' = Append(back, m), m.type = "ACK",
               receiver'.nextAckAt <= m.committedOffset + AckInterval
        PROVE  \E i \in 1 .. Len(back') :
                             /\ back'[i].type = "ACK"
                             /\ receiver'.nextAckAt <= back'[i].committedOffset + AckInterval
    BY <1>7, <2>3
  <2> QED
    BY <2>1, <2>2, <2>3 DEF Answers
<1> QED
  BY <1>1, <1>3, <1>4, <1>5, <1>8, <1>10, <1>11

(* A receiver that takes nothing in leaves the stream as it is. *)
LEMMA StreamKept ==
  ASSUME IInv, UNCHANGED <<setup, sender, senderReady, buf, net>>,
         receiverReady' = "open" => receiverReady = "open",
         receiver'.size = receiver.size, receiver'.expectedIndex = receiver.expectedIndex,
         receiver'.state = "idle" <=> receiver.state = "idle",
         receiver'.state = "transferring" => receiver.state \in {"offered", "transferring"}
  PROVE  StreamOK' /\ PlaceOK' /\ Stream' = Stream /\ IsSeq(net') /\ Arrived' = Arrived
<1> USE DEF IInv
<1>1. Stream' = Stream /\ Arrived' = Arrived
  BY DEF Stream, Arrived, Least
<1>2. IsSeq(net')
  BY DEF ChannelOK
<1>3. StreamOK'
  <2>1. \A m : SentOK(m) => SentOK(m)'
    BY DEF SentOK, ChunkOK, SenderTerminal, Piece, Least, From, To, Honest, FileBytes,
      Announced, Digest, NoHash
  <2>2. \A a, b : Follows(a, b) => Follows(a, b)'
    BY DEF Follows, To, From
  <2> QED
    BY <1>1, <2>1, <2>2 DEF StreamOK
<1>4. PlaceOK'
  <2>2. CASE receiver'.state = "transferring" => receiver.state = "transferring"
    BY <1>1, <2>2 DEF PlaceOK, To, From
  <2>3. CASE receiver'.state = "transferring" /\ receiver.state = "offered"
    <3>1. /\ receiver.expectedIndex = 0 /\ sender.nextOffset = 0
          /\ sender.state \notin {"transferring", "completing", "done"}
          /\ receiver.size \in Nat /\ ChunkSize \in Nat
      BY <2>3, LimitsAssumption DEF Handshake, Unaccepted, ReceiverOK, ReceiverType
    <3>2. Arrived = 0
      BY <3>1 DEF Arrived, Least
    <3>3. ASSUME Stream # <<>>, Stream[1].type = "CHUNK" PROVE FALSE
      <4>1. IsSeq(Stream)
        BY Joined DEF Stream, ChannelOK
      <4>2. 1 \in 1 .. Len(Stream)
        BY <3>3, <4>1, Tailed
      <4>3. Stream[1].index \in Nat /\ To(Stream[1]) <= 0
            /\ Stream[1].data = Piece(FileBytes(sender.size), From(Stream[1]))
            /\ From(Stream[1]) < sender.size
        BY <3>1, <3>3, <4>2 DEF StreamOK, SentOK, ChunkOK
      <4>4. PICK f : f = From(Stream[1])
        OBVIOUS
      <4>5. f \in Nat
        BY <4>3, <4>4, Multiples DEF From
      <4>6. Len(Piece(FileBytes(sender.size), f)) \in 1 .. ChunkSize
        <5>1. sender.size \in Nat
          BY DEF SenderOK, SenderType
        <5>2. IsSeq(FileBytes(sender.size)) /\ Len(FileBytes(sender.size)) = sender.size
          BY <5>1, Files
        <5> QED
          BY <4>3, <4>4, <4>5, <5>2, Pieces
      <4>7. To(Stream[1]) = f + Len(Stream[1].data)
        BY <4>4 DEF To
      <4> QED
        BY <3>1, <4>3, <4>4, <4>5, <4>6, <4>7
    <3> QED
      BY <1>1, <3>1, <3>2, <3>3 DEF PlaceOK, To, From
  <2> QED
    BY <2>2, <2>3
<1> QED
  BY <1>1, <1>2, <1>3, <1>4

-----------------------------------------------------------------------------
(* The receiver ends a transfer *)

(* Aborting the sink leaves nothing of it. *)
LEMMA SinkAborted ==
  ASSUME IInv, SinkAbort, UNCHANGED <<setup, sender>>, receiver'.state \in TerminalStates
  PROVE  SinkOK' /\ RequestsOK' /\ RepliesOK' /\ LifeOK'
<1>1. /\ sink'.state \in {"none", "terminated"} /\ toSink' = <<>> /\ fromSink' = <<>>
      /\ DOMAIN sink' = {"state", "totalBytes", "chunks"} /\ IsSeq(sink'.chunks)
  <2>1. CASE sink.state = "none"
    BY <2>1 DEF IInv, SinkOK, SinkAbort, sinkVars
  <2>2. CASE sink.state # "none"
    <3>1. sink' = [NoSink EXCEPT !.state = "terminated"] /\ toSink' = <<>> /\ fromSink' = <<>>
      BY <2>2 DEF SinkAbort, SinkGone
    <3>2. sink'.state = "terminated" /\ sink'.chunks = <<>>
          /\ DOMAIN sink' = {"state", "totalBytes", "chunks"}
      BY <3>1 DEF NoSink
    <3> QED
      BY <3>1, <3>2, Empty
  <2> QED
    BY <2>1, <2>2
<1>2. IsSeq(<<>>) /\ Len(<<>>) = 0
  BY Empty
<1>3. SinkOK'
  BY <1>1, <1>2 DEF SinkOK, IsSeq
<1>4. RequestsOK'
  BY <1>1 DEF RequestsOK
<1>5. RepliesOK'
  BY <1>1, <1>2 DEF RepliesOK
<1>6. LifeOK'
  BY <1>1 DEF LifeOK, TerminalStates
<1> QED
  BY <1>3, <1>4, <1>5, <1>6

(* The record of a receiver that has ended. *)
LEMMA EndedRecord ==
  ASSUME IInv, UNCHANGED <<setup, sender>>, NEW code, Honest(code),
         NEW state \in {"failed", "cancelled"},
         receiver'.state = state, receiver'.error = code, DOMAIN receiver' = DOMAIN receiver,
         \A f \in {"size", "accepting", "expectedIndex", "committedOffset", "nextAckAt", "terminal",
                   "result"} : receiver'[f] = receiver[f],
         ~ReceiverTerminal(receiver), receiver.state # "idle"
  PROVE  /\ ReceiverOK' /\ ReceiverMoves(receiver, receiver') /\ ReceiverTerminal(receiver')
         /\ receiver'.size = receiver.size /\ receiver'.expectedIndex = receiver.expectedIndex
<1> USE DEF IInv
<1>1. /\ receiver'.size = receiver.size /\ receiver'.expectedIndex = receiver.expectedIndex
      /\ receiver'.committedOffset = receiver.committedOffset
      /\ receiver'.accepting = receiver.accepting
      /\ receiver'.nextAckAt = receiver.nextAckAt /\ receiver'.terminal = receiver.terminal
      /\ receiver'.result = receiver.result
  OBVIOUS
<1>2. Arrived' = Arrived /\ Received' = Received
  BY <1>1 DEF Arrived, Received, Least
<1>3. ReceiverType(receiver') /\ receiver'.error = code
  BY <1>1 DEF ReceiverOK, ReceiverType, SenderStates, TerminalStates
<1>4. Honest(code)'
  BY DEF Honest
<1>5. receiver.terminal # "ok"
  BY DEF ReceiverOK, ReceiverTerminal, TerminalStates
<1>6. ReceiverOK'
  <2>1. Honest(receiver.error)'
    BY <1>3, <1>4 DEF Honest
  <2>2. ReceiverType(receiver)'
    BY <1>3 DEF ReceiverType
  <2> QED
    BY <1>1, <1>2, <1>5, <2>1, <2>2 DEF ReceiverOK
<1>7. ReceiverMoves(receiver, receiver')
  BY <1>1 DEF ReceiverMoves, Unaccepted, Handshake, ReceiverOK, ReceiverType, ReceiverTerminal
<1> QED
  BY <1>1, <1>6, <1>7 DEF ReceiverTerminal, TerminalStates

(* One message to the sender, if both ends are open. *)
LEMMA OneAnswer ==
  ASSUME ChannelOK, NEW m, ReceiverSends(<<m>>)
  PROVE  \/ back' = Append(back, m) /\ receiverReady = "open" /\ senderReady = "open"
         \/ back' = back /\ ~(receiverReady = "open" /\ senderReady = "open")
<1>1. back \o <<m>> = Append(back, m)
  BY Appended DEF ChannelOK
<1> QED
  BY <1>1 DEF ReceiverSends

(* Nothing to answer leaves the way back alone. *)
LEMMA NoAnswer == ASSUME ChannelOK, ReceiverSends(<<>>) PROVE back' = back
BY Appended DEF ChannelOK, ReceiverSends

(* cancel() *)
LEMMA ReceiverCancelKeeps ==
  ASSUME IInv, ReceiverCancel, UNCHANGED senderVars
  PROVE  IInv'
<1> USE DEF IInv
<1>1. /\ UNCHANGED <<setup, sender, senderReady, receiverReady, buf, bufferedAmount, lowEvent, net>>
      /\ ~ReceiverTerminal(receiver) /\ receiver.state # "idle"
      /\ receiver' = [receiver EXCEPT !.state = "cancelled"]
      /\ ReceiverSends(<<[type |-> "CANCEL"]>>) /\ SinkAbort
  BY DEF ReceiverCancel, senderVars
<1>2. /\ ReceiverOK' /\ ReceiverMoves(receiver, receiver') /\ ReceiverTerminal(receiver')
      /\ receiver'.size = receiver.size /\ receiver'.expectedIndex = receiver.expectedIndex
  <2>1. /\ receiver'.state = "cancelled" /\ receiver'.error = receiver.error
        /\ DOMAIN receiver' = DOMAIN receiver
        /\ \A f \in {"size", "accepting", "expectedIndex", "committedOffset", "nextAckAt", "terminal",
                     "result"} : receiver'[f] = receiver[f]
    BY <1>1 DEF ReceiverOK, ReceiverType
  <2>2. Honest(receiver.error)
    BY DEF ReceiverOK
  <2> QED
    BY <1>1, <2>1, <2>2, EndedRecord
<1>3. SinkOK' /\ RequestsOK' /\ RepliesOK' /\ LifeOK'
  BY <1>1, <1>2, SinkAborted DEF ReceiverTerminal
<1>4. receiver'.state = "cancelled"
  BY <1>1 DEF ReceiverOK, ReceiverType
<1>5. StreamOK' /\ PlaceOK' /\ Stream' = Stream /\ IsSeq(net')
  BY <1>1, <1>2, <1>4, StreamKept
<1>6. Answers
  <2>1. PICK m : m = [type |-> "CANCEL"]
    OBVIOUS
  <2>2. m.type = "CANCEL"
    BY <2>1
  <2>3. AnswerOK(m)'
    BY <2>2 DEF AnswerOK
  <2>4. \/ back' = Append(back, m) /\ receiverReady = "open" /\ senderReady = "open"
        \/ back' = back /\ ~(receiverReady = "open" /\ senderReady = "open")
    BY <1>1, <2>1, OneAnswer
  <2> QED
    BY <1>1, <1>4, <2>2, <2>3, <2>4 DEF Answers, Enders
<1>7. receiverReady \in ReadyState
  BY DEF ChannelOK
<1> QED
  BY <1>1, <1>2, <1>3, <1>5, <1>6, <1>7, ReceiverStep

(* reject() *)
LEMMA RejectKeeps ==
  ASSUME IInv, Reject, UNCHANGED senderVars
  PROVE  IInv'
<1> USE DEF IInv
<1>1. /\ UNCHANGED <<setup, sender, senderReady, receiverReady, buf, bufferedAmount, lowEvent, net,
                     sink, toSink, fromSink>>
      /\ receiver.state = "offered"
      /\ receiver' = [receiver EXCEPT !.state = "rejected"]
      /\ ReceiverSends(<<[type |-> "FILE_REJECT"]>>)
  BY DEF Reject, senderVars, sinkVars
<1>2. /\ receiver'.state = "rejected" /\ DOMAIN receiver' = DOMAIN receiver
      /\ receiver'.size = receiver.size /\ receiver'.expectedIndex = receiver.expectedIndex
      /\ receiver'.committedOffset = receiver.committedOffset
      /\ receiver'.accepting = receiver.accepting /\ receiver'.error = receiver.error
      /\ receiver'.nextAckAt = receiver.nextAckAt /\ receiver'.terminal = receiver.terminal
      /\ receiver'.result = receiver.result
  BY <1>1 DEF ReceiverOK, ReceiverType
<1>3. Arrived' = Arrived /\ Received' = Received /\ Announced' = Announced
  BY <1>1, <1>2 DEF Arrived, Received, Announced, Least
<1>4. ReceiverOK'
  <2>1. ReceiverType(receiver)'
    BY <1>2 DEF ReceiverOK, ReceiverType, SenderStates, TerminalStates
  <2>2. Honest(receiver.error)'
    BY <1>1, <1>2 DEF ReceiverOK, Honest
  <2> QED
    BY <1>1, <1>2, <1>3, <2>1, <2>2 DEF ReceiverOK
<1>5. ReceiverMoves(receiver, receiver')
  BY <1>1, <1>2 DEF ReceiverMoves, Unaccepted, Handshake, ReceiverOK, ReceiverType, ReceiverTerminal,
    TerminalStates
<1>6. /\ \A i : Reported(i)' = Reported(i)
      /\ \A i : Posted(i)' = Posted(i)
      /\ CommittedOffset' = CommittedOffset
  BY <1>1, <1>2 DEF Reported, Posted, CommittedOffset
<1>7. SinkOK'
  BY <1>1, <1>2, <1>3, <1>6 DEF SinkOK, IsSeq
<1>8. RequestsOK'
  BY <1>1, <1>2, <1>3, <1>6 DEF RequestsOK, RequestOK, Piece, Least
<1>9. RepliesOK'
  BY <1>1, <1>2, <1>3, <1>6 DEF RepliesOK, ReplyOK, Honest, FileBytes
<1>10. LifeOK'
  BY <1>1, <1>2 DEF LifeOK
<1>11. StreamOK' /\ PlaceOK' /\ Stream' = Stream /\ IsSeq(net')
  BY <1>1, <1>2, StreamKept
<1>12. Answers
  <2>1. PICK m : m = [type |-> "FILE_REJECT"]
    OBVIOUS
  <2>2. m.type = "FILE_REJECT"
    BY <2>1
  <2>3. AnswerOK(m)'
    BY <1>2, <2>2 DEF AnswerOK
  <2>4. \/ back' = Append(back, m) /\ receiverReady = "open" /\ senderReady = "open"
        \/ back' = back /\ ~(receiverReady = "open" /\ senderReady = "open")
    BY <1>1, <2>1, OneAnswer
  <2> QED
    BY <1>1, <1>2, <2>2, <2>3, <2>4 DEF Answers, Enders
<1>13. receiverReady \in ReadyState
  BY DEF ChannelOK
<1> QED
  BY <1>1, <1>4, <1>5, <1>7, <1>8, <1>9, <1>10, <1>11, <1>12, <1>13, ReceiverStep

(* onclose *)
LEMMA ReceiverClosedKeeps ==
  ASSUME IInv, ReceiverClosed, UNCHANGED senderVars
  PROVE  IInv'
<1> USE DEF IInv
<1>1. /\ UNCHANGED <<setup, sender, senderReady, buf, bufferedAmount, lowEvent, net, back>>
      /\ receiverReady = "closing" /\ receiverReady' = "closed"
      /\ IF receiver.state = "transferring"
         THEN /\ receiver' = [receiver EXCEPT !.state = "failed", !.error = "channel_lost"]
              /\ SinkAbort
         ELSE UNCHANGED <<receiver, sink, toSink, fromSink>>
  BY DEF ReceiverClosed, senderVars, sinkVars
<1>2. CASE receiver.state = "transferring"
  <2>1. ~ReceiverTerminal(receiver) /\ receiver.state # "idle"
    BY <1>2 DEF ReceiverTerminal, TerminalStates
  <2>2. /\ receiver'.state = "failed" /\ receiver'.error = "channel_lost"
        /\ DOMAIN receiver' = DOMAIN receiver
        /\ \A f \in {"size", "accepting", "expectedIndex", "committedOffset", "nextAckAt", "terminal",
                     "result"} : receiver'[f] = receiver[f]
    BY <1>1, <1>2 DEF ReceiverOK, ReceiverType
  <2>3. /\ ReceiverOK' /\ ReceiverMoves(receiver, receiver') /\ ReceiverTerminal(receiver')
        /\ receiver'.size = receiver.size /\ receiver'.expectedIndex = receiver.expectedIndex
    <3>1. Honest("channel_lost")
      BY DEF Honest
    <3> QED
      BY <1>1, <2>1, <2>2, <3>1, EndedRecord
  <2>4. SinkOK' /\ RequestsOK' /\ RepliesOK' /\ LifeOK'
    BY <1>1, <1>2, <2>3, SinkAborted DEF ReceiverTerminal
  <2>5. StreamOK' /\ PlaceOK' /\ Stream' = Stream /\ IsSeq(net')
    BY <1>1, <2>1, <2>2, <2>3, StreamKept
  <2>6. Answers
    BY <1>1 DEF Answers
  <2>7. "closed" \in ReadyState
    BY DEF ReadyState
  <2> QED
    BY <1>1, <2>3, <2>4, <2>5, <2>6, <2>7, ReceiverStep
<1>3. CASE receiver.state # "transferring"
  <2>1. UNCHANGED <<receiver, sink, toSink, fromSink>>
    BY <1>1, <1>3
  <2>2. ReceiverOK' /\ SinkOK' /\ RequestsOK' /\ RepliesOK' /\ LifeOK'
    BY <1>1, <2>1, EndsKept DEF sinkVars
  <2>3. StreamOK' /\ PlaceOK' /\ Stream' = Stream /\ IsSeq(net')
    BY <1>1, <1>3, <2>1, StreamKept
  <2>4. ReceiverMoves(receiver, receiver')
    BY <2>1 DEF ReceiverMoves, Handshake, Unaccepted, ReceiverOK, ReceiverType
  <2>5. Answers
    BY <1>1 DEF Answers
  <2>6. "closed" \in ReadyState
    BY DEF ReadyState
  <2> QED
    BY <1>1, <2>2, <2>3, <2>4, <2>5, <2>6, ReceiverStep
<1> QED
  BY <1>2, <1>3

-----------------------------------------------------------------------------
(* The receiver and its sink *)

(* accept() *)
LEMMA AcceptKeeps ==
  ASSUME IInv, Accept, UNCHANGED senderVars
  PROVE  IInv'
<1> USE DEF IInv
<1>1. /\ UNCHANGED <<setup, sender, senderReady, receiverReady, buf, bufferedAmount, lowEvent, net, back>>
      /\ receiver.state = "offered"
      /\ receiver' = [receiver EXCEPT !.accepting = "begin",
                                      !.stray = (receiver.accepting = "begin")]
      /\ SinkBegin(receiver.size)
  BY DEF Accept, senderVars, channelVars
<1>2. /\ receiver'.state = "offered" /\ DOMAIN receiver' = DOMAIN receiver
      /\ receiver'.size = receiver.size /\ receiver'.expectedIndex = receiver.expectedIndex
      /\ receiver'.committedOffset = receiver.committedOffset
      /\ receiver'.accepting = "begin" /\ receiver'.error = receiver.error
      /\ receiver'.nextAckAt = receiver.nextAckAt /\ receiver'.terminal = receiver.terminal
      /\ receiver'.result = receiver.result
  BY <1>1 DEF ReceiverOK, ReceiverType
<1>3. Arrived' = Arrived /\ Received' = Received /\ Announced' = Announced
  BY <1>1, <1>2 DEF Arrived, Received, Announced, Least
<1>4. ReceiverOK'
  <2>1. ReceiverType(receiver)'
    BY <1>2 DEF ReceiverOK, ReceiverType, SenderStates, TerminalStates
  <2>2. Honest(receiver.error)'
    BY <1>1, <1>2 DEF ReceiverOK, Honest
  <2> QED
    BY <1>1, <1>2, <1>3, <2>1, <2>2 DEF ReceiverOK
<1>5. ReceiverMoves(receiver, receiver')
  BY <1>1, <1>2 DEF ReceiverMoves, Unaccepted, Handshake, ReceiverOK, ReceiverType, ReceiverTerminal,
    TerminalStates
<1>6. receiver.committedOffset = 0 /\ Arrived = 0 /\ receiver.size = sender.size /\ sender.size \in Nat
  BY <1>1, LimitsAssumption
  DEF Handshake, Unaccepted, Arrived, Least, ReceiverOK, SenderOK, SenderType
<1>7. PICK m : m = [type |-> "begin", totalBytes |-> sender.size]
  OBVIOUS
<1>8. /\ sink' = [NoSink EXCEPT !.state = "idle"] /\ toSink' = <<m>> /\ fromSink' = <<>>
      /\ m.type = "begin" /\ m.totalBytes = sender.size
  BY <1>1, <1>6, <1>7 DEF SinkBegin
<1>9. /\ sink'.state = "idle" /\ sink'.chunks = <<>> /\ DOMAIN sink' = {"state", "totalBytes", "chunks"}
      /\ IsSeq(<<>>) /\ Len(<<>>) = 0
  BY <1>8, Empty DEF NoSink
<1>10. Len(toSink') = 1 /\ toSink'[1] = m /\ IsSeq(toSink') /\ toSink' # <<>>
  <2>1. toSink' = Append(<<>>, m)
    BY <1>8
  <2>2. IsSeq(toSink')
    BY <1>9, <2>1, Appended
  <2> QED
    BY <1>8, <2>2
<1>11. SinkOK'
  <2>1. IsSeq(toSink)' /\ IsSeq(fromSink)' /\ IsSeq(sink.chunks)'
    BY <1>8, <1>9, <1>10 DEF IsSeq
  <2> QED
    BY <1>2, <1>6, <1>8, <1>9, <1>10, <2>1 DEF SinkOK
<1>12. RequestsOK'
  <2>1. RequestOK(1)'
    BY <1>1, <1>8, <1>9, <1>10 DEF RequestOK
  <2>2. Posted(1)' = Arrived'
    BY <1>3, <1>6, <1>8, <1>9, <1>10 DEF Posted, CommittedOffset
  <2> QED
    BY <1>10, <2>1, <2>2 DEF RequestsOK
<1>13. RepliesOK'
  BY <1>8, <1>9 DEF RepliesOK
<1>14. LifeOK'
  BY <1>2, <1>9 DEF LifeOK
<1>15. StreamOK' /\ PlaceOK' /\ Stream' = Stream /\ IsSeq(net')
  BY <1>1, <1>2, StreamKept
<1>16. Answers
  BY <1>1, <1>2 DEF Answers, ReceiverTerminal, TerminalStates
<1>17. receiverReady \in ReadyState
  BY DEF ChannelOK
<1> QED
  BY <1>1, <1>4, <1>5, <1>11, <1>12, <1>13, <1>14, <1>15, <1>16, <1>17, ReceiverStep

(* A reply that does not end the sink is taken. *)
LEMMA ReplyTaken ==
  ASSUME IInv, UNCHANGED <<setup, sender, sink, toSink>>,
         fromSink # <<>>, fromSink' = Tail(fromSink), Head(fromSink).type \in {"ready", "committed"},
         receiver'.committedOffset = Reported(1), receiver'.size = receiver.size,
         receiver'.expectedIndex = receiver.expectedIndex,
         receiver.state \in {"transferring", "completing"} => receiver'.state = receiver.state
  PROVE  SinkOK' /\ RequestsOK' /\ RepliesOK'
<1> USE DEF IInv
<1>1. /\ IsSeq(fromSink) /\ Len(fromSink) \in Nat \ {0} /\ IsSeq(fromSink')
      /\ Len(fromSink') = Len(fromSink) - 1 /\ Head(fromSink) = fromSink[1]
      /\ \A i \in 1 .. Len(fromSink) - 1 : fromSink'[i] = fromSink[i + 1]
  BY Tailed DEF SinkOK
<1>2. sink.state \notin {"none", "terminated", "idle"}
  BY DEF SinkOK
<1>3. Arrived' = Arrived /\ Received' = Received /\ Announced' = Announced
      /\ CommittedOffset' = CommittedOffset
  BY DEF Arrived, Received, Announced, Least, CommittedOffset
<1>4. ASSUME fromSink[Len(fromSink)].type \in {"done", "error"}
      PROVE  fromSink' # <<>> /\ fromSink'[Len(fromSink')] = fromSink[Len(fromSink)]
  <2>1. Len(fromSink) # 1
    BY <1>1, <1>4
  <2>2. Len(fromSink) - 1 \in 1 .. Len(fromSink) - 1 /\ Len(fromSink) - 1 + 1 = Len(fromSink)
        /\ Len(fromSink') # 0
    BY <1>1, <2>1
  <2> QED
    BY <1>1, <2>2, Length
<1>5. ASSUME NEW i \in 2 .. Len(fromSink) - 1 PROVE fromSink[i].type = "committed"
  <2>1. i \in 1 .. Len(fromSink) /\ i # 1 /\ i # Len(fromSink)
    BY <1>1
  <2> QED
    BY <2>1 DEF RepliesOK, ReplyOK
<1>6. ASSUME NEW j \in 0 .. Len(fromSink) - 1, j > 0 => fromSink[j + 1].type = "committed"
      PROVE  Reported(j)' = Reported(j + 1)
  <2>1. CASE j = 0
    <3>1. Reported(j)' = receiver'.committedOffset /\ j + 1 = 1
      BY <2>1 DEF Reported
    <3> QED
      BY <3>1
  <2>2. CASE j > 0
    <3>1. j \in 1 .. Len(fromSink) - 1 /\ j + 1 > 0
      BY <1>1, <2>2
    <3>2. fromSink'[j] = fromSink[j + 1]
      BY <1>1, <3>1
    <3> QED
      BY <1>6, <2>2, <3>1, <3>2 DEF Reported
  <2> QED
    BY <1>1, <2>1, <2>2
<1>7. RepliesOK'
  <2>1. ASSUME NEW i \in 1 .. Len(fromSink) - 1 PROVE ReplyOK(i)'
    <3>1. /\ i + 1 \in 1 .. Len(fromSink) /\ fromSink'[i] = fromSink[i + 1] /\ i + 1 # 1
          /\ i - 1 \in 0 .. Len(fromSink) - 1 /\ i - 1 + 1 = i /\ i + 1 - 1 = i
          /\ (i + 1 = Len(fromSink) => i = Len(fromSink'))
      <4>1. ASSUME NEW n \in Nat \ {0}, NEW j \in 1 .. n - 1
            PROVE  /\ j + 1 \in 1 .. n /\ j + 1 # 1 /\ j - 1 \in 0 .. n - 1
                   /\ j - 1 + 1 = j /\ j + 1 - 1 = j /\ (j + 1 = n => j = n - 1)
        OBVIOUS
      <4>2. fromSink'[i] = fromSink[i + 1]
        BY <1>1
      <4>3. Len(fromSink) \in Nat \ {0} /\ Len(fromSink') = Len(fromSink) - 1
        BY <1>1
      <4> HIDE DEF IInv
      <4> QED
        BY <4>1, <4>2, <4>3
    <3>2. ReplyOK(i + 1)
      BY <3>1 DEF RepliesOK
    <3>3. Reported(i - 1)' = Reported(i)
      <4>1. i - 1 > 0 => i \in 2 .. Len(fromSink) - 1
        BY <1>1
      <4> QED
        BY <1>5, <1>6, <3>1, <4>1
    <3>4. PICK m : m = fromSink[i + 1]
      OBVIOUS
    <3>5. fromSink'[i] = m
      BY <3>1, <3>4
    <3>6. CASE m.type = "committed"
      BY <1>3, <3>1, <3>2, <3>3, <3>4, <3>5, <3>6 DEF ReplyOK
    <3>7. CASE m.type # "committed"
      BY <1>3, <3>1, <3>2, <3>3, <3>4, <3>5, <3>7 DEF ReplyOK, Honest, FileBytes
    <3> QED
      BY <3>6, <3>7
  <2> QED
    BY <1>1, <2>1 DEF RepliesOK
<1>8. ASSUME sink.state = "active" PROVE Reported(Len(fromSink))' = CommittedOffset'
  <2>1. Len(fromSink) - 1 > 0 => fromSink[Len(fromSink)].type = "committed"
    <3>1. Len(fromSink) \in 1 .. Len(fromSink)
      BY <1>1
    <3>2. ReplyOK(Len(fromSink))
      BY <3>1 DEF RepliesOK
    <3> QED
      BY <1>1, <1>8, <3>2 DEF ReplyOK
  <2>2. Len(fromSink) - 1 \in 0 .. Len(fromSink) - 1 /\ Len(fromSink) - 1 + 1 = Len(fromSink)
    BY <1>1
  <2>3. PICK n : n = Len(fromSink) - 1
    OBVIOUS
  <2>4. Reported(n)' = Reported(n + 1)
    BY <1>6, <2>1, <2>2, <2>3
  <2>5. Reported(Len(fromSink))' = Reported(n)'
    BY <1>1, <2>3 DEF Reported
  <2> QED
    BY <1>3, <1>8, <2>2, <2>3, <2>4, <2>5 DEF SinkOK
<1>9. SinkOK'
  <2>1. IsSeq(toSink)' /\ IsSeq(fromSink)' /\ IsSeq(sink.chunks)'
    BY <1>1 DEF SinkOK, IsSeq
  <2>2. sink.state \in {"active", "failed", "finalized"}
    BY <1>2 DEF SinkOK
  <2>3. CASE sink.state = "active"
    BY <1>3, <1>8, <2>1, <2>3 DEF SinkOK
  <2>4. CASE sink.state = "failed"
    BY <1>3, <1>4, <2>1, <2>4 DEF SinkOK
  <2>5. CASE sink.state = "finalized"
    BY <1>3, <1>4, <2>1, <2>5 DEF SinkOK
  <2> QED
    BY <2>2, <2>3, <2>4, <2>5
<1>10. RequestsOK'
  <2>1. \A i : Posted(i)' = Posted(i)
    BY <1>3 DEF Posted
  <2>2. ASSUME NEW i \in 1 .. Len(toSink), RequestOK(i) PROVE RequestOK(i)'
    BY <1>3, <2>1, <2>2 DEF RequestOK, Piece, Least
  <2> QED
    BY <1>3, <2>1, <2>2 DEF RequestsOK
<1> QED
  BY <1>7, <1>9, <1>10

(* accept() goes on when a worker is ready. *)
LEMMA ReadyHeard ==
  ASSUME IInv, UNCHANGED <<setup, sender, senderReady, receiverReady, buf, bufferedAmount, lowEvent, net>>,
         NEW r, r = receiver \/ r = [receiver EXCEPT !.stray = FALSE], OnReady(r),
         receiver.state # "idle", sink.state \notin {"none", "terminated"}
  PROVE  /\ ReceiverOK' /\ ReceiverMoves(receiver, receiver') /\ Answers /\ LifeOK'
         /\ StreamOK' /\ PlaceOK' /\ Stream' = Stream /\ IsSeq(net') /\ Arrived' = Arrived
         /\ receiver'.size = receiver.size /\ receiver'.expectedIndex = receiver.expectedIndex
         /\ receiver'.committedOffset = receiver.committedOffset
         /\ receiver.state # "offered" => receiver'.state = receiver.state
         /\ receiver.state = "offered" => receiver'.state = "transferring"
         /\ receiver'.accepting = "over"
<1> USE DEF IInv
<1>1. /\ DOMAIN r = DOMAIN receiver /\ r.state = receiver.state
      /\ r.size = receiver.size /\ r.expectedIndex = receiver.expectedIndex
      /\ r.committedOffset = receiver.committedOffset /\ r.error = receiver.error
      /\ r.nextAckAt = receiver.nextAckAt /\ r.terminal = receiver.terminal
      /\ r.result = receiver.result
  BY DEF ReceiverOK, ReceiverType
<1>2. /\ DOMAIN receiver' = DOMAIN receiver /\ receiver'.accepting = "over"
      /\ receiver'.size = receiver.size /\ receiver'.expectedIndex = receiver.expectedIndex
      /\ receiver'.committedOffset = receiver.committedOffset /\ receiver'.error = receiver.error
      /\ receiver'.terminal = receiver.terminal /\ receiver'.result = receiver.result
      /\ receiver.state # "offered" => /\ receiver'.state = receiver.state /\ back' = back
                                       /\ receiver'.nextAckAt = receiver.nextAckAt
      /\ receiver.state = "offered" => /\ receiver'.state = "transferring"
                                       /\ receiver'.nextAckAt = AckInterval
                                       /\ ReceiverSends(<<[type |-> "FILE_ACCEPT"]>>)
      /\ sink' = sink
  <2>1. CASE r.state = "offered"
    <3>1. /\ receiver' = [r EXCEPT !.state = "transferring", !.accepting = "over",
                                   !.nextAckAt = AckInterval]
          /\ ReceiverSends(<<[type |-> "FILE_ACCEPT"]>>) /\ sink' = sink
      BY <2>1 DEF OnReady
    <3> QED
      BY <1>1, <2>1, <3>1 DEF ReceiverOK, ReceiverType
  <2>2. CASE r.state # "offered"
    <3>1. receiver' = [r EXCEPT !.accepting = "over"] /\ back' = back /\ sink' = sink
      BY <2>2 DEF OnReady
    <3> QED
      BY <1>1, <2>2, <3>1 DEF ReceiverOK, ReceiverType
  <2> QED
    BY <2>1, <2>2
<1>3. Arrived' = Arrived /\ Received' = Received
  BY <1>2 DEF Arrived, Received, Least
<1>4. AckInterval \in Nat \ {0}
  BY LimitsAssumption
<1>5. receiver.state = "offered" => receiver.committedOffset = 0 /\ receiver.terminal = "none"
  BY DEF Handshake, Unaccepted
<1>6. ReceiverOK'
  <2>1. ReceiverType(receiver)'
    BY <1>2, <1>4 DEF ReceiverOK, ReceiverType, SenderStates, TerminalStates
  <2>2. Honest(receiver.error)'
    BY <1>2 DEF ReceiverOK, Honest
  <2> QED
    BY <1>2, <1>3, <1>4, <1>5, <2>1, <2>2 DEF ReceiverOK
<1>7. ReceiverMoves(receiver, receiver')
  BY <1>2 DEF ReceiverMoves, Unaccepted, Handshake, ReceiverOK, ReceiverType, ReceiverTerminal,
    TerminalStates
<1>8. LifeOK'
  BY <1>2 DEF LifeOK, SinkOK
<1>9. StreamOK' /\ PlaceOK' /\ Stream' = Stream /\ IsSeq(net')
  BY <1>2, StreamKept
<1>10. Answers
  <2>1. CASE receiver.state # "offered"
    BY <1>2, <2>1 DEF Answers, ReceiverTerminal
  <2>2. CASE receiver.state = "offered"
    <3>1. PICK m : m = [type |-> "FILE_ACCEPT"]
      OBVIOUS
    <3>2. m.type = "FILE_ACCEPT"
      BY <3>1
    <3>3. AnswerOK(m)'
      BY <1>2, <2>2, <3>2 DEF AnswerOK, Unaccepted
    <3>4. back' = Append(back, m) \/ back' = back
      BY <1>2, <2>2, <3>1, OneAnswer
    <3>5. receiver'.nextAckAt <= sender.ackedOffset + AckInterval
      BY <1>2, <1>4, <2>2 DEF SenderOK, SenderType
    <3> QED
      BY <1>2, <2>2, <3>3, <3>4, <3>5 DEF Answers, ReceiverTerminal, TerminalStates
  <2> QED
    BY <2>1, <2>2
<1> QED
  BY <1>2, <1>3, <1>6, <1>7, <1>8, <1>9, <1>10

(* "committed": the milestone moves on, past what is acknowledged. *)
LEMMA CommittedHeard ==
  ASSUME IInv, UNCHANGED <<setup, sender, senderReady, receiverReady, buf, bufferedAmount, lowEvent, net,
                           toSink>>,
         fromSink # <<>>, fromSink' = Tail(fromSink), Head(fromSink).type = "committed",
         OnCommitted(Head(fromSink).committedOffset)
  PROVE  IInv'
<1> USE DEF IInv
<1>1. PICK offset : offset = Head(fromSink).committedOffset
  OBVIOUS
<1>2. PICK due \in BOOLEAN : due = (offset >= receiver.nextAckAt \/ offset >= receiver.size)
  OBVIOUS
<1>3. /\ receiver' = [receiver EXCEPT !.committedOffset = offset,
                        !.nextAckAt = IF due THEN AckMilestone(receiver.nextAckAt, offset)
                                      ELSE receiver.nextAckAt]
      /\ ReceiverSends(IF due THEN <<[type |-> "ACK", committedOffset |-> offset]>> ELSE <<>>)
      /\ sink' = sink
  BY <1>1, <1>2 DEF OnCommitted
<1>4. /\ offset \in Nat /\ receiver.committedOffset < offset /\ offset <= Arrived
      /\ receiver.state \in {"transferring", "completing"} /\ Reported(1) = offset
  <2>1. Head(fromSink) = fromSink[1] /\ 1 \in 1 .. Len(fromSink)
    BY Tailed DEF SinkOK
  <2>2. ReplyOK(1)
    BY <2>1 DEF RepliesOK
  <2>3. Reported(1 - 1) = receiver.committedOffset
    BY DEF Reported
  <2>4. Reported(1) = offset
    BY <1>1, <2>1 DEF Reported
  <2> QED
    BY <1>1, <2>1, <2>2, <2>3, <2>4 DEF ReplyOK
<1>5. PICK next : next = IF due THEN AckMilestone(receiver.nextAckAt, offset) ELSE receiver.nextAckAt
  OBVIOUS
<1>6. /\ DOMAIN receiver' = DOMAIN receiver /\ receiver'.state = receiver.state
      /\ receiver'.size = receiver.size /\ receiver'.expectedIndex = receiver.expectedIndex
      /\ receiver'.committedOffset = offset /\ receiver'.error = receiver.error
      /\ receiver'.accepting = receiver.accepting
      /\ receiver'.nextAckAt = next /\ receiver'.terminal = receiver.terminal
      /\ receiver'.result = receiver.result
  BY <1>3, <1>5 DEF ReceiverOK, ReceiverType
<1>7. /\ next \in Nat
      /\ receiver.state = "transferring" => offset < next
      /\ ~due \/ receiver.nextAckAt > offset => next = receiver.nextAckAt
      /\ due /\ receiver.nextAckAt <= offset => next <= offset + AckInterval
  <2>1. receiver.nextAckAt \in Nat
    BY DEF ReceiverOK, ReceiverType
  <2>2. /\ AckMilestone(receiver.nextAckAt, offset) \in Nat
        /\ offset < AckMilestone(receiver.nextAckAt, offset)
        /\ receiver.nextAckAt > offset => AckMilestone(receiver.nextAckAt, offset) = receiver.nextAckAt
        /\ receiver.nextAckAt <= offset =>
             AckMilestone(receiver.nextAckAt, offset) <= offset + AckInterval
    BY <1>4, <2>1, Milestone
  <2>3. CASE due
    <3>1. next = AckMilestone(receiver.nextAckAt, offset)
      BY <1>5, <2>3
    <3> QED
      BY <2>2, <2>3, <3>1
  <2>4. CASE ~due
    <3>1. next = receiver.nextAckAt /\ ~(offset >= receiver.nextAckAt)
      BY <1>2, <1>5, <2>4
    <3> QED
      BY <1>4, <2>1, <2>4, <3>1
  <2> QED
    BY <1>2, <2>3, <2>4
<1>8. Arrived' = Arrived /\ Received' = Received
  BY <1>6 DEF Arrived, Received, Least
<1>9. ReceiverOK'
  <2>1. ReceiverType(receiver)'
    BY <1>4, <1>6, <1>7 DEF ReceiverOK, ReceiverType, SenderStates, TerminalStates
  <2>2. Honest(receiver.error)'
    BY <1>6 DEF ReceiverOK, Honest
  <2> QED
    BY <1>4, <1>6, <1>7, <1>8, <2>1, <2>2 DEF ReceiverOK
<1>10. ReceiverMoves(receiver, receiver')
  BY <1>4, <1>6 DEF ReceiverMoves, Unaccepted, Handshake, ReceiverOK, ReceiverType, ReceiverTerminal,
    TerminalStates
<1>11. SinkOK' /\ RequestsOK' /\ RepliesOK'
  BY <1>3, <1>4, <1>6, ReplyTaken
<1>12. LifeOK'
  BY <1>3, <1>4, <1>6 DEF LifeOK
<1>13. StreamOK' /\ PlaceOK' /\ Stream' = Stream /\ IsSeq(net')
  BY <1>4, <1>6, StreamKept
<1>14. Answers
  <2>1. CASE due
    <3>1. PICK m : m = [type |-> "ACK", committedOffset |-> offset]
      OBVIOUS
    <3>2. m.type = "ACK" /\ m.committedOffset = offset
      BY <3>1
    <3>3. AnswerOK(m)'
      <4>1. offset \in 0 .. receiver'.committedOffset
        BY <1>4, <1>6
      <4> QED
        BY <3>2, <4>1 DEF AnswerOK
    <3>4. \/ back' = Append(back, m) /\ receiverReady = "open" /\ senderReady = "open"
          \/ back' = back /\ ~(receiverReady = "open" /\ senderReady = "open")
      BY <1>3, <2>1, <3>1, OneAnswer
    <3>5. receiver.nextAckAt <= offset \/ receiver.nextAckAt > offset
      BY <1>4 DEF ReceiverOK, ReceiverType
    <3> QED
      BY <1>4, <1>6, <1>7, <2>1, <3>2, <3>3, <3>4, <3>5 DEF Answers, ReceiverTerminal, TerminalStates
  <2>2. CASE ~due
    <3>1. back' = back
      BY <1>3, <2>2, NoAnswer
    <3> QED
      BY <1>4, <1>6, <1>7, <2>2, <3>1 DEF Answers, ReceiverTerminal, TerminalStates
  <2> QED
    BY <2>1, <2>2
<1>15. receiverReady \in ReadyState
  BY DEF ChannelOK
<1> QED
  BY <1>9, <1>10, <1>11, <1>12, <1>13, <1>14, <1>15, ReceiverStep

(* "done": the verdict. *)
LEMMA DoneHeard ==
  ASSUME IInv, UNCHANGED <<setup, sender, senderReady, receiverReady, buf, bufferedAmount, lowEvent, net>>,
         fromSink # <<>>, fromSink' = <<>>, toSink' = <<>>, NEW rep, rep = Head(fromSink),
         rep.type = "done", OnDone(rep)
  PROVE  IInv' /\ (rep.ok => receiver.committedOffset = sender.size)
<1> USE DEF IInv
<1>1. /\ receiver.committedOffset = sender.size /\ sink.state = "finalized" /\ rep.ok \in BOOLEAN
      /\ rep.result = Received /\ (rep.ok /\ setup.useHash => Received = FileBytes(sender.size))
      /\ receiver.state = "completing"
  <2>1. Head(fromSink) = fromSink[1] /\ 1 \in 1 .. Len(fromSink)
    BY Tailed DEF SinkOK
  <2>2. ReplyOK(1)
    BY <2>1 DEF RepliesOK
  <2>3. Reported(1 - 1) = receiver.committedOffset
    BY DEF Reported
  <2>4. sink.state = "finalized" => receiver.state = "completing"
    BY DEF SinkOK
  <2> QED
    BY <2>1, <2>2, <2>3, <2>4 DEF ReplyOK
<1>2. PICK verdict : verdict = IF rep.ok THEN "ok" ELSE "mismatch"
  OBVIOUS
<1>3. /\ receiver' = [receiver EXCEPT
                   !.state    = IF rep.ok THEN "done" ELSE "failed",
                   !.error    = IF rep.ok THEN receiver.error ELSE "hash_mismatch",
                   !.terminal = verdict,
                   !.result   = IF rep.ok THEN rep.result ELSE <<>>]
      /\ ReceiverSends(<<CompleteAck(verdict)>>)
      /\ sink' = [NoSink EXCEPT !.state = "terminated"]
  BY <1>1, <1>2 DEF OnDone
<1>4. /\ DOMAIN receiver' = DOMAIN receiver
      /\ receiver'.state = (IF rep.ok THEN "done" ELSE "failed")
      /\ receiver'.size = receiver.size /\ receiver'.expectedIndex = receiver.expectedIndex
      /\ receiver'.committedOffset = receiver.committedOffset
      /\ receiver'.error = (IF rep.ok THEN receiver.error ELSE "hash_mismatch")
      /\ receiver'.accepting = receiver.accepting /\ receiver'.terminal = verdict
      /\ receiver'.nextAckAt = receiver.nextAckAt
      /\ rep.ok => receiver'.result = Received
  BY <1>1, <1>3 DEF ReceiverOK, ReceiverType
<1>5. Arrived' = Arrived /\ Received' = Received /\ FileBytes(sender.size)' = FileBytes(sender.size)
  BY <1>4 DEF Arrived, Received, Least
<1>6. ReceiverOK'
  <2>1. ReceiverType(receiver)'
    BY <1>1, <1>2, <1>4 DEF ReceiverOK, ReceiverType, SenderStates, TerminalStates
  <2>2. Honest(receiver.error)'
    BY <1>4 DEF ReceiverOK, Honest
  <2>3. sender.state \in Past
    BY <1>1 DEF ReceiverOK
  <2> QED
    BY <1>1, <1>2, <1>4, <1>5, <2>1, <2>2, <2>3 DEF ReceiverOK
<1>7. ReceiverMoves(receiver, receiver')
  BY <1>1, <1>4 DEF ReceiverMoves, Unaccepted, Handshake, ReceiverOK, ReceiverType, ReceiverTerminal,
    TerminalStates
<1>8. SinkOK' /\ RequestsOK' /\ RepliesOK' /\ LifeOK'
  <2>1. SinkGone
    BY <1>3 DEF SinkGone
  <2>2. SinkAbort
    BY <1>1, <2>1 DEF SinkAbort
  <2> QED
    BY <1>4, <2>2, SinkAborted DEF TerminalStates
<1>9. StreamOK' /\ PlaceOK' /\ Stream' = Stream /\ IsSeq(net')
  BY <1>1, <1>4, StreamKept
<1>10. Answers
  <2>1. PICK m : m = CompleteAck(verdict)
    OBVIOUS
  <2>2. m.type = "COMPLETE_ACK" /\ m.ok = (verdict = "ok")
    BY <2>1 DEF CompleteAck
  <2>3. AnswerOK(m)'
    <3>1. sender.state \in Past
      BY <1>1 DEF ReceiverOK
    <3>2. m.ok \in BOOLEAN /\ (m.ok => rep.ok)
      BY <1>2, <2>2
    <3>3. m.ok => receiver'.state = "done"
      BY <1>4, <3>2
    <3> QED
      BY <2>2, <3>1, <3>2, <3>3 DEF AnswerOK
  <2>4. \/ back' = Append(back, m) /\ receiverReady = "open" /\ senderReady = "open"
        \/ back' = back /\ ~(receiverReady = "open" /\ senderReady = "open")
    BY <1>3, <2>1, OneAnswer
  <2> QED
    BY <1>4, <2>2, <2>3, <2>4 DEF Answers, Enders
<1>11. receiverReady \in ReadyState
  BY DEF ChannelOK
<1>12. IInv'
  BY <1>6, <1>7, <1>8, <1>9, <1>10, <1>11, ReceiverStep
<1> QED
  BY <1>1, <1>12

(* fail() in a transfer that has not ended, by the record it is called on. *)
LEMMA ErrorEnds ==
  ASSUME IInv, UNCHANGED <<setup, sender, senderReady, receiverReady, buf, bufferedAmount, lowEvent, net>>,
         NEW r, r = receiver \/ r = [receiver EXCEPT !.stray = FALSE], NEW code, Honest(code),
         EndWithError(r, code), ~ReceiverTerminal(receiver), receiver.state # "idle"
  PROVE  IInv' /\ receiver'.state = "failed" /\ receiver'.committedOffset = receiver.committedOffset
<1> USE DEF IInv
<1>1. /\ receiver' = [r EXCEPT !.state = "failed", !.error = code]
      /\ ReceiverSends(<<Error(code)>>) /\ SinkAbort
  BY DEF EndWithError
<1>2. /\ receiver'.state = "failed" /\ receiver'.error = code
      /\ DOMAIN receiver' = DOMAIN receiver
      /\ \A f \in {"size", "accepting", "expectedIndex", "committedOffset", "nextAckAt", "terminal",
                   "result"} : receiver'[f] = receiver[f]
  <2>1. /\ DOMAIN r = DOMAIN receiver
        /\ \A f \in {"size", "accepting", "expectedIndex", "committedOffset", "nextAckAt", "terminal",
                     "result"} : r[f] = receiver[f]
    BY DEF ReceiverOK, ReceiverType
  <2> QED
    BY <1>1, <2>1 DEF ReceiverOK, ReceiverType
<1>3. /\ ReceiverOK' /\ ReceiverMoves(receiver, receiver') /\ ReceiverTerminal(receiver')
      /\ receiver'.size = receiver.size /\ receiver'.expectedIndex = receiver.expectedIndex
  BY <1>2, EndedRecord
<1>4. SinkOK' /\ RequestsOK' /\ RepliesOK' /\ LifeOK'
  BY <1>1, <1>3, SinkAborted DEF ReceiverTerminal
<1>5. StreamOK' /\ PlaceOK' /\ Stream' = Stream /\ IsSeq(net')
  BY <1>2, <1>3, StreamKept
<1>6. Answers
  <2>1. PICK m : m = Error(code)
    OBVIOUS
  <2>2. m.type = "ERROR" /\ m.code = code
    BY <2>1 DEF Error
  <2>3. AnswerOK(m)'
    BY <2>2 DEF AnswerOK, Honest
  <2>4. \/ back' = Append(back, m) /\ receiverReady = "open" /\ senderReady = "open"
        \/ back' = back /\ ~(receiverReady = "open" /\ senderReady = "open")
    BY <1>1, <2>1, OneAnswer
  <2> QED
    BY <1>2, <2>2, <2>3, <2>4 DEF Answers, Enders
<1>7. receiverReady \in ReadyState
  BY DEF ChannelOK
<1>8. IInv'
  BY <1>3, <1>4, <1>5, <1>6, <1>7, ReceiverStep
<1> QED
  BY <1>2, <1>8

(* Each reply of the sink. *)
LEMMA SinkRepliesKeeps ==
  ASSUME IInv, SinkReplies, UNCHANGED senderVars
  PROVE  IInv'
<1>1. /\ UNCHANGED <<setup, sender, senderReady, receiverReady, buf, bufferedAmount, lowEvent, net>>
      /\ fromSink # <<>>
  BY DEF SinkReplies, senderVars
<1>2. PICK rep : rep = Head(fromSink)
  OBVIOUS
<1>3. /\ sink.state \notin {"none", "terminated"} /\ fromSink[1] = rep /\ ReplyOK(1)
      /\ Reported(1 - 1) = receiver.committedOffset
      /\ 1 \in 1 .. Len(fromSink)
  <2>1. Head(fromSink) = fromSink[1] /\ 1 \in 1 .. Len(fromSink)
    BY <1>1, Tailed DEF IInv, SinkOK
  <2> QED
    BY <1>1, <1>2, <2>1 DEF IInv, SinkOK, RepliesOK, Reported
<1>4. receiver.state # "idle"
  BY <1>3 DEF IInv, LifeOK
<1>5. receiverReady \in ReadyState
  BY DEF IInv, ChannelOK
<1>6. CASE rep.type = "ready" /\ OnReady(receiver) /\ fromSink' = Tail(fromSink) /\ UNCHANGED toSink
  <2>1. /\ ReceiverOK' /\ ReceiverMoves(receiver, receiver') /\ Answers /\ LifeOK'
        /\ StreamOK' /\ PlaceOK' /\ Stream' = Stream /\ IsSeq(net')
        /\ receiver'.size = receiver.size /\ receiver'.expectedIndex = receiver.expectedIndex
        /\ receiver'.committedOffset = receiver.committedOffset
        /\ receiver.state # "offered" => receiver'.state = receiver.state
    BY <1>1, <1>3, <1>4, <1>6, ReadyHeard
  <2>2. Reported(1) = receiver.committedOffset
    BY <1>3, <1>6 DEF Reported
  <2>3. sink' = sink
    BY <1>6 DEF OnReady
  <2>4. SinkOK' /\ RequestsOK' /\ RepliesOK'
    BY <1>1, <1>2, <1>6, <2>1, <2>2, <2>3, ReplyTaken
  <2> QED
    BY <1>1, <1>5, <2>1, <2>4, ReceiverStep
<1>7. CASE /\ rep.type = "committed" /\ OnCommitted(rep.committedOffset)
           /\ fromSink' = Tail(fromSink) /\ UNCHANGED toSink
  BY <1>1, <1>2, <1>7, CommittedHeard
<1>8. CASE rep.type = "done" /\ OnDone(rep) /\ fromSink' = <<>> /\ toSink' = <<>>
  BY <1>1, <1>2, <1>8, DoneHeard
<1>9. CASE rep.type = "error" /\ ReceiverFail(rep.code)
  <2>1. Honest(rep.code) /\ sink.state = "failed"
    BY <1>3, <1>9 DEF ReplyOK
  <2>2. CASE ReceiverTerminal(receiver)
    <3>1. SinkAbort /\ UNCHANGED <<receiver, back>>
      BY <1>9, <2>2 DEF ReceiverFail
    <3>2. SinkOK' /\ RequestsOK' /\ RepliesOK' /\ LifeOK'
      BY <1>1, <2>2, <3>1, SinkAborted DEF ReceiverTerminal
    <3>3. ReceiverOK'
      <4>1. Received' = Received /\ Arrived' = Arrived
        BY <1>1, <3>1 DEF Received, Arrived, Least
      <4> QED
        BY <1>1, <3>1, <4>1 DEF IInv, ReceiverOK, ReceiverType, Honest
    <3>4. StreamOK' /\ PlaceOK' /\ Stream' = Stream /\ IsSeq(net')
      BY <1>1, <2>2, <3>1, StreamKept DEF ReceiverTerminal, TerminalStates
    <3>5. ReceiverMoves(receiver, receiver')
      BY <3>1 DEF IInv, ReceiverMoves, Handshake, Unaccepted, ReceiverOK, ReceiverType
    <3>6. Answers
      BY <3>1 DEF Answers
    <3> QED
      BY <1>1, <1>5, <3>2, <3>3, <3>4, <3>5, <3>6, ReceiverStep
  <2>3. CASE ~ReceiverTerminal(receiver)
    <3>1. EndWithError(receiver, rep.code)
      BY <1>9, <2>3 DEF ReceiverFail
    <3> QED
      BY <1>1, <1>4, <2>1, <2>3, <3>1, ErrorEnds
  <2> QED
    BY <2>2, <2>3
<1> QED
  BY <1>2, <1>6, <1>7, <1>8, <1>9 DEF SinkReplies

(* The reply of a worker that another has replaced. *)
LEMMA StrayRepliesKeeps ==
  ASSUME IInv, StrayReplies, UNCHANGED senderVars
  PROVE  IInv'
<1>1. PICK r : r = [receiver EXCEPT !.stray = FALSE]
  OBVIOUS
<1>2. /\ UNCHANGED <<setup, sender, senderReady, receiverReady, buf, bufferedAmount, lowEvent, net>>
      /\ receiver.stray
      /\ \/ OnReady(r) /\ UNCHANGED <<toSink, fromSink>>
         \/ /\ "sink" \in setup.faults
            /\ IF ReceiverTerminal(r) THEN receiver' = r /\ UNCHANGED <<back, sink, toSink, fromSink>>
               ELSE EndWithError(r, "sink_failure")
  BY <1>1 DEF StrayReplies, senderVars, sinkVars
<1>3. receiver.state # "idle" /\ receiverReady \in ReadyState
  BY <1>2 DEF IInv, Handshake, ChannelOK
<1>4. /\ DOMAIN r = DOMAIN receiver /\ r.state = receiver.state
      /\ r.size = receiver.size /\ r.expectedIndex = receiver.expectedIndex
      /\ r.committedOffset = receiver.committedOffset /\ r.error = receiver.error
      /\ r.nextAckAt = receiver.nextAckAt /\ r.terminal = receiver.terminal
      /\ r.result = receiver.result /\ r.accepting = receiver.accepting
  BY <1>1 DEF IInv, ReceiverOK, ReceiverType
<1>5. ASSUME UNCHANGED <<sink, toSink, fromSink>>, receiver'.size = receiver.size,
             receiver'.expectedIndex = receiver.expectedIndex,
             receiver'.committedOffset = receiver.committedOffset,
             \/ receiver'.state = receiver.state
             \/ receiver.state = "offered" /\ receiver'.state = "transferring"
      PROVE  SinkOK' /\ RequestsOK' /\ RepliesOK'
  <2>1. Arrived' = Arrived /\ Received' = Received /\ Announced' = Announced
    BY <1>2, <1>5 DEF Arrived, Received, Announced, Least
  <2>2. /\ \A i : Reported(i)' = Reported(i)
        /\ \A i : Posted(i)' = Posted(i)
        /\ CommittedOffset' = CommittedOffset
    BY <1>2, <1>5 DEF Reported, Posted, CommittedOffset
  <2>3. SinkOK'
    BY <1>2, <1>5, <2>1, <2>2 DEF IInv, SinkOK, IsSeq
  <2>4. RequestsOK'
    BY <1>2, <1>5, <2>1, <2>2 DEF IInv, RequestsOK, RequestOK, Piece, Least
  <2>5. RepliesOK'
    BY <1>2, <1>5, <2>1, <2>2 DEF IInv, RepliesOK, ReplyOK, Honest, FileBytes
  <2> QED
    BY <2>3, <2>4, <2>5
<1>6. CASE OnReady(r) /\ UNCHANGED <<toSink, fromSink>>
  <2>1. sink' = sink
    BY <1>6 DEF OnReady
  <2>2. CASE receiver.state = "offered" \/ sink.state \notin {"none", "terminated"}
    <3>1. sink.state \notin {"none", "terminated"}
      BY <1>2, <2>2 DEF IInv, LifeOK
    <3>2. /\ ReceiverOK' /\ ReceiverMoves(receiver, receiver') /\ Answers /\ LifeOK'
          /\ StreamOK' /\ PlaceOK' /\ Stream' = Stream /\ IsSeq(net')
          /\ receiver'.size = receiver.size /\ receiver'.expectedIndex = receiver.expectedIndex
          /\ receiver'.committedOffset = receiver.committedOffset
          /\ receiver.state # "offered" => receiver'.state = receiver.state
          /\ receiver.state = "offered" => receiver'.state = "transferring"
      BY <1>1, <1>2, <1>3, <1>6, <3>1, ReadyHeard
    <3>3. SinkOK' /\ RequestsOK' /\ RepliesOK'
      BY <1>5, <1>6, <2>1, <3>2
    <3> QED
      BY <1>2, <1>3, <3>2, <3>3, ReceiverStep
  <2>3. CASE receiver.state # "offered" /\ sink.state \in {"none", "terminated"}
    <3>1. receiver' = [r EXCEPT !.accepting = "over"] /\ back' = back
      BY <1>4, <1>6, <2>3 DEF OnReady
    <3>2. /\ DOMAIN receiver' = DOMAIN receiver /\ receiver'.state = receiver.state
          /\ receiver'.size = receiver.size /\ receiver'.expectedIndex = receiver.expectedIndex
          /\ receiver'.committedOffset = receiver.committedOffset /\ receiver'.error = receiver.error
          /\ receiver'.nextAckAt = receiver.nextAckAt /\ receiver'.terminal = receiver.terminal
          /\ receiver'.result = receiver.result /\ receiver'.accepting = "over"
      BY <1>4, <3>1 DEF IInv, ReceiverOK, ReceiverType
    <3>3. ReceiverOK'
      <4>1. Received' = Received /\ Arrived' = Arrived
        BY <1>2, <3>2 DEF Received, Arrived, Least
      <4> QED
        BY <1>2, <3>2, <4>1 DEF IInv, ReceiverOK, ReceiverType, Honest
    <3>4. SinkOK' /\ RequestsOK' /\ RepliesOK'
      BY <1>5, <1>6, <2>1, <3>2
    <3>5. LifeOK'
      BY <1>3, <2>1, <2>3, <3>2 DEF IInv, LifeOK
    <3>6. StreamOK' /\ PlaceOK' /\ Stream' = Stream /\ IsSeq(net')
      BY <1>2, <3>2, StreamKept
    <3>7. ReceiverMoves(receiver, receiver')
      BY <1>3, <3>2 DEF IInv, ReceiverMoves, Handshake, Unaccepted, ReceiverOK, ReceiverType
    <3>8. Answers
      BY <3>1, <3>2 DEF Answers, ReceiverTerminal
    <3> QED
      BY <1>2, <1>3, <3>3, <3>4, <3>5, <3>6, <3>7, <3>8, ReceiverStep
  <2> QED
    BY <2>2, <2>3
<1>7. CASE "sink" \in setup.faults /\ ReceiverTerminal(r) /\ receiver' = r
           /\ UNCHANGED <<back, sink, toSink, fromSink>>
  <2>1. ReceiverOK'
    <3>1. Received' = Received /\ Arrived' = Arrived
      BY <1>2, <1>4, <1>7 DEF Received, Arrived, Least
    <3> QED
      BY <1>2, <1>4, <1>7, <3>1 DEF IInv, ReceiverOK, ReceiverType, Honest
  <2>2. SinkOK' /\ RequestsOK' /\ RepliesOK'
    BY <1>4, <1>5, <1>7
  <2>3. LifeOK'
    BY <1>4, <1>7 DEF IInv, LifeOK, ReceiverTerminal, TerminalStates
  <2>4. StreamOK' /\ PlaceOK' /\ Stream' = Stream /\ IsSeq(net')
    BY <1>2, <1>4, <1>7, StreamKept
  <2>5. ReceiverMoves(receiver, receiver')
    BY <1>3, <1>4, <1>7 DEF IInv, ReceiverMoves, Handshake, Unaccepted, ReceiverOK, ReceiverType
  <2>6. Answers
    BY <1>4, <1>7 DEF Answers, ReceiverTerminal
  <2> QED
    BY <1>2, <1>3, <2>1, <2>2, <2>3, <2>4, <2>5, <2>6, ReceiverStep
<1>8. CASE "sink" \in setup.faults /\ ~ReceiverTerminal(r) /\ EndWithError(r, "sink_failure")
  <2>1. Honest("sink_failure") /\ ~ReceiverTerminal(receiver)
    BY <1>4, <1>8 DEF Honest, ReceiverTerminal
  <2> QED
    BY <1>1, <1>2, <1>3, <1>8, <2>1, ErrorEnds
<1> QED
  BY <1>2, <1>6, <1>7, <1>8

-----------------------------------------------------------------------------
(* The receiver takes a message in *)

(* What is left of the stream. *)
LEMMA Taken ==
  ASSUME IInv, UNCHANGED <<setup, sender, buf>>, net # <<>>, net' = Tail(net)
  PROVE  /\ Stream # <<>> /\ Head(net) = Stream[1] /\ SentOK(Head(net))
         /\ IsSeq(net') /\ IsSeq(Stream) /\ Stream' = Tail(Stream)
         /\ Len(Stream) \in Nat \ {0} /\ Len(Stream') = Len(Stream) - 1
         /\ StreamOK' /\ receiverReady = "open"
         /\ Stream' # <<>> => /\ Follows(Stream[1], Stream'[1]) /\ SentOK(Stream'[1])
                              /\ Stream'[Len(Stream')] = Stream[Len(Stream)]
<1>1. /\ IsSeq(net) /\ IsSeq(buf) /\ IsSeq(Stream) /\ receiverReady = "open"
  BY Joined DEF IInv, ChannelOK, Stream
<1>2. IsSeq(net')
  BY <1>1, Tailed
<1>3. Stream # <<>> /\ Stream' = Tail(Stream) /\ Head(net) = Head(Stream)
  BY <1>1, Streams DEF Stream
<1>4. /\ Len(Stream) \in Nat \ {0} /\ Len(Tail(Stream)) = Len(Stream) - 1
      /\ \A i \in 1 .. Len(Stream) - 1 : Tail(Stream)[i] = Stream[i + 1]
      /\ Head(Stream) = Stream[1] /\ IsSeq(Stream')
  BY <1>1, <1>3, Tailed
<1>5. SentOK(Head(net))
  <2>1. 1 \in 1 .. Len(Stream)
    BY <1>4
  <2> QED
    BY <1>3, <1>4, <2>1 DEF IInv, StreamOK
<1>6. StreamOK'
  <2>1. /\ 1 + (Len(Stream) - 1) <= Len(Stream) /\ Len(Stream) - 1 \in Nat /\ Len(Stream) \in Nat
        /\ Len(Stream') = Len(Stream) - 1
        /\ \A i \in 1 .. Len(Stream) - 1 : Stream'[i] = Stream[1 + i]
    BY <1>3, <1>4
  <2>2. StreamOK
    BY DEF IInv
  <2>3. PICK n \in Nat : n = Len(Stream) - 1
    BY <2>1
  <2>4. /\ 1 + n <= Len(Stream) /\ Len(Stream') = n /\ 1 > 0 /\ 1 \in Nat
        /\ \A i \in 1 .. n : Stream'[i] = Stream[1 + i]
    BY <2>1, <2>3
  <2>5. Len(Stream) \in Nat
    BY <2>1
  <2> QED
    BY <2>2, <2>3, <2>4, <2>5, StreamShrinks
<1>7. ASSUME Stream' # <<>>
      PROVE  /\ Follows(Stream[1], Stream'[1]) /\ SentOK(Stream'[1])
             /\ Stream'[Len(Stream')] = Stream[Len(Stream)]
  <2>1. Len(Stream') # 0
    BY <1>4, <1>7, Length
  <2>2. /\ 1 \in 1 .. Len(Stream) - 1 /\ 1 + 1 \in 1 .. Len(Stream)
        /\ Len(Stream) - 1 \in 1 .. Len(Stream) - 1 /\ Len(Stream) - 1 + 1 = Len(Stream)
    BY <1>3, <1>4, <2>1
  <2>3. Stream'[1] = Stream[1 + 1] /\ Stream'[Len(Stream')] = Stream[Len(Stream)]
    BY <1>3, <1>4, <2>2
  <2> QED
    BY <2>2, <2>3 DEF IInv, StreamOK
<1> QED
  BY <1>1, <1>2, <1>3, <1>4, <1>5, <1>6, <1>7

(* Nothing is expected of the place in the stream in other states. *)
LEMMA PlaceTaken ==
  ASSUME IInv, UNCHANGED <<setup, sender, senderReady, receiverReady, buf>>, net # <<>>, net' = Tail(net),
         receiver'.state # "transferring"
  PROVE  PlaceOK'
BY Taken DEF IInv, PlaceOK, To, From

(* A message that changes nothing. *)
LEMMA Ignored ==
  ASSUME IInv, UNCHANGED <<setup, sender, senderReady, receiverReady, buf, bufferedAmount, lowEvent,
                           receiver, back, sink, toSink, fromSink>>,
         net # <<>>, net' = Tail(net), receiver.state # "transferring"
  PROVE  IInv'
<1>1. ReceiverOK' /\ SinkOK' /\ RequestsOK' /\ RepliesOK' /\ LifeOK'
  BY EndsKept DEF sinkVars
<1>2. ReceiverMoves(receiver, receiver') /\ receiverReady \in ReadyState
  BY DEF IInv, ReceiverMoves, Handshake, Unaccepted, ReceiverOK, ReceiverType, ChannelOK
<1>3. Answers
  BY DEF Answers
<1> QED
  BY <1>1, <1>2, <1>3, Taken, PlaceTaken, ReceiverStep

(* FILE_OFFER *)
LEMMA OfferTaken ==
  ASSUME IInv, UNCHANGED <<setup, sender, senderReady, receiverReady, buf, bufferedAmount, lowEvent>>,
         net # <<>>, net' = Tail(net), Head(net).type = "FILE_OFFER", OnOffer(Head(net))
  PROVE  IInv'
<1> USE DEF IInv
<1>1. /\ Head(net).size = sender.size /\ receiver.state = "idle" /\ SentOK(Head(net))
      /\ Stream # <<>> /\ StreamOK' /\ IsSeq(net')
  BY Taken DEF SentOK
<1>2. sender.size <= MaxFileSize /\ sender.size \in Nat /\ MaxFileSize \in Nat /\ sender.state # "idle"
  BY <1>1, LimitsAssumption DEF SenderOK, SenderType, StateOK, Handshake
<1>3. /\ receiver' = [receiver EXCEPT !.state = "offered", !.size = sender.size,
                            !.expectedIndex = 0, !.committedOffset = 0, !.error = "none"]
      /\ UNCHANGED <<back, sink, toSink, fromSink>>
  <2>1. PICK m : m = Head(net)
    OBVIOUS
  <2>2. ~(m.size > MaxFileSize) /\ ~(receiver.state # "idle" /\ ~ReceiverTerminal(receiver))
        /\ m.size = sender.size /\ OnOffer(m)
    BY <1>1, <1>2, <2>1
  <2> HIDE DEF IInv
  <2> QED
    BY <2>2 DEF OnOffer, sinkVars
<1>4. /\ DOMAIN receiver' = DOMAIN receiver /\ receiver'.state = "offered"
      /\ receiver'.size = sender.size /\ receiver'.expectedIndex = 0
      /\ receiver'.committedOffset = 0 /\ receiver'.error = "none"
      /\ receiver'.accepting = receiver.accepting /\ receiver'.stray = receiver.stray
      /\ receiver'.nextAckAt = receiver.nextAckAt /\ receiver'.terminal = receiver.terminal
      /\ receiver'.result = receiver.result
  BY <1>3 DEF ReceiverOK, ReceiverType
<1>5. receiver.terminal = "none" /\ receiver.expectedIndex = 0 /\ receiver.committedOffset = 0
      /\ receiver.accepting = "no" /\ ~receiver.stray /\ sink.state = "none" /\ sender.nextOffset = 0
  BY <1>1 DEF Handshake, Unaccepted, LifeOK
<1>6. Arrived' = 0
  BY <1>2, <1>4, LimitsAssumption DEF Arrived, Least
<1>7. ReceiverOK'
  <2>1. ReceiverType(receiver)'
    BY <1>2, <1>4 DEF ReceiverOK, ReceiverType, SenderStates
  <2>2. Honest(receiver.error)'
    BY <1>4 DEF Honest
  <2> QED
    BY <1>4, <1>5, <1>6, <2>1, <2>2 DEF ReceiverOK
<1>8. ReceiverMoves(receiver, receiver')
  BY <1>1, <1>2, <1>4, <1>5 DEF ReceiverMoves, Unaccepted, ReceiverTerminal, TerminalStates
<1>9. toSink = <<>> /\ fromSink = <<>> /\ Len(fromSink) = 0
  BY <1>5, Empty DEF SinkOK
<1>10. SinkOK'
  BY <1>3, <1>5, <1>9 DEF SinkOK, IsSeq
<1>11. RequestsOK' /\ RepliesOK' /\ LifeOK'
  BY <1>3, <1>4, <1>5, <1>9 DEF RequestsOK, RepliesOK, LifeOK
<1>12. PlaceOK'
  BY <1>4, PlaceTaken
<1>13. Answers
  BY <1>3, <1>4 DEF Answers, ReceiverTerminal, TerminalStates
<1>14. receiverReady \in ReadyState
  BY DEF ChannelOK
<1> QED
  BY <1>1, <1>7, <1>8, <1>10, <1>11, <1>12, <1>13, <1>14, ReceiverStep

(* CANCEL and ERROR *)
LEMMA EndTaken ==
  ASSUME IInv, UNCHANGED <<setup, sender, senderReady, receiverReady, buf, bufferedAmount, lowEvent>>,
         net # <<>>, net' = Tail(net), NEW state \in {"cancelled", "failed"}, NEW code, Honest(code),
         OnPeerEnds(state, code), SenderTerminal(sender)
  PROVE  IInv'
<1>1. back' = back
  BY DEF OnPeerEnds
<1>2. CASE ReceiverTerminal(receiver) \/ receiver.state = "idle"
  <2>1. UNCHANGED <<receiver, sink, toSink, fromSink>>
    BY <1>2 DEF OnPeerEnds, sinkVars
  <2> QED
    BY <1>1, <1>2, <2>1, Ignored DEF ReceiverTerminal, TerminalStates
<1>3. CASE ~(ReceiverTerminal(receiver) \/ receiver.state = "idle")
  <2>1. receiver' = [receiver EXCEPT !.state = state, !.error = code] /\ SinkAbort
    BY <1>3 DEF OnPeerEnds
  <2>2. /\ receiver'.state = state /\ receiver'.error = code
        /\ DOMAIN receiver' = DOMAIN receiver
        /\ \A f \in {"size", "accepting", "expectedIndex", "committedOffset", "nextAckAt", "terminal",
                     "result"} : receiver'[f] = receiver[f]
    BY <2>1 DEF IInv, ReceiverOK, ReceiverType
  <2>3. ReceiverOK' /\ ReceiverMoves(receiver, receiver') /\ ReceiverTerminal(receiver')
    BY <1>3, <2>2, EndedRecord
  <2>4. SinkOK' /\ RequestsOK' /\ RepliesOK' /\ LifeOK'
    BY <2>1, <2>3, SinkAborted DEF ReceiverTerminal
  <2>5. Answers
    BY <1>1, <2>2 DEF Answers
  <2>6. receiverReady \in ReadyState /\ receiver'.state # "transferring"
    BY <2>2 DEF IInv, ChannelOK
  <2> QED
    BY <2>3, <2>4, <2>5, <2>6, Taken, PlaceTaken, ReceiverStep
<1> QED
  BY <1>2, <1>3

(* A request more for the sink. *)
LEMMA Requested ==
  ASSUME SinkOK, NEW req, SinkPost(req)
  PROVE  /\ IsSeq(toSink') /\ Len(toSink') = Len(toSink) + 1 /\ Len(toSink) \in Nat
         /\ \A i \in 1 .. Len(toSink) : toSink'[i] = toSink[i]
         /\ toSink'[Len(toSink) + 1] = req /\ toSink' # <<>>
         /\ UNCHANGED <<sink, fromSink>>
         /\ \A i \in 0 .. Len(toSink) : sender'.size = sender.size => Posted(i)' = Posted(i)
<1>1. /\ IsSeq(toSink') /\ Len(toSink') = Len(toSink) + 1 /\ Len(toSink) \in Nat
      /\ \A i \in 1 .. Len(toSink) : toSink'[i] = toSink[i]
      /\ toSink'[Len(toSink) + 1] = req /\ toSink' # <<>>
  BY Appended, Length DEF SinkOK, SinkPost
<1>2. UNCHANGED <<sink, fromSink>>
  BY DEF SinkPost
<1>3. ASSUME NEW i \in 0 .. Len(toSink), sender'.size = sender.size PROVE Posted(i)' = Posted(i)
  <2>1. CommittedOffset' = CommittedOffset
    BY <1>2 DEF CommittedOffset
  <2>2. i > 0 => toSink'[i] = toSink[i]
    BY <1>1
  <2> QED
    BY <1>3, <2>1, <2>2 DEF Posted
<1> QED
  BY <1>1, <1>2, <1>3

(* COMPLETE: the finalize request follows the last write. *)
LEMMA CompleteTaken ==
  ASSUME IInv, UNCHANGED <<setup, sender, senderReady, receiverReady, buf, bufferedAmount, lowEvent>>,
         net # <<>>, net' = Tail(net), NEW m, m = Head(net), m.type = "COMPLETE", OnComplete(m)
  PROVE  IInv'
<1> USE DEF IInv
<1>1. /\ m.sha256 = Announced /\ sender.nextOffset = sender.size /\ sender.state \in Past
      /\ Stream # <<>> /\ Stream[1] = m /\ StreamOK' /\ IsSeq(net') /\ receiverReady = "open"
      /\ Stream' # <<>> => Follows(m, Stream'[1])
  BY Taken DEF SentOK
<1>2. receiverReady \in ReadyState
  BY DEF ChannelOK
<1>3. CASE receiver.terminal # "none"
  <2>1. ReceiverSends(<<CompleteAck(receiver.terminal)>>) /\ UNCHANGED <<receiver, sink, toSink, fromSink>>
    BY <1>3 DEF OnComplete, sinkVars
  <2>2. ReceiverOK' /\ SinkOK' /\ RequestsOK' /\ RepliesOK' /\ LifeOK'
    BY <2>1, EndsKept DEF sinkVars
  <2>3. ReceiverMoves(receiver, receiver')
    BY <2>1 DEF ReceiverMoves, Handshake, Unaccepted, ReceiverOK, ReceiverType
  <2>4. PlaceOK'
    <3>1. Arrived' = Arrived
      BY <2>1 DEF Arrived, Least
    <3>2. receiver.state = "transferring" => Arrived = sender.nextOffset
      BY <1>1 DEF PlaceOK
    <3>3. Stream' # <<>> => Stream'[1].type # "CHUNK" /\ Stream'[Len(Stream')] = Stream[Len(Stream)]
      BY <1>1, Taken DEF Follows
    <3> QED
      BY <1>1, <2>1, <3>1, <3>2, <3>3 DEF PlaceOK, To, From
  <2>5. Answers
    <3>1. PICK n : n = CompleteAck(receiver.terminal)
      OBVIOUS
    <3>2. n.type = "COMPLETE_ACK" /\ n.ok = (receiver.terminal = "ok")
      BY <3>1 DEF CompleteAck
    <3>3. AnswerOK(n)'
      <4>1. n.ok => receiver'.state = "done"
        BY <2>1, <3>2 DEF ReceiverOK
      <4> QED
        BY <1>1, <3>2, <4>1 DEF AnswerOK
    <3>4. \/ back' = Append(back, n) /\ receiverReady = "open" /\ senderReady = "open"
          \/ back' = back /\ ~(receiverReady = "open" /\ senderReady = "open")
      BY <2>1, <3>1, OneAnswer
    <3>5. receiver'.state # "idle"
      BY <1>3, <2>1 DEF Handshake, Unaccepted
    <3> QED
      BY <2>1, <3>3, <3>4, <3>5 DEF Answers
  <2> QED
    BY <1>1, <1>2, <2>2, <2>3, <2>4, <2>5, ReceiverStep
<1>4. CASE receiver.terminal = "none" /\ receiver.state # "transferring"
  <2>1. UNCHANGED <<receiver, back, sink, toSink, fromSink>>
    BY <1>4 DEF OnComplete, sinkVars
  <2> HIDE DEF IInv
  <2> QED
    BY <1>4, <2>1, Ignored
<1>5. CASE receiver.terminal = "none" /\ receiver.state = "transferring"
  <2>1. PICK req : req = [type |-> "finalize", expected |-> m.sha256]
    OBVIOUS
  <2>2. /\ receiver' = [receiver EXCEPT !.state = "completing"]
        /\ SinkPost(req) /\ back' = back
        /\ req.type = "finalize" /\ req.expected = Announced
    BY <1>1, <1>5, <2>1 DEF OnComplete
  <2>3. /\ DOMAIN receiver' = DOMAIN receiver /\ receiver'.state = "completing"
        /\ receiver'.size = receiver.size /\ receiver'.expectedIndex = receiver.expectedIndex
        /\ receiver'.committedOffset = receiver.committedOffset /\ receiver'.error = receiver.error
        /\ receiver'.nextAckAt = receiver.nextAckAt /\ receiver'.terminal = receiver.terminal
        /\ receiver'.result = receiver.result
    BY <2>2 DEF ReceiverOK, ReceiverType
  <2>4. /\ Arrived' = Arrived /\ Received' = Received /\ Announced' = Announced
        /\ Arrived = sender.size
    <3>1. Arrived = sender.size
      BY <1>1, <1>5 DEF PlaceOK
    <3> QED
      BY <2>3, <3>1 DEF Arrived, Received, Announced, Least
  <2>5. ReceiverOK'
    <3>1. ReceiverType(receiver)'
      BY <2>2 DEF ReceiverOK, ReceiverType, SenderStates
    <3>2. Honest(receiver.error)'
      BY <2>3 DEF ReceiverOK, Honest
    <3> QED
      BY <1>1, <1>5, <2>3, <2>4, <3>1, <3>2 DEF ReceiverOK
  <2>6. ReceiverMoves(receiver, receiver')
    BY <1>5, <2>3 DEF ReceiverMoves, Handshake, Unaccepted, ReceiverOK, ReceiverType, ReceiverTerminal,
      TerminalStates
  <2>7. /\ IsSeq(toSink') /\ Len(toSink') = Len(toSink) + 1 /\ Len(toSink) \in Nat
        /\ \A i \in 1 .. Len(toSink) : toSink'[i] = toSink[i]
        /\ toSink'[Len(toSink) + 1] = req /\ toSink' # <<>>
        /\ UNCHANGED <<sink, fromSink>>
        /\ \A i \in 0 .. Len(toSink) : Posted(i)' = Posted(i)
    BY <2>2, Requested
  <2>8. /\ CommittedOffset' = CommittedOffset
        /\ \A i : Reported(i)' = Reported(i)
    BY <2>3, <2>7 DEF CommittedOffset, Reported
  <2>9. sink.state \in {"idle", "active", "failed"}
    BY <1>5 DEF SinkOK, LifeOK
  <2>10. SinkOK'
    <3>1. IsSeq(toSink)' /\ IsSeq(fromSink)' /\ IsSeq(sink.chunks)'
      BY <2>7 DEF SinkOK, IsSeq
    <3>2. toSink # <<>> => toSink'[1] = toSink[1]
      <4>1. toSink # <<>> => 1 \in 1 .. Len(toSink)
        BY Tailed DEF SinkOK
      <4> QED
        BY <2>7, <4>1
    <3> QED
      BY <2>3, <2>4, <2>7, <2>8, <2>9, <3>1, <3>2 DEF SinkOK
  <2>11. ASSUME sink.state \in {"idle", "active"} PROVE RequestsOK'
    <3>1. ASSUME NEW i \in 1 .. Len(toSink) PROVE RequestOK(i)'
      <4>1. toSink'[i] = toSink[i] /\ RequestOK(i) /\ i - 1 \in 0 .. Len(toSink)
        BY <2>7, <2>11 DEF RequestsOK
      <4>2. Posted(i - 1)' = Posted(i - 1)
        BY <2>7, <4>1
      <4>3. PICK q : q = toSink[i]
        OBVIOUS
      <4>4. toSink'[i] = q /\ q.type # "finalize"
        BY <1>5, <4>1, <4>3 DEF RequestOK
      <4> QED
        BY <2>4, <2>7, <4>1, <4>2, <4>3, <4>4 DEF RequestOK, Piece, Least
    <3>5. PICK n \in Nat : n = Len(toSink)
      BY <2>7
    <3>2. RequestOK(n + 1)'
      <4>1. Posted(n)' = sender.size
        BY <2>4, <2>7, <2>11, <3>5 DEF RequestsOK
      <4>2. n + 1 - 1 = n /\ toSink'[n + 1] = req /\ n + 1 = Len(toSink)'
        BY <2>7, <3>5
      <4> HIDE DEF IInv
      <4> QED
        BY <2>2, <2>3, <2>4, <4>1, <4>2 DEF RequestOK
    <3>3. Posted(Len(toSink))' = Arrived'
      <4>1. Len(toSink') > 0 /\ toSink'[Len(toSink')] = req
        BY <2>7
      <4> QED
        BY <2>2, <2>4, <4>1 DEF Posted
    <3>4. ASSUME NEW i \in 1 .. Len(toSink') PROVE RequestOK(i)'
      <4>1. i \in 1 .. Len(toSink) \/ i = n + 1
        BY <2>7, <3>5
      <4> QED
        BY <3>1, <3>2, <4>1
    <3> QED
      BY <3>3, <3>4 DEF RequestsOK
  <2>12. RequestsOK'
    BY <2>7, <2>11 DEF RequestsOK
  <2>13. RepliesOK'
    BY <1>5, <2>3, <2>4, <2>7, <2>8 DEF RepliesOK, ReplyOK, Honest, FileBytes
  <2>14. LifeOK'
    BY <2>3, <2>7, <2>9 DEF LifeOK
  <2>15. PlaceOK'
    BY <2>3, PlaceTaken
  <2>16. Answers
    BY <2>2, <2>3 DEF Answers, ReceiverTerminal, TerminalStates
  <2> QED
    BY <1>1, <1>2, <2>5, <2>6, <2>10, <2>12, <2>13, <2>14, <2>15, <2>16, ReceiverStep
<1> QED
  BY <1>3, <1>4, <1>5

(* A frame: both sides agree on its place and its length, and its payload  *)
(* goes to the sink.                                                       *)
LEMMA FrameTaken ==
  ASSUME IInv, UNCHANGED <<setup, sender, senderReady, receiverReady, buf, bufferedAmount, lowEvent>>,
         net # <<>>, net' = Tail(net), NEW m, m = Head(net), m.type = "CHUNK", OnFrame(m)
  PROVE  IInv'
<1> USE DEF IInv
<1>1. CASE receiver.state # "transferring"
  <2>1. UNCHANGED <<receiver, back, sink, toSink, fromSink>>
    BY <1>1 DEF OnFrame, sinkVars
  <2> HIDE DEF IInv
  <2> QED
    BY <1>1, <2>1, Ignored
<1>2. CASE receiver.state = "transferring"
  <2> PICK k : k = receiver.expectedIndex
    OBVIOUS
  <2> PICK size : size = sender.size
    OBVIOUS
  <2>1. /\ m.index = k /\ ChunkOK(m) /\ Stream # <<>> /\ Stream[1] = m
        /\ StreamOK' /\ IsSeq(net') /\ receiverReady = "open"
    <3>1. SentOK(m) /\ Stream # <<>> /\ Stream[1] = m /\ StreamOK' /\ IsSeq(net') /\ receiverReady = "open"
      BY Taken
    <3> QED
      BY <1>2, <3>1 DEF SentOK, PlaceOK
  <2>2. /\ k \in Nat /\ size \in Nat /\ receiver.size = size /\ ChunkSize \in Nat \ {0}
        /\ receiver.size \in Nat
    BY <1>2, LimitsAssumption DEF ReceiverOK, ReceiverType, SenderOK, SenderType
  <2>3. PICK from \in Nat : from = k * ChunkSize /\ from < size /\ (k + 1) * ChunkSize = from + ChunkSize
    <3>1. k * ChunkSize \in Nat /\ (k + 1) * ChunkSize = k * ChunkSize + ChunkSize
      BY <2>2, Multiples
    <3>2. k * ChunkSize < size
      BY <2>1 DEF ChunkOK, From
    <3> QED
      BY <3>1, <3>2
  <2>4. PICK to : to = Least(from + ChunkSize, size)
    OBVIOUS
  <2>5. /\ m.data = Piece(FileBytes(size), from) /\ Len(m.data) = to - from
        /\ To(m) = to /\ to <= sender.nextOffset /\ to \in Nat /\ from < to /\ to <= size
    <3>1. m.data = Piece(FileBytes(size), from) /\ To(m) = from + Len(m.data) /\ To(m) <= sender.nextOffset
      BY <2>1, <2>3 DEF ChunkOK, From, To
    <3>2. IsSeq(FileBytes(size)) /\ Len(FileBytes(size)) = size
      BY <2>2, Files
    <3>3. /\ Len(m.data) = Least(from + ChunkSize, size) - from
          /\ Len(m.data) \in 1 .. ChunkSize /\ from + Len(m.data) <= size
      BY <2>3, <3>1, <3>2, Pieces
    <3>4. Len(m.data) = to - from
      BY <2>4, <3>3
    <3>5. to \in Nat
      BY <2>2, <2>3, <2>4 DEF Least
    <3>6. from < to /\ to <= size
      BY <2>2, <2>3, <2>4 DEF Least
    <3>7. To(m) = to
      <4>1. from + (to - from) = to
        BY <2>3, <3>5
      <4> QED
        BY <3>1, <3>4, <4>1
    <3> QED
      BY <3>1, <3>4, <3>5, <3>6, <3>7
  <2>6. PICK payload : payload = IF setup.corrupt /\ m.index = 0 /\ m.data # <<>>
                                 THEN [m.data EXCEPT ![1] = -1] ELSE m.data
    OBVIOUS
  <2>7. PICK req : req = [type |-> "write", offset |-> m.index * ChunkSize, data |-> payload]
    OBVIOUS
  <2>8. /\ receiver' = [receiver EXCEPT !.expectedIndex = k + 1]
        /\ SinkPost(req) /\ back' = back
    <3>1. k < TotalChunks(size) /\ ExpectedPayloadLength(size, k) = to - from /\ TotalChunks(size) \in Nat
      <4>1. k * ChunkSize < size
        BY <2>3
      <4>2. /\ k < TotalChunks(size) /\ TotalChunks(size) \in Nat
            /\ ExpectedPayloadLength(size, k) = Least(k * ChunkSize + ChunkSize, size) - k * ChunkSize
        BY <2>2, <4>1, SameCut
      <4> QED
        BY <2>3, <2>4, <4>2
    <3>2. ~(m.index >= TotalChunks(receiver.size) \/ Len(m.data) # ExpectedPayloadLength(receiver.size, m.index))
      <4>1. ~(k >= TotalChunks(size))
        BY <2>2, <3>1
      <4>2. ExpectedPayloadLength(receiver.size, m.index) = Len(m.data)
            /\ TotalChunks(receiver.size) = TotalChunks(size)
        BY <2>1, <2>2, <2>5, <3>1
      <4> QED
        BY <2>1, <4>1, <4>2
    <3>3. ~(m.index < receiver.expectedIndex) /\ ~(m.index > receiver.expectedIndex)
      BY <2>1, <2>2
    <3> HIDE DEF IInv
    <3> QED
      BY <1>2, <2>6, <2>7, <3>2, <3>3, Zenon DEF OnFrame
  <2>9. req.type = "write" /\ req.offset = from /\ req.data = Piece(Received, from) /\ Len(req.data) = to - from
    <3>1. req.type = "write" /\ req.offset = from /\ req.data = payload
      BY <2>1, <2>3, <2>7
    <3>2. payload = Piece(Received, from)
      <4>1. sender.size \in Nat /\ k * ChunkSize < sender.size
            /\ m.data = Piece(FileBytes(sender.size), k * ChunkSize)
        BY <2>2, <2>3, <2>5
      <4>2. Piece(Received, k * ChunkSize)
              = IF setup.corrupt /\ k = 0 /\ m.data # <<>> THEN [m.data EXCEPT ![1] = -1] ELSE m.data
        BY <2>2, <4>1, CorruptedPiece
      <4> QED
        BY <2>1, <2>3, <2>6, <4>2
    <3>3. IsSeq(Received) /\ Len(Received) = size
      BY <2>2, ReceivedFile
    <3>4. Len(Piece(Received, from)) = to - from
      BY <2>3, <2>4, <3>3, Pieces
    <3> QED
      BY <3>1, <3>2, <3>4
  <2>10. /\ DOMAIN receiver' = DOMAIN receiver /\ receiver'.state = "transferring"
         /\ receiver'.size = receiver.size /\ receiver'.expectedIndex = k + 1
         /\ receiver'.committedOffset = receiver.committedOffset /\ receiver'.error = receiver.error
         /\ receiver'.nextAckAt = receiver.nextAckAt /\ receiver'.terminal = receiver.terminal
         /\ receiver'.result = receiver.result /\ receiver'.accepting = receiver.accepting
    BY <1>2, <2>8 DEF ReceiverOK, ReceiverType
  <2>11. Arrived = from /\ Arrived' = to
    <3>1. Arrived = from
      BY <2>2, <2>3 DEF Arrived, Least
    <3>2. Arrived' = Least((k + 1) * ChunkSize, size)
      BY <2>2, <2>10 DEF Arrived, Least
    <3> QED
      BY <2>3, <2>4, <3>1, <3>2
  <2>12. Received' = Received /\ Announced' = Announced
    BY DEF Received, Announced
  <2>13. ReceiverOK'
    <3>1. ReceiverType(receiver)'
      BY <2>2, <2>10 DEF ReceiverOK, ReceiverType, SenderStates
    <3>2. Honest(receiver.error)'
      BY <2>10 DEF ReceiverOK, Honest
    <3>3. receiver.committedOffset <= to /\ to <= sender.nextOffset
      <4>1. receiver.committedOffset <= from /\ receiver.committedOffset \in Nat
        BY <2>11 DEF ReceiverOK, ReceiverType
      <4> QED
        BY <2>3, <2>5, <4>1
    <3> QED
      BY <1>2, <2>10, <2>11, <2>12, <3>1, <3>2, <3>3 DEF ReceiverOK
  <2>14. ReceiverMoves(receiver, receiver')
    BY <1>2, <2>10 DEF ReceiverMoves, Handshake, Unaccepted, ReceiverOK, ReceiverType, ReceiverTerminal,
      TerminalStates
  <2>15. PlaceOK'
    <3>1. ASSUME Stream' # <<>>, Stream'[1].type = "CHUNK" PROVE Stream'[1].index = k + 1
      BY <2>1, <3>1, Taken DEF Follows
    <3>2. ASSUME Stream' # <<>>, Stream'[1].type # "CHUNK" PROVE to = sender.nextOffset
      BY <2>1, <2>5, <3>2, Taken DEF Follows
    <3>3. ASSUME Stream' = <<>>, senderReady = "open" PROVE to = sender.nextOffset
      <4>1. Len(Stream') = 0 /\ Len(Stream') = Len(Stream) - 1 /\ Len(Stream) \in Nat
        BY <3>3, Taken, Empty
      <4>2. Len(Stream) = 1
        BY <4>1
      <4> QED
        BY <2>1, <2>5, <3>3, <4>2 DEF PlaceOK
    <3>4. Stream' # <<>> => Stream'[Len(Stream')] = Stream[Len(Stream)]
      BY Taken
    <3> QED
      BY <2>1, <2>10, <2>11, <3>1, <3>2, <3>3, <3>4 DEF PlaceOK, To, From
  <2>16. /\ IsSeq(toSink') /\ Len(toSink') = Len(toSink) + 1 /\ Len(toSink) \in Nat
         /\ \A i \in 1 .. Len(toSink) : toSink'[i] = toSink[i]
         /\ toSink'[Len(toSink) + 1] = req /\ toSink' # <<>>
         /\ UNCHANGED <<sink, fromSink>>
         /\ \A i \in 0 .. Len(toSink) : Posted(i)' = Posted(i)
    BY <2>8, Requested
  <2>17. /\ CommittedOffset' = CommittedOffset
         /\ \A i : Reported(i)' = Reported(i)
    BY <2>10, <2>16 DEF CommittedOffset, Reported
  <2>18. sink.state \in {"idle", "active", "failed"}
    BY <1>2 DEF SinkOK, LifeOK
  <2>19. SinkOK'
    <3>1. IsSeq(toSink)' /\ IsSeq(fromSink)' /\ IsSeq(sink.chunks)'
      BY <2>16 DEF SinkOK, IsSeq
    <3>2. toSink # <<>> => toSink'[1] = toSink[1]
      <4>1. toSink # <<>> => 1 \in 1 .. Len(toSink)
        BY Tailed DEF SinkOK
      <4> QED
        BY <2>16, <4>1
    <3> QED
      BY <2>10, <2>12, <2>16, <2>17, <2>18, <3>1, <3>2 DEF SinkOK
  <2>20. ASSUME sink.state \in {"idle", "active"} PROVE RequestsOK'
    <3>1. ASSUME NEW i \in 1 .. Len(toSink) PROVE RequestOK(i)'
      <4>1. toSink'[i] = toSink[i] /\ RequestOK(i) /\ i - 1 \in 0 .. Len(toSink)
        BY <2>16, <2>20 DEF RequestsOK
      <4>2. Posted(i - 1)' = Posted(i - 1)
        BY <2>16, <4>1
      <4>3. PICK q : q = toSink[i]
        OBVIOUS
      <4>4. toSink'[i] = q /\ q.type # "finalize"
        BY <1>2, <4>1, <4>3 DEF RequestOK
      <4>5. CASE q.type = "begin"
        BY <2>16, <4>1, <4>3, <4>4, <4>5 DEF RequestOK
      <4>6. CASE q.type = "write"
        <5>1. /\ q.offset = Posted(i - 1) /\ q.offset \in Nat /\ q.offset < size
              /\ q.data = Piece(Received, q.offset) /\ q.offset + Len(q.data) <= from
          BY <2>11, <4>1, <4>3, <4>6 DEF RequestOK
        <5>2. Len(q.data) \in Nat
          <6>1. IsSeq(Received) /\ Len(Received) = size
            BY <2>2, ReceivedFile
          <6>2. Len(q.data) \in 1 .. ChunkSize
            BY <5>1, <6>1, Pieces
          <6> QED
            BY <6>2
        <5>3. q.offset + Len(q.data) <= to
          BY <2>3, <2>5, <5>1, <5>2
        <5>4. Piece(Received, q.offset)' = Piece(Received, q.offset)
          BY <2>12 DEF Piece, Least
        <5> QED
          BY <2>11, <2>12, <4>2, <4>4, <4>6, <5>1, <5>3, <5>4 DEF RequestOK, Piece, Least
      <4> QED
        BY <4>1, <4>3, <4>4, <4>5, <4>6 DEF RequestOK
    <3>5. PICK n \in Nat : n = Len(toSink)
      BY <2>16
    <3>2. RequestOK(n + 1)'
      <4>2. n + 1 - 1 = n /\ toSink'[n + 1] = req
        BY <2>16, <3>5
      <4>3. Posted(n)' = from
        BY <2>11, <2>16, <2>20, <3>5 DEF RequestsOK
      <4>4. req.offset + Len(req.data) <= to /\ from < sender.size
        BY <2>3, <2>5, <2>9
      <4>5. Piece(Received, from)' = Piece(Received, from)
        BY <2>12 DEF Piece, Least
      <4>6. req.data = Piece(Received, from)'
        BY <2>9, <4>5
      <4> HIDE DEF IInv
      <4>7. /\ req.type = "write" /\ req.offset = Posted(n)' /\ req.offset = from /\ req.offset \in Nat
            /\ req.offset < sender'.size /\ req.offset + Len(req.data) <= Arrived'
        BY <2>3, <2>9, <2>11, <4>3, <4>4
      <4>8. req.data = Piece(Received', req.offset)
        BY <4>6, <4>7 DEF Piece, Least
      <4>9. PICK i : i = n + 1
        OBVIOUS
      <4>10. toSink'[i] = req /\ i - 1 = n
        BY <4>2, <4>9
      <4>11. RequestOK(i)'
        BY <4>7, <4>8, <4>10 DEF RequestOK, Piece, Least
      <4> QED
        BY <4>9, <4>11
    <3>3. Posted(Len(toSink))' = Arrived'
      <4>1. Len(toSink') > 0 /\ toSink'[Len(toSink')] = req
        BY <2>16
      <4>2. from + (to - from) = to
        BY <2>3, <2>5
      <4> QED
        BY <2>9, <2>11, <4>1, <4>2 DEF Posted
    <3>4. ASSUME NEW i \in 1 .. Len(toSink') PROVE RequestOK(i)'
      <4>1. i \in 1 .. Len(toSink) \/ i = n + 1
        BY <2>16, <3>5
      <4> QED
        BY <3>1, <3>2, <4>1
    <3> QED
      BY <3>3, <3>4 DEF RequestsOK
  <2>21. RequestsOK'
    BY <2>16, <2>20 DEF RequestsOK
  <2>22. RepliesOK'
    <3>1. ASSUME NEW i \in 1 .. Len(fromSink) PROVE ReplyOK(i)'
      <4>1. ReplyOK(i) /\ Reported(i - 1)' = Reported(i - 1) /\ fromSink' = fromSink
        BY <2>16, <2>17 DEF RepliesOK
      <4>2. PICK q : q = fromSink[i]
        OBVIOUS
      <4>3. CASE q.type = "committed"
        <5>1. q.committedOffset \in Nat /\ Reported(i - 1) < q.committedOffset /\ q.committedOffset <= from
          BY <2>11, <4>1, <4>2, <4>3 DEF ReplyOK
        <5>2. q.committedOffset <= to
          BY <2>3, <2>5, <5>1
        <5> QED
          BY <2>10, <2>11, <4>1, <4>2, <4>3, <5>1, <5>2 DEF ReplyOK
      <4>4. CASE q.type # "committed"
        BY <1>2, <2>10, <2>12, <2>16, <4>1, <4>2, <4>4 DEF ReplyOK, Honest, FileBytes
      <4> QED
        BY <4>3, <4>4
    <3> QED
      BY <2>16, <3>1 DEF RepliesOK
  <2>23. LifeOK'
    BY <2>10, <2>16, <2>18 DEF LifeOK
  <2>24. Answers
    BY <1>2, <2>8, <2>10 DEF Answers, ReceiverTerminal, TerminalStates
  <2>25. receiverReady \in ReadyState
    BY DEF ChannelOK
  <2>26. Stream = <<>> => Stream' = <<>>
    BY <2>1
  <2> QED
    BY <2>1, <2>13, <2>14, <2>15, <2>19, <2>21, <2>22, <2>23, <2>24, <2>25, <2>26, ReceiverStep
<1> QED
  BY <1>1, <1>2

(* Any message of the sender. *)
LEMMA ReceiverReceivesKeeps ==
  ASSUME IInv, ReceiverReceives, UNCHANGED senderVars
  PROVE  IInv'
<1>1. PICK m : m = Head(net)
  OBVIOUS
<1>2. /\ UNCHANGED <<setup, sender, senderReady, receiverReady, buf, bufferedAmount, lowEvent>>
      /\ net # <<>> /\ net' = Tail(net)
      /\ \/ m.type = "FILE_OFFER" /\ OnOffer(m)
         \/ m.type = "CHUNK" /\ OnFrame(m)
         \/ m.type = "COMPLETE" /\ OnComplete(m)
         \/ m.type = "CANCEL" /\ OnPeerEnds("cancelled", receiver.error)
         \/ m.type = "ERROR" /\ OnPeerEnds("failed", m.code)
  BY <1>1 DEF ReceiverReceives, senderVars
<1>3. SentOK(m) /\ Honest(receiver.error)
  BY <1>1, <1>2, Taken DEF IInv, ReceiverOK
<1>4. CASE m.type = "FILE_OFFER" /\ OnOffer(m)
  BY <1>1, <1>2, <1>4, OfferTaken
<1>5. CASE m.type = "CHUNK" /\ OnFrame(m)
  BY <1>1, <1>2, <1>5, FrameTaken
<1>6. CASE m.type = "COMPLETE" /\ OnComplete(m)
  BY <1>1, <1>2, <1>6, CompleteTaken
<1>7. CASE m.type = "CANCEL" /\ OnPeerEnds("cancelled", receiver.error)
  <2>1. SenderTerminal(sender)
    BY <1>3, <1>7 DEF SentOK
  <2> QED
    BY <1>2, <1>3, <1>7, <2>1, EndTaken
<1>8. CASE m.type = "ERROR" /\ OnPeerEnds("failed", m.code)
  <2>1. SenderTerminal(sender) /\ Honest(m.code)
    BY <1>3, <1>8 DEF SentOK
  <2> QED
    BY <1>2, <1>8, <2>1, EndTaken
<1> QED
  BY <1>2, <1>4, <1>5, <1>6, <1>7, <1>8

-----------------------------------------------------------------------------
(* The worker's steps *)

(* Requests behind the one that was done are still in order. *)
LEMMA RequestDone ==
  ASSUME IInv, UNCHANGED <<setup, sender, receiver>>, sink.state \in {"idle", "active"},
         toSink # <<>>, toSink' = Tail(toSink), CommittedOffset' = Posted(1)
  PROVE  RequestsOK'
<1>1. /\ IsSeq(toSink) /\ Received' = Received /\ Announced' = Announced /\ Arrived' = Arrived
      /\ \A i \in 1 .. Len(toSink) : RequestOK(i)
      /\ Posted(Len(toSink)) = Arrived
  BY DEF IInv, SinkOK, RequestsOK, Received, Announced, Arrived
<1>2. PICK n \in Nat : n + 1 = Len(toSink)
  <2>1. Len(toSink) \in Nat \ {0}
    BY <1>1, Tailed
  <2>2. ASSUME NEW k \in Nat \ {0} PROVE k - 1 \in Nat /\ k - 1 + 1 = k
    OBVIOUS
  <2> QED
    BY <2>1, <2>2
<1>3. Len(toSink') = n /\ \A i \in 1 .. n : toSink'[i] = toSink[i + 1]
  <2>1. Len(toSink) - 1 = n
    BY <1>2
  <2> QED
    BY <1>1, <2>1, Tailed
<1>4. ASSUME NEW i \in 1 .. n
      PROVE  RequestOK(i + 1) /\ toSink[i + 1].type \in {"write", "finalize"}
  <2>1. i + 1 \in 1 .. Len(toSink) /\ i + 1 # 1
    BY <1>2
  <2> QED
    BY <1>1, <2>1 DEF RequestOK
<1>5. ASSUME NEW i \in 0 .. n PROVE Posted(i)' = Posted(i + 1)
  <2>1. CASE i = 0
    BY <2>1 DEF Posted, CommittedOffset
  <2>2. CASE i # 0
    <3>1. i \in 1 .. n /\ i > 0 /\ i + 1 > 0
      BY <2>2
    <3>2. toSink'[i] = toSink[i + 1] /\ toSink[i + 1].type \in {"write", "finalize"}
      BY <3>1, <1>3, <1>4
    <3> QED
      BY <3>1, <3>2 DEF Posted
  <2> QED
    BY <2>1, <2>2
<1>6. ASSUME NEW i \in 1 .. n PROVE RequestOK(i)'
  <2>1. RequestOK(i + 1) /\ toSink[i + 1].type \in {"write", "finalize"} /\ toSink'[i] = toSink[i + 1]
    BY <1>3, <1>4
  <2>2. PICK j \in 0 .. n : j = i - 1 /\ j + 1 = i /\ i + 1 - 1 = i
    <3>1. i - 1 \in 0 .. n /\ i - 1 + 1 = i /\ i + 1 - 1 = i
      OBVIOUS
    <3> QED
      BY <3>1
  <2>3. Posted(j)' = Posted(i)
    BY <1>5, <2>2
  <2>4. i + 1 = Len(toSink) <=> i = Len(toSink')
    BY <1>2, <1>3
  <2>5. CASE toSink[i + 1].type = "write"
    <3>1. /\ toSink[i + 1].offset = Posted(i) /\ toSink[i + 1].offset \in Nat
          /\ toSink[i + 1].offset < sender.size
          /\ toSink[i + 1].data = Piece(Received, toSink[i + 1].offset)
          /\ toSink[i + 1].offset + Len(toSink[i + 1].data) <= Arrived
      BY <2>1, <2>2, <2>5 DEF RequestOK
    <3>2. Piece(Received, toSink[i + 1].offset) = Piece(Received', toSink'[i].offset)
      BY <1>1, <2>1
    <3> QED
      BY <1>1, <2>1, <2>2, <2>3, <2>5, <3>1, <3>2 DEF RequestOK, Piece, Least
  <2>6. CASE toSink[i + 1].type = "finalize"
    <3>1. /\ i + 1 = Len(toSink) /\ Posted(i) = sender.size
          /\ toSink[i + 1].expected = Announced /\ receiver.state = "completing"
      BY <2>1, <2>2, <2>6 DEF RequestOK
    <3> QED
      BY <1>1, <2>1, <2>2, <2>3, <2>4, <2>6, <3>1 DEF RequestOK
  <2> QED
    BY <2>1, <2>5, <2>6
<1>7. Posted(n)' = Arrived'
  BY <1>1, <1>2, <1>5
<1> QED
  BY <1>3, <1>6, <1>7 DEF RequestsOK

(* A reply behind those the page has not seen. *)
LEMMA Replied ==
  ASSUME IInv, UNCHANGED <<setup, sender, receiver>>, sink.state \in {"idle", "active"},
         NEW r, fromSink' = Append(fromSink, r)
  PROVE  \E n \in Nat :
           /\ n = Len(fromSink) /\ Len(fromSink') = n + 1 /\ IsSeq(fromSink') /\ fromSink' # <<>>
           /\ fromSink'[n + 1] = r /\ fromSink'[Len(fromSink')] = r
           /\ \A i \in 1 .. n : ReplyOK(i)'
           /\ \A i \in 0 .. n : Reported(i)' = Reported(i)
<1>1. /\ IsSeq(fromSink) /\ Received' = Received /\ Arrived' = Arrived
      /\ \A i \in 1 .. Len(fromSink) : ReplyOK(i)
  BY DEF IInv, SinkOK, RepliesOK, Received, Arrived
<1>2. PICK n \in Nat : n = Len(fromSink)
  BY <1>1, Length
<1>3. /\ IsSeq(fromSink') /\ Len(fromSink') = n + 1 /\ fromSink' # <<>> /\ fromSink'[n + 1] = r
      /\ \A i \in 1 .. n : fromSink'[i] = fromSink[i]
  BY <1>1, <1>2, Appended
<1>4. ASSUME NEW i \in 0 .. n PROVE Reported(i)' = Reported(i)
  <2>1. i > 0 => fromSink'[i] = fromSink[i]
    BY <1>3
  <2> QED
    BY <2>1 DEF Reported
<1>5. ASSUME NEW i \in 1 .. n PROVE ReplyOK(i)'
  <2>1. ReplyOK(i) /\ fromSink'[i] = fromSink[i]
    BY <1>1, <1>2, <1>3
  <2>2. PICK j \in 0 .. n : j = i - 1
    <3>1. i - 1 \in 0 .. n
      OBVIOUS
    <3> QED
      BY <3>1
  <2>3. Reported(j)' = Reported(j)
    BY <1>4
  <2>4. \/ fromSink[i].type = "ready" /\ i = 1 /\ receiver.committedOffset = 0
           /\ receiver.state \in {"offered", "transferring", "completing", "rejected"}
        \/ /\ fromSink[i].type = "committed" /\ fromSink[i].committedOffset \in Nat
           /\ Reported(j) < fromSink[i].committedOffset /\ fromSink[i].committedOffset <= Arrived
           /\ receiver.state \in {"transferring", "completing"}
    BY <2>1, <2>2 DEF ReplyOK
  <2> QED
    BY <1>1, <2>1, <2>2, <2>3, <2>4 DEF ReplyOK
<1> QED
  BY <1>2, <1>3, <1>4, <1>5

(* A step of the worker leaves all but the sink alone. *)
LEMMA WorkerStep ==
  ASSUME IInv, UNCHANGED <<senderVars, channelVars, receiver>>,
         SinkOK', RequestsOK', RepliesOK', LifeOK'
  PROVE  IInv'
<1>1. UNCHANGED <<setup, sender, receiver, senderReady, receiverReady, buf, bufferedAmount, lowEvent,
                  net, back>>
  BY DEF senderVars, channelVars
<1>2. /\ Stream' = Stream /\ Arrived' = Arrived /\ Received' = Received /\ Announced' = Announced
      /\ Buffered' = Buffered
  BY <1>1 DEF Stream, Arrived, Received, Announced, Buffered, Wire, From
<1>3. SetupOK' /\ SenderOK(sender)' /\ ReceiverOK' /\ Handshake'
  <2>1. SetupOK' /\ SenderOK(sender)'
    BY <1>1 DEF IInv, SetupOK, SenderOK, SenderType, LoopOK, StateOK
  <2>2. ReceiverOK'
    BY <1>1, <1>2 DEF IInv, ReceiverOK, ReceiverType, Honest
  <2>3. Handshake'
    BY <1>1, <1>2 DEF IInv, Handshake, Unaccepted
  <2> QED
    BY <2>1, <2>2, <2>3
<1>4. ChannelOK' /\ CountOK'
  <2>1. ChannelOK'
    BY <1>1 DEF IInv, ChannelOK, IsSeq
  <2>2. CountOK'
    BY <1>1, <1>2 DEF IInv, CountOK
  <2> QED
    BY <2>1, <2>2
<1>5. StreamOK' /\ PlaceOK' /\ BackOK'
  <2>1. StreamOK'
    BY <1>1, <1>2 DEF IInv, StreamOK, SentOK, ChunkOK, From, To, Honest, SenderTerminal, Follows, Announced
  <2>2. PlaceOK'
    BY <1>1, <1>2 DEF IInv, PlaceOK, To, From
  <2>3. BackOK'
    BY <1>1 DEF IInv, BackOK, AnswerOK, Honest, Unaccepted
  <2> QED
    BY <2>1, <2>2, <2>3
<1>6. EndIsTold' /\ AcksAreTold'
  BY <1>1 DEF IInv, EndIsTold, AcksAreTold, ReceiverTerminal, SenderTerminal
<1> QED
  BY <1>3, <1>4, <1>5, <1>6 DEF IInv

(* The worker gives up. *)
LEMMA WorkerFails ==
  ASSUME IInv, UNCHANGED <<senderVars, channelVars, receiver>>, sink.state \in {"idle", "active"},
         toSink # <<>>, toSink' = Tail(toSink), "sink" \in setup.faults, SinkFailWith("sink_failure")
  PROVE  IInv'
<1> DEFINE r == [type |-> "error", code |-> "sink_failure"]
<1>1. /\ sink' = [sink EXCEPT !.state = "failed", !.chunks = <<>>] /\ fromSink' = Append(fromSink, r)
      /\ UNCHANGED <<setup, sender, receiver>>
  BY DEF SinkFailWith, Reply, senderVars
<1>2. r.type = "error" /\ r.code = "sink_failure"
  OBVIOUS
<1> HIDE DEF r
<1>3. PICK n \in Nat :
        /\ Len(fromSink') = n + 1 /\ IsSeq(fromSink') /\ fromSink' # <<>>
        /\ fromSink'[n + 1] = r /\ fromSink'[Len(fromSink')] = r
        /\ \A i \in 1 .. n : ReplyOK(i)'
  BY <1>1, Replied
<1>4. DOMAIN sink' = {"state", "totalBytes", "chunks"} /\ sink'.state = "failed" /\ sink'.chunks = <<>>
  BY <1>1 DEF IInv, SinkOK
<1>5. IsSeq(toSink') /\ IsSeq(sink'.chunks)
  BY <1>4, Tailed, Empty DEF IInv, SinkOK
<1>6. SinkOK'
  <2>1. IsSeq(toSink)' /\ IsSeq(fromSink)' /\ IsSeq(sink.chunks)'
    BY <1>3, <1>5 DEF IsSeq
  <2> QED
    BY <1>1, <1>2, <1>3, <1>4, <2>1 DEF SinkOK
<1>7. RequestsOK'
  BY <1>4 DEF RequestsOK
<1>8. RepliesOK'
  <2>1. ReplyOK(n + 1)'
    BY <1>1, <1>2, <1>3, <1>4 DEF ReplyOK, Honest
  <2> QED
    BY <1>3, <2>1 DEF RepliesOK
<1>9. LifeOK'
  BY <1>1, <1>4 DEF IInv, LifeOK
<1> HIDE DEF IInv
<1> QED
  BY <1>6, <1>7, <1>8, <1>9, WorkerStep

(* begin. *)
LEMMA WorkerBegins ==
  ASSUME IInv, UNCHANGED <<senderVars, channelVars, receiver>>, sink.state = "idle",
         toSink # <<>>, toSink' = Tail(toSink), NEW req, req = Head(toSink), req.type = "begin",
         sink' = [state |-> "active", totalBytes |-> req.totalBytes, chunks |-> <<>>],
         fromSink' = Append(fromSink, [type |-> "ready"])
  PROVE  IInv'
<1> DEFINE r == [type |-> "ready"]
<1>1. UNCHANGED <<setup, sender, receiver>> /\ fromSink' = Append(fromSink, r)
  BY DEF senderVars
<1>2. r.type = "ready"
  OBVIOUS
<1> HIDE DEF r
<1>3. PICK n \in Nat :
        /\ n = Len(fromSink) /\ Len(fromSink') = n + 1 /\ IsSeq(fromSink') /\ fromSink' # <<>>
        /\ fromSink'[n + 1] = r
  BY <1>1, Replied
<1>4. n = 0 /\ receiver.committedOffset = 0 /\ CommittedOffset = 0
  BY <1>3, Empty DEF IInv, SinkOK, CommittedOffset
<1>5. req = toSink[1] /\ IsSeq(toSink') /\ 1 \in 1 .. Len(toSink)
  <2>1. IsSeq(toSink) /\ toSink # <<>>
    BY DEF IInv, SinkOK
  <2>2. Len(toSink) \in Nat \ {0}
    BY <2>1, Tailed
  <2> QED
    BY <2>1, <2>2, Tailed
<1>6. req.totalBytes = sender.size
  <2>1. RequestOK(1)
    BY <1>5 DEF IInv, RequestsOK
  <2> QED
    BY <1>5, <2>1 DEF RequestOK
<1>7. /\ DOMAIN sink' = {"state", "totalBytes", "chunks"} /\ sink'.state = "active"
      /\ sink'.totalBytes = sender.size /\ sink'.chunks = <<>>
  BY <1>6
<1>8. CommittedOffset' = 0
  BY <1>7, Empty DEF CommittedOffset
<1>9. SinkOK'
  <2>1. IsSeq(toSink)' /\ IsSeq(fromSink)' /\ IsSeq(sink.chunks)'
    BY <1>3, <1>5, <1>7, Empty DEF IsSeq
  <2>2. Received' = Received /\ sender.size \in Nat
    BY <1>1 DEF IInv, Received, SenderOK, SenderType
  <2>3. SubSeq(Received, 1, 0) = <<>>
    <3>1. IsSeq(Received) /\ 0 \in 0 .. Len(Received)
      BY <2>2, ReceivedFile
    <3>2. IsSeq(SubSeq(Received, 1, 0)) /\ Len(SubSeq(Received, 1, 0)) = 0
      BY <3>1, Prefixed
    <3> QED
      BY <3>2, Length
  <2>4. sink'.chunks = SubSeq(Received', 1, CommittedOffset')
    BY <1>7, <1>8, <2>2, <2>3
  <2>5. Reported(Len(fromSink))' = CommittedOffset'
    BY <1>1, <1>2, <1>3, <1>4, <1>8 DEF Reported
  <2>6. CommittedOffset' <= sender'.size
    BY <1>1, <1>8, <2>2
  <2> QED
    BY <1>1, <1>3, <1>7, <2>1, <2>4, <2>5, <2>6 DEF SinkOK
<1>10. RequestsOK'
  <2>1. Posted(1) = CommittedOffset
    BY <1>5 DEF Posted
  <2> QED
    BY <1>1, <1>4, <1>8, <2>1, RequestDone
<1>11. receiver.state \in {"offered", "transferring", "completing", "rejected"}
  BY DEF IInv, LifeOK, ReceiverOK, ReceiverType, SenderStates, TerminalStates
<1>12. RepliesOK'
  <2>1. ReplyOK(1)'
    BY <1>1, <1>2, <1>3, <1>4, <1>11 DEF ReplyOK
  <2> QED
    BY <1>3, <1>4, <2>1 DEF RepliesOK
<1>13. LifeOK'
  BY <1>1, <1>7, <1>11 DEF IInv, LifeOK
<1> HIDE DEF IInv
<1> QED
  BY <1>9, <1>10, <1>12, <1>13, WorkerStep

(* What the core does with a write that comes where it stands. *)
Writes(data) ==
  LET held == sink.chunks \o data
  IN /\ sink' = [sink EXCEPT !.chunks = held]
     /\ Reply([type |-> "committed", committedOffset |-> Len(held)])

(* write, of the piece that comes next. *)
LEMMA WorkerWrites ==
  ASSUME IInv, UNCHANGED <<senderVars, channelVars, receiver>>, sink.state = "active",
         toSink # <<>>, toSink' = Tail(toSink), NEW req, req = Head(toSink), req.type = "write",
         Writes(req.data)
  PROVE  IInv'
<1> DEFINE held == sink.chunks \o req.data
           r    == [type |-> "committed", committedOffset |-> Len(held)]
<1>1. /\ UNCHANGED <<setup, sender, receiver>> /\ fromSink' = Append(fromSink, r)
      /\ sink' = [sink EXCEPT !.chunks = held]
  BY DEF senderVars, Writes, Reply
<1>2. held = sink.chunks \o req.data
  OBVIOUS
<1>3. r.type = "committed" /\ r.committedOffset = Len(held)
  OBVIOUS
<1> HIDE DEF r, held
<1>4. PICK n \in Nat :
        /\ n = Len(fromSink) /\ Len(fromSink') = n + 1 /\ IsSeq(fromSink') /\ fromSink' # <<>>
        /\ fromSink'[n + 1] = r
        /\ \A i \in 1 .. n : ReplyOK(i)'
        /\ \A i \in 0 .. n : Reported(i)' = Reported(i)
  BY <1>1, Replied
<1>5. req = toSink[1] /\ IsSeq(toSink') /\ 1 \in 1 .. Len(toSink)
  <2>1. IsSeq(toSink) /\ toSink # <<>>
    BY DEF IInv, SinkOK
  <2>2. Len(toSink) \in Nat \ {0}
    BY <2>1, Tailed
  <2> QED
    BY <2>1, <2>2, Tailed
<1>6. PICK k \in Nat :
        /\ k = CommittedOffset /\ k = req.offset /\ k < sender.size /\ req.data = Piece(Received, k)
        /\ k + Len(req.data) <= Arrived
  <2>1. RequestOK(1)
    BY <1>5 DEF IInv, RequestsOK
  <2>2. /\ req.offset = Posted(1 - 1) /\ req.offset \in Nat /\ req.offset < sender.size
        /\ req.data = Piece(Received, req.offset) /\ req.offset + Len(req.data) <= Arrived
    BY <1>5, <2>1 DEF RequestOK
  <2>3. Posted(1 - 1) = CommittedOffset
    BY DEF Posted
  <2> QED
    BY <2>2, <2>3
<1>7. /\ IsSeq(sink.chunks) /\ Len(sink.chunks) = k /\ sink.chunks = SubSeq(Received, 1, k)
      /\ Reported(n) = k /\ sender.size \in Nat /\ Arrived \in Nat /\ Arrived <= sender.size
      /\ sink.totalBytes = sender.size /\ DOMAIN sink = {"state", "totalBytes", "chunks"}
  <2>1. Arrived \in Nat
    <3>1. receiver.expectedIndex * ChunkSize \in Nat
      BY Multiples DEF IInv, ReceiverOK, ReceiverType
    <3> QED
      BY <3>1 DEF IInv, ReceiverOK, ReceiverType, Arrived, Least
  <2>2. sender.size \in Nat /\ Arrived <= sender.size
    BY <2>1 DEF IInv, SenderOK, SenderType, ReceiverOK
  <2> QED
    BY <1>4, <1>6, <2>1, <2>2 DEF IInv, SinkOK, CommittedOffset
<1>8. /\ IsSeq(Received) /\ IsSeq(req.data) /\ Len(req.data) \in Nat /\ Len(req.data) > 0
      /\ held = SubSeq(Received, 1, k + Len(req.data))
  <2>1. IsSeq(Received) /\ Len(Received) = sender.size
    BY <1>7, ReceivedFile
  <2>2. IsSeq(req.data) /\ Len(req.data) \in 1 .. ChunkSize
    BY <1>6, <2>1, Pieces
  <2>3. SubSeq(Received, 1, k) \o Piece(Received, k) = SubSeq(Received, 1, k + Len(Piece(Received, k)))
    BY <1>6, <2>1, NextPiece
  <2>4. Len(req.data) \in Nat /\ Len(req.data) > 0
    <3>1. \A d \in 1 .. ChunkSize : d \in Nat /\ d > 0
      BY LimitsAssumption
    <3> QED
      BY <2>2, <3>1
  <2> QED
    BY <1>6, <1>7, <1>2, <2>1, <2>2, <2>3, <2>4
<1>9. PICK e \in Nat : e = k + Len(req.data)
  BY <1>8
<1>10. IsSeq(held) /\ Len(held) = e /\ k < e /\ e <= Arrived
  <2>1. IsSeq(held) /\ Len(held) = k + Len(req.data)
    <3>1. IsSeq(sink.chunks) /\ IsSeq(req.data)
      BY <1>7, <1>8
    <3>2. IsSeq(sink.chunks \o req.data)
          /\ Len(sink.chunks \o req.data) = Len(sink.chunks) + Len(req.data)
      BY <3>1, Joined
    <3>3. Len(sink.chunks) = k
      BY <1>7
    <3> QED
      BY <1>2, <3>2, <3>3
  <2>2. \A d \in Nat : d > 0 => k < k + d
    OBVIOUS
  <2>3. k < e
    BY <1>8, <1>9, <2>2
  <2>4. e <= Arrived
    BY <1>6, <1>9
  <2> QED
    BY <1>9, <2>1, <2>3, <2>4
<1>11. /\ DOMAIN sink' = {"state", "totalBytes", "chunks"} /\ sink'.state = "active"
       /\ sink'.totalBytes = sender.size /\ sink'.chunks = held
  BY <1>1, <1>7
<1>12. CommittedOffset' = e /\ Received' = Received
  BY <1>1, <1>10, <1>11 DEF CommittedOffset, Received
<1>13. Reported(n + 1)' = e
  <2>1. fromSink'[n + 1].type = "committed" /\ fromSink'[n + 1].committedOffset = e /\ n + 1 > 0
    BY <1>3, <1>4, <1>10
  <2> QED
    BY <2>1 DEF Reported
<1>14. SinkOK'
  <2>1. IsSeq(toSink)' /\ IsSeq(fromSink)' /\ IsSeq(sink.chunks)'
    BY <1>4, <1>5, <1>10, <1>11 DEF IsSeq
  <2>2. sink'.chunks = SubSeq(Received', 1, CommittedOffset')
    BY <1>8, <1>9, <1>11, <1>12
  <2>3. Reported(Len(fromSink))' = CommittedOffset'
    BY <1>4, <1>12, <1>13
  <2>4. CommittedOffset' <= sender'.size
    BY <1>1, <1>7, <1>10, <1>12
  <2> QED
    BY <1>1, <1>11, <2>1, <2>2, <2>3, <2>4 DEF SinkOK
<1>15. RequestsOK'
  <2>1. Posted(1) = CommittedOffset'
    BY <1>5, <1>6, <1>9, <1>12 DEF Posted
  <2> QED
    BY <1>1, <2>1, RequestDone
<1>16. receiver.state \in {"transferring", "completing"}
  <2>1. ~Unaccepted(receiver)
    <3>1. SUFFICES ASSUME receiver.expectedIndex = 0 PROVE FALSE
      BY DEF IInv, Handshake
    <3>2. 0 * ChunkSize = 0
      BY LimitsAssumption
    <3>3. Arrived = Least(0, receiver.size)
      BY <3>1, <3>2 DEF Arrived
    <3> QED
      BY <3>3, <1>7, <1>10 DEF IInv, ReceiverOK, ReceiverType, Least
  <2> QED
    BY <2>1 DEF IInv, LifeOK, ReceiverOK, ReceiverType, SenderStates, TerminalStates, Unaccepted
<1>17. RepliesOK'
  <2>1. Reported(n)' = k
    BY <1>4, <1>7
  <2>2. Arrived' = Arrived
    BY <1>1 DEF Arrived
  <2>3. n + 1 - 1 = n
    OBVIOUS
  <2>4. /\ fromSink'[n + 1].type = "committed" /\ fromSink'[n + 1].committedOffset = e
        /\ k < e /\ e <= Arrived
    BY <1>3, <1>4, <1>10
  <2>5. ReplyOK(n + 1)'
    BY <1>1, <1>16, <2>1, <2>2, <2>3, <2>4 DEF ReplyOK
  <2> QED
    BY <1>4, <2>5 DEF RepliesOK
<1>18. LifeOK'
  BY <1>1, <1>11, <1>16 DEF IInv, LifeOK
<1> HIDE DEF IInv
<1> QED
  BY <1>14, <1>15, <1>17, <1>18, WorkerStep

(* finalize: everything was written, so what is handed over is the file as *)
(* it arrived.                                                             *)
LEMMA WorkerFinalizes ==
  ASSUME IInv, UNCHANGED <<senderVars, channelVars, receiver>>, sink.state = "active",
         toSink # <<>>, toSink' = Tail(toSink), NEW req, req = Head(toSink), req.type = "finalize",
         Finalize(req)
  PROVE  IInv'
<1> DEFINE r == [type |-> "done", ok |-> req.expected = NoHash \/ Digest(sink.chunks) = req.expected,
                 result |-> sink.chunks]
<1>1. UNCHANGED <<setup, sender, receiver>>
  BY DEF senderVars
<1>2. req = toSink[1] /\ IsSeq(toSink) /\ IsSeq(toSink') /\ Len(toSink) \in Nat \ {0}
      /\ Len(toSink') = Len(toSink) - 1 /\ 1 \in 1 .. Len(toSink)
  <2>1. IsSeq(toSink) /\ toSink # <<>>
    BY DEF IInv, SinkOK
  <2>2. Len(toSink) \in Nat \ {0}
    BY <2>1, Tailed
  <2> QED
    BY <2>1, <2>2, Tailed
<1>3. /\ 1 = Len(toSink) /\ CommittedOffset = sender.size /\ req.expected = Announced
      /\ receiver.state = "completing"
  <2>1. RequestOK(1)
    BY <1>2 DEF IInv, RequestsOK
  <2>2. Posted(1 - 1) = CommittedOffset
    BY DEF Posted
  <2> QED
    BY <1>2, <2>1, <2>2 DEF RequestOK
<1>4. /\ sink.totalBytes = sender.size /\ DOMAIN sink = {"state", "totalBytes", "chunks"}
      /\ sink.chunks = SubSeq(Received, 1, CommittedOffset)
      /\ Reported(Len(fromSink)) = CommittedOffset
  BY DEF IInv, SinkOK
<1>5. /\ sink' = [sink EXCEPT !.state = "finalized", !.chunks = <<>>]
      /\ fromSink' = Append(fromSink, r)
  BY <1>3, <1>4 DEF Finalize, Reply
<1>6. sink.chunks = Received
  <2>1. sender.size \in Nat
    BY DEF IInv, SenderOK, SenderType
  <2>2. IsSeq(Received) /\ Len(Received) = sender.size
    BY <2>1, ReceivedFile
  <2>3. SubSeq(Received, 1, Len(Received)) = Received
    BY <2>2, Common, SubSeqFull
  <2> QED
    BY <1>3, <1>4, <2>2, <2>3
<1>7. /\ r.type = "done" /\ r.ok \in BOOLEAN /\ r.result = Received
      /\ r.ok /\ setup.useHash => Received = FileBytes(sender.size)
  <2>1. r.type = "done" /\ r.ok \in BOOLEAN /\ r.result = Received
    BY <1>6
  <2>2. ASSUME r.ok, setup.useHash PROVE Received = FileBytes(sender.size)
    <3>1. req.expected = Digest(FileBytes(sender.size))
      BY <1>3, <2>2 DEF Announced
    <3>2. Digest(FileBytes(sender.size)) # NoHash
      BY DEF Digest, NoHash
    <3>3. Digest(sink.chunks) = Digest(FileBytes(sender.size))
      BY <2>2, <3>1, <3>2
    <3> QED
      BY <1>6, <3>3 DEF Digest
  <2> QED
    BY <2>1, <2>2
<1> HIDE DEF r
<1>8. PICK n \in Nat :
        /\ n = Len(fromSink) /\ Len(fromSink') = n + 1 /\ IsSeq(fromSink') /\ fromSink' # <<>>
        /\ fromSink'[n + 1] = r /\ fromSink'[Len(fromSink')] = r
        /\ \A i \in 1 .. n : ReplyOK(i)'
        /\ \A i \in 0 .. n : Reported(i)' = Reported(i)
  BY <1>1, <1>5, Replied
<1>9. DOMAIN sink' = {"state", "totalBytes", "chunks"} /\ sink'.state = "finalized" /\ sink'.chunks = <<>>
  BY <1>4, <1>5
<1>10. toSink' = <<>>
  <2>1. \A k : k = 1 => k - 1 = 0
    OBVIOUS
  <2>2. Len(toSink') = 0
    BY <1>2, <1>3, <2>1, Zenon
  <2> QED
    BY <1>2, <2>2, Length
<1>11. SinkOK'
  <2>1. IsSeq(toSink)' /\ IsSeq(fromSink)' /\ IsSeq(sink.chunks)'
    BY <1>2, <1>8, <1>9, Empty DEF IsSeq
  <2> QED
    BY <1>1, <1>3, <1>7, <1>8, <1>9, <1>10, <2>1 DEF SinkOK
<1>12. RequestsOK'
  BY <1>9 DEF RequestsOK
<1>13. RepliesOK'
  <2>1. Reported(n)' = sender.size
    BY <1>3, <1>4, <1>8
  <2>2. Received' = Received
    BY <1>1 DEF Received
  <2>3. n + 1 - 1 = n
    OBVIOUS
  <2>4. ReplyOK(n + 1)'
    BY <1>1, <1>7, <1>8, <1>9, <2>1, <2>2, <2>3 DEF ReplyOK
  <2> QED
    BY <1>8, <2>4 DEF RepliesOK
<1>14. LifeOK'
  BY <1>1, <1>3, <1>9 DEF IInv, LifeOK
<1> HIDE DEF IInv
<1> QED
  BY <1>11, <1>12, <1>13, <1>14, WorkerStep

(* step(). *)
LEMMA SinkStepKeeps ==
  ASSUME IInv, SinkStep, UNCHANGED <<senderVars, channelVars, receiver>>
  PROVE  IInv'
<1>1. PICK req :
        /\ req = Head(toSink) /\ toSink # <<>> /\ toSink' = Tail(toSink)
        /\ \/ sink.state = "failed" /\ UNCHANGED <<sink, fromSink>>
           \/ /\ sink.state # "failed" /\ req.type = "begin"
              /\ sink' = [state |-> "active", totalBytes |-> req.totalBytes, chunks |-> <<>>]
              /\ Reply([type |-> "ready"])
           \/ /\ sink.state = "active" /\ req.type = "write"
              /\ IF req.offset # CommittedOffset THEN SinkFailWith("sink_failure")
                 ELSE Writes(req.data)
           \/ sink.state = "active" /\ req.type = "finalize" /\ Finalize(req)
           \/ "sink" \in setup.faults /\ sink.state # "failed" /\ SinkFailWith("sink_failure")
  BY Zenon DEF SinkStep, Writes
<1>2. sink.state \in {"idle", "active", "failed"} /\ IsSeq(toSink)
  BY <1>1 DEF IInv, SinkOK
<1>3. req = toSink[1] /\ 1 \in 1 .. Len(toSink)
  <2>1. req = toSink[1] /\ Len(toSink) \in Nat \ {0}
    BY <1>1, <1>2, Tailed
  <2> QED
    BY <2>1
<1>4. sink.state # "failed" => RequestOK(1)
  BY <1>2, <1>3 DEF IInv, RequestsOK
<1>5. CASE sink.state = "failed" /\ UNCHANGED <<sink, fromSink>>
  <2>1. UNCHANGED <<setup, sender, receiver>> /\ IsSeq(toSink')
    BY <1>1, <1>2, Tailed DEF senderVars
  <2>2. Received' = Received /\ Arrived' = Arrived
    BY <2>1 DEF Received, Arrived
  <2>3. SinkOK'
    <3>1. IsSeq(toSink)' /\ IsSeq(fromSink)' /\ IsSeq(sink.chunks)'
      BY <1>5, <2>1 DEF IInv, SinkOK, IsSeq
    <3> QED
      BY <1>5, <2>1, <3>1 DEF IInv, SinkOK
  <2>4. RequestsOK'
    BY <1>5 DEF RequestsOK
  <2>5. RepliesOK'
    <3>1. SUFFICES ASSUME NEW i \in 1 .. Len(fromSink) PROVE ReplyOK(i)'
      BY <1>5 DEF RepliesOK
    <3>2. ReplyOK(i) /\ Reported(i - 1)' = Reported(i - 1)
      BY <1>5, <2>1 DEF IInv, RepliesOK, Reported
    <3>3. sink' = sink /\ fromSink' = fromSink
      BY <1>5
    <3> HIDE DEF IInv
    <3> QED
      BY <3>2, <3>3, <2>1, <2>2 DEF ReplyOK, Honest
  <2>6. LifeOK'
    BY <1>5, <2>1 DEF IInv, LifeOK
  <2> QED
    BY <2>3, <2>4, <2>5, <2>6, WorkerStep
<1>6. CASE /\ sink.state # "failed" /\ req.type = "begin"
           /\ sink' = [state |-> "active", totalBytes |-> req.totalBytes, chunks |-> <<>>]
           /\ Reply([type |-> "ready"])
  <2>1. sink.state = "idle"
    BY <1>3, <1>4, <1>6 DEF RequestOK
  <2> QED
    BY <1>1, <1>6, <2>1, WorkerBegins DEF Reply
<1>7. CASE /\ sink.state = "active" /\ req.type = "write"
           /\ IF req.offset # CommittedOffset THEN SinkFailWith("sink_failure") ELSE Writes(req.data)
  <2>1. req.offset = CommittedOffset
    BY <1>3, <1>4, <1>7 DEF RequestOK, Posted
  <2> QED
    BY <1>1, <1>7, <2>1, WorkerWrites
<1>8. CASE sink.state = "active" /\ req.type = "finalize" /\ Finalize(req)
  BY <1>1, <1>8, WorkerFinalizes
<1>9. CASE "sink" \in setup.faults /\ sink.state # "failed" /\ SinkFailWith("sink_failure")
  BY <1>1, <1>2, <1>9, WorkerFails
<1> QED
  BY <1>1, <1>5, <1>6, <1>7, <1>8, <1>9

-----------------------------------------------------------------------------
(* The invariant *)

(* It holds at the start. *)
LEMMA InitIInv == ASSUME Init PROVE IInv
<1>1. /\ setup.useHash \in HashModes /\ setup.corrupt \in CorruptModes /\ setup.faults \in FaultSets
      /\ senderReady = "open" /\ receiverReady = "open"
      /\ buf = <<>> /\ bufferedAmount = 0 /\ lowEvent = "none" /\ net = <<>> /\ back = <<>>
      /\ toSink = <<>> /\ fromSink = <<>>
  BY DEF Init, SetupInit, ChannelInit, SinkInit
<1>2. /\ DOMAIN sender = {"state", "pc", "size", "nextOffset", "ackedOffset", "hash", "ackTimer", "error"}
      /\ sender.state = "idle" /\ sender.pc = "off" /\ sender.size = 0 /\ sender.nextOffset = 0
      /\ sender.ackedOffset = 0 /\ sender.hash = "none" /\ sender.ackTimer = "off"
  BY DEF Init, SenderInit
<1>3. /\ DOMAIN receiver = {"state", "accepting", "stray", "size", "expectedIndex",
                            "committedOffset", "nextAckAt", "error", "terminal", "result"}
      /\ receiver.state = "idle" /\ receiver.accepting = "no" /\ receiver.stray = FALSE
      /\ receiver.size = 0 /\ receiver.expectedIndex = 0 /\ receiver.committedOffset = 0
      /\ receiver.nextAckAt = 0 /\ receiver.error = "none" /\ receiver.terminal = "none"
  BY DEF Init, ReceiverInit
<1>4. /\ DOMAIN sink = {"state", "totalBytes", "chunks"} /\ sink.state = "none" /\ sink.chunks = <<>>
  BY DEF Init, SinkInit, NoSink
<1>5. Stream = <<>> /\ Len(Stream) = 0
  BY <1>1, Empty, Joined DEF Stream
<1>6. /\ ChunkSize \in Nat \ {0} /\ Window \in Nat \ {0} /\ HeaderSize \in Nat /\ HighWater \in Nat
      /\ MaxFileSize \in Nat
      /\ HashModes \subseteq BOOLEAN /\ CorruptModes \subseteq BOOLEAN
  BY LimitsAssumption
<1>7. Arrived = 0
  BY <1>3, <1>6 DEF Arrived, Least
<1>8. SetupOK /\ SenderOK(sender)
  BY <1>1, <1>2, <1>6 DEF SetupOK, SenderOK, SenderType, LoopOK, StateOK, SenderStates
<1>9. ReceiverOK /\ Handshake
  BY <1>1, <1>2, <1>3, <1>5, <1>7
  DEF ReceiverOK, ReceiverType, Honest, Handshake, Unaccepted, SenderStates, Past, TerminalStates
<1>10. ChannelOK /\ CountOK
  BY <1>1, <1>2, <1>6, Empty DEF ChannelOK, CountOK, Buffered, ReadyState
<1>11. StreamOK /\ PlaceOK /\ BackOK
  BY <1>1, <1>3, <1>5, Empty DEF StreamOK, PlaceOK, BackOK
<1>12. SinkOK /\ RequestsOK /\ RepliesOK /\ LifeOK
  BY <1>1, <1>3, <1>4, Empty DEF SinkOK, RequestsOK, RepliesOK, LifeOK
<1>13. EndIsTold /\ AcksAreTold
  BY <1>3 DEF EndIsTold, AcksAreTold, ReceiverTerminal, TerminalStates
<1> QED
  BY <1>8, <1>9, <1>10, <1>11, <1>12, <1>13 DEF IInv

(* Every step keeps it. *)
LEMMA NextIInv == ASSUME IInv, [Next]_vars PROVE IInv'
<1>1. ASSUME NEW size \in Sizes, Offer(size), UNCHANGED receiverVars PROVE IInv'
  BY <1>1, OfferKeeps
<1>2. CASE SenderCancel /\ UNCHANGED receiverVars
  BY <1>2, SenderCancelKeeps
<1>3. CASE SenderReceives /\ UNCHANGED receiverVars
  BY <1>3, SenderReceivesKeeps
<1>4. CASE ReadSettles /\ UNCHANGED receiverVars
  BY <1>4, ReadSettlesKeeps
<1>5. CASE HashPassEnds /\ UNCHANGED receiverVars
  BY <1>5, HashPassEndsKeeps
<1>6. CASE HashAwaited /\ UNCHANGED receiverVars
  BY <1>6, HashAwaitedKeeps
<1>7. CASE SenderLow /\ UNCHANGED receiverVars
  BY <1>7, SenderLowKeeps
<1>8. CASE AckTimeout /\ UNCHANGED receiverVars
  BY <1>8, AckTimeoutKeeps
<1>9. CASE SenderClosed /\ UNCHANGED receiverVars
  BY <1>9, SenderClosedKeeps
<1>10. CASE Accept /\ UNCHANGED senderVars
  BY <1>10, AcceptKeeps
<1>11. CASE Reject /\ UNCHANGED senderVars
  BY <1>11, RejectKeeps
<1>12. CASE ReceiverCancel /\ UNCHANGED senderVars
  BY <1>12, ReceiverCancelKeeps
<1>13. CASE ReceiverReceives /\ UNCHANGED senderVars
  BY <1>13, ReceiverReceivesKeeps
<1>14. CASE SinkReplies /\ UNCHANGED senderVars
  BY <1>14, SinkRepliesKeeps
<1>15. CASE StrayReplies /\ UNCHANGED senderVars
  BY <1>15, StrayRepliesKeeps
<1>16. CASE ReceiverClosed /\ UNCHANGED senderVars
  BY <1>16, ReceiverClosedKeeps
<1>17. CASE SinkStep /\ UNCHANGED <<senderVars, channelVars, receiver>>
  BY <1>17, SinkStepKeeps
<1>18. CASE Transmit /\ UNCHANGED <<sender, receiverVars>>
  BY <1>18, TransmitKeeps
<1>19. CASE SenderCloses /\ UNCHANGED <<sender, receiverVars>>
  BY <1>19, SenderClosesKeeps
<1>20. CASE ReceiverCloses /\ UNCHANGED <<sender, receiverVars>>
  BY <1>20, ReceiverClosesKeeps
<1>21. CASE UNCHANGED vars
  <2>1. UNCHANGED <<senderVars, channelVars, receiver>> /\ UNCHANGED sinkVars /\ UNCHANGED <<setup, sender, receiver>>
    BY <1>21 DEF vars, senderVars
  <2>2. SinkOK' /\ RequestsOK' /\ RepliesOK' /\ LifeOK'
    BY <2>1, EndsKept
  <2> QED
    BY <2>1, <2>2, WorkerStep
<1> QED
  BY <1>1, <1>2, <1>3, <1>4, <1>5, <1>6, <1>7, <1>8, <1>9, <1>10, <1>11, <1>12, <1>13, <1>14,
     <1>15, <1>16, <1>17, <1>18, <1>19, <1>20, <1>21 DEF Next

(* So it always holds. *)
LEMMA Invariance == Spec => []IInv
BY InitIInv, NextIInv, PTL DEF Spec

(* The sender, the receiver and the channel's counters stay in range.      *)
THEOREM TypeCorrect == Spec => []TypeOK
<1>1. IInv => TypeOK
  BY DEF IInv, TypeOK, SenderOK, SenderType, ReceiverOK, ReceiverType, ChannelOK, CountOK
<1> QED
  BY <1>1, Invariance, PTL

(* Flow control: the un-ACKed bytes stay below the window plus one chunk,  *)
(* and the send buffer below high water plus one frame.                    *)
THEOREM FlowIsBounded == Spec => []BacklogBounded
<1>1. IInv => BacklogBounded
  BY DEF IInv, BacklogBounded, SenderOK, LoopOK, CountOK
<1> QED
  BY <1>1, Invariance, PTL

(* The two sides cut the file into the same frames: the receiver finds     *)
(* none malformed, out of sequence or missing, and the sink fails only by  *)
(* a fault of its own.                                                     *)
THEOREM FramesAgree == Spec => []FramingAgrees
<1>1. IInv => FramingAgrees
  BY DEF IInv, FramingAgrees, ReceiverOK, Honest
<1> QED
  BY <1>1, Invariance, PTL

(* A receiver that is done holds the bytes of the file offered, by the     *)
(* protocol alone or, if a byte was corrupted, by the hash.                *)
THEOREM ContentStaysExact == Spec => []ContentIsExact
<1>1. IInv => ContentIsExact
  BY DEF IInv, ContentIsExact, ReceiverOK, Received
<1> QED
  BY <1>1, Invariance, PTL

(* No wake-up is lost: a loop that waits for the buffer has a low event    *)
(* coming, and one that waits for the window has something in the pipeline *)
(* that leads to an ACK or to the end.  With nothing in it, everything     *)
(* sent is committed, and the ACK that fell due then was heard.            *)
THEOREM WakeUpsAreKept == Spec => []NoLostWakeup
<1>1. ASSUME IInv, senderReady = "open", sender.pc = "low"
      PROVE  bufferedAmount > LowWater \/ lowEvent = "due"
  BY <1>1 DEF IInv, CountOK
<1>2. ASSUME IInv, senderReady = "open", sender.pc = "ack", receiverReady = "open", PipelineEmpty
      PROVE  FALSE
  <2>1. /\ buf = <<>> /\ net = <<>> /\ back = <<>> /\ toSink = <<>> /\ fromSink = <<>>
    BY <1>2 DEF PipelineEmpty
  <2>2. sender.state = "transferring" /\ sender.nextOffset - sender.ackedOffset >= Window
    BY <1>2 DEF IInv, SenderOK, LoopOK
  <2>3. receiver.state = "transferring"
    <3>1. receiver.state \notin {"idle", "offered", "rejected"}
      BY <1>2, <2>2 DEF IInv, Handshake, Unaccepted
    <3>2. receiver.state \notin {"completing", "done"}
      BY <1>2, <2>2 DEF IInv, ReceiverOK, Past, TerminalStates
    <3>3. ~ReceiverTerminal(receiver)
      BY <1>2, <2>1, <2>2, Empty DEF IInv, EndIsTold, SenderTerminal, TerminalStates
    <3> QED
      BY <1>2, <3>1, <3>2, <3>3 DEF IInv, ReceiverOK, ReceiverType, SenderStates, ReceiverTerminal
  <2>4. sink.state = "active"
    BY <1>2, <2>1, <2>3 DEF IInv, LifeOK, SinkOK
  <2>5. Stream = <<>>
    BY <2>1, Empty, Joined DEF Stream
  <2>6. Arrived = sender.nextOffset
    BY <1>2, <2>3, <2>5 DEF IInv, PlaceOK
  <2>7. CommittedOffset = Arrived
    BY <1>2, <2>1, <2>4, Empty DEF IInv, RequestsOK, Posted
  <2>8. receiver.committedOffset = CommittedOffset
    BY <1>2, <2>1, <2>4, Empty DEF IInv, SinkOK, Reported
  <2>9. receiver.nextAckAt <= sender.ackedOffset + AckInterval
    BY <1>2, <2>1, <2>3, Empty DEF IInv, AcksAreTold
  <2>10. /\ receiver.committedOffset < receiver.nextAckAt
         /\ receiver.committedOffset \in Nat /\ receiver.nextAckAt \in Nat
         /\ sender.nextOffset \in Int /\ sender.ackedOffset \in Int
    BY <1>2, <2>3 DEF IInv, ReceiverOK, ReceiverType, SenderOK, SenderType
  <2>11. AckInterval <= Window /\ AckInterval \in Int /\ Window \in Int
    BY LimitsAssumption
  <2> QED
    BY <2>2, <2>6, <2>7, <2>8, <2>9, <2>10, <2>11
<1>3. IInv => NoLostWakeup
  BY <1>1, <1>2 DEF NoLostWakeup
<1> QED
  BY <1>3, Invariance, PTL

-----------------------------------------------------------------------------
(* What no step of the sender does *)

(* The same file, acknowledged as far, and an end that is final. *)
Faithful(s, t) == /\ t.size = s.size /\ t.ackedOffset = s.ackedOffset
                  /\ SenderTerminal(s) => t.state = s.state

(* fail(), wakeAll and a turn of the loop. *)
LEMMA HelpersAreFaithful ==
  ASSUME NEW s, {"state", "pc", "size", "ackedOffset", "ackTimer", "hash", "error"} \subseteq DOMAIN s
  PROVE  /\ \A code : Faithful(s, SenderFail(s, code)) /\ DOMAIN SenderFail(s, code) = DOMAIN s
         /\ Faithful(s, WakeAll(s)) /\ DOMAIN WakeAll(s) = DOMAIN s
         /\ \A n : Faithful(s, Resume(s, n)) /\ DOMAIN Resume(s, n) = DOMAIN s
         /\ \A p : Faithful(s, [s EXCEPT !.pc = p]) /\ DOMAIN [s EXCEPT !.pc = p] = DOMAIN s
<1>1. ASSUME NEW p PROVE Faithful(s, [s EXCEPT !.pc = p]) /\ DOMAIN [s EXCEPT !.pc = p] = DOMAIN s
  BY DEF Faithful
<1>2. Faithful(s, s)
  BY DEF Faithful
<1>3. ASSUME NEW code PROVE Faithful(s, SenderFail(s, code)) /\ DOMAIN SenderFail(s, code) = DOMAIN s
  <2> DEFINE t == [s EXCEPT !.state = "failed", !.error = code, !.ackTimer = "off",
                            !.hash = HashCancelled(@)]
  <2>1. t.size = s.size /\ t.ackedOffset = s.ackedOffset /\ DOMAIN t = DOMAIN s
    OBVIOUS
  <2>2. SenderFail(s, code) = IF SenderTerminal(s) THEN s ELSE t
    BY DEF SenderFail
  <2> HIDE DEF t
  <2> QED
    BY <1>2, <2>1, <2>2 DEF Faithful
<1>4. Faithful(s, WakeAll(s)) /\ DOMAIN WakeAll(s) = DOMAIN s
  BY <1>1, <1>2, Zenon DEF WakeAll
<1>5. ASSUME NEW n PROVE Faithful(s, Resume(s, n)) /\ DOMAIN Resume(s, n) = DOMAIN s
  <2>1. \E p : Resume(s, n) = [s EXCEPT !.pc = p]
    BY Zenon DEF Resume
  <2> QED
    BY <1>1, <2>1, Zenon
<1> QED
  BY <1>1, <1>3, <1>4, <1>5

(* Any chain of such changes is one. *)
LEMMA FaithfulChain ==
  ASSUME NEW r, NEW s, NEW t, Faithful(r, s), Faithful(s, t)
  PROVE  Faithful(r, t)
BY DEF Faithful, SenderTerminal

(* A step of the sender, but for an offer, changes neither the file nor    *)
(* how an ended transfer ended, and counts as acknowledged no more than    *)
(* the receiver has.                                                       *)
SenderActs ==
  \/ SenderCancel \/ SenderReceives \/ ReadSettles \/ HashPassEnds \/ HashAwaited
  \/ SenderLow \/ AckTimeout \/ SenderClosed

SenderPromises ==
  /\ sender'.size = sender.size
  /\ sender'.ackedOffset = sender.ackedOffset \/ sender'.ackedOffset <= receiver.committedOffset
  /\ SenderTerminal(sender) => sender'.state = sender.state

(* cancel(), and a CANCEL that arrives. *)
LEMMA CancelIsFaithful ==
  ASSUME SenderType(sender), ~SenderTerminal(sender),
         NEW t, t = [sender EXCEPT !.state = "cancelled", !.hash = HashCancelled(@)]
  PROVE  Faithful(sender, WakeAll(t))
<1>1. Faithful(sender, t) /\ DOMAIN t = DOMAIN sender
  BY DEF Faithful, SenderType
<1>2. Faithful(t, WakeAll(t))
  BY <1>1, HelpersAreFaithful DEF SenderType
<1> QED
  BY <1>1, <1>2, FaithfulChain

(* What the loop and the events make of the sender. *)
LEMMA EventsAreFaithful ==
  ASSUME SenderType(sender),
         SenderCancel \/ ReadSettles \/ HashPassEnds \/ HashAwaited \/ SenderLow
           \/ AckTimeout \/ SenderClosed
  PROVE  Faithful(sender, sender')
<1> DEFINE Fields == {"state", "pc", "size", "ackedOffset", "ackTimer", "hash", "error"}
<1>1. Fields \subseteq DOMAIN sender
  BY DEF SenderType
<1>2. ASSUME NEW s, Faithful(sender, s), Fields \subseteq DOMAIN s
      PROVE  /\ \A code : Faithful(sender, SenderFail(s, code))
             /\ Faithful(sender, WakeAll(s))
             /\ \A n : Faithful(sender, Resume(s, n))
  BY <1>2, HelpersAreFaithful, FaithfulChain
<1>3. Faithful(sender, sender)
  BY DEF Faithful
<1> DEFINE off == [sender EXCEPT !.pc = "off"]
<1>4. Faithful(sender, off) /\ Fields \subseteq DOMAIN off
  BY <1>1, HelpersAreFaithful
<1> HIDE DEF Fields, off
<1>5. CASE SenderCancel
  BY <1>5, CancelIsFaithful DEF SenderCancel
<1>6. CASE ReadSettles
  <2> DEFINE s == [sender EXCEPT !.nextOffset = @ + PayloadLength(sender)]
  <2>1. Faithful(sender, s) /\ Fields \subseteq DOMAIN s
    BY <1>1 DEF Faithful, Fields
  <2> HIDE DEF s
  <2>2. \/ sender' = off
        \/ sender' = Resume(s, bufferedAmount')
        \/ \E code : sender' = SenderFail(off, code)
    BY <1>6, Zenon DEF ReadSettles, off, s
  <2> QED
    BY <1>2, <1>4, <2>1, <2>2
<1>7. CASE HashPassEnds
  <2>1. PICK h : sender' = [sender EXCEPT !.hash = h]
    BY <1>7 DEF HashPassEnds
  <2> QED
    BY <1>1, <2>1 DEF Faithful, Fields
<1>8. CASE HashAwaited
  <2> DEFINE s == [off EXCEPT !.state = "completing", !.ackTimer = "armed"]
  <2>1. sender.state = "transferring" => Faithful(sender, s)
    BY <1>4 DEF Faithful, Fields, SenderTerminal, TerminalStates
  <2>2. \/ sender' = off
        \/ sender' = SenderFail(off, "read_failure")
        \/ sender.state = "transferring" /\ sender' = s
    BY <1>8 DEF HashAwaited, off, s
  <2> QED
    BY <1>2, <1>4, <2>1, <2>2
<1>9. CASE SenderLow
  BY <1>1, <1>2, <1>3, <1>9 DEF SenderLow
<1>10. CASE AckTimeout \/ SenderClosed
  <2> DEFINE s == [sender EXCEPT !.ackTimer = "off"]
  <2>1. Faithful(sender, s) /\ Fields \subseteq DOMAIN s
    BY <1>1 DEF Faithful, Fields
  <2>2. Faithful(sender, WakeAll(s)) /\ Fields \subseteq DOMAIN WakeAll(s)
    BY <2>1, HelpersAreFaithful, FaithfulChain DEF Fields
  <2>3. \/ sender' = s \/ sender' = SenderFail(s, "internal")
        \/ sender' = WakeAll(s) \/ sender' = SenderFail(WakeAll(s), "channel_lost")
    BY <1>10, Zenon DEF AckTimeout, SenderClosed, s
  <2> HIDE DEF s
  <2> QED
    BY <1>2, <2>1, <2>2, <2>3
<1> QED
  BY <1>5, <1>6, <1>7, <1>8, <1>9, <1>10

(* What a message of the receiver makes of the sender. *)
LEMMA SenderKeepsPromises ==
  ASSUME IInv, SenderActs
  PROVE  SenderPromises
<1> DEFINE Fields == {"state", "pc", "size", "ackedOffset", "ackTimer", "hash", "error"}
<1>1. SenderType(sender) /\ Fields \subseteq DOMAIN sender
  BY DEF IInv, SenderOK, SenderType
<1>2. Faithful(sender, sender') => SenderPromises
  BY DEF Faithful, SenderPromises
<1>3. CASE ~SenderReceives
  BY <1>1, <1>2, <1>3, EventsAreFaithful DEF SenderActs
<1>4. CASE SenderReceives
  <2>1. PICK m : m = Head(back)
    OBVIOUS
  <2>2. AnswerOK(m)
    <3>1. back # <<>> /\ IsSeq(back)
      BY <1>4 DEF SenderReceives, IInv, ChannelOK
    <3>2. Head(back) = back[1] /\ 1 \in 1 .. Len(back)
      BY <3>1, Tailed
    <3> QED
      BY <2>1, <3>2 DEF IInv, BackOK
  <2>3. \/ m.type = "FILE_ACCEPT"
           /\ sender' = IF sender.state = "offered" THEN Started(sender) ELSE sender
        \/ m.type = "FILE_REJECT"
           /\ sender' = IF sender.state = "offered" THEN [sender EXCEPT !.state = "rejected"] ELSE sender
        \/ m.type = "ACK" /\ sender' = OnAck(sender, m)
        \/ m.type = "COMPLETE_ACK" /\ sender' = OnCompleteAck(sender, m)
        \/ m.type = "CANCEL"
           /\ sender' = IF SenderTerminal(sender) THEN sender
                        ELSE WakeAll([sender EXCEPT !.state = "cancelled", !.hash = HashCancelled(@)])
        \/ m.type = "ERROR"
           /\ sender' = IF SenderTerminal(sender) THEN sender ELSE WakeAll(SenderFail(sender, m.code))
    BY <1>4, <2>1, Zenon DEF SenderReceives
  <2>4. Faithful(sender, sender)
    BY DEF Faithful
  <2>5. CASE sender' = IF sender.state = "offered" THEN Started(sender) ELSE sender
    <3> DEFINE s == [sender EXCEPT !.state = "transferring",
                                   !.hash = IF setup.useHash THEN "pending" ELSE "ok"]
    <3>1. sender.state = "offered" => Faithful(sender, s) /\ Fields \subseteq DOMAIN s
      BY <1>1 DEF Faithful, SenderTerminal, TerminalStates
    <3>2. Started(sender) = Resume(s, bufferedAmount)
      BY DEF Started
    <3> HIDE DEF s
    <3> QED
      BY <1>2, <2>4, <2>5, <3>1, <3>2, HelpersAreFaithful, FaithfulChain
  <2>6. CASE sender' = IF sender.state = "offered" THEN [sender EXCEPT !.state = "rejected"] ELSE sender
    <3>1. sender.state = "offered" => Faithful(sender, [sender EXCEPT !.state = "rejected"])
      BY <1>1 DEF Faithful, SenderTerminal, TerminalStates
    <3> QED
      BY <1>2, <2>4, <2>6, <3>1
  <2>7. CASE m.type = "ACK" /\ sender' = OnAck(sender, m)
    <3> DEFINE s == [sender EXCEPT !.ackedOffset = m.committedOffset]
    <3>1. m.committedOffset <= receiver.committedOffset
      BY <2>2, <2>7 DEF AnswerOK, IInv, ReceiverOK, ReceiverType
    <3>2. s.size = sender.size /\ s.state = sender.state /\ s.ackedOffset = m.committedOffset
          /\ Fields \subseteq DOMAIN s
      BY <1>1
    <3>3. sender' = sender \/ sender' = s \/ sender' = Resume(s, bufferedAmount)
      BY <2>7, Zenon DEF OnAck
    <3>4. Faithful(s, Resume(s, bufferedAmount)) /\ Faithful(s, s)
      BY <3>2, HelpersAreFaithful DEF Faithful
    <3> HIDE DEF s
    <3> QED
      BY <1>2, <2>4, <3>1, <3>2, <3>3, <3>4 DEF Faithful, SenderPromises, SenderTerminal
  <2>8. CASE sender' = OnCompleteAck(sender, m)
    <3> DEFINE s == [sender EXCEPT !.state = "done", !.ackTimer = "off"]
    <3>1. sender.state = "completing" => Faithful(sender, s)
      BY <1>1 DEF Faithful, SenderTerminal, TerminalStates
    <3>2. \/ sender' = sender
          \/ sender.state = "completing" /\ sender' = s
          \/ sender' = SenderFail(sender, "hash_mismatch")
      BY <2>8, Zenon DEF OnCompleteAck
    <3> HIDE DEF s
    <3> QED
      BY <1>1, <1>2, <2>4, <3>1, <3>2, HelpersAreFaithful
  <2>9. CASE sender' = IF SenderTerminal(sender) THEN sender
                       ELSE WakeAll([sender EXCEPT !.state = "cancelled", !.hash = HashCancelled(@)])
    BY <1>1, <1>2, <2>4, <2>9, CancelIsFaithful
  <2>10. CASE sender' = IF SenderTerminal(sender) THEN sender ELSE WakeAll(SenderFail(sender, m.code))
    BY <1>1, <1>2, <2>4, <2>10, HelpersAreFaithful, FaithfulChain
  <2> QED
    BY <2>3, <2>5, <2>6, <2>7, <2>8, <2>9, <2>10
<1> QED
  BY <1>3, <1>4

-----------------------------------------------------------------------------
(* What no step of the receiver does *)

(* How an ended transfer ended is final, and bytes are reported committed  *)
(* only while it lasts; they are not taken back.                           *)
ReceiverActs ==
  \/ Accept \/ Reject \/ ReceiverCancel \/ ReceiverReceives \/ SinkReplies \/ StrayReplies
  \/ ReceiverClosed

ReceiverPromises ==
  \/ /\ receiver'.committedOffset = receiver.committedOffset
     /\ ReceiverTerminal(receiver) => receiver'.state = receiver.state
  \/ /\ receiver.committedOffset < receiver'.committedOffset
     /\ receiver'.state = receiver.state /\ ~ReceiverTerminal(receiver)

(* Only a message of the sender or a reply of the sink can break them. *)
LEMMA ReceiverMessages ==
  ASSUME IInv, ReceiverReceives, UNCHANGED senderVars
  PROVE  ReceiverPromises
<1>1. {"state", "size", "expectedIndex", "committedOffset", "error"} \subseteq DOMAIN receiver
  BY DEF IInv, ReceiverOK, ReceiverType
<1>2. ASSUME NEW code, ProtocolError(code), receiver.state = "transferring" PROVE ReceiverPromises
  BY <1>1, <1>2 DEF ProtocolError, EndWithError, ReceiverPromises, ReceiverTerminal, TerminalStates
<1>3. ASSUME receiver' = receiver PROVE ReceiverPromises
  BY <1>3 DEF ReceiverPromises
<1>4. PICK m :
        /\ m = Head(net)
        /\ \/ m.type = "FILE_OFFER" /\ OnOffer(m)
           \/ m.type = "CHUNK" /\ OnFrame(m)
           \/ m.type = "COMPLETE" /\ OnComplete(m)
           \/ \E state, code : OnPeerEnds(state, code)
  BY DEF ReceiverReceives
<1>5. CASE m.type = "FILE_OFFER" /\ OnOffer(m)
  <2>1. receiver.state = "idle" /\ receiver.committedOffset = 0
    <3>1. net # <<>> /\ net' = Tail(net) /\ UNCHANGED <<setup, sender, buf>>
      BY DEF ReceiverReceives, senderVars
    <3>2. SentOK(m)
      BY <1>4, <3>1, Taken
    <3>3. receiver.state = "idle"
      BY <1>5, <3>2 DEF SentOK
    <3> QED
      BY <3>3 DEF IInv, Handshake, Unaccepted
  <2> DEFINE r == [receiver EXCEPT !.state = "offered", !.size = m.size, !.expectedIndex = 0,
                                   !.committedOffset = 0, !.error = "none"]
  <2>2. receiver' = receiver \/ receiver' = r
    BY <1>5, Zenon DEF OnOffer
  <2>3. r.committedOffset = 0
    BY <1>1
  <2> HIDE DEF r
  <2> QED
    BY <1>3, <2>1, <2>2, <2>3 DEF ReceiverPromises, ReceiverTerminal, TerminalStates
<1>6. CASE m.type = "CHUNK" /\ OnFrame(m)
  <2> DEFINE r == [receiver EXCEPT !.expectedIndex = @ + 1]
  <2>1. \/ receiver' = receiver
        \/ receiver' = r
        \/ receiver.state = "transferring" /\ \E code : ProtocolError(code)
    BY <1>6, Zenon DEF OnFrame
  <2>2. r.state = receiver.state /\ r.committedOffset = receiver.committedOffset
    BY <1>1
  <2> HIDE DEF r
  <2> QED
    BY <1>2, <1>3, <2>1, <2>2 DEF ReceiverPromises
<1>7. CASE m.type = "COMPLETE" /\ OnComplete(m)
  <2> DEFINE r == [receiver EXCEPT !.state = "completing"]
  <2>1. \/ receiver' = receiver
        \/ receiver.state = "transferring" /\ receiver' = r
    BY <1>7, Zenon DEF OnComplete
  <2>2. r.committedOffset = receiver.committedOffset
    BY <1>1
  <2> HIDE DEF r
  <2> QED
    BY <1>3, <2>1, <2>2 DEF ReceiverPromises, ReceiverTerminal, TerminalStates
<1>8. CASE \E state, code : OnPeerEnds(state, code)
  <2>1. PICK state, code : OnPeerEnds(state, code)
    BY <1>8
  <2> DEFINE r == [receiver EXCEPT !.state = state, !.error = code]
  <2>2. receiver' = receiver \/ (~ReceiverTerminal(receiver) /\ receiver' = r)
    BY <2>1, Zenon DEF OnPeerEnds
  <2>3. r.committedOffset = receiver.committedOffset
    BY <1>1
  <2> HIDE DEF r
  <2> QED
    BY <1>3, <2>2, <2>3 DEF ReceiverPromises
<1> QED
  BY <1>4, <1>5, <1>6, <1>7, <1>8

(* The replies of the sink and of a stray worker. *)
LEMMA ReceiverReplies ==
  ASSUME IInv, SinkReplies \/ StrayReplies
  PROVE  ReceiverPromises
<1>1. {"state", "accepting", "stray", "size", "committedOffset", "nextAckAt", "error", "terminal",
       "result"} \subseteq DOMAIN receiver
  BY DEF IInv, ReceiverOK, ReceiverType
<1> DEFINE stray == [receiver EXCEPT !.stray = FALSE]
<1>2. ASSUME receiver' = receiver PROVE ReceiverPromises
  BY <1>2 DEF ReceiverPromises
<1>3. /\ stray.state = receiver.state /\ stray.committedOffset = receiver.committedOffset
      /\ DOMAIN stray = DOMAIN receiver
  BY <1>1
<1> HIDE DEF stray
<1>4. ASSUME NEW r \in {receiver, stray}, OnReady(r) PROVE ReceiverPromises
  <2> DEFINE begun == [r EXCEPT !.state = "transferring", !.accepting = "over", !.nextAckAt = AckInterval]
             late  == [r EXCEPT !.accepting = "over"]
  <2>1. r.state = receiver.state /\ r.committedOffset = receiver.committedOffset
        /\ DOMAIN r = DOMAIN receiver
    BY <1>3
  <2>2. receiver' = late \/ (receiver.state = "offered" /\ receiver' = begun)
    BY <1>4, <2>1, Zenon DEF OnReady
  <2>3. /\ begun.committedOffset = receiver.committedOffset
        /\ late.committedOffset = receiver.committedOffset /\ late.state = receiver.state
    BY <1>1, <2>1
  <2> HIDE DEF begun, late
  <2> QED
    BY <2>2, <2>3 DEF ReceiverPromises, ReceiverTerminal, TerminalStates
<1>5. ASSUME NEW r \in {receiver, stray}, NEW code, EndWithError(r, code), ~ReceiverTerminal(receiver)
      PROVE  ReceiverPromises
  <2>1. r.committedOffset = receiver.committedOffset /\ DOMAIN r = DOMAIN receiver
    BY <1>3
  <2> QED
    BY <1>1, <1>5, <2>1 DEF EndWithError, ReceiverPromises
<1>6. CASE SinkReplies
  <2>1. PICK rep :
          /\ rep = Head(fromSink) /\ fromSink # <<>>
          /\ \/ rep.type = "ready" /\ OnReady(receiver)
             \/ rep.type = "committed" /\ OnCommitted(rep.committedOffset)
             \/ rep.type = "done" /\ OnDone(rep)
             \/ rep.type = "error" /\ ReceiverFail(rep.code)
    BY <1>6, Zenon DEF SinkReplies
  <2>2. CASE rep.type = "ready" /\ OnReady(receiver)
    BY <1>4, <2>2
  <2>3. CASE rep.type = "committed" /\ OnCommitted(rep.committedOffset)
    <3>1. Head(fromSink) = fromSink[1] /\ 1 \in 1 .. Len(fromSink)
      BY <2>1, Tailed DEF IInv, SinkOK
    <3>2. ReplyOK(1) /\ Reported(1 - 1) = receiver.committedOffset
      BY <3>1 DEF IInv, RepliesOK, Reported
    <3>3. receiver.committedOffset < rep.committedOffset
          /\ receiver.state \in {"transferring", "completing"}
      BY <2>1, <2>3, <3>1, <3>2 DEF ReplyOK
    <3>4. receiver'.committedOffset = rep.committedOffset /\ receiver'.state = receiver.state
      BY <1>1, <2>3 DEF OnCommitted
    <3> QED
      BY <3>3, <3>4 DEF ReceiverPromises, ReceiverTerminal, TerminalStates
  <2>4. CASE rep.type = "done" /\ OnDone(rep)
    <3>1. receiver.state # "completing" => receiver' = receiver
      BY <2>4 DEF OnDone
    <3>2. receiver'.committedOffset = receiver.committedOffset
      BY <1>1, <2>4 DEF OnDone
    <3> QED
      BY <3>1, <3>2 DEF ReceiverPromises, ReceiverTerminal, TerminalStates
  <2>5. CASE rep.type = "error" /\ ReceiverFail(rep.code)
    BY <1>2, <1>5, <2>5 DEF ReceiverFail
  <2> QED
    BY <2>1, <2>2, <2>3, <2>4, <2>5
<1>7. CASE StrayReplies
  <2>1. \/ OnReady(stray)
        \/ receiver' = stray
        \/ ~ReceiverTerminal(stray) /\ EndWithError(stray, "sink_failure")
    BY <1>7, Zenon DEF StrayReplies, stray
  <2>2. ASSUME receiver' = stray PROVE ReceiverPromises
    BY <1>3, <2>2 DEF ReceiverPromises
  <2>3. ReceiverTerminal(stray) <=> ReceiverTerminal(receiver)
    BY <1>3 DEF ReceiverTerminal
  <2> QED
    BY <1>4, <1>5, <2>1, <2>2, <2>3
<1> QED
  BY <1>6, <1>7

(* Nor do the user and the channel's close. *)
LEMMA ReceiverKeepsPromises ==
  ASSUME IInv, ReceiverActs, UNCHANGED senderVars
  PROVE  ReceiverPromises
<1>1. {"state", "accepting", "stray", "committedOffset", "error"} \subseteq DOMAIN receiver
  BY DEF IInv, ReceiverOK, ReceiverType
<1>2. CASE Accept
  BY <1>1, <1>2 DEF Accept, ReceiverPromises
<1>3. CASE Reject
  BY <1>1, <1>3 DEF Reject, ReceiverPromises, ReceiverTerminal, TerminalStates
<1>4. CASE ReceiverCancel
  BY <1>1, <1>4 DEF ReceiverCancel, ReceiverPromises
<1>5. CASE ReceiverClosed
  BY <1>1, <1>5 DEF ReceiverClosed, ReceiverPromises, ReceiverTerminal, TerminalStates
<1> QED
  BY <1>2, <1>3, <1>4, <1>5, ReceiverMessages, ReceiverReplies DEF ReceiverActs

-----------------------------------------------------------------------------
(* Acknowledgements, and the contract *)

(* Who takes a step. *)
LEMMA Steps ==
  ASSUME IInv, [Next]_vars
  PROVE  \/ /\ \E size \in Sizes : Offer(size)
            /\ UNCHANGED receiver
         \/ SenderPromises /\ UNCHANGED receiver
         \/ ReceiverPromises /\ UNCHANGED sender
         \/ UNCHANGED <<sender, receiver>>
<1>1. CASE \E size \in Sizes : Offer(size) /\ UNCHANGED receiverVars
  BY <1>1 DEF receiverVars
<1>2. CASE SenderActs /\ UNCHANGED receiverVars
  BY <1>2, SenderKeepsPromises DEF receiverVars
<1>3. CASE ReceiverActs /\ UNCHANGED senderVars
  BY <1>3, ReceiverKeepsPromises DEF senderVars
<1>4. CASE \/ SinkStep /\ UNCHANGED <<senderVars, channelVars, receiver>>
           \/ (Transmit \/ SenderCloses \/ ReceiverCloses) /\ UNCHANGED <<sender, receiverVars>>
           \/ UNCHANGED vars
  BY <1>4 DEF senderVars, receiverVars, vars
<1>5. Next \/ UNCHANGED vars
  OBVIOUS
<1> QED
  BY <1>1, <1>2, <1>3, <1>4, <1>5 DEF Next, SenderActs, ReceiverActs

(* The sender counts as delivered no more than the receiver has reported. *)
Acknowledged == sender.ackedOffset <= receiver.committedOffset

(* Neither side breaks that. *)
LEMMA AcknowledgedStep == ASSUME IInv, IInv', Acknowledged, [Next]_vars PROVE Acknowledged'
<1>1. sender.ackedOffset \in Nat /\ receiver.committedOffset \in Nat /\ receiver'.committedOffset \in Nat
  BY DEF IInv, SenderOK, SenderType, ReceiverOK, ReceiverType
<1>2. CASE (\E size \in Sizes : Offer(size)) /\ UNCHANGED receiver
  <2>1. sender'.ackedOffset = sender.ackedOffset
    <3>1. SenderType(sender)
      BY DEF IInv, SenderOK
    <3>2. PICK size \in Sizes : Offer(size)
      BY <1>2
    <3> DEFINE s == [sender EXCEPT !.state = "offered", !.size = size]
    <3>3. s.ackedOffset = sender.ackedOffset
      BY <3>1 DEF SenderType
    <3>4. sender' = SenderFail(sender, "too_large") \/ sender' = s
      BY <3>2, Zenon DEF Offer
    <3>5. SenderFail(sender, "too_large").ackedOffset = sender.ackedOffset
      BY <3>1, Failed DEF SameOffsets
    <3> HIDE DEF s
    <3> QED
      BY <3>3, <3>4, <3>5
  <2> QED
    BY <1>2, <2>1 DEF Acknowledged
<1>3. CASE SenderPromises /\ UNCHANGED receiver
  BY <1>3 DEF SenderPromises, Acknowledged
<1>4. CASE ReceiverPromises /\ UNCHANGED sender
  BY <1>1, <1>4 DEF ReceiverPromises, Acknowledged, IInv, SenderOK, SenderType
<1>5. CASE UNCHANGED <<sender, receiver>>
  BY <1>5 DEF Acknowledged
<1> QED
  BY <1>2, <1>3, <1>4, <1>5, Steps

(* An ACK covers only bytes the sink has committed, whether it is on its   *)
(* way or has been counted by the sender.                                  *)
THEOREM AcksStayHonest == Spec => []AcksAreHonest
<1>1. Init => Acknowledged
  BY DEF Init, SenderInit, ReceiverInit, Acknowledged
<1>2. IInv /\ Acknowledged => AcksAreHonest
  <2> SUFFICES ASSUME IInv, Acknowledged PROVE AcksAreHonest
    OBVIOUS
  <2>1. receiver.committedOffset <= sender.nextOffset
    <3>1. /\ receiver.committedOffset \in Nat /\ sender.nextOffset \in Nat
          /\ receiver.committedOffset <= Arrived /\ Arrived <= sender.nextOffset
      BY DEF IInv, ReceiverOK, ReceiverType, SenderOK, SenderType
    <3>2. receiver.expectedIndex * ChunkSize \in Nat /\ receiver.size \in Nat
      BY Multiples DEF IInv, ReceiverOK, ReceiverType
    <3>3. Arrived \in Nat
      BY <3>2 DEF Arrived, Least
    <3> QED
      BY <3>1, <3>3
  <2>2. ASSUME NEW i \in 1 .. Len(back), back[i].type = "ACK"
        PROVE  back[i].committedOffset <= receiver.committedOffset
    <3>1. receiver.committedOffset \in Nat
      BY DEF IInv, ReceiverOK, ReceiverType
    <3>2. back[i].committedOffset \in 0 .. receiver.committedOffset
      BY <2>2 DEF IInv, BackOK, AnswerOK
    <3> QED
      BY <3>1, <3>2
  <2> QED
    BY <2>1, <2>2 DEF AcksAreHonest, Acknowledged
<1> QED
  BY <1>1, <1>2, Invariance, AcknowledgedStep, PTL DEF Spec

(* The transfer starts where the contract does, ... *)
LEMMA DeliveryInit == ASSUME Init PROVE Delivery!Init
BY DEF Init, SenderInit, ReceiverInit, Delivery!Init, Verdict, TerminalStates

(* ... and each of its steps is one of the contract or none. *)
LEMMA DeliveryStep ==
  ASSUME IInv, IInv', [Next]_vars
  PROVE  [Delivery!Next]_(Delivery!vars)
<1> USE DEF Delivery!vars
<1>1. /\ sender.state \in SenderStates /\ sender'.state \in SenderStates
      /\ receiver.state \in SenderStates /\ receiver'.state \in SenderStates
      /\ sender.size \in Nat /\ sender'.size \in Nat
      /\ receiver.committedOffset \in Nat /\ receiver'.committedOffset \in Nat
  BY DEF IInv, SenderOK, SenderType, ReceiverOK, ReceiverType
<1>2. ASSUME NEW state \in SenderStates
      PROVE  /\ state \in TerminalStates <=> Verdict(state) # "none"
             /\ Verdict(state) # "none" => Verdict(state) = state
             /\ Verdict(state) \in {"none", "done"} \cup Delivery!Unsuccessful
  BY DEF SenderStates, TerminalStates, Verdict, Delivery!Unsuccessful
<1>3. CASE (\E size \in Sizes : Offer(size)) /\ UNCHANGED receiver
  <2>1. PICK size \in Sizes : Offer(size)
    BY <1>3
  <2>2. sender.state = "idle" /\ sender.size = 0 /\ SenderType(sender) /\ receiver.committedOffset = 0
    BY <2>1 DEF Offer, IInv, SenderOK, StateOK, Handshake, Unaccepted
  <2>3. CASE sender' = SenderFail(sender, "too_large")
    <3>1. sender'.size = sender.size /\ sender'.state = "failed"
      BY <2>2, <2>3, Failed DEF SameOffsets, SenderTerminal, TerminalStates
    <3>2. Verdict(sender.state) = "none" /\ Verdict(sender'.state) = "failed"
      BY <2>2, <3>1 DEF Verdict, TerminalStates
    <3>3. Delivery!SenderDecides("failed")
      BY <1>3, <3>1, <3>2 DEF Delivery!SenderDecides
    <3> QED
      BY <3>3 DEF Delivery!Next, Delivery!Unsuccessful
  <2>4. CASE sender' = [sender EXCEPT !.state = "offered", !.size = size]
    <3>1. sender'.state = "offered"
      BY <2>2, <2>4 DEF SenderType
    <3>2. Verdict(sender.state) = "none" /\ Verdict(sender'.state) = "none"
      BY <2>2, <3>1 DEF Verdict, TerminalStates
    <3>3. Delivery!Offer
      BY <1>1, <1>3, <2>2, <3>2 DEF Delivery!Offer
    <3> QED
      BY <3>3 DEF Delivery!Next
  <2> QED
    BY <2>1, <2>3, <2>4 DEF Offer
<1>4. CASE SenderPromises /\ UNCHANGED receiver
  <2>1. sender'.size = sender.size
    BY <1>4 DEF SenderPromises
  <2>2. CASE Verdict(sender'.state) = Verdict(sender.state)
    BY <1>4, <2>1, <2>2
  <2>3. CASE Verdict(sender'.state) # Verdict(sender.state)
    <3>1. Verdict(sender.state) = "none" /\ Verdict(sender'.state) \in {"done"} \cup Delivery!Unsuccessful
          /\ Verdict(sender'.state) = sender'.state
      BY <1>1, <1>2, <1>4, <2>3 DEF SenderPromises, SenderTerminal
    <3>2. sender'.state \in {"done", "rejected"} => Verdict(receiver.state) = sender'.state
      BY <1>4 DEF IInv, Handshake, Verdict, TerminalStates
    <3>3. Delivery!SenderDecides(sender'.state)
      BY <1>4, <2>1, <3>1, <3>2 DEF Delivery!SenderDecides
    <3> QED
      BY <3>1, <3>3 DEF Delivery!Next
  <2> QED
    BY <2>2, <2>3
<1>5. CASE ReceiverPromises /\ UNCHANGED sender
  <2>1. CASE receiver'.committedOffset # receiver.committedOffset
    <3>1. /\ receiver.committedOffset < receiver'.committedOffset
          /\ receiver'.state = receiver.state /\ ~ReceiverTerminal(receiver)
      BY <1>5, <2>1 DEF ReceiverPromises
    <3>2. receiver'.committedOffset <= sender.size
      <4>1. /\ receiver'.committedOffset <= Arrived' /\ Arrived' <= sender'.nextOffset
            /\ sender'.nextOffset \in 0 .. sender'.size
        BY DEF IInv, ReceiverOK, SenderOK, SenderType
      <4>2. receiver'.expectedIndex * ChunkSize \in Nat /\ receiver'.size \in Nat
        <5>1. receiver'.expectedIndex \in Nat /\ receiver'.size \in Nat
          BY DEF IInv, ReceiverOK, ReceiverType
        <5> QED
          BY <5>1, Multiples
      <4>3. Arrived' \in Nat
        BY <4>2 DEF Arrived, Least
      <4> QED
        BY <1>1, <1>5, <4>1, <4>3
    <3>3. Verdict(receiver.state) = "none" /\ Verdict(receiver'.state) = "none"
      BY <1>1, <1>2, <3>1 DEF ReceiverTerminal
    <3>4. receiver'.committedOffset \in receiver.committedOffset + 1 .. sender.size
      BY <1>1, <3>1, <3>2
    <3>5. Delivery!Commit
      BY <1>5, <3>3, <3>4 DEF Delivery!Commit
    <3> QED
      BY <3>5 DEF Delivery!Next
  <2>2. CASE /\ receiver'.committedOffset = receiver.committedOffset
             /\ Verdict(receiver'.state) = Verdict(receiver.state)
    BY <1>5, <2>2
  <2>3. CASE /\ receiver'.committedOffset = receiver.committedOffset
             /\ Verdict(receiver'.state) # Verdict(receiver.state)
    <3>1. ~ReceiverTerminal(receiver)
      BY <1>5, <2>3 DEF ReceiverPromises
    <3>2. /\ Verdict(receiver.state) = "none"
          /\ Verdict(receiver'.state) \in {"done"} \cup Delivery!Unsuccessful
          /\ Verdict(receiver'.state) = receiver'.state
      BY <1>1, <1>2, <2>3, <3>1 DEF ReceiverTerminal
    <3>3. receiver'.state = "done" => receiver.committedOffset = sender.size
      BY <1>5, <2>3 DEF IInv, ReceiverOK
    <3>4. Delivery!ReceiverDecides(receiver'.state)
      BY <1>5, <2>3, <3>2, <3>3 DEF Delivery!ReceiverDecides
    <3> QED
      BY <3>2, <3>4 DEF Delivery!Next
  <2> QED
    BY <2>1, <2>2, <2>3
<1>6. CASE UNCHANGED <<sender, receiver>>
  BY <1>6
<1> QED
  BY <1>3, <1>4, <1>5, <1>6, Steps

(* The transfer implements the delivery contract, for every file, limit    *)
(* and fault: verdicts are final, the receiver is done only with the whole *)
(* file committed, and the sender only after the receiver.                 *)
THEOREM DeliveryImplemented == Spec => ImplementsDelivery
<1>1. IInv /\ IInv' /\ [Next]_vars => [Delivery!Next]_(Delivery!vars)
  BY DeliveryStep
<1>2. Delivery!Spec <=> Delivery!Init /\ [][Delivery!Next]_(Delivery!vars)
  BY DEF Delivery!Spec
<1> QED
  BY <1>1, <1>2, DeliveryInit, Invariance, PTL DEF Spec, ImplementsDelivery
=============================================================================
