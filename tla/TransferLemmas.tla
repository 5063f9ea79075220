---------------------------- MODULE TransferLemmas ----------------------------
(* For the proofs about Transfer: the conjuncts of its inductive invariant,  *)
(* and what its helpers make of sequences, offsets and records.              *)
EXTENDS Transfer, SequenceTheorems, TLAPS

(* A sequence of whatever it holds. *)
IsSeq(s) == s \in Seq({s[i] : i \in DOMAIN s})

Least(a, b) == IF a < b THEN a ELSE b

(* Everything on its way to the receiver, the oldest first. *)
Stream == net \o buf

(* The bytes of the file a chunk covers. *)
From(m) == m.index * ChunkSize

To(m) == From(m) + Len(m.data)

(* What the first n bytes of the file weigh as frames. *)
Wire(n) == n + HeaderSize * ((n + ChunkSize - 1) \div ChunkSize)

(* How far the frames that arrived reach, and what they hold. *)
Arrived == Least(receiver.expectedIndex * ChunkSize, receiver.size)

Received == IF setup.corrupt /\ sender.size > 0
            THEN [FileBytes(sender.size) EXCEPT ![1] = -1] ELSE FileBytes(sender.size)

(* The digest that COMPLETE carries. *)
Announced == IF setup.useHash THEN Digest(FileBytes(sender.size)) ELSE NoHash

(* A piece of a file, as a chunk or a write carries it. *)
Piece(bytes, from) == SubSeq(bytes, from + 1, Least(from + ChunkSize, Len(bytes)))

(* An error code neither side has reason to find. *)
Honest(code) ==
  /\ code \notin {"bad_frame", "out_of_sequence", "short_write", "too_large"}
  /\ code = "sink_failure" => "sink" \in setup.faults

Past == {"completing"} \cup TerminalStates

(* The receiver has not answered an offer with FILE_ACCEPT. *)
Unaccepted(r) == r.state \in {"idle", "offered", "rejected"}

-----------------------------------------------------------------------------
(* The ends *)

SetupOK == /\ setup.useHash \in BOOLEAN /\ setup.corrupt \in BOOLEAN
           /\ setup.faults \in FaultSets

SenderType(s) ==
  /\ DOMAIN s = {"state", "pc", "size", "nextOffset", "ackedOffset", "hash", "ackTimer", "error"}
  /\ s.state \in SenderStates /\ s.pc \in {"off", "low", "ack", "read", "hash"}
  /\ s.size \in Nat /\ s.nextOffset \in 0 .. s.size /\ s.ackedOffset \in 0 .. s.nextOffset
  /\ s.hash \in {"none", "pending", "ok", "failed"} /\ s.ackTimer \in {"off", "armed"}

(* Where the loop stands, by what has been sent and acknowledged. *)
LoopOK(s) ==
  /\ s.nextOffset < s.size => s.nextOffset = (s.nextOffset \div ChunkSize) * ChunkSize
  /\ s.nextOffset - s.ackedOffset < Window + ChunkSize
  /\ s.pc \in {"low", "read", "ack"} => s.nextOffset < s.size
  /\ s.pc = "read" => s.nextOffset - s.ackedOffset < Window
  /\ s.pc = "ack" => s.nextOffset - s.ackedOffset >= Window
  /\ s.pc \in {"low", "ack"} => s.state = "transferring"
  /\ s.pc = "hash" => s.nextOffset = s.size

StateOK(s) ==
  /\ s.state = "idle" => s.size = 0
  /\ s.state \in {"idle", "offered", "rejected"} => s.nextOffset = 0 /\ s.pc = "off"
  /\ s.state = "completing" => s.nextOffset = s.size /\ s.pc = "off"
  /\ s.size <= MaxFileSize

SenderOK(s) == SenderType(s) /\ LoopOK(s) /\ StateOK(s)

ReceiverType(r) ==
  /\ DOMAIN r = {"state", "accepting", "stray", "size", "expectedIndex", "committedOffset",
                 "nextAckAt", "error", "terminal", "result"}
  /\ r.state \in SenderStates /\ r.accepting \in {"no", "begin", "over"}
  /\ r.size \in Nat /\ r.expectedIndex \in Nat /\ r.committedOffset \in Nat /\ r.nextAckAt \in Nat
  /\ r.terminal \in {"none", "ok", "mismatch"}

(* What the receiver has taken in, against what the sender has sent. *)
ReceiverOK ==
  /\ ReceiverType(receiver)
  /\ receiver.state # "idle" => receiver.size = sender.size
  /\ receiver.state = "idle" => receiver.size = 0
  /\ receiver.committedOffset <= Arrived /\ Arrived <= sender.nextOffset
  /\ receiver.state = "transferring" => receiver.committedOffset < receiver.nextAckAt
  /\ receiver.state = "completing" => Arrived = sender.size
  /\ receiver.state \in {"completing", "done"} \/ receiver.terminal # "none" => sender.state \in Past
  /\ receiver.terminal = "ok" => receiver.state = "done"
  /\ receiver.state = "done" => /\ receiver.committedOffset = sender.size
                                /\ receiver.result = Received
                                /\ setup.useHash => Received = FileBytes(sender.size)
  /\ Honest(receiver.error)

(* Nothing happens at the sender before the receiver has answered, nor at  *)
(* the receiver before there was an offer.                                 *)
Handshake ==
  /\ Unaccepted(receiver) =>
       /\ receiver.expectedIndex = 0 /\ receiver.committedOffset = 0 /\ receiver.terminal = "none"
       /\ sender.state \notin {"transferring", "completing", "done"}
       /\ sender.nextOffset = 0 /\ sender.pc = "off"
  /\ receiver.state = "idle" => /\ back = <<>> /\ receiver.accepting = "no" /\ ~receiver.stray
  /\ receiver.state # "idle" => sender.state # "idle"
  /\ sender.state = "idle" => Stream = <<>>
  /\ sender.state = "done" => receiver.state = "done"
  /\ sender.state = "rejected" => receiver.state = "rejected"

-----------------------------------------------------------------------------
(* The channel *)

ChannelOK ==
  /\ senderReady \in ReadyState /\ receiverReady \in ReadyState
  /\ lowEvent \in {"none", "due"}
  /\ IsSeq(buf) /\ IsSeq(net) /\ IsSeq(back)
  /\ senderReady # "open" => buf = <<>>
  /\ receiverReady # "open" => net = <<>>

(* The buffered bytes are what the chunks in the buffer weigh, since these *)
(* are the last that were sent.                                            *)
Buffered == IF buf # <<>> /\ buf[1].type = "CHUNK"
            THEN Wire(sender.nextOffset) - Wire(From(buf[1])) ELSE 0

CountOK ==
  /\ bufferedAmount \in Nat
  /\ senderReady = "open" => bufferedAmount = Buffered
  /\ bufferedAmount <= HighWater + HeaderSize + ChunkSize
  /\ sender.pc = "read" => bufferedAmount <= HighWater
  /\ senderReady = "open" /\ sender.pc = "low" => bufferedAmount > LowWater \/ lowEvent = "due"

(* A message of the sender on its way. *)
ChunkOK(m) ==
  /\ m.index \in Nat /\ From(m) < sender.size /\ To(m) <= sender.nextOffset
  /\ m.data = Piece(FileBytes(sender.size), From(m))

SentOK(m) ==
  \/ m.type = "FILE_OFFER" /\ m.size = sender.size /\ receiver.state = "idle"
  \/ m.type = "CHUNK" /\ ChunkOK(m)
  \/ m.type = "COMPLETE" /\ m.sha256 = Announced /\ sender.nextOffset = sender.size
     /\ sender.state \in Past
  \/ m.type = "CANCEL" /\ SenderTerminal(sender)
  \/ m.type = "ERROR" /\ SenderTerminal(sender) /\ Honest(m.code)

(* Chunks follow each other without a gap, and nothing that is not a chunk *)
(* comes before the last of those sent.                                    *)
Follows(a, b) ==
  /\ b.type # "FILE_OFFER"
  /\ b.type = "CHUNK" => a.type = "CHUNK" /\ b.index = a.index + 1
  /\ a.type = "CHUNK" /\ b.type # "CHUNK" => To(a) = sender.nextOffset

StreamOK ==
  /\ \A i \in 1 .. Len(Stream) : SentOK(Stream[i])
  /\ \A i \in 1 .. Len(Stream) - 1 : Follows(Stream[i], Stream[i + 1])

(* The stream starts where the receiver stands and, while it is open, ends *)
(* where the sender does.                                                  *)
PlaceOK ==
  /\ senderReady = "open" /\ Stream # <<>> /\ Stream[Len(Stream)].type = "CHUNK" =>
       To(Stream[Len(Stream)]) = sender.nextOffset
  /\ receiver.state = "transferring" /\ receiverReady = "open" =>
       /\ Stream # <<>> /\ Stream[1].type = "CHUNK" => Stream[1].index = receiver.expectedIndex
       /\ Stream # <<>> /\ Stream[1].type # "CHUNK" => Arrived = sender.nextOffset
       /\ Stream = <<>> /\ senderReady = "open" => Arrived = sender.nextOffset

(* A message of the receiver on its way. *)
AnswerOK(m) ==
  \/ m.type = "FILE_ACCEPT" /\ ~Unaccepted(receiver)
  \/ m.type = "FILE_REJECT" /\ receiver.state = "rejected"
  \/ m.type = "ACK" /\ m.committedOffset \in 0 .. receiver.committedOffset
  \/ m.type = "COMPLETE_ACK" /\ m.ok \in BOOLEAN /\ (m.ok => receiver.state = "done")
     /\ sender.state \in Past
  \/ m.type = "CANCEL"
  \/ m.type = "ERROR" /\ Honest(m.code)

BackOK == \A i \in 1 .. Len(back) : AnswerOK(back[i])

-----------------------------------------------------------------------------
(* The sink *)

(* How far the requests up to the i-th take the sink, and the replies up   *)
(* to the i-th the receiver.                                               *)
Posted(i) == IF i > 0 /\ toSink[i].type = "write" THEN toSink[i].offset + Len(toSink[i].data)
             ELSE IF i > 0 /\ toSink[i].type = "finalize" THEN sender.size
             ELSE CommittedOffset

Reported(i) == IF i > 0 /\ fromSink[i].type = "committed" THEN fromSink[i].committedOffset
               ELSE receiver.committedOffset

RequestOK(i) ==
  \/ toSink[i].type = "begin" /\ i = 1 /\ sink.state = "idle" /\ toSink[i].totalBytes = sender.size
  \/ /\ toSink[i].type = "write" /\ toSink[i].offset = Posted(i - 1)
     /\ toSink[i].offset \in Nat /\ toSink[i].offset < sender.size
     /\ toSink[i].data = Piece(Received, toSink[i].offset)
     /\ toSink[i].offset + Len(toSink[i].data) <= Arrived
  \/ /\ toSink[i].type = "finalize" /\ i = Len(toSink) /\ Posted(i - 1) = sender.size
     /\ toSink[i].expected = Announced /\ receiver.state = "completing"

ReplyOK(i) ==
  \/ fromSink[i].type = "ready" /\ i = 1 /\ receiver.committedOffset = 0
     /\ receiver.state \in {"offered", "transferring", "completing", "rejected"}
  \/ /\ fromSink[i].type = "committed" /\ fromSink[i].committedOffset \in Nat
     /\ Reported(i - 1) < fromSink[i].committedOffset /\ fromSink[i].committedOffset <= Arrived
     /\ receiver.state \in {"transferring", "completing"}
  \/ /\ fromSink[i].type = "done" /\ i = Len(fromSink) /\ Reported(i - 1) = sender.size
     /\ sink.state = "finalized" /\ fromSink[i].ok \in BOOLEAN
     /\ fromSink[i].result = Received
     /\ fromSink[i].ok /\ setup.useHash => Received = FileBytes(sender.size)
  \/ /\ fromSink[i].type = "error" /\ i = Len(fromSink) /\ sink.state = "failed"
     /\ Honest(fromSink[i].code)

SinkOK ==
  /\ DOMAIN sink = {"state", "totalBytes", "chunks"}
  /\ sink.state \in {"none", "idle", "active", "failed", "finalized", "terminated"}
  /\ IsSeq(toSink) /\ IsSeq(fromSink) /\ IsSeq(sink.chunks)
  /\ sink.state \in {"none", "terminated"} => toSink = <<>> /\ fromSink = <<>>
  /\ sink.state = "idle" => /\ toSink # <<>> /\ toSink[1].type = "begin"
                            /\ fromSink = <<>> /\ sink.chunks = <<>>
                            /\ receiver.committedOffset = 0
  /\ sink.state = "active" => /\ sink.totalBytes = sender.size
                              /\ CommittedOffset <= sender.size
                              /\ sink.chunks = SubSeq(Received, 1, CommittedOffset)
                              /\ Reported(Len(fromSink)) = CommittedOffset
  /\ sink.state = "failed" => /\ fromSink # <<>> /\ fromSink[Len(fromSink)].type = "error"
                              /\ "sink" \in setup.faults
  /\ sink.state = "finalized" => /\ toSink = <<>> /\ receiver.state = "completing"
                                 /\ fromSink # <<>> /\ fromSink[Len(fromSink)].type = "done"

RequestsOK == sink.state \in {"idle", "active"} =>
  /\ \A i \in 1 .. Len(toSink) : RequestOK(i)
  /\ Posted(Len(toSink)) = Arrived

RepliesOK == \A i \in 1 .. Len(fromSink) : ReplyOK(i)

(* The sink lives as long as the receiver has use for it. *)
LifeOK ==
  /\ receiver.state = "idle" => sink.state = "none"
  /\ receiver.state = "offered" => /\ receiver.accepting \in {"no", "begin"}
                                   /\ receiver.accepting = "no" <=> sink.state = "none"
                                   /\ receiver.accepting = "no" => ~receiver.stray
                                   /\ sink.state # "terminated"
  /\ receiver.state \in {"transferring", "completing"} =>
       sink.state \in {"idle", "active", "failed", "finalized"}
  /\ receiver.state \in {"done", "failed", "cancelled"} => sink.state \in {"none", "terminated"}

-----------------------------------------------------------------------------
(* Wake-ups *)

Enders == {"CANCEL", "ERROR", "FILE_REJECT", "COMPLETE_ACK"}

(* The receiver's end is known to the sender, or on its way. *)
EndIsTold ==
  senderReady = "open" /\ receiverReady = "open" /\ ReceiverTerminal(receiver) =>
    SenderTerminal(sender) \/ \E i \in 1 .. Len(back) : back[i].type \in Enders

(* So is every ACK that fell due. *)
AcksAreTold ==
  senderReady = "open" /\ receiverReady = "open" /\ receiver.state = "transferring" =>
    \/ receiver.nextAckAt <= sender.ackedOffset + AckInterval
    \/ \E i \in 1 .. Len(back) :
         back[i].type = "ACK" /\ receiver.nextAckAt <= back[i].committedOffset + AckInterval

IInv ==
  /\ SetupOK /\ SenderOK(sender) /\ ReceiverOK /\ Handshake
  /\ ChannelOK /\ CountOK /\ StreamOK /\ PlaceOK /\ BackOK
  /\ SinkOK /\ RequestsOK /\ RepliesOK /\ LifeOK
  /\ EndIsTold /\ AcksAreTold

-----------------------------------------------------------------------------
(* Sequences *)

(* A sequence over any set is a sequence of what it holds. *)
LEMMA SeqOfOwn == ASSUME NEW T, NEW s \in Seq(T) PROVE IsSeq(s)
<1>1. Len(s) \in Nat /\ s \in [1 .. Len(s) -> T] /\ DOMAIN s = 1 .. Len(s)
  BY LenProperties
<1>2. s \in [1 .. Len(s) -> {s[i] : i \in DOMAIN s}]
  BY <1>1
<1> QED
  BY <1>1, <1>2, SeqDef DEF IsSeq

(* The length of a sequence, and when it is empty. *)
LEMMA Length == ASSUME NEW s, IsSeq(s)
                PROVE  Len(s) \in Nat /\ DOMAIN s = 1 .. Len(s) /\ (s = <<>> <=> Len(s) = 0)
BY LenProperties, EmptySeq DEF IsSeq

(* The empty sequence. *)
LEMMA Empty == IsSeq(<<>>) /\ Len(<<>>) = 0
BY EmptySeq, SeqOfOwn

(* Two sequences as sequences over one set. *)
LEMMA Common ==
  ASSUME NEW s, NEW t, NEW m, IsSeq(s), IsSeq(t)
  PROVE  \E T : s \in Seq(T) /\ t \in Seq(T) /\ m \in T
<1> DEFINE T == {s[i] : i \in DOMAIN s} \cup {t[i] : i \in DOMAIN t} \cup {m}
<1>1. s \in Seq(T) /\ t \in Seq(T) /\ m \in T
  BY SeqMonotonic DEF IsSeq
<1> QED
  BY <1>1

(* Append. *)
LEMMA Appended ==
  ASSUME NEW s, NEW m, IsSeq(s)
  PROVE  /\ IsSeq(Append(s, m)) /\ Len(Append(s, m)) = Len(s) + 1
         /\ \A i \in 1 .. Len(s) : Append(s, m)[i] = s[i]
         /\ Append(s, m)[Len(s) + 1] = m /\ Append(s, m) # <<>>
         /\ s \o <<m>> = Append(s, m) /\ s \o <<>> = s
<1>1. PICK T : s \in Seq(T) /\ m \in T
  BY Common
<1>2. Append(s, m) \in Seq(T) /\ s \o <<m>> = Append(s, m)
  BY <1>1, AppendProperties, AppendIsConcat
<1>3. s \o <<>> = s
  BY <1>1, ConcatEmptySeq
<1>4. IsSeq(Append(s, m))
  BY <1>2, SeqOfOwn
<1>5. /\ Len(Append(s, m)) = Len(s) + 1 /\ Append(s, m) # <<>>
      /\ \A i \in 1 .. Len(s) : Append(s, m)[i] = s[i]
      /\ Append(s, m)[Len(s) + 1] = m
  BY <1>1, AppendProperties
<1> QED
  BY <1>2, <1>3, <1>4, <1>5

(* Head and Tail. *)
LEMMA Tailed ==
  ASSUME NEW s, IsSeq(s), s # <<>>
  PROVE  /\ IsSeq(Tail(s)) /\ Len(s) \in Nat \ {0} /\ Len(Tail(s)) = Len(s) - 1
         /\ \A i \in 1 .. Len(s) - 1 : Tail(s)[i] = s[i + 1]
         /\ Head(s) = s[1]
<1>1. PICK T : s \in Seq(T)
  BY Common
<1>2. Tail(s) \in Seq(T) /\ Len(Tail(s)) = Len(s) - 1
  BY <1>1, HeadTailProperties
<1>3. \A i \in 1 .. Len(s) - 1 : Tail(s)[i] = s[i + 1]
  BY <1>1, <1>2, HeadTailProperties
<1>4. IsSeq(Tail(s))
  BY <1>2, SeqOfOwn
<1>5. Len(s) \in Nat \ {0}
  BY <1>1, EmptySeq
<1>6. Head(s) = s[1]
  BY <1>1
<1> QED
  BY <1>2, <1>3, <1>4, <1>5, <1>6

(* A prefix. *)
LEMMA Prefixed ==
  ASSUME NEW s, IsSeq(s), NEW k \in 0 .. Len(s)
  PROVE  /\ IsSeq(SubSeq(s, 1, k)) /\ Len(SubSeq(s, 1, k)) = k
         /\ \A i \in 1 .. k : SubSeq(s, 1, k)[i] = s[i]
<1>1. PICK T : s \in Seq(T)
  BY Common
<1>2. Len(s) \in Nat /\ \A i \in 1 .. k : s[i] \in T
  BY <1>1, LenProperties, ElementOfSeq
<1>3. /\ SubSeq(s, 1, k) \in Seq(T) /\ Len(SubSeq(s, 1, k)) = (IF 1 <= k THEN k - 1 + 1 ELSE 0)
      /\ \A i \in 1 .. k - 1 + 1 : SubSeq(s, 1, k)[i] = s[1 + i - 1]
  BY <1>2, SubSeqProperties
<1>4. IsSeq(SubSeq(s, 1, k))
  BY <1>3, SeqOfOwn
<1> QED
  BY <1>2, <1>3, <1>4

(* Concatenation. *)
LEMMA Joined ==
  ASSUME NEW s, NEW t, IsSeq(s), IsSeq(t)
  PROVE  /\ IsSeq(s \o t) /\ Len(s \o t) = Len(s) + Len(t)
         /\ \A i \in 1 .. Len(s) : (s \o t)[i] = s[i]
         /\ \A i \in 1 .. Len(t) : (s \o t)[Len(s) + i] = t[i]
         /\ s = <<>> => s \o t = t
         /\ t = <<>> => s \o t = s
<1>1. PICK T : s \in Seq(T) /\ t \in Seq(T)
  BY Common
<1>2. Len(s) \in Nat /\ Len(t) \in Nat
  BY <1>1, LenProperties
<1>3. /\ s \o t \in Seq(T) /\ Len(s \o t) = Len(s) + Len(t)
      /\ \A i \in 1 .. Len(s) + Len(t) : (s \o t)[i] = IF i <= Len(s) THEN s[i] ELSE t[i - Len(s)]
  BY <1>1, ConcatProperties
<1>4. (s = <<>> => s \o t = t) /\ (t = <<>> => s \o t = s)
  BY <1>1, ConcatEmptySeq
<1>5. IsSeq(s \o t)
  BY <1>3, SeqOfOwn
<1>6. \A i \in 1 .. Len(s) : (s \o t)[i] = s[i]
  BY <1>2, <1>3
<1>7. ASSUME NEW i \in 1 .. Len(t) PROVE (s \o t)[Len(s) + i] = t[i]
  <2>1. Len(s) + i \in 1 .. Len(s) + Len(t) /\ ~(Len(s) + i <= Len(s)) /\ Len(s) + i - Len(s) = i
    BY <1>2
  <2> QED
    BY <2>1, <1>3
<1> QED
  BY <1>3, <1>4, <1>5, <1>6, <1>7

(* Two sequences with the same elements. *)
LEMMA Same ==
  ASSUME NEW s, NEW t, IsSeq(s), IsSeq(t), Len(s) = Len(t), \A i \in 1 .. Len(s) : s[i] = t[i]
  PROVE  s = t
BY Common, SeqEqual

(* What the stream is after a message is sent, transmitted or received. *)
LEMMA Streams ==
  ASSUME NEW s, NEW t, NEW m, IsSeq(s), IsSeq(t)
  PROVE  /\ s \o Append(t, m) = Append(s \o t, m)
         /\ s # <<>> => Tail(s) \o t = Tail(s \o t) /\ s \o t # <<>> /\ Head(s) = Head(s \o t)
         /\ t # <<>> => Append(s, Head(t)) \o Tail(t) = s \o t
<1>1. s \o Append(t, m) = Append(s \o t, m)
  <2>1. IsSeq(Append(t, m)) /\ IsSeq(s \o t)
    BY Appended, Joined
  <2> QED
    BY <2>1, Common, ConcatAssociative, Appended
<1>2. ASSUME s # <<>> PROVE Tail(s) \o t = Tail(s \o t) /\ s \o t # <<>> /\ Head(s) = Head(s \o t)
  <2>1. IsSeq(s \o t) /\ Len(s \o t) = Len(s) + Len(t) /\ Len(s) \in Nat \ {0} /\ Len(t) \in Nat
    BY <1>2, Joined, Tailed, Length
  <2>2. s \o t # <<>>
    BY <2>1, Empty
  <2>3. IsSeq(Tail(s)) /\ IsSeq(Tail(s \o t)) /\ IsSeq(Tail(s) \o t)
    BY <1>2, <2>1, <2>2, Tailed, Joined
  <2>4. Len(Tail(s)) = Len(s) - 1 /\ Len(Tail(s \o t)) = Len(s) + Len(t) - 1
        /\ Len(Tail(s) \o t) = Len(s) - 1 + Len(t)
    BY <1>2, <2>1, <2>2, <2>3, Tailed, Joined
  <2>5. ASSUME NEW i \in 1 .. Len(Tail(s) \o t) PROVE (Tail(s) \o t)[i] = Tail(s \o t)[i]
    <3>1. Tail(s \o t)[i] = (s \o t)[i + 1]
      BY <2>1, <2>2, <2>4, Tailed
    <3>2. CASE i <= Len(s) - 1
      <4>1. (Tail(s) \o t)[i] = Tail(s)[i] /\ Tail(s)[i] = s[i + 1] /\ (s \o t)[i + 1] = s[i + 1]
        BY <1>2, <3>2, <2>1, <2>3, <2>4, Tailed, Joined
      <4> QED
        BY <4>1, <3>1
    <3>3. CASE i > Len(s) - 1
      <4>1. PICK j \in 1 .. Len(t) : i = Len(s) - 1 + j
        <5>1. i \in 1 .. Len(s) - 1 + Len(t)
          BY <2>4
        <5> DEFINE j == i - (Len(s) - 1)
        <5>2. j \in 1 .. Len(t) /\ i = Len(s) - 1 + j
          BY <3>3, <5>1, <2>1
        <5> QED
          BY <5>2
      <4>2. (Tail(s) \o t)[Len(Tail(s)) + j] = t[j] /\ (s \o t)[Len(s) + j] = t[j]
        BY <2>1, <2>3, Joined
      <4>3. Len(Tail(s)) + j = i /\ Len(s) + j = i + 1
        BY <4>1, <2>1, <2>4
      <4> QED
        BY <4>2, <4>3, <3>1
    <3> QED
      BY <3>2, <3>3, <2>1
  <2>6. Tail(s) \o t = Tail(s \o t)
    BY <2>1, <2>3, <2>4, <2>5, Same
  <2>7. Head(s) = s[1] /\ Head(s \o t) = (s \o t)[1] /\ (s \o t)[1] = s[1]
    BY <1>2, <2>1, <2>2, Tailed, Joined
  <2> QED
    BY <2>2, <2>6, <2>7
<1>3. ASSUME t # <<>> PROVE Append(s, Head(t)) \o Tail(t) = s \o t
  <2>1. PICK T : s \in Seq(T) /\ t \in Seq(T)
    BY Common
  <2>2. Head(t) \in T /\ Tail(t) \in Seq(T) /\ t = <<Head(t)>> \o Tail(t) /\ <<Head(t)>> \in Seq(T)
    <3>1. Len(t) \in Nat \ {0} /\ Head(t) = t[1]
      BY <1>3, Tailed
    <3>2. SubSeq(t, 1, Len(t)) = <<t[1]>> \o SubSeq(t, 2, Len(t))
      BY <2>1, <3>1, SubSeqRecursiveFirst
    <3>3. SubSeq(t, 1, Len(t)) = t /\ Tail(t) = SubSeq(t, 2, Len(t))
      BY <1>3, <2>1, SubSeqFull, TailIsSubSeq
    <3>4. Head(t) \in T /\ Tail(t) \in Seq(T)
      BY <1>3, <2>1, HeadTailProperties
    <3> QED
      BY <3>1, <3>2, <3>3, <3>4
  <2>3. Append(s, Head(t)) = s \o <<Head(t)>>
    BY <2>1, <2>2, AppendIsConcat
  <2> QED
    BY <2>1, <2>2, <2>3, ConcatAssociative
<1> QED
  BY <1>1, <1>2, <1>3

-----------------------------------------------------------------------------
(* Offsets *)

(* Multiples of the chunk size. *)
LEMMA Multiples ==
  ASSUME NEW j \in Nat, NEW k \in Nat
  PROVE  /\ k * ChunkSize \in Nat /\ (k + 1) * ChunkSize = k * ChunkSize + ChunkSize
         /\ j < k => j * ChunkSize + ChunkSize <= k * ChunkSize
         /\ j * ChunkSize < k * ChunkSize => j < k
         /\ j * ChunkSize = k * ChunkSize => j = k
<1> ChunkSize \in Nat \ {0}
  BY LimitsAssumption
<1>1. ASSUME NEW a \in Nat, NEW b \in Nat, a < b PROVE a * ChunkSize + ChunkSize <= b * ChunkSize
  <2>1. PICK d \in Nat : b = a + 1 + d
    <3> DEFINE d == b - a - 1
    <3>1. d \in Nat /\ b = a + 1 + d
      BY <1>1
    <3> QED
      BY <3>1
  <2>2. b * ChunkSize = a * ChunkSize + ChunkSize + d * ChunkSize /\ d * ChunkSize \in Nat
    BY <2>1
  <2> QED
    BY <2>2
<1>2. k * ChunkSize \in Nat /\ j * ChunkSize \in Nat /\ (k + 1) * ChunkSize = k * ChunkSize + ChunkSize
  OBVIOUS
<1> QED
  BY <1>1, <1>2

(* Division by a positive number. *)
LEMMA Division ==
  ASSUME NEW c \in Nat \ {0}, NEW a \in Nat
  PROVE  /\ a \div c \in Nat
         /\ c * (a \div c) <= a /\ a < c * (a \div c) + c
OBVIOUS

(* The quotient is the only one that leaves less than the divisor. *)
LEMMA Quotient ==
  ASSUME NEW q \in Nat, NEW r \in 0 .. ChunkSize - 1
  PROVE  (q * ChunkSize + r) \div ChunkSize = q
<1> ChunkSize \in Nat \ {0}
  BY LimitsAssumption
<1> DEFINE a == q * ChunkSize + r
           p == a \div ChunkSize
<1>1. a \in Nat /\ p \in Nat /\ p * ChunkSize <= a /\ a < p * ChunkSize + ChunkSize
  BY Division
<1>2. q * ChunkSize \in Nat /\ q * ChunkSize <= a /\ a < q * ChunkSize + ChunkSize
  BY Multiples
<1> HIDE DEF a, p
<1>3. ~(p < q) /\ ~(q < p)
  BY <1>1, <1>2, Multiples
<1>4. p = q
  BY <1>1, <1>3
<1> QED
  BY <1>4 DEF a, p

(* Both sides cut the same file into the same chunks: TotalChunks and      *)
(* ExpectedPayloadLength agree with the offsets the sender reads at.       *)
LEMMA SameCut ==
  ASSUME NEW size \in Nat, NEW k \in Nat, k * ChunkSize < size
  PROVE  /\ k < TotalChunks(size) /\ TotalChunks(size) \in Nat
         /\ ExpectedPayloadLength(size, k) = Least(k * ChunkSize + ChunkSize, size) - k * ChunkSize
<1> ChunkSize \in Nat \ {0}
  BY LimitsAssumption
<1> DEFINE n == (size + ChunkSize - 1) \div ChunkSize
<1>1. size # 0 /\ k * ChunkSize \in Nat
  BY Multiples
<1>2. TotalChunks(size) = n
  BY <1>1 DEF TotalChunks
<1>3. n \in Nat /\ n * ChunkSize <= size + ChunkSize - 1 /\ size + ChunkSize - 1 < n * ChunkSize + ChunkSize
      /\ n * ChunkSize \in Nat
  <2>1. size + ChunkSize - 1 \in Nat
    OBVIOUS
  <2> QED
    BY <2>1, Division
<1> HIDE DEF n
<1>4. k < n
  <2>1. k * ChunkSize < n * ChunkSize
    BY <1>1, <1>3
  <2> QED
    BY <2>1, <1>3, Multiples
<1>5. CASE k = n - 1
  <2>1. k + 1 = n
    BY <1>3, <1>5
  <2>2. n * ChunkSize = k * ChunkSize + ChunkSize
    BY <2>1, Multiples
  <2> QED
    BY <1>1, <1>2, <1>3, <1>4, <1>5, <2>2 DEF ExpectedPayloadLength, Least
<1>6. CASE k # n - 1
  <2>1. n - 1 \in Nat /\ k < n - 1
    BY <1>3, <1>4, <1>6
  <2>2. k * ChunkSize + ChunkSize <= (n - 1) * ChunkSize
    BY <2>1, Multiples
  <2>3. (n - 1) * ChunkSize + ChunkSize = n * ChunkSize
    <3>1. (n - 1) + 1 = n
      BY <1>3
    <3> QED
      BY <3>1, <2>1, Multiples
  <2>4. (n - 1) * ChunkSize \in Nat
    BY <2>1, Multiples
  <2> QED
    BY <1>1, <1>2, <1>3, <1>4, <1>6, <2>2, <2>3, <2>4 DEF ExpectedPayloadLength, Least
<1> QED
  BY <1>5, <1>6

(* A chunk adds its bytes and one header to what is on the wire. *)
LEMMA WireOfChunk ==
  ASSUME NEW k \in Nat, NEW n \in 1 .. ChunkSize
  PROVE  Wire(k * ChunkSize + n) = Wire(k * ChunkSize) + HeaderSize + n
<1> ChunkSize \in Nat \ {0} /\ HeaderSize \in Nat
  BY LimitsAssumption
<1> DEFINE off == k * ChunkSize
<1>1. off \in Nat
  BY Multiples
<1>2. (off + ChunkSize - 1) \div ChunkSize = k
  <2>1. ChunkSize - 1 \in 0 .. ChunkSize - 1 /\ off + ChunkSize - 1 = k * ChunkSize + (ChunkSize - 1)
    BY <1>1
  <2> QED
    BY <2>1, Quotient
<1>3. (off + n + ChunkSize - 1) \div ChunkSize = k + 1
  <2>1. n - 1 \in 0 .. ChunkSize - 1 /\ off + n + ChunkSize - 1 = (k + 1) * ChunkSize + (n - 1)
    BY <1>1, Multiples
  <2> QED
    BY <2>1, Quotient
<1>4. HeaderSize * (k + 1) = HeaderSize * k + HeaderSize /\ HeaderSize * k \in Nat
  OBVIOUS
<1> HIDE DEF off
<1>5. Wire(off + n) = off + n + HeaderSize * (k + 1) /\ Wire(off) = off + HeaderSize * k
  BY <1>2, <1>3 DEF Wire
<1>6. Wire(off + n) = Wire(off) + HeaderSize + n
  BY <1>1, <1>4, <1>5
<1> QED
  BY <1>6 DEF off

(* More of the file weighs more. *)
LEMMA WireGrows ==
  ASSUME NEW a \in Nat, NEW b \in Nat, a <= b
  PROVE  Wire(a) \in Nat /\ Wire(b) \in Nat /\ Wire(a) <= Wire(b)
<1> ChunkSize \in Nat \ {0} /\ HeaderSize \in Nat
  BY LimitsAssumption
<1> DEFINE p == (a + ChunkSize - 1) \div ChunkSize
           q == (b + ChunkSize - 1) \div ChunkSize
<1>1. /\ p \in Nat /\ p * ChunkSize <= a + ChunkSize - 1
      /\ q \in Nat /\ b + ChunkSize - 1 < q * ChunkSize + ChunkSize
  <2>1. a + ChunkSize - 1 \in Nat /\ b + ChunkSize - 1 \in Nat
    OBVIOUS
  <2> QED
    BY <2>1, Division
<1>2. Wire(a) = a + HeaderSize * p /\ Wire(b) = b + HeaderSize * q
  BY DEF Wire
<1> HIDE DEF p, q
<1>3. p <= q
  <2>1. SUFFICES ASSUME q < p PROVE FALSE
    BY <1>1
  <2>2. q * ChunkSize + ChunkSize <= p * ChunkSize
    BY <1>1, <2>1, Multiples
  <2>3. q * ChunkSize \in Nat /\ p * ChunkSize \in Nat
    BY <1>1, Multiples
  <2> QED
    BY <1>1, <2>2, <2>3
<1>4. HeaderSize * p <= HeaderSize * q /\ HeaderSize * p \in Nat /\ HeaderSize * q \in Nat
  <2>1. PICK d \in Nat : q = p + d
    <3>1. q - p \in Nat /\ q = p + (q - p)
      BY <1>1, <1>3
    <3> QED
      BY <3>1
  <2>2. HeaderSize * q = HeaderSize * p + HeaderSize * d /\ HeaderSize * d \in Nat /\ HeaderSize * p \in Nat
    BY <1>1, <2>1
  <2> QED
    BY <2>2
<1> QED
  BY <1>2, <1>4

(* The next milestone is ahead of the offset, by at most one interval. *)
LEMMA Milestone ==
  ASSUME NEW n \in Nat, NEW offset \in Nat
  PROVE  /\ AckMilestone(n, offset) \in Nat /\ offset < AckMilestone(n, offset)
         /\ n > offset => AckMilestone(n, offset) = n
         /\ n <= offset => AckMilestone(n, offset) <= offset + AckInterval
<1> AckInterval \in Nat \ {0}
  BY LimitsAssumption
<1>1. CASE n > offset
  BY <1>1 DEF AckMilestone
<1>2. CASE n <= offset
  <2> DEFINE q == (offset - n) \div AckInterval
  <2>1. /\ q \in Nat /\ AckInterval * q <= offset - n
        /\ offset - n < AckInterval * q + AckInterval /\ AckInterval * q \in Nat
    <3>1. offset - n \in Nat
      BY <1>2
    <3> QED
      BY <3>1, Division
  <2>2. AckMilestone(n, offset) = n + AckInterval * (q + 1)
    BY <1>2 DEF AckMilestone
  <2> HIDE DEF q
  <2>3. AckInterval * (q + 1) = AckInterval * q + AckInterval
    BY <2>1
  <2> QED
    BY <1>2, <2>1, <2>2, <2>3
<1> QED
  BY <1>1, <1>2

-----------------------------------------------------------------------------
(* Pieces of the file *)

(* The bytes of a file. *)
LEMMA Files ==
  ASSUME NEW size \in Nat
  PROVE  IsSeq(FileBytes(size)) /\ Len(FileBytes(size)) = size
<1>1. FileBytes(size) \in [1 .. size -> Int]
  BY DEF FileBytes
<1>2. FileBytes(size) \in Seq(Int)
  BY <1>1, SeqDef
<1>3. Len(FileBytes(size)) = size
  BY <1>1, <1>2, LenProperties
<1> QED
  BY <1>2, <1>3, SeqOfOwn

(* A piece of a sequence that goes on at its start. *)
LEMMA Pieces ==
  ASSUME NEW b, IsSeq(b), NEW from \in Nat, from < Len(b)
  PROVE  /\ IsSeq(Piece(b, from)) /\ Len(Piece(b, from)) = Least(from + ChunkSize, Len(b)) - from
         /\ Len(Piece(b, from)) \in 1 .. ChunkSize
         /\ from + Len(Piece(b, from)) <= Len(b)
         /\ from + Len(Piece(b, from)) < Len(b) => Len(Piece(b, from)) = ChunkSize
         /\ \A i \in 1 .. Len(Piece(b, from)) : Piece(b, from)[i] = b[from + i]
<1> ChunkSize \in Nat \ {0}
  BY LimitsAssumption
<1> DEFINE to == Least(from + ChunkSize, Len(b))
<1>1. Len(b) \in Nat
  BY Length
<1>2. to \in from + 1 .. Len(b) /\ to - from <= ChunkSize /\ (to < Len(b) => to = from + ChunkSize)
  BY <1>1 DEF Least
<1> HIDE DEF to
<1>3. PICK T : b \in Seq(T)
  BY Common
<1>4. \A i \in from + 1 .. to : b[i] \in T
  BY <1>1, <1>2, <1>3, ElementOfSeq
<1>5. /\ SubSeq(b, from + 1, to) \in Seq(T)
      /\ Len(SubSeq(b, from + 1, to)) = (IF from + 1 <= to THEN to - (from + 1) + 1 ELSE 0)
      /\ \A i \in 1 .. to - (from + 1) + 1 : SubSeq(b, from + 1, to)[i] = b[from + 1 + i - 1]
  <2>1. from + 1 \in Int /\ to \in Int
    BY <1>1, <1>2
  <2> QED
    BY <1>4, <2>1, SubSeqProperties
<1>6. Piece(b, from) = SubSeq(b, from + 1, to)
  BY DEF Piece, to
<1>7. IsSeq(Piece(b, from))
  BY <1>5, <1>6, SeqOfOwn
<1>8. Len(Piece(b, from)) = to - from
  BY <1>1, <1>2, <1>5, <1>6
<1>9. ASSUME NEW i \in 1 .. Len(Piece(b, from)) PROVE Piece(b, from)[i] = b[from + i]
  <2>1. i \in 1 .. to - (from + 1) + 1 /\ from + 1 + i - 1 = from + i
    BY <1>1, <1>2, <1>8
  <2> QED
    BY <2>1, <1>5, <1>6
<1> QED
  BY <1>1, <1>2, <1>7, <1>8, <1>9 DEF to

(* What the file is for the receiver: as long as at the sender. *)
LEMMA ReceivedFile ==
  ASSUME sender.size \in Nat
  PROVE  /\ IsSeq(Received) /\ Len(Received) = sender.size
         /\ \A i \in 1 .. sender.size :
              Received[i] = IF setup.corrupt /\ i = 1 THEN -1 ELSE FileBytes(sender.size)[i]
<1>1. /\ FileBytes(sender.size) \in [1 .. sender.size -> Int]
      /\ \A i \in 1 .. sender.size : FileBytes(sender.size)[i] = i - 1
  BY DEF FileBytes
<1>2. Received \in [1 .. sender.size -> Int]
  BY <1>1 DEF Received
<1>3. Received \in Seq(Int)
  BY <1>2, SeqDef
<1>4. Len(Received) = sender.size
  BY <1>2, <1>3, LenProperties
<1>5. ASSUME NEW i \in 1 .. sender.size
      PROVE  Received[i] = IF setup.corrupt /\ i = 1 THEN -1 ELSE FileBytes(sender.size)[i]
  BY <1>1 DEF Received
<1>6. IsSeq(Received)
  BY <1>3, SeqOfOwn
<1> QED
  BY <1>4, <1>5, <1>6

(* A chunk whose first byte is corrupted carries a piece of what the       *)
(* receiver will hold.                                                     *)
LEMMA CorruptedPiece ==
  ASSUME sender.size \in Nat, NEW k \in Nat, k * ChunkSize < sender.size,
         NEW data, data = Piece(FileBytes(sender.size), k * ChunkSize)
  PROVE  Piece(Received, k * ChunkSize)
           = IF setup.corrupt /\ k = 0 /\ data # <<>> THEN [data EXCEPT ![1] = -1] ELSE data
<1> DEFINE from == k * ChunkSize
           hurt == IF setup.corrupt /\ k = 0 /\ data # <<>> THEN [data EXCEPT ![1] = -1] ELSE data
           out  == Piece(Received, from)
<1>1. from \in Nat /\ (from = 0 <=> k = 0) /\ from < sender.size
  <2>1. 0 * ChunkSize = 0
    BY LimitsAssumption
  <2> QED
    BY <2>1, Multiples
<1>2. /\ IsSeq(data) /\ Len(data) \in 1 .. ChunkSize
      /\ Len(data) = Least(from + ChunkSize, sender.size) - from
      /\ \A i \in 1 .. Len(data) : data[i] = FileBytes(sender.size)[from + i]
      /\ from + Len(data) <= sender.size
  BY <1>1, Files, Pieces
<1>3. /\ IsSeq(out) /\ Len(out) = Least(from + ChunkSize, sender.size) - from
      /\ \A i \in 1 .. Len(out) : out[i] = Received[from + i]
  BY <1>1, ReceivedFile, Pieces
<1>4. ChunkSize \in Nat /\ data # <<>>
  BY <1>2, Empty, LimitsAssumption
<1> HIDE DEF from, out
<1>5. ASSUME NEW i \in 1 .. Len(data)
      PROVE  out[i] = IF setup.corrupt /\ k = 0 /\ i = 1 THEN -1 ELSE data[i]
  <2>1. from + i \in 1 .. sender.size /\ (from + i = 1 <=> k = 0 /\ i = 1)
    BY <1>1, <1>2, <1>4
  <2>2. Received[from + i] = IF setup.corrupt /\ from + i = 1 THEN -1 ELSE FileBytes(sender.size)[from + i]
    BY <2>1, ReceivedFile
  <2>3. out[i] = Received[from + i] /\ data[i] = FileBytes(sender.size)[from + i]
    BY <1>2, <1>3
  <2> QED
    BY <2>1, <2>2, <2>3
<1>6. CASE setup.corrupt /\ k = 0
  <2>1. PICK T : data \in Seq(T) /\ -1 \in T
    BY <1>2, Common
  <2>2. /\ [data EXCEPT ![1] = -1] \in Seq(T) /\ Len([data EXCEPT ![1] = -1]) = Len(data)
        /\ \A i \in 1 .. Len(data) : [data EXCEPT ![1] = -1][i] = IF i = 1 THEN -1 ELSE data[i]
    <3>1. 1 \in 1 .. Len(data)
      BY <1>2, <1>4
    <3> QED
      BY <2>1, <3>1, ExceptSeq
  <2>3. hurt = [data EXCEPT ![1] = -1]
    BY <1>4, <1>6
  <2>4. IsSeq(hurt) /\ Len(hurt) = Len(out)
    <3>1. IsSeq([data EXCEPT ![1] = -1])
      BY <2>2, SeqOfOwn
    <3> QED
      BY <3>1, <1>2, <1>3, <2>2, <2>3
  <2>5. \A i \in 1 .. Len(out) : hurt[i] = out[i]
    BY <1>2, <1>3, <1>5, <1>6, <2>2, <2>3
  <2>6. hurt = out
    <3> HIDE DEF hurt
    <3> QED
      BY <1>3, <2>4, <2>5, Same
  <2> QED
    BY <2>6 DEF from, out
<1>7. CASE ~(setup.corrupt /\ k = 0)
  <2>1. hurt = data
    BY <1>7
  <2>2. \A i \in 1 .. Len(out) : out[i] = data[i]
    BY <1>2, <1>3, <1>5, <1>7
  <2>3. out = data
    BY <1>2, <1>3, <2>2, Same
  <2> QED
    BY <2>1, <2>3 DEF from, out
<1> QED
  BY <1>6, <1>7

(* The next piece continues what is held. *)
LEMMA NextPiece ==
  ASSUME NEW b, IsSeq(b), NEW n \in Nat, n < Len(b)
  PROVE  SubSeq(b, 1, n) \o Piece(b, n) = SubSeq(b, 1, n + Len(Piece(b, n)))
<1> DEFINE to == Least(n + ChunkSize, Len(b))
<1>1. Len(b) \in Nat /\ ChunkSize \in Nat \ {0}
  BY Length, LimitsAssumption
<1>2. to \in n .. Len(b) /\ 1 \in 1 .. Len(b) + 1 /\ n \in 1 - 1 .. Len(b)
  BY <1>1 DEF Least
<1>3. n + Len(Piece(b, n)) = to
  <2>1. Len(Piece(b, n)) = to - n
    BY Pieces
  <2> QED
    BY <1>1, <1>2, <2>1
<1>4. Piece(b, n) = SubSeq(b, n + 1, to)
  BY DEF Piece
<1> HIDE DEF to
<1>5. SubSeq(b, 1, n) \o SubSeq(b, n + 1, to) = SubSeq(b, 1, to)
  BY <1>2, Common, ConcatAdjacentSubSeq
<1> QED
  BY <1>3, <1>4, <1>5

(* What the sender reads is the piece that starts where it stands. *)
LEMMA PayloadIsPiece ==
  ASSUME NEW s, s.size \in Nat, s.nextOffset \in Nat, s.nextOffset < s.size
  PROVE  /\ Payload(s) = Piece(FileBytes(s.size), s.nextOffset)
         /\ PayloadLength(s) = Len(Payload(s)) /\ PayloadLength(s) \in 1 .. ChunkSize
         /\ s.nextOffset + PayloadLength(s) <= s.size
         /\ s.nextOffset + PayloadLength(s) < s.size => PayloadLength(s) = ChunkSize
<1> ChunkSize \in Nat \ {0}
  BY LimitsAssumption
<1> PICK n : n = s.nextOffset
  OBVIOUS
<1> PICK z : z = s.size
  OBVIOUS
<1> PICK p : p = PayloadLength(s)
  OBVIOUS
<1>1. p = Least(n + ChunkSize, z) - n /\ Least(n + p, z) = Least(n + ChunkSize, z)
  BY DEF PayloadLength, Least
<1>2. Len(FileBytes(z)) = z /\ IsSeq(FileBytes(z))
  BY Files
<1>3. Payload(s) = SubSeq(FileBytes(z), n + 1, Least(n + p, z))
  BY DEF Payload, Least
<1>4. Payload(s) = Piece(FileBytes(z), n)
  BY <1>1, <1>2, <1>3 DEF Piece
<1> QED
  BY <1>1, <1>2, <1>4, Pieces

-----------------------------------------------------------------------------
(* What the sender's helpers make of its record *)

(* The same file, sent and acknowledged as far. *)
SameOffsets(s, t) == /\ t.size = s.size /\ t.nextOffset = s.nextOffset
                     /\ t.ackedOffset = s.ackedOffset

(* fail() ends a transfer that has not ended. *)
LEMMA Failed ==
  ASSUME NEW s, NEW code, SenderType(s)
  PROVE  /\ SenderType(SenderFail(s, code)) /\ SameOffsets(s, SenderFail(s, code))
         /\ SenderFail(s, code).pc = s.pc
         /\ SenderFail(s, code).state = IF SenderTerminal(s) THEN s.state ELSE "failed"
<1> DEFINE t == [s EXCEPT !.state = "failed", !.error = code, !.ackTimer = "off",
                          !.hash = HashCancelled(@)]
<1>1. SenderFail(s, code) = IF SenderTerminal(s) THEN s ELSE t
  BY DEF SenderFail
<1>2. /\ DOMAIN t = DOMAIN s /\ t.state = "failed" /\ t.ackTimer = "off"
      /\ t.hash = HashCancelled(s.hash) /\ t.pc = s.pc /\ SameOffsets(s, t)
  BY DEF SenderType, SameOffsets
<1> HIDE DEF t
<1>3. SenderType(t)
  BY <1>2 DEF SenderType, SameOffsets, HashCancelled, SenderStates, TerminalStates
<1> QED
  BY <1>1, <1>2, <1>3 DEF SameOffsets

(* wakeAll ends a loop that waits, and leaves the rest. *)
LEMMA Woken ==
  ASSUME NEW s, SenderType(s)
  PROVE  /\ SenderType(WakeAll(s)) /\ SameOffsets(s, WakeAll(s))
         /\ WakeAll(s).state = s.state
         /\ WakeAll(s).pc = IF s.pc \in {"low", "ack"} THEN "off" ELSE s.pc
<1> DEFINE t == [s EXCEPT !.pc = "off"]
<1>1. WakeAll(s) = IF s.pc \in {"low", "ack"} THEN t ELSE s
  BY DEF WakeAll
<1>2. DOMAIN t = DOMAIN s /\ t.state = s.state /\ t.ackTimer = s.ackTimer
      /\ t.hash = s.hash /\ t.pc = "off" /\ SameOffsets(s, t)
  BY DEF SenderType, SameOffsets
<1> HIDE DEF t
<1> QED
  BY <1>1, <1>2 DEF SenderType, SameOffsets

(* cancel() and CANCEL. *)
LEMMA Cancelled ==
  ASSUME NEW s, NEW t, SenderType(s),
         t = [s EXCEPT !.state = "cancelled", !.hash = HashCancelled(@)]
  PROVE  SenderType(t) /\ SameOffsets(s, t) /\ t.state = "cancelled" /\ t.pc = s.pc
<1>1. /\ DOMAIN t = DOMAIN s /\ t.state = "cancelled" /\ t.ackTimer = s.ackTimer
      /\ t.hash = HashCancelled(s.hash) /\ t.pc = s.pc /\ SameOffsets(s, t)
  BY DEF SenderType, SameOffsets
<1> QED
  BY <1>1 DEF SenderType, SameOffsets, HashCancelled, SenderStates, TerminalStates

(* A turn of the loop stops where its two limits, or the end, stop it. *)
LEMMA Resumed ==
  ASSUME NEW s, NEW buffered \in Nat, SenderType(s), s.state = "transferring",
         s.size <= MaxFileSize,
         s.nextOffset < s.size => s.nextOffset = (s.nextOffset \div ChunkSize) * ChunkSize,
         s.nextOffset - s.ackedOffset < Window + ChunkSize
  PROVE  /\ SenderOK(Resume(s, buffered)) /\ SameOffsets(s, Resume(s, buffered))
         /\ Resume(s, buffered).state = "transferring"
         /\ Resume(s, buffered).pc = "read" => buffered <= HighWater
         /\ Resume(s, buffered).pc = "low" => buffered > HighWater
<1> DEFINE at(p) == [s EXCEPT !.pc = p]
<1>1. ASSUME NEW p \in {"off", "low", "ack", "read", "hash"}
      PROVE  SenderType(at(p)) /\ SameOffsets(s, at(p)) /\ at(p).state = "transferring" /\ at(p).pc = p
  <2> PICK t : t = at(p)
    OBVIOUS
  <2>1. DOMAIN t = DOMAIN s /\ t.state = s.state /\ t.ackTimer = s.ackTimer
        /\ t.hash = s.hash /\ t.pc = p /\ SameOffsets(s, t)
    BY DEF SenderType, SameOffsets
  <2> QED
    BY <2>1 DEF SenderType, SameOffsets
<1>2. PICK p \in {"low", "ack", "read", "hash"} :
        /\ Resume(s, buffered) = at(p)
        /\ p = "hash" <=> s.nextOffset >= s.size
        /\ p = "low" => buffered > HighWater
        /\ p \in {"ack", "read"} => ~(buffered > HighWater)
        /\ p = "ack" => s.nextOffset - s.ackedOffset >= Window
        /\ p = "read" => ~(s.nextOffset - s.ackedOffset >= Window)
  BY Zenon DEF Resume
<1> PICK t : t = at(p)
  OBVIOUS
<1>3. SenderType(t) /\ SameOffsets(s, t) /\ t.state = "transferring" /\ t.pc = p
  BY <1>1
<1>4. HighWater \in Nat /\ Window \in Nat /\ ChunkSize \in Nat
  BY LimitsAssumption
<1>5. LoopOK(t)
  BY <1>2, <1>3, <1>4 DEF LoopOK, SameOffsets, SenderType
<1>6. StateOK(t)
  BY <1>3 DEF StateOK, SameOffsets
<1>7. Resume(s, buffered) = t
  BY <1>2
<1> QED
  BY <1>2, <1>3, <1>4, <1>5, <1>6, <1>7 DEF SenderOK

(* The timer stops, or the loop does. *)
LEMMA Stopped ==
  ASSUME NEW s, NEW t, SenderType(s), t \in {[s EXCEPT !.ackTimer = "off"], [s EXCEPT !.pc = "off"]}
  PROVE  /\ SenderType(t) /\ SameOffsets(s, t) /\ t.state = s.state
         /\ t.pc = IF t = [s EXCEPT !.ackTimer = "off"] THEN s.pc ELSE "off"
<1>1. CASE t = [s EXCEPT !.ackTimer = "off"]
  <2>1. /\ DOMAIN t = DOMAIN s /\ t.state = s.state /\ t.ackTimer = "off"
        /\ t.hash = s.hash /\ t.pc = s.pc /\ SameOffsets(s, t)
    BY <1>1 DEF SenderType, SameOffsets
  <2> QED
    BY <1>1, <2>1 DEF SenderType, SameOffsets
<1>2. CASE t = [s EXCEPT !.pc = "off"] /\ t # [s EXCEPT !.ackTimer = "off"]
  <2>1. /\ DOMAIN t = DOMAIN s /\ t.state = s.state /\ t.ackTimer = s.ackTimer
        /\ t.hash = s.hash /\ t.pc = "off" /\ SameOffsets(s, t)
    BY <1>2 DEF SenderType, SameOffsets
  <2> QED
    BY <1>2, <2>1 DEF SenderType, SameOffsets
<1> QED
  BY <1>1, <1>2
=============================================================================
