----------------------------- MODULE DataChannel -----------------------------
(***************************************************************************)
(* The ordered, reliable RTCDataChannel a transfer runs over, seen through *)
(* frontend/src/webrtc/channel.ts: what send, bufferedAmount, the low      *)
(* event, readyState and onclose do at the two ends.  The browser is       *)
(* external; this is what the sender and the receiver rely on.             *)
(*                                                                         *)
(* A chunk carries its payload as the sequence of file positions it was    *)
(* read from, so two payloads are equal exactly when their bytes are.      *)
(* Control messages are small beside a chunk and weigh nothing in          *)
(* bufferedAmount, which the sender compares only while chunks fill it.    *)
(***************************************************************************)
EXTENDS Integers, Sequences

CONSTANTS ChunkSize, HeaderSize,   \* bytes of a full payload, of a chunk header
          HighWater, LowWater,     \* limit 1: the send buffer
          Window, AckInterval,     \* limit 2: un-ACKed bytes; bytes between ACKs
          MaxFileSize,
          Sizes,                   \* file sizes the user may pick
          HashModes,               \* TRUE: the hash pass is on; FALSE: noHash()
          CorruptModes,            \* values of the receiver's devCorruptFirstChunk
          FaultSets                \* what may go wrong in one transfer

ASSUME LimitsAssumption ==
  /\ ChunkSize \in Nat \ {0} /\ HeaderSize \in Nat
  /\ HighWater \in Nat /\ LowWater \in Nat /\ LowWater <= HighWater
  /\ Window \in Nat \ {0} /\ AckInterval \in 1 .. Window
  /\ MaxFileSize \in Nat /\ Sizes \subseteq Nat
  /\ HashModes \subseteq BOOLEAN /\ CorruptModes \subseteq BOOLEAN

ASSUME FaultsAssumption ==
  \A f \in FaultSets : f \subseteq {"close", "cancel", "read", "hash", "sink", "timeout"}

VARIABLES setup,          \* how the two ends were made, and their fortune: fixed
          senderReady,    \* readyState of the sender's end
          receiverReady,  \* readyState of the receiver's end
          buf,            \* messages in the sender's SCTP buffer
          bufferedAmount, \* their bytes
          lowEvent,       \* "due" when a bufferedamountlow event is queued
          net,            \* messages on their way to the receiver
          back            \* messages on their way to the sender

channelVars == <<senderReady, receiverReady, buf, bufferedAmount, lowEvent, net, back>>

ReadyState == {"open", "closing", "closed"}

SetupInit == setup \in [useHash : HashModes, corrupt : CorruptModes, faults : FaultSets]

ChannelInit ==
  /\ senderReady = "open" /\ receiverReady = "open"
  /\ buf = <<>> /\ bufferedAmount = 0 /\ lowEvent = "none"
  /\ net = <<>> /\ back = <<>>

(* Mutant: the short last chunk is not counted. *)
TotalChunksFloor(size) == IF size < ChunkSize THEN 1 ELSE size \div ChunkSize

TotalChunks(size) == IF size = 0 THEN 1 ELSE (size + ChunkSize - 1) \div ChunkSize

(* The bytes of a file of this size, named by their positions. *)
FileBytes(size) == [i \in 1 .. size |-> i - 1]

(* What either side stops at, and the message that tells the other. *)
TerminalStates == {"done", "failed", "cancelled", "rejected"}

Error(code) == [type |-> "ERROR", code |-> code]

(* SHA-256 tells contents apart; noHash() sends the empty string. *)
NoHash == <<>>

Digest(bytes) == <<"sha256", bytes>>

Weight(m) == IF m.type = "CHUNK" THEN HeaderSize + Len(m.data) ELSE 0

-----------------------------------------------------------------------------
(* Calls.  send throws unless the channel is open; every caller but the    *)
(* chunk loop catches that and carries on.                                 *)

SenderSends(ms) == buf' = IF senderReady = "open" THEN buf \o ms ELSE buf

ReceiverSends(ms) ==
  back' = IF receiverReady = "open" /\ senderReady = "open" THEN back \o ms ELSE back

-----------------------------------------------------------------------------
(* What the browser and the network do. *)

(* The oldest buffered message leaves; crossing the threshold queues the   *)
(* low event.  What is sent to an end that is closing is lost.             *)
Transmit ==
  /\ buf # <<>>
  /\ buf' = Tail(buf)
  /\ bufferedAmount' = bufferedAmount - Weight(Head(buf))
  /\ lowEvent' = IF bufferedAmount > LowWater /\ bufferedAmount' <= LowWater
                 THEN "due" ELSE lowEvent
  /\ net' = IF receiverReady = "open" THEN Append(net, Head(buf)) ELSE net
  /\ UNCHANGED <<senderReady, receiverReady, back>>

(* An end starts to close because the connection failed, the page closed   *)
(* it, or the other end did.  It takes no more messages in, and an         *)
(* unknowable part of what it had sent is lost.                            *)
SenderCloses ==
  /\ senderReady = "open"
  /\ "close" \in setup.faults \/ receiverReady # "open"
  /\ senderReady' = "closing"
  /\ IF receiverReady = "open"
     THEN \E k \in 0 .. Len(net \o buf) : net' = SubSeq(net \o buf, 1, k)
     ELSE net' = <<>>
  /\ buf' = <<>> /\ back' = <<>>
  /\ UNCHANGED <<receiverReady, bufferedAmount, lowEvent>>

ReceiverCloses ==
  /\ receiverReady = "open"
  /\ "close" \in setup.faults \/ senderReady # "open"
  /\ receiverReady' = "closing"
  /\ net' = <<>>
  /\ \E k \in 0 .. Len(back) : back' = SubSeq(back, 1, k)
  /\ UNCHANGED <<senderReady, buf, bufferedAmount, lowEvent>>
=============================================================================
