------------------------------- MODULE Sender -------------------------------
(***************************************************************************)
(* frontend/src/transfer/sender.ts: the sending side of one transfer.      *)
(* JavaScript runs one task at a time, and the continuation of an await    *)
(* whose promise a handler resolves runs before the next task: a wake-up   *)
(* and the turn of the loop it causes are one step.  sender.pc is where    *)
(* run() is suspended:                                                     *)
(*   "off"   not running          "low"  waitFor("low")                    *)
(*   "read"  source.read          "ack"  waitFor("ack")                    *)
(*   "hash"  hash.result                                                   *)
(* A Sender serves one channel and one transfer (useTransfer.ts makes a    *)
(* new one for each channel), so channelGen never changes and transfer     *)
(* identifiers always match; both are left out.                            *)
(***************************************************************************)
EXTENDS DataChannel

VARIABLE sender

SenderInit ==
  sender = [state |-> "idle", pc |-> "off", size |-> 0, nextOffset |-> 0,
            ackedOffset |-> 0, hash |-> "none", ackTimer |-> "off", error |-> "none"]

SenderTerminal(s) == s.state \in TerminalStates

-----------------------------------------------------------------------------
(* Helpers *)

(* hash?.cancel(): a pending hash pass is rejected. *)
HashCancelled(h) == IF h = "pending" THEN "failed" ELSE h

(* fail(): the sender it leaves behind and the ERROR it sends first. *)
SenderFail(s, code) ==
  IF SenderTerminal(s) THEN s
  ELSE [s EXCEPT !.state = "failed", !.error = code, !.ackTimer = "off",
                 !.hash = HashCancelled(@)]

(* Mutant: the peer is not told. *)
SenderFailSendsNothing(s, code) == <<>>

SenderFailSends(s, code) ==
  IF SenderTerminal(s) \/ s.state = "idle" \/ code = "channel_lost"
  THEN <<>> ELSE <<Error(code)>>

(* wakeAll("cancelled"): a loop that waits for the channel or an ACK ends. *)
WakeAll(s) == IF s.pc \in {"low", "ack"} THEN [s EXCEPT !.pc = "off"] ELSE s

(* One turn of the loop, from its top to its next await. *)
(* Mutants: limit 1 or limit 2 is not tested. *)
ResumeNoLimit1(s, buffered) ==
  IF s.nextOffset >= s.size THEN [s EXCEPT !.pc = "hash"]
  ELSE IF s.state # "transferring" THEN [s EXCEPT !.pc = "off"]
  ELSE IF s.nextOffset - s.ackedOffset >= Window THEN [s EXCEPT !.pc = "ack"]
  ELSE [s EXCEPT !.pc = "read"]

ResumeNoLimit2(s, buffered) ==
  IF s.nextOffset >= s.size THEN [s EXCEPT !.pc = "hash"]
  ELSE IF s.state # "transferring" THEN [s EXCEPT !.pc = "off"]
  ELSE IF buffered > HighWater THEN [s EXCEPT !.pc = "low"]
  ELSE [s EXCEPT !.pc = "read"]

Resume(s, buffered) ==
  IF s.nextOffset >= s.size THEN [s EXCEPT !.pc = "hash"]
  ELSE IF s.state # "transferring" THEN [s EXCEPT !.pc = "off"]
  ELSE IF buffered > HighWater THEN [s EXCEPT !.pc = "low"]
  ELSE IF s.nextOffset - s.ackedOffset >= Window THEN [s EXCEPT !.pc = "ack"]
  ELSE [s EXCEPT !.pc = "read"]

-----------------------------------------------------------------------------
(* The user *)

Offer(size) ==
  /\ sender.state = "idle"
  /\ IF size > MaxFileSize
     THEN sender' = SenderFail(sender, "too_large") /\ UNCHANGED buf
     ELSE /\ sender' = [sender EXCEPT !.state = "offered", !.size = size]
          /\ SenderSends(<<[type |-> "FILE_OFFER", size |-> size]>>)
  /\ UNCHANGED <<senderReady, receiverReady, bufferedAmount, lowEvent, net, back>>

SenderCancel ==
  /\ "cancel" \in setup.faults
  /\ ~SenderTerminal(sender)
  /\ SenderSends(<<[type |-> "CANCEL"]>>)
  /\ sender' = WakeAll([sender EXCEPT !.state = "cancelled", !.hash = HashCancelled(@)])
  /\ UNCHANGED <<senderReady, receiverReady, bufferedAmount, lowEvent, net, back>>

-----------------------------------------------------------------------------
(* onMessage: what each message makes of the sender, and what it sends. *)

(* run() up to its first await. *)
Started(s) == Resume([s EXCEPT !.state = "transferring",
                               !.hash = IF setup.useHash THEN "pending" ELSE "ok"],
                     bufferedAmount)

(* Mutant: an ACK wakes nobody. *)
OnAckNoWake(s, m) ==
  IF m.committedOffset > s.ackedOffset /\ m.committedOffset <= s.nextOffset
  THEN [s EXCEPT !.ackedOffset = m.committedOffset] ELSE s

OnAck(s, m) ==
  IF m.committedOffset > s.ackedOffset /\ m.committedOffset <= s.nextOffset
  THEN LET t == [s EXCEPT !.ackedOffset = m.committedOffset]
       IN IF t.pc = "ack" THEN Resume(t, bufferedAmount) ELSE t
  ELSE s

OnCompleteAck(s, m) ==
  IF s.state # "completing" THEN s
  ELSE IF m.ok THEN [s EXCEPT !.state = "done", !.ackTimer = "off"]
  ELSE SenderFail(s, "hash_mismatch")

SenderReceives ==
  /\ back # <<>>
  /\ back' = Tail(back)
  /\ LET m == Head(back)
         s == sender
     IN \/ /\ m.type = "FILE_ACCEPT"
           /\ sender' = IF s.state = "offered" THEN Started(s) ELSE s
           /\ UNCHANGED buf
        \/ /\ m.type = "FILE_REJECT"
           /\ sender' = IF s.state = "offered" THEN [s EXCEPT !.state = "rejected"] ELSE s
           /\ UNCHANGED buf
        \/ /\ m.type = "ACK"
           /\ sender' = OnAck(s, m)
           /\ UNCHANGED buf
        \/ /\ m.type = "COMPLETE_ACK"
           /\ sender' = OnCompleteAck(s, m)
           /\ SenderSends(IF s.state = "completing" /\ ~m.ok
                          THEN SenderFailSends(s, "hash_mismatch") ELSE <<>>)
        \/ /\ m.type = "CANCEL"
           /\ sender' = IF SenderTerminal(s) THEN s
                        ELSE WakeAll([s EXCEPT !.state = "cancelled",
                                               !.hash = HashCancelled(@)])
           /\ UNCHANGED buf
        \/ /\ m.type = "ERROR"
           /\ sender' = IF SenderTerminal(s) THEN s ELSE WakeAll(SenderFail(s, m.code))
           /\ SenderSends(SenderFailSends(s, m.code))
  /\ UNCHANGED <<senderReady, receiverReady, bufferedAmount, lowEvent, net>>

-----------------------------------------------------------------------------
(* The loop *)

(* The next payload: a full chunk, or what is left, and its bytes; slice    *)
(* stops at the end of the file.  Mutants: the last payload is not         *)
(* shortened; every payload is read from the start of the file.            *)
PayloadLengthFull(s) == ChunkSize

PayloadLength(s) == IF s.size - s.nextOffset < ChunkSize
                    THEN s.size - s.nextOffset ELSE ChunkSize

PayloadOfFirst(s) == SubSeq(FileBytes(s.size), 1, PayloadLength(s))

Payload(s) ==
  LET end == s.nextOffset + PayloadLength(s)
  IN SubSeq(FileBytes(s.size), s.nextOffset + 1, IF end < s.size THEN end ELSE s.size)

(* source.read settles.  A chunk that was read is sent unless the transfer *)
(* ended meanwhile, and the loop turns; send throws on a closing channel.  *)
ReadSettles ==
  /\ sender.pc = "read"
  /\ LET m   == [type |-> "CHUNK", index |-> sender.nextOffset \div ChunkSize,
                 data |-> Payload(sender)]
         off == [sender EXCEPT !.pc = "off"]
     IN \/ /\ sender.state # "transferring"
           /\ sender' = off
           /\ UNCHANGED <<buf, bufferedAmount>>
        \/ /\ sender.state = "transferring" /\ senderReady = "open"
           /\ buf' = Append(buf, m)
           /\ bufferedAmount' = bufferedAmount + Weight(m)
           /\ sender' = Resume([sender EXCEPT !.nextOffset = @ + PayloadLength(sender)], bufferedAmount')
        \/ /\ sender.state = "transferring" /\ senderReady # "open"
           /\ sender' = SenderFail(off, "send_failure")
           /\ UNCHANGED <<buf, bufferedAmount>>
        \/ /\ "read" \in setup.faults
           /\ sender' = SenderFail(off, "read_failure")
           /\ SenderSends(SenderFailSends(sender, "read_failure"))
           /\ UNCHANGED bufferedAmount
  /\ UNCHANGED <<senderReady, receiverReady, lowEvent, net, back>>

(* The hash pass, which runs beside the loop, ends. *)
HashPassEnds ==
  /\ sender.hash = "pending"
  /\ \E h \in {"ok"} \cup (IF "hash" \in setup.faults THEN {"failed"} ELSE {}) :
       sender' = [sender EXCEPT !.hash = h]
  /\ UNCHANGED channelVars

(* The rest of run(), once hash.result has settled. *)
HashAwaited ==
  /\ sender.pc = "hash" /\ sender.hash # "pending"
  /\ LET off == [sender EXCEPT !.pc = "off"]
     IN \/ /\ sender.hash = "failed"
           /\ sender' = SenderFail(off, "read_failure")
           /\ SenderSends(SenderFailSends(sender, "read_failure"))
        \/ /\ sender.hash = "ok" /\ sender.state # "transferring"
           /\ sender' = off
           /\ UNCHANGED buf
        \/ /\ sender.hash = "ok" /\ sender.state = "transferring"
           /\ SenderSends(<<[type |-> "COMPLETE", sha256 |->
                IF setup.useHash THEN Digest(FileBytes(sender.size)) ELSE NoHash]>>)
           /\ sender' = [off EXCEPT !.state = "completing", !.ackTimer = "armed"]
  /\ UNCHANGED <<senderReady, receiverReady, bufferedAmount, lowEvent, net, back>>

-----------------------------------------------------------------------------
(* Events *)

(* onbufferedamountlow: wake("low"). *)
SenderLow ==
  /\ lowEvent = "due"
  /\ lowEvent' = "none"
  /\ sender' = IF sender.pc = "low" THEN Resume(sender, bufferedAmount) ELSE sender
  /\ UNCHANGED <<senderReady, receiverReady, buf, bufferedAmount, net, back>>

AckTimeout ==
  /\ "timeout" \in setup.faults
  /\ sender.ackTimer = "armed"
  /\ LET s == [sender EXCEPT !.ackTimer = "off"]
     IN IF s.state = "completing"
        THEN sender' = SenderFail(s, "internal") /\ SenderSends(<<Error("internal")>>)
        ELSE sender' = s /\ UNCHANGED buf
  /\ UNCHANGED <<senderReady, receiverReady, bufferedAmount, lowEvent, net, back>>

(* onclose.  Mutant: a sender that waits for COMPLETE_ACK carries on, with *)
(* its timer cleared.                                                      *)
SenderClosedKeepsCompleting ==
  /\ senderReady = "closing"
  /\ senderReady' = "closed"
  /\ LET s == WakeAll([sender EXCEPT !.ackTimer = "off"])
     IN sender' = IF s.state \in {"idle", "completing"} THEN s
                  ELSE SenderFail(s, "channel_lost")
  /\ UNCHANGED <<receiverReady, buf, bufferedAmount, lowEvent, net, back>>

SenderClosed ==
  /\ senderReady = "closing"
  /\ senderReady' = "closed"
  /\ LET s == WakeAll([sender EXCEPT !.ackTimer = "off"])
     IN sender' = IF s.state = "idle" THEN s ELSE SenderFail(s, "channel_lost")
  /\ UNCHANGED <<receiverReady, buf, bufferedAmount, lowEvent, net, back>>
=============================================================================
