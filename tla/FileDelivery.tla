---------------------------- MODULE FileDelivery ----------------------------
(***************************************************************************)
(* What a transfer promises the two people at its ends, with no frames,    *)
(* buffers, windows or workers: the receiver accumulates the file and      *)
(* reaches a verdict of its own, once; the sender's verdict comes once     *)
(* too, and is a success only after the receiver's.  Transfer implements   *)
(* this module (Transfer!Delivery).                                        *)
(***************************************************************************)
EXTENDS Naturals

VARIABLES size,             \* bytes of the file offered, 0 before
          held,             \* bytes the receiver has committed
          senderVerdict,    \* "none", "done" or how else it ended
          receiverVerdict

vars == <<size, held, senderVerdict, receiverVerdict>>

Unsuccessful == {"failed", "cancelled", "rejected"}

Init == size = 0 /\ held = 0 /\ senderVerdict = "none" /\ receiverVerdict = "none"

Offer == /\ size = 0 /\ held = 0
         /\ size' \in Nat
         /\ UNCHANGED <<held, senderVerdict, receiverVerdict>>

(* Bytes arrive, never more than were offered, and are not given back. *)
Commit == /\ receiverVerdict = "none"
          /\ held' \in held + 1 .. size
          /\ UNCHANGED <<size, senderVerdict, receiverVerdict>>

(* The receiver is done only with the whole file. *)
ReceiverDecides(v) ==
  /\ receiverVerdict = "none"
  /\ v = "done" => held = size
  /\ receiverVerdict' = v
  /\ UNCHANGED <<size, held, senderVerdict>>

(* The sender is done only when the receiver is, and learns of a rejection *)
(* only when there was one.                                                *)
SenderDecides(v) ==
  /\ senderVerdict = "none"
  /\ v \in {"done", "rejected"} => receiverVerdict = v
  /\ senderVerdict' = v
  /\ UNCHANGED <<size, held, receiverVerdict>>

Next == \/ Offer
        \/ Commit
        \/ \E v \in Unsuccessful \cup {"done"} : SenderDecides(v) \/ ReceiverDecides(v)

Spec == Init /\ [][Next]_vars
=============================================================================
