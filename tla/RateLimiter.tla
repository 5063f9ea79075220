---------------------------- MODULE RateLimiter ----------------------------
(***************************************************************************)
(* backend/internal/signaling/limiter.go: the sliding-window limit on join *)
(* attempts of one address.  allow and sweep run under the limiter's       *)
(* mutex.  As in RoomStore an instant is its age, which Tick advances and  *)
(* which saturates at Window, where it no longer counts.                   *)
(***************************************************************************)
EXTENDS Naturals, Sequences, FiniteSets

CONSTANTS Keys, Limit, Window

ASSUME LimiterAssumption == Limit \in Nat /\ Window \in Nat \ {0}

VARIABLES events,    \* [Keys -> Seq(age)], oldest first; <<>> when there is no entry
          admitted   \* history: [Keys -> [Places -> age]], the last calls allowed

vars == <<events, admitted>>

Age == 0 .. Window

(* The places of the history, newest first: one more than the limit, for a *)
(* call too many.  Where there was no call it has the age Window.          *)
Places == 1 .. Limit + 1

Init == /\ events = [k \in Keys |-> <<>>]
        /\ admitted = [k \in Keys |-> [j \in Places |-> Window]]

(* t.After(cutoff).  Mutant: an event counts one instant too long. *)
CountsInclusive(age) == age <= Window

Counts(age) == age < Window

(* The filter of allow, which keeps the order: its j-th item is the j-th   *)
(* of those that count.                                                    *)
Counting(s) == {i \in 1 .. Len(s) : Counts(s[i])}
Nth(I, j) == CHOOSE i \in I : Cardinality({h \in I : h <= i}) = j

Kept(k) == LET s == events[k] IN [j \in 1 .. Cardinality(Counting(s)) |-> s[Nth(Counting(s), j)]]

Allow(k) ==
  /\ Len(Kept(k)) < Limit
  /\ events' = [events EXCEPT ![k] = Append(Kept(k), 0)]
  /\ admitted' = [admitted EXCEPT ![k] =
                    [j \in Places |-> IF j = 1 THEN 0 ELSE admitted[k][j - 1]]]

Refuse(k) ==
  /\ Len(Kept(k)) >= Limit
  /\ events' = [events EXCEPT ![k] = Kept(k)]
  /\ UNCHANGED admitted

(* Mutant: sweep looks at the oldest event of a key. *)
ForgottenByOldest(k) == events[k] = <<>> \/ ~Counts(Head(events[k]))

Forgotten(k) == events[k] = <<>> \/ ~Counts(events[k][Len(events[k])])

Sweep ==
  /\ events' = [k \in Keys |-> IF Forgotten(k) THEN <<>> ELSE events[k]]
  /\ UNCHANGED admitted

Older(age) == IF age < Window THEN age + 1 ELSE age

Tick ==
  /\ events' = [k \in Keys |-> [i \in 1 .. Len(events[k]) |-> Older(events[k][i])]]
  /\ admitted' = [k \in Keys |-> [j \in Places |-> Older(admitted[k][j])]]

Next == (\E k \in Keys : Allow(k) \/ Refuse(k)) \/ Sweep \/ Tick

Spec == Init /\ [][Next]_vars

-----------------------------------------------------------------------------
(* Properties *)

(* The calls allowed in the last window, by the history.                   *)
Recent(k) == Cardinality({j \in Places : admitted[k][j] < Window})

(* No address ever gets more than Limit joins through in a window, however *)
(* sweeps and refused attempts prune the record in between.                *)
WindowHolds == \A k \in Keys : Recent(k) <= Limit

(* And none is refused unless it has used its joins up in the last window: *)
(* a refused attempt does not count against it, nor does another address's.*)
RefusalsAreEarned == \A k \in Keys : Len(Kept(k)) >= Limit => Recent(k) >= Limit
=============================================================================
