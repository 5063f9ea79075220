-------------------------- MODULE RateLimiter_proofs --------------------------
(***************************************************************************)
(* Theorems about RateLimiter, for any addresses, limit and window.        *)
(*                                                                         *)
(* The record of an address is ordered, so that what counts of it is its   *)
(* end, and it is the history read from the other side: what is not in it  *)
(* has left the window.                                                    *)
(***************************************************************************)
EXTENDS RateLimiter, SequenceTheorems, FiniteSetTheorems, TLAPS

(* The oldest first. *)
Ordered(s) == \A i, j \in 1 .. Len(s) : i < j => s[i] >= s[j]

(* The j-th of the history is the j-th from the end of the record, if it   *)
(* is still there.                                                         *)
Mirrors(s, h) == \A j \in Places :
  h[j] = IF j <= Len(s) THEN s[Len(s) + 1 - j] ELSE Window

(* What is so of one address. *)
Agrees(s, h) ==
  /\ s \in Seq(Age) /\ Len(s) <= Limit /\ Ordered(s)
  /\ h \in [Places -> Age] /\ Mirrors(s, h)

(* The inductive invariant. *)
IInv ==
  /\ DOMAIN events = Keys /\ DOMAIN admitted = Keys
  /\ \A k \in Keys : Agrees(events[k], admitted[k])

-----------------------------------------------------------------------------
(* What counts of an ordered record *)

(* Numbers up to n of which every larger one is there too are the last     *)
(* ones, as many as there are.                                             *)
LEMMA LastOnes ==
  ASSUME NEW n \in Nat, NEW I, I \subseteq 1 .. n,
         \A i \in I : \A j \in 1 .. n : i < j => j \in I
  PROVE  Cardinality(I) \in 0 .. n /\ I = n - Cardinality(I) + 1 .. n
<1> DEFINE c == Cardinality(I)
<1>1. IsFiniteSet(1 .. n) /\ Cardinality(1 .. n) = n
  BY FS_Interval
<1>2. IsFiniteSet(I) /\ c \in Nat /\ c <= n
  BY <1>1, FS_Subset, FS_CardinalityType
<1>3. ASSUME NEW i \in I PROVE i >= n - c + 1
  <2>1. i \in 1 .. n /\ i .. n \subseteq I
    OBVIOUS
  <2>2. Cardinality(i .. n) = n - i + 1 /\ Cardinality(i .. n) <= c
    BY <2>1, <1>2, FS_Interval, FS_Subset
  <2> HIDE DEF c
  <2> QED
    BY <2>1, <2>2, <1>2
<1>4. I \subseteq n - c + 1 .. n
  <2> HIDE DEF c
  <2> QED
    BY <1>2, <1>3
<1>5. IsFiniteSet(n - c + 1 .. n) /\ Cardinality(n - c + 1 .. n) = c
  <2> HIDE DEF c
  <2>1. n - c + 1 \in Int /\ n \in Int
    BY <1>2
  <2> QED
    BY <2>1, <1>2, FS_Interval
<1>6. I = n - c + 1 .. n
  BY <1>2, <1>4, <1>5, FS_Subset
<1>7. c \in 0 .. n
  <2> HIDE DEF c
  <2> QED
    BY <1>2
<1> QED
  BY <1>6, <1>7

(* The j-th of the last c numbers up to n. *)
LEMMA NthOfLast ==
  ASSUME NEW n \in Nat, NEW c \in 0 .. n, NEW j \in 1 .. c
  PROVE  Nth(n - c + 1 .. n, j) = n - c + j
<1> DEFINE I == n - c + 1 .. n
<1>1. ASSUME NEW i \in I PROVE Cardinality({h \in I : h <= i}) = i - (n - c)
  <2>1. {h \in I : h <= i} = n - c + 1 .. i
    OBVIOUS
  <2>2. n - c + 1 \in Int /\ i \in Int /\ ~(n - c + 1 > i)
    OBVIOUS
  <2>3. Cardinality(n - c + 1 .. i) = i - (n - c + 1) + 1
    BY <2>2, FS_Interval
  <2>4. Cardinality({h \in I : h <= i}) = i - (n - c + 1) + 1
    BY <2>1, <2>3
  <2> QED
    BY <2>2, <2>4
<1>2. n - c + j \in I
  OBVIOUS
<1>3. \A i \in I : Cardinality({h \in I : h <= i}) = j <=> i = n - c + j
  BY <1>1
<1> HIDE DEF I
<1> QED
  BY <1>2, <1>3 DEF Nth, I

(* What allow keeps of an ordered record is its end, and what it drops has *)
(* left the window.                                                        *)
LEMMA KeptIsTheEnd ==
  ASSUME NEW k \in Keys, events[k] \in Seq(Age), Ordered(events[k])
  PROVE  LET s == events[k]
             d == Len(s) - Len(Kept(k))
         IN  /\ Kept(k) \in Seq(Age) /\ d \in 0 .. Len(s)
             /\ \A j \in 1 .. Len(Kept(k)) : Kept(k)[j] = s[d + j] /\ s[d + j] < Window
             /\ \A j \in 1 .. d : s[j] = Window
<1> DEFINE s == events[k]
           n == Len(s)
           I == Counting(s)
           c == Cardinality(I)
<1>1. n \in Nat /\ \A i \in 1 .. n : s[i] \in Age
  BY LenProperties, ElementOfSeq
<1>2. \A i \in I : \A j \in 1 .. n : i < j => j \in I
  BY <1>1, LimiterAssumption DEF Ordered, Counting, Counts, Age
<1>3. c \in 0 .. n /\ I = n - c + 1 .. n
  <2>1. I \subseteq 1 .. n
    BY DEF Counting
  <2> HIDE DEF I, n
  <2> QED
    BY <2>1, <1>1, <1>2, LastOnes
<1>4. \A j \in 1 .. c : Nth(I, j) = n - c + j
  <2> HIDE DEF I, n, c
  <2> QED
    BY <1>1, <1>3, NthOfLast
<1>5. Kept(k) = [j \in 1 .. c |-> s[n - c + j]]
  <2>1. Kept(k) = [j \in 1 .. c |-> s[Nth(I, j)]]
    BY DEF Kept
  <2> HIDE DEF I, n, c
  <2> QED
    BY <2>1, <1>4
<1>6. \A j \in 1 .. c : n - c + j \in 1 .. n /\ n - c + j \in I
  <2> HIDE DEF I, n, c
  <2> QED
    BY <1>1, <1>3
<1>7. Kept(k) \in Seq(Age) /\ Len(Kept(k)) = c
  <2>1. Kept(k) \in [1 .. c -> Age]
    BY <1>1, <1>5, <1>6
  <2> QED
    BY <2>1, <1>3, IsASeq, LenProperties
<1>8. \A j \in 1 .. c : s[n - c + j] < Window
  BY <1>6 DEF Counting, Counts
<1>9. \A j \in 1 .. n - c : s[j] = Window
  <2> SUFFICES ASSUME NEW j \in 1 .. n - c PROVE s[j] = Window
    OBVIOUS
  <2>1. j \in 1 .. n /\ j \notin I
    <3> HIDE DEF I, n, c
    <3> QED
      BY <1>1, <1>3
  <2> QED
    BY <2>1, <1>1, LimiterAssumption DEF Counting, Counts, Age
<1>10. n - c \in 0 .. n
  BY <1>1, <1>3
<1> QED
  BY <1>5, <1>7, <1>8, <1>9, <1>10
-----------------------------------------------------------------------------
(* One lemma per action, for one address *)

(* What has no place in a record is as old as what left the window. *)
LEMMA NothingLeft ==
  ASSUME NEW s, NEW h, Agrees(s, h), \A i \in 1 .. Len(s) : s[i] = Window
  PROVE  Agrees(<<>>, h)
<1>1. Len(s) \in Nat /\ \A i \in 1 .. Len(s) : s[i] \in Age
  BY LenProperties, ElementOfSeq DEF Agrees
<1>2. \A j \in Places : h[j] = Window
  BY <1>1, LimiterAssumption DEF Agrees, Mirrors, Places
<1>3. <<>> \in Seq(Age) /\ Len(<<>>) = 0
  BY EmptySeq
<1> QED
  BY <1>2, <1>3, LimiterAssumption DEF Agrees, Mirrors, Ordered, Places

(* The end t of a record s, behind d items that have left the window. *)
EndOf(s, d, t) ==
  /\ t \in Seq(Age) /\ d \in 0 .. Len(s) /\ Len(t) = Len(s) - d
  /\ \A j \in 1 .. Len(t) : t[j] = s[d + j]
  /\ \A j \in 1 .. d : s[j] = Window

(* It is as good as the record, *)
LEMMA EndAgrees ==
  ASSUME NEW s, NEW h, Agrees(s, h), NEW d, NEW t, EndOf(s, d, t)
  PROVE  Agrees(t, h)
<1>1. Len(s) \in Nat /\ Len(t) \in Nat /\ \A i \in 1 .. Len(s) : s[i] \in Age
  BY LenProperties, ElementOfSeq DEF Agrees, EndOf
<1>2. Len(t) <= Limit /\ Ordered(t)
  <2>1. Len(t) <= Limit
    BY <1>1, LimiterAssumption DEF Agrees, EndOf
  <2>2. ASSUME NEW i \in 1 .. Len(t), NEW j \in 1 .. Len(t), i < j PROVE t[i] >= t[j]
    <3>1. /\ t[i] = s[d + i] /\ t[j] = s[d + j] /\ d + i < d + j
          /\ d + i \in 1 .. Len(s) /\ d + j \in 1 .. Len(s)
      BY <1>1, <2>2 DEF EndOf
    <3>2. s[d + i] >= s[d + j]
      BY <3>1 DEF Agrees, Ordered
    <3> QED
      BY <3>1, <3>2
  <2> QED
    BY <2>1, <2>2 DEF Ordered
<1>3. Mirrors(t, h)
  <2> SUFFICES ASSUME NEW j \in Places
               PROVE  h[j] = IF j <= Len(t) THEN t[Len(t) + 1 - j] ELSE Window
    BY DEF Mirrors
  <2>1. j \in Nat \ {0} /\ h[j] = IF j <= Len(s) THEN s[Len(s) + 1 - j] ELSE Window
    BY LimiterAssumption DEF Agrees, Mirrors, Places
  <2>2. CASE j <= Len(t)
    <3>1. Len(t) + 1 - j \in 1 .. Len(t) /\ d + (Len(t) + 1 - j) = Len(s) + 1 - j /\ j <= Len(s)
      BY <1>1, <2>1, <2>2 DEF EndOf
    <3>2. t[Len(t) + 1 - j] = s[d + (Len(t) + 1 - j)]
      BY <3>1 DEF EndOf
    <3> QED
      BY <2>1, <2>2, <3>1, <3>2
  <2>3. CASE ~(j <= Len(t)) /\ j <= Len(s)
    <3>1. Len(s) + 1 - j \in 1 .. d
      BY <1>1, <2>1, <2>3 DEF EndOf
    <3> QED
      BY <2>1, <2>3, <3>1 DEF EndOf
  <2>4. CASE ~(j <= Len(s))
    BY <1>1, <2>1, <2>4 DEF EndOf
  <2> QED
    BY <2>2, <2>3, <2>4
<1> QED
  BY <1>2, <1>3 DEF Agrees, EndOf

(* and takes another call if there is room. *)
LEMMA CallAgrees ==
  ASSUME NEW s, NEW h, Agrees(s, h), Len(s) < Limit
  PROVE  Agrees(Append(s, 0), [j \in Places |-> IF j = 1 THEN 0 ELSE h[j - 1]])
<1> DEFINE t == Append(s, 0)
           g == [j \in Places |-> IF j = 1 THEN 0 ELSE h[j - 1]]
<1>1. Len(s) \in Nat /\ 0 \in Age /\ \A i \in 1 .. Len(s) : s[i] \in Age
  BY LenProperties, ElementOfSeq, LimiterAssumption DEF Agrees, Age
<1>2. /\ t \in Seq(Age) /\ Len(t) = Len(s) + 1
      /\ \A i \in 1 .. Len(s) : t[i] = s[i]
      /\ t[Len(s) + 1] = 0
  BY <1>1, AppendProperties DEF Agrees
<1>3. \A j \in Places : g[j] = IF j = 1 THEN 0 ELSE h[j - 1]
  OBVIOUS
<1>4. g \in [Places -> Age]
  BY <1>1, LimiterAssumption DEF Agrees, Places
<1> HIDE DEF t, g
<1>5. Len(t) <= Limit /\ Ordered(t)
  <2>1. Len(t) <= Limit
    BY <1>1, <1>2, LimiterAssumption
  <2>2. ASSUME NEW i \in 1 .. Len(t), NEW j \in 1 .. Len(t), i < j PROVE t[i] >= t[j]
    <3>1. i \in 1 .. Len(s) /\ t[i] = s[i] /\ s[i] >= 0
      BY <1>1, <1>2, <2>2 DEF Age
    <3>2. CASE j = Len(t)
      BY <1>2, <3>1, <3>2
    <3>3. CASE j # Len(t)
      <4>1. j \in 1 .. Len(s)
        BY <1>1, <1>2, <3>3
      <4> QED
        BY <1>2, <2>2, <3>1, <4>1 DEF Agrees, Ordered
    <3> QED
      BY <3>2, <3>3
  <2> QED
    BY <2>1, <2>2 DEF Ordered
<1>6. Mirrors(t, g)
  <2> SUFFICES ASSUME NEW j \in Places
               PROVE  g[j] = IF j <= Len(t) THEN t[Len(t) + 1 - j] ELSE Window
    BY DEF Mirrors
  <2>1. CASE j = 1
    BY <1>1, <1>2, <1>3, <2>1
  <2>2. CASE j # 1
    <3>1. j - 1 \in Places /\ j \in Nat
      BY <2>2, LimiterAssumption DEF Places
    <3>2. g[j] = IF j - 1 <= Len(s) THEN s[Len(s) + 1 - (j - 1)] ELSE Window
      BY <1>3, <2>2, <3>1 DEF Agrees, Mirrors
    <3> QED
      BY <1>1, <1>2, <2>2, <3>1, <3>2, LimiterAssumption DEF Places
  <2> QED
    BY <2>1, <2>2
<1> QED
  BY <1>2, <1>4, <1>5, <1>6 DEF Agrees, t, g

(* Both grow older alike. *)
LEMMA OlderAgrees ==
  ASSUME NEW s, NEW h, Agrees(s, h)
  PROVE  Agrees([i \in 1 .. Len(s) |-> Older(s[i])], [j \in Places |-> Older(h[j])])
<1> DEFINE t == [i \in 1 .. Len(s) |-> Older(s[i])]
           g == [j \in Places |-> Older(h[j])]
<1>1. Len(s) \in Nat /\ \A i \in 1 .. Len(s) : s[i] \in Age
  BY LenProperties, ElementOfSeq DEF Agrees
<1>2. \A a \in Age : Older(a) \in Age
  BY LimiterAssumption DEF Age, Older
<1>3. \A a, b \in Age : a >= b => Older(a) >= Older(b)
  BY LimiterAssumption DEF Age, Older
<1>4. Older(Window) = Window
  BY LimiterAssumption DEF Older
<1>5. t \in Seq(Age) /\ Len(t) = Len(s)
  <2>1. t \in [1 .. Len(s) -> Age]
    BY <1>1, <1>2
  <2> QED
    BY <1>1, <2>1, IsASeq, LenProperties
<1>6. g \in [Places -> Age]
  BY <1>2 DEF Agrees
<1>7. /\ \A i \in 1 .. Len(s) : t[i] = Older(s[i])
      /\ \A j \in Places : g[j] = Older(h[j])
  OBVIOUS
<1> HIDE DEF t, g
<1>8. Len(t) <= Limit /\ Ordered(t)
  BY <1>1, <1>3, <1>5, <1>7 DEF Agrees, Ordered
<1>9. Mirrors(t, g)
  <2> SUFFICES ASSUME NEW j \in Places
               PROVE  g[j] = IF j <= Len(t) THEN t[Len(t) + 1 - j] ELSE Window
    BY DEF Mirrors
  <2>1. j \in Nat \ {0}
    BY LimiterAssumption DEF Places
  <2> QED
    BY <1>1, <1>4, <1>5, <1>7, <2>1 DEF Agrees, Mirrors
<1> QED
  BY <1>5, <1>6, <1>8, <1>9 DEF Agrees, t, g

-----------------------------------------------------------------------------
(* The invariant, and what it says of each run. *)

(* It holds at the start, *)
LEMMA InitIInv == Init => IInv
<1> SUFFICES ASSUME Init, NEW k \in Keys PROVE Agrees(events[k], admitted[k])
  BY DEF Init, IInv
<1>1. <<>> \in Seq(Age) /\ Len(<<>>) = 0
  BY EmptySeq
<1>2. events[k] = <<>> /\ admitted[k] = [j \in Places |-> Window]
  BY DEF Init
<1> QED
  BY <1>1, <1>2, LimiterAssumption DEF Agrees, Mirrors, Ordered, Places, Age

(* What allow keeps is such an end. *)
LEMMA KeptIsAnEnd ==
  ASSUME IInv, NEW k \in Keys
  PROVE  \E d : EndOf(events[k], d, Kept(k))
<1>1. events[k] \in Seq(Age) /\ Ordered(events[k])
  BY DEF IInv, Agrees
<1>2. Len(events[k]) \in Nat /\ Len(Kept(k)) \in Nat
  BY <1>1, KeptIsTheEnd, LenProperties
<1>3. EndOf(events[k], Len(events[k]) - Len(Kept(k)), Kept(k))
  BY <1>1, <1>2, KeptIsTheEnd DEF EndOf
<1> QED
  BY <1>3

(* and every step keeps it. *)
LEMMA NextIInv == IInv /\ [Next]_vars => IInv'
<1> SUFFICES ASSUME IInv, [Next]_vars PROVE IInv'
  OBVIOUS
<1>1. ASSUME NEW k \in Keys PROVE Agrees(Kept(k), admitted[k])
  BY KeptIsAnEnd, EndAgrees DEF IInv
<1>2. ASSUME NEW k \in Keys, Allow(k) PROVE IInv'
  <2>1. Agrees(Append(Kept(k), 0), [j \in Places |-> IF j = 1 THEN 0 ELSE admitted[k][j - 1]])
    BY <1>1, <1>2, CallAgrees DEF Allow
  <2> QED
    BY <1>2, <2>1 DEF IInv, Allow
<1>3. ASSUME NEW k \in Keys, Refuse(k) PROVE IInv'
  BY <1>1, <1>3 DEF IInv, Refuse
<1>4. CASE Sweep
  <2> SUFFICES ASSUME NEW k \in Keys PROVE Agrees(events'[k], admitted'[k])
    BY <1>4 DEF IInv, Sweep
  <2>1. events'[k] = (IF Forgotten(k) THEN <<>> ELSE events[k]) /\ admitted'[k] = admitted[k]
    BY <1>4 DEF Sweep
  <2>2. CASE ~Forgotten(k)
    BY <2>1, <2>2 DEF IInv
  <2>3. CASE Forgotten(k)
    <3> DEFINE s == events[k]
    <3>1. /\ Agrees(s, admitted[k]) /\ Len(s) \in Nat
          /\ \A i \in 1 .. Len(s) : s[i] \in Age
      BY LenProperties, ElementOfSeq DEF IInv, Agrees
    <3>2. \A i \in 1 .. Len(s) : s[i] = Window
      <4>1. CASE s = <<>>
        BY <4>1, EmptySeq
      <4>2. CASE ~Counts(s[Len(s)])
        <5>1. \A i \in 1 .. Len(s) : Len(s) \in 1 .. Len(s) /\ s[i] >= s[Len(s)]
          BY <3>1 DEF Agrees, Ordered, Age
        <5> QED
          BY <3>1, <4>2, <5>1, LimiterAssumption DEF Counts, Age
      <4> QED
        BY <2>3, <4>1, <4>2 DEF Forgotten
    <3> QED
      BY <2>1, <2>3, <3>1, <3>2, NothingLeft
  <2> QED
    BY <2>2, <2>3
<1>5. CASE Tick
  <2> SUFFICES ASSUME NEW k \in Keys PROVE Agrees(events'[k], admitted'[k])
    BY <1>5 DEF IInv, Tick
  <2>1. /\ events'[k] = [i \in 1 .. Len(events[k]) |-> Older(events[k][i])]
        /\ admitted'[k] = [j \in Places |-> Older(admitted[k][j])]
    BY <1>5 DEF Tick
  <2> QED
    BY <2>1, OlderAgrees DEF IInv
<1>6. CASE UNCHANGED vars
  BY <1>6 DEF IInv, vars
<1> QED
  BY <1>2, <1>3, <1>4, <1>5, <1>6 DEF Next

(* It is kept for ever. *)
LEMMA AlwaysIInv == Spec => []IInv
BY InitIInv, NextIInv, PTL DEF Spec

(* The record never holds more calls than the limit, so the one before the *)
(* last Limit calls has left the window: whatever refused attempts and     *)
(* sweeps prune, no address gets more joins through in a window.           *)
THEOREM LimitHolds == Spec => []WindowHolds
<1>1. IInv => WindowHolds
  <2> SUFFICES ASSUME IInv, NEW k \in Keys PROVE Recent(k) <= Limit
    BY DEF WindowHolds
  <2> DEFINE R == {j \in Places : admitted[k][j] < Window}
  <2>1. Agrees(events[k], admitted[k]) /\ Len(events[k]) \in Nat
    BY LenProperties DEF IInv, Agrees
  <2>2. R \subseteq 1 .. Limit
    BY <2>1, LimiterAssumption DEF Agrees, Mirrors, Places
  <2>3. IsFiniteSet(1 .. Limit) /\ Cardinality(1 .. Limit) = Limit
    BY LimiterAssumption, FS_Interval
  <2> QED
    BY <2>2, <2>3, FS_Subset DEF Recent
<1> QED
  BY <1>1, AlwaysIInv, PTL

(* If allow keeps as many calls as the limit, none has been dropped, and   *)
(* the last Limit calls were all made in the window: no address is refused *)
(* for attempts that were refused, nor for those of another.               *)
THEOREM RefusalsStayEarned == Spec => []RefusalsAreEarned
<1>1. IInv => RefusalsAreEarned
  <2> SUFFICES ASSUME IInv, NEW k \in Keys, Len(Kept(k)) >= Limit
               PROVE  Recent(k) >= Limit
    BY DEF RefusalsAreEarned
  <2> DEFINE R == {j \in Places : admitted[k][j] < Window}
             s == events[k]
  <2>1. Agrees(s, admitted[k]) /\ Len(s) \in Nat
    BY LenProperties DEF IInv, Agrees
  <2>2. Len(Kept(k)) \in Nat /\ Len(s) - Len(Kept(k)) \in 0 .. Len(s)
    BY <2>1, KeptIsTheEnd, LenProperties DEF Agrees
  <2>3. Len(Kept(k)) = Limit /\ Len(s) = Limit
    BY <2>1, <2>2, LimiterAssumption DEF Agrees
  <2>4. \A j \in 1 .. Limit : s[j] < Window
    <3>1. \A j \in 1 .. Len(Kept(k)) : s[Len(s) - Len(Kept(k)) + j] < Window
      BY <2>1, KeptIsTheEnd DEF Agrees
    <3> QED
      BY <2>3, <3>1, LimiterAssumption
  <2>5. 1 .. Limit \subseteq R
    BY <2>1, <2>3, <2>4, LimiterAssumption DEF Agrees, Mirrors, Places
  <2>6. IsFiniteSet(Places)
    BY LimiterAssumption, FS_Interval DEF Places
  <2>7. IsFiniteSet(R) /\ Cardinality(R) \in Nat
    BY <2>6, FS_Subset, FS_CardinalityType
  <2>8. Cardinality(1 .. Limit) = Limit
    BY LimiterAssumption, FS_Interval
  <2> QED
    BY <2>5, <2>7, <2>8, FS_Subset, LimiterAssumption DEF Recent
<1> QED
  BY <1>1, AlwaysIInv, PTL
=============================================================================
