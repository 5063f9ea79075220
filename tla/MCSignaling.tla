----------------------------- MODULE MCSignaling -----------------------------
(* Small instances of Signaling for TLC. *)
EXTENDS Signaling, TLC

SessionSymmetry == Permutations(Sessions)

(* Where only some sessions may create: symmetry among the others. *)
LaterSymmetry == Permutations(Sessions \ Creators)

(* What AttachRefused makes of a session before anything else happens: one *)
(* that takes no part.                                                     *)
Refused(s) == [NotConnected(s) EXCEPT !.main = "over", !.bus = "over", !.writer = "over",
                                      !.socket = "closed"]

(* Where sockets fail, one of the later sessions takes no part. *)
LiveInit ==
  /\ Store!Init /\ BusInit /\ events \in EventSets
  /\ \E refused \in SUBSET (Sessions \ Creators) :
       /\ Cardinality(refused) = IF "failure" \in events THEN 1 ELSE 0
       /\ session = [s \in Sessions |-> IF s \in refused THEN Refused(s) ELSE NotConnected(s)]

LiveSpec == LiveInit /\ [][Next]_vars /\ Fairness
=============================================================================
