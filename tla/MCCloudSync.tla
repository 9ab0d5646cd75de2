----------------------------- MODULE MCCloudSync -----------------------------
(* Instances of CloudSync for TLC. *)
EXTENDS CloudSync, TLC

(* The clocks agree. *)
NoSkew == [c \in Client |-> 0]

(* One device's clock is ahead of the server's. *)
FirstAhead == LET fast == CHOOSE c \in Client : TRUE
              IN  [c \in Client |-> IF c = fast THEN 1 ELSE 0]

RecordSymmetry == Permutations(Record)
=============================================================================
