---------------------------- MODULE MCFlashSession ----------------------------
(* Instances of FlashSession for TLC. *)
EXTENDS FlashSession

(* A check that reports a missing reading, and the one that cannot. *)
TwoChecks == {"battery_voltage", "blocking_dtcs"}

(* Two images, one longer than the other. *)
TwoImages == {"stock", "tuned"}
ThreeAndTwo == [stock |-> 3, tuned |-> 2]
TwoAndOne == [stock |-> 2, tuned |-> 1]
=============================================================================
