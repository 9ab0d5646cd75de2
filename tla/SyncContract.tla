---------------------------- MODULE SyncContract ----------------------------
(***************************************************************************)
(* What the offline queue of src/cloud/sync.py promises its caller, with   *)
(* no network, no server and no processes in it: a change handed to the    *)
(* queue leaves it only once the server has stored that change or a later  *)
(* version of the same record by the same technician's device.             *)
(*                                                                         *)
(* A change is a triple <<c, r, v>>: version v of record r, as written on  *)
(* client c.  CloudSync implements this module under the mapping given     *)
(* there.                                                                  *)
(***************************************************************************)
EXTENDS Naturals

CONSTANTS Client, Record, Version

VARIABLES
  promised,   \* changes ever put on a client's outbound queue
  outbox,     \* changes still on it
  stored      \* changes the server has committed at some time

vars == <<promised, outbox, stored>>

Change == Client \X Record \X Version

(* b is the same record by the same client as a, at a version not older. *)
Covers(b, a) == b[1] = a[1] /\ b[2] = a[2] /\ b[3] >= a[3]

Init == promised = {} /\ outbox = {} /\ stored = {}

Promise(a) == /\ a \notin promised
              /\ promised' = promised \cup {a}
              /\ outbox' = outbox \cup {a}
              /\ UNCHANGED stored

(* The server may store a change before it is promised (its record was     *)
(* read for an older queue item) and more than once (a retry).             *)
Store(a) == /\ stored' = stored \cup {a}
            /\ UNCHANGED <<promised, outbox>>

Settle(a) == /\ a \in outbox
             /\ \E b \in stored : Covers(b, a)
             /\ outbox' = outbox \ {a}
             /\ UNCHANGED <<promised, stored>>

Next == \E a \in Change : Promise(a) \/ Store(a) \/ Settle(a)

Spec == Init /\ [][Next]_vars

(* No promised change is lost: it is still queued, or the server has it or *)
(* a newer version of it.                                                  *)
NothingLost ==
  \A a \in promised : a \in outbox \/ \E b \in stored : Covers(b, a)
=============================================================================
