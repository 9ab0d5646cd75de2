----------------------------- MODULE FlashSession -----------------------------
(***************************************************************************)
(* The ECU flashing engine, src/flashing/engine.py, with the checklist     *)
(* that gates it, src/flashsafe/checklist.py, and the way the GM plugin    *)
(* drives both, plugins/gm/plugin.py.                                      *)
(*                                                                         *)
(* One process at a time flashes one ECU.  It can die between any two      *)
(* steps; what survives is the checkpoint file and the memory of the ECU.  *)
(* The engine leaves the transport to others: the memory is what its phase *)
(* sequence does to an ECU that obeys it.  The blocks of an image are in   *)
(* the order of their indices, block i of any image at the i-th region;    *)
(* images differ in length.                                                *)
(***************************************************************************)
EXTENDS Integers

CONSTANTS
  Check,     \* the names of the checks
  DtcCheck,  \* the one of them that looks for blocking DTCs
  Image,     \* what can be flashed
  Size,      \* how many blocks each image has
  MaxSent    \* bound: blocks counted by one session object

ASSUME ChecksOK == DtcCheck \in Check
ASSUME SizesOK == Size \in [Image -> Nat] /\ MaxSent \in Nat

VARIABLES
  checklist,   \* results of the technician's checklist, Unevaluated at first
  session,     \* how the session object at hand was constructed
  phase,       \* progress.state
  blocks_sent, \* progress.blocks_sent
  pc,          \* where start() is
  run,         \* the call of start(): its image, start index and next block
  checkpoint,  \* the checkpoint file
  memory,      \* external: the ECU's regions
  confirmed    \* history: blocks transferred since memory was as delivered

vars == <<checklist, session, phase, blocks_sent, pc, run, checkpoint, memory, confirmed>>

BlocksOf(image) == 0..(Size[image] - 1)

Block == UNION {BlocksOf(image) : image \in Image}

(* Where a run can stand and what a checkpoint can say: at the first block, *)
(* or after a block of some image.                                          *)
Index == {0} \union {b + 1 : b \in Block}

Unevaluated == <<>>
Absent == -1
Torn   == -2

(* Which session object: with its own checklist, as the plugin makes it,   *)
(* or the technician's; with a licensed provider; with a checkpoint path.  *)
Session == [own : BOOLEAN, licensed : BOOLEAN, keeps : BOOLEAN]

Fresh == [own |-> FALSE, licensed |-> FALSE, keeps |-> FALSE]

Init ==
  /\ checklist = Unevaluated
  /\ session = Fresh /\ phase = "IDLE" /\ blocks_sent = 0
  /\ pc = "idle" /\ run \in [image : Image, start : {0}, next : {0}]
  /\ checkpoint = Absent
  /\ memory = [b \in Block |-> "factory"]
  /\ confirmed = {}

durable == <<checkpoint, memory, confirmed>>

-----------------------------------------------------------------------------
(* FlashSafeChecklist.                                                     *)

(* What the telemetry says of each check.  A reading that is missing makes *)
(* a check UNKNOWN, except that no DTCs read is no DTCs.                   *)
Reading == [Check -> {"good", "bad", "missing"}]

Status(c, reading) ==
  IF reading = "good" THEN "PASS"
  ELSE IF reading = "bad" THEN "FAIL"
  ELSE IF c = DtcCheck THEN "PASS" ELSE "UNKNOWN"

Evaluate(reading) ==
  /\ pc = "idle"
  /\ checklist' = [c \in Check |-> Status(c, reading[c])]
  /\ UNCHANGED <<session, phase, blocks_sent, pc, run, durable>>

Clear(results) == results # Unevaluated /\ \A c \in Check : results[c] = "PASS"

(* Faulty variant of AllClear: a checklist nobody evaluated is clear. *)
AllClearVacuous == checklist = Unevaluated \/ Clear(checklist)

(* all_clear of the session's checklist; the plugin's is never evaluated.  *)
AllClear == ~session.own /\ Clear(checklist)

-----------------------------------------------------------------------------
(* FlashSession.                                                           *)

NewSession(licensed, keeps) ==
  /\ pc = "idle"
  /\ session' = [own |-> FALSE, licensed |-> licensed, keeps |-> keeps]
  /\ phase' = "IDLE" /\ blocks_sent' = 0
  /\ UNCHANGED <<checklist, pc, run, durable>>

(* start() on a checklist that is not clear: FlashSafeAbort.               *)
Refuse ==
  /\ pc = "idle" /\ ~AllClear
  /\ phase' = "FAILED"
  /\ UNCHANGED <<checklist, session, blocks_sent, pc, run, durable>>

(* Faulty variant of StartIndex: a torn file is read as it is. *)
StartIndexUnguarded(resume) == IF resume /\ session.keeps /\ checkpoint # Absent
                               THEN checkpoint ELSE 0

(* _load_checkpoint: a missing or a torn file counts for no progress, and  *)
(* one that is whole is taken as it is: it does not say which image it is  *)
(* of, so it may lie past the end of the one at hand.                      *)
StartIndex(resume) ==
  IF resume /\ session.keeps /\ checkpoint >= 0 THEN checkpoint ELSE 0

(* Reading the file raises something else than JSONDecodeError, outside    *)
(* the try of start(): the state stays CHECKLIST.                          *)
LoadFails ==
  /\ pc = "idle" /\ AllClear
  /\ session.keeps /\ checkpoint # Absent
  /\ phase' = "CHECKLIST"
  /\ UNCHANGED <<checklist, session, blocks_sent, pc, run, durable>>

(* start() up to the security handshake.                                   *)
Start(image, resume) ==
  /\ pc = "idle" /\ AllClear
  /\ blocks_sent + Size[image] <= MaxSent
  /\ run' = [image |-> image, start |-> StartIndex(resume), next |-> StartIndex(resume)]
  /\ phase' = "SECURITY_ACCESS" /\ pc' = "security"
  /\ UNCHANGED <<checklist, session, blocks_sent, durable>>

(* An exception inside start().                                            *)
Fail ==
  /\ phase' = "FAILED" /\ pc' = "idle"
  /\ UNCHANGED <<checklist, session, blocks_sent, run, memory, confirmed>>

DenySecurity ==
  /\ pc = "security" /\ ~session.licensed
  /\ Fail
  /\ UNCHANGED checkpoint

(* _erase: the regions of all the blocks of the image, also of those a     *)
(* resumed run will not send.                                              *)
Erase ==
  /\ pc = "security" /\ session.licensed
  /\ memory' = [b \in Block |-> IF b \in BlocksOf(run.image) THEN "erased" ELSE memory[b]]
  /\ phase' = "ERASE" /\ pc' = "transfer"
  /\ UNCHANGED <<checklist, session, blocks_sent, run, checkpoint, confirmed>>

(* One turn of the loop over blocks[start_index:], a slice that is empty   *)
(* when the index is past the end.                                         *)
SendBlock ==
  /\ pc = "transfer" /\ run.next < Size[run.image]
  /\ memory' = [memory EXCEPT ![run.next] = run.image]
  /\ confirmed' = confirmed \union {run.next}
  /\ blocks_sent' = blocks_sent + 1
  /\ phase' = "TRANSFER"
  /\ pc' = IF session.keeps THEN "save" ELSE pc
  /\ run' = IF session.keeps THEN run ELSE [run EXCEPT !.next = @ + 1]
  /\ UNCHANGED <<checklist, session, checkpoint>>

(* _save_checkpoint opens the file, which empties it ...                   *)
Truncate ==
  /\ pc = "save"
  /\ checkpoint' = Torn
  /\ pc' = "write"
  /\ UNCHANGED <<checklist, session, phase, blocks_sent, run, memory, confirmed>>

(* Faulty variant of Save: the count starts at one already. *)
SaveOneAhead ==
  /\ pc = "write"
  /\ checkpoint' = run.next + 2
  /\ run' = [run EXCEPT !.next = @ + 1]
  /\ pc' = "transfer"
  /\ UNCHANGED <<checklist, session, phase, blocks_sent, memory, confirmed>>

(* ... and then writes the next block's index.                             *)
Save ==
  /\ pc = "write"
  /\ checkpoint' = run.next + 1
  /\ run' = [run EXCEPT !.next = @ + 1]
  /\ pc' = "transfer"
  /\ UNCHANGED <<checklist, session, phase, blocks_sent, memory, confirmed>>

(* Either can raise, the disk being full, say.                             *)
SaveFails ==
  /\ pc \in {"save", "write"}
  /\ Fail
  /\ UNCHANGED checkpoint

(* Faulty variant of Complete: the last block is not waited for. *)
CompleteEarly ==
  /\ pc = "transfer" /\ run.next >= Size[run.image] - 1
  /\ phase' = "COMPLETE" /\ pc' = "clear"
  /\ UNCHANGED <<checklist, session, blocks_sent, run, durable>>

(* _verify changes nothing but the state, and then the flash is complete.  *)
Complete ==
  /\ pc = "transfer" /\ run.next >= Size[run.image]
  /\ phase' = "COMPLETE" /\ pc' = "clear"
  /\ UNCHANGED <<checklist, session, blocks_sent, run, durable>>

ClearCheckpoint ==
  /\ pc = "clear"
  /\ checkpoint' = IF session.keeps THEN Absent ELSE checkpoint
  /\ pc' = "idle"
  /\ UNCHANGED <<checklist, session, phase, blocks_sent, run, memory, confirmed>>

(* The file cannot be removed: a complete flash is reported as FAILED.     *)
ClearFails ==
  /\ pc = "clear" /\ session.keeps /\ checkpoint # Absent
  /\ Fail
  /\ UNCHANGED checkpoint

EnterRecovery ==
  /\ pc = "idle"
  /\ phase' = "RECOVERY"
  /\ UNCHANGED <<checklist, session, blocks_sent, pc, run, durable>>

(* The GM plugin's execute_flash: a session of its own on a checklist of   *)
(* its own, which start() finds unevaluated.  recover_flash is the same    *)
(* construction with enter_recovery.                                       *)
Plugin(state) ==
  /\ pc = "idle"
  /\ \E licensed \in BOOLEAN :
       session' = [own |-> TRUE, licensed |-> licensed, keeps |-> FALSE]
  /\ phase' = state /\ blocks_sent' = 0
  /\ UNCHANGED <<checklist, pc, run, durable>>

ExecuteFlash == Plugin("FAILED")

RecoverFlash == Plugin("RECOVERY")

(* The process dies, or the power goes.                                    *)
Crash ==
  /\ checklist' = Unevaluated
  /\ session' = Fresh /\ phase' = "IDLE" /\ blocks_sent' = 0
  /\ pc' = "idle"
  /\ UNCHANGED <<run, durable>>

Next ==
  \/ \E reading \in Reading : Evaluate(reading)
  \/ \E licensed, keeps \in BOOLEAN : NewSession(licensed, keeps)
  \/ Refuse
  \/ \E image \in Image, resume \in BOOLEAN : Start(image, resume)
  \/ LoadFails
  \/ DenySecurity \/ Erase \/ SendBlock
  \/ Truncate \/ Save \/ SaveFails
  \/ Complete \/ ClearCheckpoint \/ ClearFails
  \/ EnterRecovery \/ ExecuteFlash \/ RecoverFlash
  \/ Crash

Spec == Init /\ [][Next]_vars

-----------------------------------------------------------------------------
Phase == {"IDLE", "CHECKLIST", "SECURITY_ACCESS", "ERASE", "TRANSFER",
          "COMPLETE", "FAILED", "RECOVERY"}

(* The variables have their types: a run stands, and a checkpoint points,  *)
(* after a block of some image, which need not be the image of the run     *)
(* (_save_checkpoint, _load_checkpoint).                                   *)
TypeOK ==
  /\ checklist \in {Unevaluated} \union [Check -> {"PASS", "FAIL", "UNKNOWN"}]
  /\ session \in Session
  /\ phase \in Phase
  /\ blocks_sent \in Nat
  /\ pc \in {"idle", "security", "transfer", "save", "write", "clear"}
  /\ run \in [image : Image, start : Index, next : Index]
  /\ checkpoint \in {Absent, Torn} \union Index
  /\ memory \in [Block -> Image \union {"factory", "erased"}]
  /\ confirmed \in SUBSET Block

(* The checkpoint never runs ahead of the transfer: whatever crashes, and  *)
(* however often the run is resumed, each region below the saved index has *)
(* been sent a block, of the image at hand or of another one (_transfer    *)
(* 166-170, _load_checkpoint 207-213).                                     *)
CheckpointBehindTransfer == \A b \in Block : b < checkpoint => b \in confirmed

(* A session that reports COMPLETE has written every block of its image    *)
(* from its start index on: the whole image if the run started at 0, for   *)
(* want of a usable checkpoint or because resume is off, and nothing at    *)
(* all if the index was that of a longer image (start 125-135).            *)
CompleteFromStart ==
  phase = "COMPLETE" =>
    \A b \in BlocksOf(run.image) : b >= run.start => memory[b] = run.image

(* Memory is touched only by a session with a licensed provider whose      *)
(* checklist is clear at that very moment (start 115-120, _security_access *)
(* 152-156).                                                               *)
TouchedOnlyWhenClear ==
  [][memory' # memory => session.licensed /\ ~session.own /\ Clear(checklist)]_vars

(* What the class says of itself, "resume-safe" (engine.py 87): a COMPLETE *)
(* session leaves its image in the ECU, resumed or not.                    *)
CompleteMeansWritten ==
  phase = "COMPLETE" => \A b \in BlocksOf(run.image) : memory[b] = run.image
=============================================================================
