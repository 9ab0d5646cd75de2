-------------------------- MODULE FlashSessionProofs --------------------------
(***************************************************************************)
(* What holds of the flashing engine for any set of checks and images and  *)
(* images of any lengths.                                                  *)
(***************************************************************************)
EXTENDS FlashSession, TLAPS

(* While start() is past its guards the session has the checklist it was   *)
(* let in on, and past the handshake the provider too: nothing is          *)
(* evaluated or constructed in between.                                    *)
Admitted ==
  /\ pc # "idle" => ~session.own /\ Clear(checklist)
  /\ pc \notin {"idle", "security"} => session.licensed

(* Every block below the next one to be sent has been transferred, by this *)
(* run or by the one it resumes.                                           *)
RunBehindTransfer ==
  /\ pc # "idle" => \A b \in Block : b < run.next => b \in confirmed
  /\ pc \in {"save", "write"} => run.next \in BlocksOf(run.image) /\ run.next \in confirmed

(* The run at hand has written what lies between its start index and its   *)
(* next block.                                                             *)
RunWritten ==
  /\ pc \in {"transfer", "save", "write"} =>
       \A b \in Block : run.start <= b /\ b < run.next => memory[b] = run.image
  /\ pc \in {"save", "write"} => memory[run.next] = run.image

(* When the handshake is made no block has been passed.                    *)
StartsTogether == pc = "security" => run.next = run.start

(* A session is complete only once the loop is over.                       *)
CompleteAtEnd ==
  /\ phase = "COMPLETE" => pc \in {"clear", "idle"}
  /\ CompleteFromStart

FlashInv == /\ TypeOK /\ Admitted /\ CheckpointBehindTransfer
            /\ RunBehindTransfer /\ StartsTogether /\ RunWritten /\ CompleteAtEnd

-----------------------------------------------------------------------------
(* Blocks and the places between them are numbered from 0.                 *)
LEMMA BlocksAreNumbers ==
  /\ Block \subseteq Nat /\ Index \subseteq Nat /\ 0 \in Index
  /\ \A image \in Image : /\ Size[image] \in Nat
                          /\ BlocksOf(image) \subseteq Block
                          /\ \A b \in BlocksOf(image) : b + 1 \in Index
<1>1. \A image \in Image : Size[image] \in Nat
  BY SizesOK
<1>2. \A image \in Image : BlocksOf(image) \subseteq Nat /\ BlocksOf(image) \subseteq Block
  BY <1>1 DEF BlocksOf, Block
<1>3. Block \subseteq Nat
  BY <1>2 DEF Block
<1> QED BY <1>1, <1>2, <1>3 DEF Index

(* The initial states satisfy the invariant.                               *)
LEMMA InitFlashInv == Init => FlashInv
<1>1. SUFFICES ASSUME Init PROVE FlashInv
  OBVIOUS
<1>2. TypeOK
  BY <1>1, BlocksAreNumbers DEF Init, TypeOK, Session, Fresh, Phase, Unevaluated
<1>3. Admitted /\ RunBehindTransfer /\ StartsTogether /\ RunWritten
  BY <1>1 DEF Init, Admitted, RunBehindTransfer, StartsTogether, RunWritten
<1>4. CheckpointBehindTransfer
  BY <1>1, BlocksAreNumbers DEF Init, CheckpointBehindTransfer, Absent
<1>5. CompleteAtEnd
  BY <1>1 DEF Init, CompleteAtEnd, CompleteFromStart
<1> QED BY <1>2, <1>3, <1>4, <1>5 DEF FlashInv

(* So is where a run stands.                                               *)
LEMMA RunsAreNumbers ==
  ASSUME TypeOK
  PROVE  /\ run.start \in Nat /\ run.next \in Nat
         /\ run.image \in Image /\ Size[run.image] \in Nat
<1>1. run.start \in Index /\ run.next \in Index /\ run.image \in Image
  BY DEF TypeOK
<1> QED BY <1>1, BlocksAreNumbers

(* What is below the next block, once it is passed, was or is that block.  *)
LEMMA BelowOrAt ==
  ASSUME NEW b \in Block, NEW n \in Nat, b < n + 1
  PROVE  b < n \/ b = n
<1>1. b \in Nat
  BY BlocksAreNumbers
<1> QED BY <1>1

(* What _load_checkpoint returns is a place after a block of some image,   *)
(* and no block below it is untransferred.                                 *)
LEMMA StartIndexSafe ==
  ASSUME TypeOK, CheckpointBehindTransfer, NEW resume \in BOOLEAN
  PROVE  /\ StartIndex(resume) \in Index
         /\ \A b \in Block : b < StartIndex(resume) => b \in confirmed
<1>1. StartIndex(resume) \in {0, checkpoint} /\ StartIndex(resume) >= 0
  BY BlocksAreNumbers DEF StartIndex, TypeOK, Absent, Torn
<1>2. checkpoint >= 0 => checkpoint \in Index
  BY DEF TypeOK, Absent, Torn
<1> QED BY <1>1, <1>2, BlocksAreNumbers DEF CheckpointBehindTransfer

(* No step spoils the types.  What is saved comes after a block of the     *)
(* image at hand.                                                          *)
LEMMA NextTypeOK == FlashInv /\ [Next]_vars => TypeOK'
<1> SUFFICES ASSUME FlashInv, [Next]_vars PROVE TypeOK'
  OBVIOUS
<1> USE BlocksAreNumbers DEF FlashInv, TypeOK, durable, Phase
<1>1. CASE \E reading \in Reading : Evaluate(reading)
  BY <1>1 DEF Evaluate, Status
<1>2. CASE \E licensed, keeps \in BOOLEAN : NewSession(licensed, keeps)
  BY <1>2 DEF NewSession, Session
<1>3. CASE Refuse
  BY <1>3 DEF Refuse
<1>4. CASE \E image \in Image, resume \in BOOLEAN : Start(image, resume)
  <2>1. PICK image \in Image, resume \in BOOLEAN : Start(image, resume)
    BY <1>4
  <2>2. StartIndex(resume) \in Index
    BY StartIndexSafe
  <2> QED BY <2>1, <2>2 DEF Start
<1>5. CASE DenySecurity
  BY <1>5 DEF DenySecurity, Fail
<1>6. CASE Erase
  BY <1>6 DEF Erase
<1>7. CASE SendBlock
  <2>1. run.next \in BlocksOf(run.image)
    BY <1>7 DEF SendBlock, BlocksOf
  <2> QED BY <1>7, <2>1 DEF SendBlock
<1>8. CASE Truncate
  BY <1>8 DEF Truncate
<1>9. CASE Save
  <2>1. run.next \in BlocksOf(run.image)
    BY <1>9 DEF Save, RunBehindTransfer
  <2> QED BY <1>9, <2>1 DEF Save
<1>10. CASE SaveFails
  BY <1>10 DEF SaveFails, Fail
<1>11. CASE Complete
  BY <1>11 DEF Complete
<1>12. CASE ClearCheckpoint
  BY <1>12 DEF ClearCheckpoint
<1>13. CASE ClearFails
  BY <1>13 DEF ClearFails, Fail
<1>14. CASE EnterRecovery
  BY <1>14 DEF EnterRecovery
<1>15. CASE ExecuteFlash \/ RecoverFlash
  <2>1. PICK licensed \in BOOLEAN :
           session' = [own |-> TRUE, licensed |-> licensed, keeps |-> FALSE]
    BY <1>15 DEF ExecuteFlash, RecoverFlash, Plugin
  <2>2. session' \in Session
    BY <2>1 DEF Session
  <2>3. /\ phase' \in {"FAILED", "RECOVERY"} /\ blocks_sent' = 0
        /\ UNCHANGED <<checklist, pc, run, durable>>
    BY <1>15 DEF ExecuteFlash, RecoverFlash, Plugin
  <2> QED BY <2>2, <2>3
<1>16. CASE Crash
  BY <1>16 DEF Crash, Session, Fresh
<1>17. CASE LoadFails
  BY <1>17 DEF LoadFails
<1>18. CASE UNCHANGED vars
  BY <1>18 DEF vars
<1> QED
  BY <1>1, <1>2, <1>3, <1>4, <1>5, <1>6, <1>7, <1>8, <1>9, <1>10, <1>11,
     <1>12, <1>13, <1>14, <1>15, <1>16, <1>17, <1>18 DEF Next

-----------------------------------------------------------------------------
(* The checklist and the provider stay as they were when start() looked.   *)
LEMMA NextAdmitted == FlashInv /\ [Next]_vars => Admitted'
<1> SUFFICES ASSUME FlashInv, [Next]_vars PROVE Admitted'
  OBVIOUS
<1> USE DEF FlashInv, Admitted, durable
<1>1. CASE \E image \in Image, resume \in BOOLEAN : Start(image, resume)
  BY <1>1 DEF Start, AllClear, Clear
<1>2. CASE DenySecurity \/ SaveFails \/ ClearFails
  BY <1>2 DEF DenySecurity, SaveFails, ClearFails, Fail
<1>3. CASE Erase \/ SendBlock \/ Truncate \/ Save \/ Complete \/ ClearCheckpoint
  <2>1. UNCHANGED <<checklist, session>> /\ pc # "idle"
        /\ (pc # "security" \/ session.licensed)
    BY <1>3 DEF Erase, SendBlock, Truncate, Save, Complete, ClearCheckpoint
  <2> QED BY <2>1 DEF Clear
<1>4. CASE \/ \E reading \in Reading : Evaluate(reading)
           \/ \E licensed, keeps \in BOOLEAN : NewSession(licensed, keeps)
           \/ Refuse \/ LoadFails \/ EnterRecovery \/ ExecuteFlash \/ RecoverFlash \/ Crash
  <2>1. pc' = "idle"
    BY <1>4 DEF Evaluate, NewSession, Refuse, LoadFails, EnterRecovery, ExecuteFlash,
                RecoverFlash, Plugin, Crash
  <2> QED BY <2>1
<1>5. CASE UNCHANGED vars
  BY <1>5 DEF vars, Clear
<1> QED BY <1>1, <1>2, <1>3, <1>4, <1>5 DEF Next

(* The steps that leave the transfer alone: nothing they change is spoken  *)
(* of by the conjuncts about it.                                           *)
Aside ==
  \/ \E reading \in Reading : Evaluate(reading)
  \/ \E licensed, keeps \in BOOLEAN : NewSession(licensed, keeps)
  \/ Refuse \/ LoadFails \/ EnterRecovery \/ ExecuteFlash \/ RecoverFlash \/ Crash
  \/ UNCHANGED vars

(* Such a step keeps the file, the memory and the run, and leaves start()  *)
(* and any COMPLETE state unless it stutters.                              *)
LEMMA AsideSteps ==
  ASSUME Aside
  PROVE  /\ UNCHANGED <<checkpoint, memory, confirmed, run>>
         /\ UNCHANGED <<pc, phase>> \/ (pc' = "idle" /\ (phase' # "COMPLETE" \/ UNCHANGED phase))
<1>1. CASE UNCHANGED vars
  BY <1>1 DEF vars
<1>2. CASE \E reading \in Reading : Evaluate(reading)
  BY <1>2 DEF Evaluate, durable
<1>3. CASE \E licensed, keeps \in BOOLEAN : NewSession(licensed, keeps)
  BY <1>3 DEF NewSession, durable
<1>4. CASE Refuse \/ LoadFails \/ EnterRecovery \/ ExecuteFlash \/ RecoverFlash
  BY <1>4 DEF Refuse, LoadFails, EnterRecovery, ExecuteFlash, RecoverFlash, Plugin, durable
<1>5. CASE Crash
  BY <1>5 DEF Crash, durable
<1> QED BY <1>1, <1>2, <1>3, <1>4, <1>5 DEF Aside

(* The checkpoint stays behind the transfer.                               *)
LEMMA NextCheckpoint == FlashInv /\ [Next]_vars => CheckpointBehindTransfer'
<1> SUFFICES ASSUME FlashInv, [Next]_vars PROVE CheckpointBehindTransfer'
  OBVIOUS
<1> USE BlocksAreNumbers DEF FlashInv, CheckpointBehindTransfer
<1>1. CASE Aside
  BY <1>1, AsideSteps
<1>2. CASE \E image \in Image, resume \in BOOLEAN : Start(image, resume)
  BY <1>2 DEF Start, durable
<1>3. CASE DenySecurity \/ SaveFails \/ ClearFails
  BY <1>3 DEF DenySecurity, SaveFails, ClearFails, Fail
<1>4. CASE Erase \/ Complete
  BY <1>4 DEF Erase, Complete, durable
<1>5. CASE SendBlock
  BY <1>5 DEF SendBlock
<1>6. CASE Truncate
  BY <1>6 DEF Truncate, Torn
<1>7. CASE Save
  <2>1. ASSUME NEW b \in Block, b < checkpoint' PROVE b \in confirmed'
    <3>1. confirmed' = confirmed /\ b < run.next + 1 /\ run.next \in Nat
      BY <1>7, <2>1 DEF Save, TypeOK
    <3>2. b < run.next \/ b = run.next
      BY <3>1
    <3> QED BY <1>7, <3>1, <3>2 DEF Save, RunBehindTransfer
  <2> QED BY <2>1
<1>8. CASE ClearCheckpoint
  BY <1>8 DEF ClearCheckpoint, Absent
<1> QED BY <1>1, <1>2, <1>3, <1>4, <1>5, <1>6, <1>7, <1>8 DEF Next, Aside

(* So does the run.                                                        *)
LEMMA NextRunBehind == FlashInv /\ [Next]_vars => RunBehindTransfer'
<1> SUFFICES ASSUME FlashInv, [Next]_vars PROVE RunBehindTransfer'
  OBVIOUS
<1>0. /\ run.start \in Nat /\ run.next \in Nat /\ Size[run.image] \in Nat
      /\ run.image \in Image /\ Block \subseteq Nat /\ BlocksOf(run.image) \subseteq Block
  BY RunsAreNumbers, BlocksAreNumbers DEF FlashInv
<1> USE BlocksAreNumbers DEF FlashInv, RunBehindTransfer
<1>1. CASE Aside
  BY <1>1, AsideSteps
<1>2. CASE \E image \in Image, resume \in BOOLEAN : Start(image, resume)
  <2>1. PICK image \in Image, resume \in BOOLEAN : Start(image, resume)
    BY <1>2
  <2>2. /\ run'.next = StartIndex(resume) /\ pc' = "security"
        /\ confirmed' = confirmed
    BY <2>1 DEF Start, durable
  <2> QED BY <2>2, StartIndexSafe
<1>3. CASE DenySecurity \/ SaveFails \/ ClearFails
  BY <1>3 DEF DenySecurity, SaveFails, ClearFails, Fail
<1>4. CASE Erase \/ Complete \/ Truncate \/ ClearCheckpoint
  BY <1>4 DEF Erase, Complete, Truncate, ClearCheckpoint, durable
<1>5. CASE SendBlock
  <2>1. confirmed' = confirmed \union {run.next} /\ run.next \in BlocksOf(run.image) /\ pc # "idle"
    BY <1>5 DEF SendBlock, BlocksOf, TypeOK
  <2>2. run'.next \in {run.next, run.next + 1} /\ (pc' \in {"save", "write"} => run' = run)
    BY <1>5 DEF SendBlock, TypeOK
  <2>3. ASSUME NEW b \in Block, b < run.next + 1 PROVE b \in confirmed'
    <3>1. b < run.next \/ b = run.next
      BY <2>3, <1>0
    <3> QED BY <2>1, <3>1
  <2>4. ASSUME NEW b \in Block, b < run'.next PROVE b < run.next + 1
    BY <2>2, <2>4, <1>0
  <2> QED BY <2>1, <2>2, <2>3, <2>4
<1>6. CASE Save
  <2>1. /\ confirmed' = confirmed /\ run'.next = run.next + 1 /\ pc' = "transfer"
        /\ run.next \in confirmed /\ pc = "write"
    BY <1>6 DEF Save, TypeOK
  <2>2. ASSUME NEW b \in Block, b < run.next + 1 PROVE b < run.next \/ b = run.next
    BY <2>2, <1>0, BelowOrAt
  <2> QED BY <2>1, <2>2
<1> QED BY <1>1, <1>2, <1>3, <1>4, <1>5, <1>6 DEF Next, Aside

(* The run goes on having written everything it has passed: an erase comes *)
(* before its first block and never after.                                 *)
LEMMA NextRunWritten == FlashInv /\ [Next]_vars => RunWritten'
<1> SUFFICES ASSUME FlashInv, [Next]_vars PROVE RunWritten'
  OBVIOUS
<1>0. /\ run.start \in Nat /\ run.next \in Nat /\ Size[run.image] \in Nat
      /\ run.image \in Image /\ Block \subseteq Nat /\ BlocksOf(run.image) \subseteq Block
  BY RunsAreNumbers, BlocksAreNumbers DEF FlashInv
<1> USE BlocksAreNumbers DEF FlashInv, RunWritten
<1>1. CASE Aside
  BY <1>1, AsideSteps
<1>2. CASE \E image \in Image, resume \in BOOLEAN : Start(image, resume)
  BY <1>2 DEF Start
<1>3. CASE DenySecurity \/ SaveFails \/ ClearFails
  BY <1>3 DEF DenySecurity, SaveFails, ClearFails, Fail
<1>4. CASE Complete \/ ClearCheckpoint
  BY <1>4 DEF Complete, ClearCheckpoint
<1>5. CASE Truncate
  BY <1>5 DEF Truncate
<1>6. CASE Erase
  <2>1. pc' = "transfer" /\ run' = run /\ run.start = run.next
    BY <1>6 DEF Erase, StartsTogether
  <2>2. ~\E b \in Block : run.start <= b /\ b < run.next
    BY <2>1, <1>0
  <2> QED BY <2>1, <2>2
<1>7. CASE SendBlock
  <2>1. /\ memory' = [memory EXCEPT ![run.next] = run.image]
        /\ pc = "transfer" /\ run'.image = run.image /\ run'.start = run.start
        /\ run.next \in BlocksOf(run.image) /\ pc' \in {"transfer", "save"}
        /\ run'.next = IF pc' = "save" THEN run.next ELSE run.next + 1
    BY <1>7 DEF SendBlock, TypeOK, BlocksOf
  <2>2. memory'[run.next] = run.image
    BY <2>1 DEF TypeOK
  <2>3. ASSUME NEW b \in Block, run.start <= b, b < run.next + 1
        PROVE  memory'[b] = run.image
    <3>1. b = run.next \/ (b < run.next /\ b # run.next)
      <4>1. b < run.next \/ b = run.next
        BY <2>3, <1>0, BelowOrAt
      <4> QED BY <4>1, <1>0
    <3>2. CASE b < run.next /\ b # run.next
      <4>1. memory'[b] = memory[b]
        BY <2>1, <3>2 DEF TypeOK
      <4> QED BY <2>1, <2>3, <3>2, <4>1
    <3> QED BY <2>2, <3>1, <3>2
  <2>4. ASSUME NEW b \in Block, b < run'.next PROVE b < run.next + 1
    BY <2>1, <2>4, <1>0
  <2> QED BY <2>1, <2>2, <2>3, <2>4
<1>8. CASE Save
  <2>1. /\ memory' = memory /\ pc = "write" /\ pc' = "transfer"
        /\ run'.image = run.image /\ run'.start = run.start
        /\ run'.next = run.next + 1
    BY <1>8 DEF Save, TypeOK
  <2>2. ASSUME NEW b \in Block, b < run.next + 1 PROVE b < run.next \/ b = run.next
    BY <2>2, <1>0, BelowOrAt
  <2> QED BY <2>1, <2>2
<1> QED BY <1>1, <1>2, <1>3, <1>4, <1>5, <1>6, <1>7, <1>8 DEF Next, Aside

(* A run completes only when its next block is past the end, and nothing   *)
(* touches the memory while the state stays COMPLETE.                      *)
LEMMA NextComplete == FlashInv /\ [Next]_vars => CompleteAtEnd'
<1> SUFFICES ASSUME FlashInv, [Next]_vars PROVE CompleteAtEnd'
  OBVIOUS
<1>0. /\ run.start \in Nat /\ run.next \in Nat /\ Size[run.image] \in Nat
      /\ run.image \in Image /\ Block \subseteq Nat /\ BlocksOf(run.image) \subseteq Block
  BY RunsAreNumbers, BlocksAreNumbers DEF FlashInv
<1> USE BlocksAreNumbers DEF FlashInv, CompleteAtEnd, CompleteFromStart
<1>1. CASE Aside
  BY <1>1, AsideSteps
<1>2. CASE \E image \in Image, resume \in BOOLEAN : Start(image, resume)
  BY <1>2 DEF Start
<1>3. CASE DenySecurity \/ SaveFails \/ ClearFails
  BY <1>3 DEF DenySecurity, SaveFails, ClearFails, Fail
<1>4. CASE Erase \/ SendBlock
  BY <1>4 DEF Erase, SendBlock
<1>5. CASE Truncate \/ Save
  BY <1>5 DEF Truncate, Save
<1>6. CASE Complete
  <2>1. /\ pc = "transfer" /\ run.next >= Size[run.image] /\ UNCHANGED <<memory, run>>
        /\ pc' = "clear"
    BY <1>6 DEF Complete, durable
  <2>2. ASSUME NEW b \in BlocksOf(run.image), b >= run.start PROVE memory[b] = run.image
    <3>1. b \in Block /\ run.start <= b /\ b < run.next
      BY <2>1, <2>2, <1>0 DEF BlocksOf
    <3> QED BY <2>1, <3>1 DEF RunWritten
  <2> QED BY <2>1, <2>2
<1>7. CASE ClearCheckpoint
  BY <1>7 DEF ClearCheckpoint
<1> QED BY <1>1, <1>2, <1>3, <1>4, <1>5, <1>6, <1>7 DEF Next, Aside

(* Between the guards and the erase no block has been passed.              *)
LEMMA NextStartsTogether == FlashInv /\ [Next]_vars => StartsTogether'
<1> SUFFICES ASSUME FlashInv, [Next]_vars PROVE StartsTogether'
  OBVIOUS
<1> USE DEF FlashInv, StartsTogether
<1>1. CASE Aside
  BY <1>1, AsideSteps
<1>2. CASE \E image \in Image, resume \in BOOLEAN : Start(image, resume)
  BY <1>2 DEF Start
<1>3. CASE DenySecurity \/ SaveFails \/ ClearFails
  BY <1>3 DEF DenySecurity, SaveFails, ClearFails, Fail
<1>4. CASE Erase \/ SendBlock \/ Truncate \/ Save \/ Complete \/ ClearCheckpoint
  BY <1>4 DEF Erase, SendBlock, Truncate, Save, Complete, ClearCheckpoint
<1> QED BY <1>1, <1>2, <1>3, <1>4 DEF Next, Aside

(* Every reachable state satisfies the invariant.                          *)
LEMMA FlashInvariant == Spec => []FlashInv
<1>1. FlashInv /\ [Next]_vars => FlashInv'
  BY NextTypeOK, NextAdmitted, NextCheckpoint, NextRunBehind, NextRunWritten,
     NextComplete, NextStartsTogether DEF FlashInv
<1> QED BY InitFlashInv, <1>1, PTL DEF Spec

-----------------------------------------------------------------------------
(* Type correctness for images of any lengths: a checkpoint points after a *)
(* block of some image, not necessarily of the one being flashed.          *)
THEOREM FlashTypeCorrect == Spec => []TypeOK
<1>1. FlashInv => TypeOK
  BY DEF FlashInv
<1> QED BY FlashInvariant, <1>1, PTL

(* For images of any lengths and any pattern of crashes and resumptions,   *)
(* each region below the saved index has been sent a block (_transfer).    *)
THEOREM CheckpointNeverAhead == Spec => []CheckpointBehindTransfer
<1>1. FlashInv => CheckpointBehindTransfer
  BY DEF FlashInv
<1> QED BY FlashInvariant, <1>1, PTL

(* A COMPLETE session has written all the blocks of its image from its     *)
(* start index on, be it past the end (start 125-135).                     *)
THEOREM CompleteRunsWrite == Spec => []CompleteFromStart
<1>1. FlashInv => CompleteFromStart
  BY DEF FlashInv, CompleteAtEnd
<1> QED BY FlashInvariant, <1>1, PTL

(* The ECU is touched only by a licensed session on a clear checklist,     *)
(* whatever the checks are (start 115-120, _security_access 152-156).      *)
THEOREM TouchedByAdmittedOnly == Spec => TouchedOnlyWhenClear
<1>1. FlashInv /\ [Next]_vars =>
        [memory' # memory => session.licensed /\ ~session.own /\ Clear(checklist)]_vars
  <2> SUFFICES ASSUME FlashInv, Next, memory' # memory
               PROVE  session.licensed /\ ~session.own /\ Clear(checklist)
    OBVIOUS
  <2>1. ~Aside
    BY AsideSteps
  <2>2. Erase \/ SendBlock
    <3>1. ~\E image \in Image, resume \in BOOLEAN : Start(image, resume)
      BY DEF Start, durable
    <3>2. ~(DenySecurity \/ SaveFails \/ ClearFails)
      BY DEF DenySecurity, SaveFails, ClearFails, Fail
    <3>3. ~(Truncate \/ Save \/ Complete \/ ClearCheckpoint)
      BY DEF Truncate, Save, Complete, ClearCheckpoint, durable
    <3> QED BY <2>1, <3>1, <3>2, <3>3 DEF Next, Aside
  <2> QED BY <2>2 DEF Erase, SendBlock, FlashInv, Admitted
<1> QED BY FlashInvariant, <1>1, PTL DEF Spec, TouchedOnlyWhenClear
=============================================================================
