---------------------------- MODULE ToolsProofs -----------------------------
(***************************************************************************)
(* What holds of the diagnostic scan, the accounts and the plugin          *)
(* registry, for any number of scans, requests and directories, and of all *)
(* the parts MCTools puts side by side: each behaves there as its own      *)
(* specification says (ToolsImplementParts).                               *)
(***************************************************************************)
EXTENDS MCTools, CatalogProofs, VehicleProofs, WellFoundedInduction

(* A scan is somewhere in its list of entries, has written a line for each *)
(* one it has in memory, and goes on only while some are left.             *)
LinesAreEntries ==
  \A s \in Scan :
    /\ step[s] = "idle" => logged[s] = 0
    /\ step[s] # "idle" => dir[s] \in Directory /\ lines[dir[s]][s] = logged[s]
    /\ step[s] = "line" => logged[s] <= Entries
    /\ \A d \in Directory : step[s] = "idle" => lines[d][s] = 0

ScanInv == ScanTypeOK /\ LinesAreEntries /\ JsonWithinLog

-----------------------------------------------------------------------------
(* No scan has started and no directory holds a document.                   *)
LEMMA InitScanInv == ScanInit => ScanInv
<1> SUFFICES ASSUME ScanInit PROVE ScanInv
  OBVIOUS
<1> USE ScanConstantsOK DEF ScanInit
<1>1. Broken("missing") \in [st : {"missing", "empty", "torn", "whole"}, scan : Scan,
                             entries : 0..Entries + 1, ended : BOOLEAN]
  BY DEF Broken
<1>2. ScanTypeOK
  BY <1>1 DEF ScanTypeOK, Directory, Steps
<1>3. LinesAreEntries
  BY DEF LinesAreEntries
<1>4. JsonWithinLog
  BY DEF JsonWithinLog, Broken
<1> QED BY <1>2, <1>3, <1>4 DEF ScanInv

(* Where a scan goes after a write is one of its steps, and to another     *)
(* line only if its last one is still to come.                             *)
LEMMA AfterIs ==
  ASSUME ScanInv, NEW s \in Scan
  PROVE  /\ After(s) \in {"exited", "open", "done", "line"}
         /\ After(s) = "line" => logged[s] <= Entries
<1>1. logged[s] \in 0..Entries + 1
  BY DEF ScanInv, ScanTypeOK
<1> QED BY <1>1, ScanConstantsOK DEF After

(* The line is written before the entry can get into session.json.         *)
LEMMA AppendLineInv ==
  ASSUME ScanInv, NEW s \in Scan, AppendLine(s)
  PROVE  ScanInv'
<1>1. /\ dir[s] \in Directory /\ lines[dir[s]][s] = logged[s] /\ logged[s] \in 0..Entries
      /\ logged[s] + 1 \in 0..Entries + 1
  <2>1. logged[s] \in 0..Entries + 1 /\ logged[s] <= Entries
    BY DEF AppendLine, ScanInv, ScanTypeOK, LinesAreEntries
  <2>2. logged[s] \in 0..Entries /\ logged[s] + 1 \in 0..Entries + 1
    BY <2>1, ScanConstantsOK
  <2>3. dir[s] \in Directory /\ lines[dir[s]][s] = logged[s]
    BY DEF AppendLine, ScanInv, LinesAreEntries
  <2> QED BY <2>2, <2>3
<1>2. lines \in [Directory -> [Scan -> 0..Entries + 1]]
  BY DEF ScanInv, ScanTypeOK
<1>3. /\ lines' \in [Directory -> [Scan -> 0..Entries + 1]]
      /\ \A d \in Directory, t \in Scan :
           lines'[d][t] = IF d = dir[s] /\ t = s THEN logged[s] + 1 ELSE lines[d][t]
  <2> DEFINE row == [lines[dir[s]] EXCEPT ![s] = @ + 1]
  <2>1. lines' = [lines EXCEPT ![dir[s]] = row]
    BY DEF AppendLine
  <2>2. /\ row \in [Scan -> 0..Entries + 1]
        /\ \A t \in Scan : row[t] = IF t = s THEN logged[s] + 1 ELSE lines[dir[s]][t]
    <3>1. lines[dir[s]] \in [Scan -> 0..Entries + 1]
      BY <1>1, <1>2
    <3> QED BY <1>1, <3>1
  <2> HIDE DEF row
  <2> QED BY <1>1, <1>2, <2>1, <2>2
<1>4. logged' = [logged EXCEPT ![s] = logged[s] + 1] /\ logged' \in [Scan -> 0..Entries + 1]
  <2>1. logged \in [Scan -> 0..Entries + 1] /\ logged' = [logged EXCEPT ![s] = logged[s] + 1]
    BY DEF AppendLine, ScanInv, ScanTypeOK
  <2> QED BY <1>1, <2>1
<1>5. step' = [step EXCEPT ![s] = "open"] /\ step' \in [Scan -> Steps]
  BY DEF AppendLine, ScanInv, ScanTypeOK, Steps
<1>6. failed' \in [Scan -> BOOLEAN]
  <2>1. failed \in [Scan -> BOOLEAN]
    BY DEF ScanInv, ScanTypeOK
  <2>2. failed' = failed \/ \E b \in BOOLEAN : failed' = [failed EXCEPT ![s] = b]
    BY DEF AppendLine
  <2> QED BY <2>1, <2>2
<1>7. ScanTypeOK'
  BY <1>3, <1>4, <1>5, <1>6 DEF AppendLine, ScanInv, ScanTypeOK, Directory
<1>8. LinesAreEntries'
  <2>1. step \in [Scan -> Steps] /\ logged \in [Scan -> 0..Entries + 1] /\ UNCHANGED dir
    BY DEF AppendLine, ScanInv, ScanTypeOK
  <2>2. step[s] = "line"
    BY DEF AppendLine
  <2> SUFFICES ASSUME NEW t \in Scan
               PROVE  /\ step'[t] = "idle" => logged'[t] = 0
                      /\ step'[t] # "idle" => dir[t] \in Directory
                                             /\ lines'[dir[t]][t] = logged'[t]
                      /\ step'[t] = "line" => logged'[t] <= Entries
                      /\ \A d \in Directory : step'[t] = "idle" => lines'[d][t] = 0
    BY <2>1 DEF LinesAreEntries, Directory
  <2>3. CASE t = s
    BY <2>1, <2>3, <1>1, <1>3, <1>4, <1>5
  <2>4. CASE t # s
    <3>1. step'[t] = step[t] /\ logged'[t] = logged[t]
          /\ \A d \in Directory : lines'[d][t] = lines[d][t]
      BY <2>1, <2>4, <1>3, <1>4, <1>5
    <3> QED BY <3>1 DEF ScanInv, LinesAreEntries
  <2> QED BY <2>3, <2>4
<1>9. JsonWithinLog'
  <2> SUFFICES ASSUME NEW d \in Directory, json[d].st = "whole"
               PROVE  json[d].entries <= lines'[d][json[d].scan]
    BY DEF AppendLine, JsonWithinLog, Directory
  <2>1. json[d] \in [st : {"missing", "empty", "torn", "whole"}, scan : Scan,
                     entries : 0..Entries + 1, ended : BOOLEAN]
    BY DEF ScanInv, ScanTypeOK
  <2>2. json[d].scan \in Scan /\ json[d].entries \in 0..Entries + 1
    BY <2>1
  <2>3. /\ json[d].entries <= lines[d][json[d].scan]
        /\ lines[d][json[d].scan] \in 0..Entries + 1
    BY <2>2, <1>2 DEF ScanInv, JsonWithinLog
  <2>4. lines'[d][json[d].scan] \in {lines[d][json[d].scan], logged[s] + 1}
    BY <2>2, <1>3
  <2>5. lines'[d][json[d].scan] >= lines[d][json[d].scan]
    BY <2>2, <2>3, <1>1, <1>3
  <2> QED BY <2>2, <2>3, <2>4, <2>5, <1>1
<1> QED BY <1>7, <1>8, <1>9 DEF ScanInv

(* The steps of one scan.  Each JSON text it writes is what its log says   *)
(* already.                                                                *)
LEMMA ScanStep ==
  ASSUME ScanInv, NEW s \in Scan,
         StartScan(s) \/ AppendLine(s) \/ OpenJson(s) \/ WriteJson(s) \/ ScanDies(s)
  PROVE  ScanInv'
<1> USE ScanConstantsOK DEF ScanInv, ScanTypeOK, Directory, Steps
<1> DEFINE Text == [st : {"missing", "empty", "torn", "whole"}, scan : Scan,
                    entries : 0..Entries + 1, ended : BOOLEAN]
<1>1. \A st \in {"missing", "empty", "torn"} :
        Broken(st) \in Text /\ Broken(st).st # "whole"
  <2> DEFINE anyone == CHOOSE t \in Scan : TRUE
  <2>1. anyone \in Scan
    OBVIOUS
  <2>2. 0 \in 0..Entries + 1
    OBVIOUS
  <2> HIDE DEF anyone, ScanInv, ScanTypeOK, Directory, Steps
  <2>3. \A st : Broken(st) = [st |-> st, scan |-> anyone, entries |-> 0, ended |-> FALSE]
    BY DEF Broken, anyone
  <2> QED BY <2>1, <2>2, <2>3
<1>2. \A e \in BOOLEAN : Document(s, logged[s], e) \in Text
  BY DEF Document
<1> HIDE DEF Text
<1>3. CASE StartScan(s)
  <2>1. ScanTypeOK'
    <3>1. dir' \in [Scan -> 0..MaxMinute]
      BY <1>3 DEF StartScan
    <3>2. step' \in [Scan -> Steps]
      BY <1>3 DEF StartScan
    <3> QED BY <1>3, <3>1, <3>2 DEF StartScan
  <2>2. LinesAreEntries'
    BY <1>3 DEF StartScan, LinesAreEntries
  <2>3. JsonWithinLog'
    BY <1>3 DEF StartScan, JsonWithinLog
  <2> QED BY <2>1, <2>2, <2>3
<1>4. CASE AppendLine(s)
  BY <1>4, AppendLineInv
<1>5. CASE OpenJson(s)
  <2>1. json' \in [Directory -> Text]
    BY <1>5, <1>1 DEF OpenJson, Text
  <2>2. ScanTypeOK'
    BY <1>5, <2>1 DEF OpenJson, Text
  <2>3. LinesAreEntries'
    BY <1>5 DEF OpenJson, LinesAreEntries
  <2>4. JsonWithinLog'
    BY <1>5, <1>1 DEF OpenJson, JsonWithinLog
  <2> QED BY <2>2, <2>3, <2>4
<1>6. CASE WriteJson(s)
  <2>1. dir[s] \in Directory /\ lines[dir[s]][s] = logged[s]
    BY <1>6 DEF WriteJson, LinesAreEntries
  <2>2. PICK text \in Overlay(dir[s], Document(s, logged[s], ended[s])) :
          json' = [json EXCEPT ![dir[s]] = text]
    BY <1>6 DEF WriteJson
  <2>3. text = Document(s, logged[s], ended[s]) \/ text = Broken("torn")
    BY <2>2 DEF Overlay
  <2>4. text \in Text /\ (text.st = "whole" => text.entries <= lines[dir[s]][text.scan])
    <3>1. CASE text = Document(s, logged[s], ended[s])
      <4>1. text.entries = logged[s] /\ text.scan = s
        BY <3>1 DEF Document
      <4> QED BY <4>1, <3>1, <2>1, <1>2
    <3>2. CASE text = Broken("torn")
      BY <3>2, <1>1
    <3> QED BY <2>3, <3>1, <3>2
  <2>5. json' \in [Directory -> Text]
    BY <2>2, <2>4 DEF Text
  <2>6. ScanTypeOK'
    BY <1>6, <2>5, AfterIs DEF WriteJson, Finalize, Text
  <2>7. LinesAreEntries'
    BY <1>6, <2>1, AfterIs DEF WriteJson, LinesAreEntries
  <2>8. JsonWithinLog'
    BY <1>6, <2>1, <2>2, <2>4 DEF WriteJson, JsonWithinLog
  <2> QED BY <2>6, <2>7, <2>8
<1>7. CASE ScanDies(s)
  <2>1. step[s] \in {"line", "open", "write"} /\ dir[s] \in Directory
    BY <1>7 DEF ScanDies, LinesAreEntries
  <2>2. json' = json \/ json' = [json EXCEPT ![dir[s]] = Broken("torn")]
    BY <1>7 DEF ScanDies
  <2>3. json' \in [Directory -> Text]
    BY <2>2, <1>1 DEF Text
  <2>4. ScanTypeOK'
    BY <1>7, <2>1, <2>3 DEF ScanDies, Text
  <2>5. LinesAreEntries'
    BY <1>7, <2>1 DEF ScanDies, LinesAreEntries
  <2>6. JsonWithinLog'
    BY <1>7, <2>1, <2>2, <1>1 DEF ScanDies, JsonWithinLog
  <2> QED BY <2>4, <2>5, <2>6
<1> QED BY <1>3, <1>4, <1>5, <1>6, <1>7

(* Every step of every scan keeps the invariant.                            *)
LEMMA NextScanInv == ScanInv /\ [ScanNext]_scanVars => ScanInv'
<1> SUFFICES ASSUME ScanInv, [ScanNext]_scanVars PROVE ScanInv'
  OBVIOUS
<1>1. CASE MinutePasses
  <2>1. minute' \in Directory
    BY <1>1, ScanConstantsOK DEF MinutePasses, ScanInv, ScanTypeOK, Directory
  <2>2. UNCHANGED <<step, dir, logged, failed, ended, lines, json>>
    BY <1>1 DEF MinutePasses
  <2> QED BY <2>1, <2>2 DEF ScanInv, ScanTypeOK, LinesAreEntries, JsonWithinLog
<1>2. CASE \E s \in Scan : \/ StartScan(s) \/ AppendLine(s) \/ OpenJson(s) \/ WriteJson(s)
                           \/ ScanDies(s)
  BY <1>2, ScanStep
<1>3. CASE UNCHANGED scanVars
  BY <1>3 DEF scanVars, ScanInv, ScanTypeOK, LinesAreEntries, JsonWithinLog
<1> QED BY <1>1, <1>2, <1>3 DEF ScanNext

(* Whatever is killed when and whoever shares a directory, session.json    *)
(* never tells more than session.log.                                      *)
THEOREM LogTheorem == ScanSpec => []JsonWithinLog
<1>1. ScanInv => JsonWithinLog
  BY DEF ScanInv
<1>2. ScanInit => ScanInv
  BY InitScanInv
<1> QED BY <1>1, <1>2, NextScanInv, PTL DEF ScanSpec
-----------------------------------------------------------------------------
(* Where a scan is: a failed environment check ends it at its next write,  *)
(* and finalize comes between the last entry and the one after it.         *)
StageOf(s) ==
  /\ step[s] = "idle" => dir[s] = 0 /\ ~failed[s]
  /\ failed[s] => logged[s] = EnvEntries + 1 /\ step[s] \in {"open", "write", "exited", "crashed"}
  /\ ended[s] => ~failed[s] /\ logged[s] >= Entries
  /\ logged[s] = Entries + 1 => ended[s]
  /\ step[s] = "line" /\ logged[s] = Entries => ended[s]

(* What a scan that has its directory to itself finds in session.json.     *)
RecordOf(s) ==
  step[s] # "idle" /\ Alone(s) =>
    /\ step[s] = "line" => json[dir[s]] = Document(s, logged[s], ended[s])
    /\ json[dir[s]].st = "whole" => json[dir[s]].entries + 1 >= logged[s]
    /\ step[s] = "write" => json[dir[s]].st = "empty"
    /\ step[s] = "done" => json[dir[s]] = Document(s, Entries + 1, TRUE)
    /\ step[s] = "exited" => json[dir[s]] = Document(s, EnvEntries + 1, FALSE)

(* A directory nobody uses has no session.json yet.                        *)
UnusedIsEmpty == \A d \in Directory : Users(d) = {} => json[d] = Broken("missing")

RecordInv ==
  ScanInv /\ UnusedIsEmpty /\ (\A s \in Scan : StageOf(s) /\ RecordOf(s))

(* No scan has started.                                                    *)
LEMMA InitRecordInv == ScanInit => RecordInv
<1> SUFFICES ASSUME ScanInit PROVE RecordInv
  OBVIOUS
<1>1. ScanInv
  BY InitScanInv
<1>2. UnusedIsEmpty
  BY DEF ScanInit, UnusedIsEmpty
<1>3. \A s \in Scan : StageOf(s) /\ RecordOf(s)
  <2> TAKE s \in Scan
  <2>1. step[s] = "idle" /\ dir[s] = 0 /\ logged[s] = 0 /\ failed[s] = FALSE /\ ended[s] = FALSE
    BY DEF ScanInit
  <2>2. 0 # Entries + 1
    BY ScanConstantsOK
  <2>3. StageOf(s)
    BY <2>1, <2>2, Zenon DEF StageOf
  <2>4. RecordOf(s)
    BY <2>1 DEF RecordOf
  <2> QED BY <2>3, <2>4
<1> QED BY <1>1, <1>2, <1>3 DEF RecordInv

(* The steps that change where a scan is keep to its stages.               *)
LEMMA NextStageOf ==
  ASSUME RecordInv, NEW s \in Scan,
         StartScan(s) \/ AppendLine(s) \/ OpenJson(s) \/ WriteJson(s) \/ ScanDies(s),
         NEW t \in Scan
  PROVE  StageOf(t)'
<1>0. /\ logged[s] \in 0..Entries + 1 /\ logged[t] \in 0..Entries + 1
      /\ step \in [Scan -> Steps] /\ dir \in [Scan -> 0..MaxMinute]
      /\ logged \in [Scan -> 0..Entries + 1]
      /\ failed \in [Scan -> BOOLEAN] /\ ended \in [Scan -> BOOLEAN]
      /\ StageOf(s) /\ StageOf(t) /\ LinesAreEntries
      /\ EnvEntries \in Nat /\ Entries \in Nat /\ EnvEntries < Entries
  BY ScanConstantsOK DEF RecordInv, ScanInv, ScanTypeOK
<1>1. CASE t # s
  <2>1. /\ step'[t] = step[t] /\ dir'[t] = dir[t] /\ logged'[t] = logged[t]
        /\ failed'[t] = failed[t] /\ ended'[t] = ended[t]
    BY <1>0, <1>1 DEF StartScan, AppendLine, OpenJson, WriteJson, ScanDies, Finalize
  <2> QED BY <1>0, <2>1 DEF StageOf
<1>2. CASE t = s /\ StartScan(s)
  <2>1. /\ step'[s] = "open" /\ logged[s] = 0
        /\ UNCHANGED <<logged, failed, ended>>
    BY <1>0, <1>2 DEF StartScan, LinesAreEntries
  <2> QED BY <1>0, <1>2, <2>1 DEF StageOf, StartScan
<1>3. CASE t = s /\ AppendLine(s)
  <2>1. /\ step[s] = "line" /\ step'[s] = "open" /\ logged'[s] = logged[s] + 1
        /\ UNCHANGED <<dir, ended>>
    BY <1>0, <1>3 DEF AppendLine
  <2>2. failed'[s] => logged[s] = EnvEntries
    BY <1>0, <1>3, <2>1 DEF AppendLine, StageOf
  <2>3. failed'[s] \in BOOLEAN
    BY <1>0, <1>3 DEF AppendLine
  <2>4. logged[s] <= Entries /\ (logged[s] = Entries => ended[s])
    BY <1>0, <1>3, <2>1 DEF StageOf, LinesAreEntries
  <2>5. ended[s] => logged[s] >= Entries
    BY <1>0, <1>3 DEF StageOf
  <2>6. logged[s] \in Nat
    BY <1>0
  <2>7. ended[s] => ~failed'[s]
    BY <1>0, <2>2, <2>5, <2>6
  <2> QED BY <1>0, <1>3, <2>1, <2>2, <2>4, <2>5, <2>6, <2>7 DEF StageOf
<1>4. CASE t = s /\ OpenJson(s)
  <2>1. step[s] = "open" /\ step'[s] = "write" /\ UNCHANGED <<dir, logged, failed, ended>>
    BY <1>0, <1>4 DEF OpenJson
  <2> QED BY <1>0, <1>4, <2>1 DEF StageOf
<1>5. CASE t = s /\ WriteJson(s)
  <2>1. /\ step[s] = "write" /\ step'[s] = After(s) /\ UNCHANGED <<dir, logged, failed>>
        /\ ended'[s] = (ended[s] \/ (logged[s] = Entries /\ ~failed[s]))
    BY <1>0, <1>5 DEF WriteJson, Finalize
  <2>2. /\ After(s) \in {"exited", "open", "done", "line"}
        /\ failed[s] => After(s) = "exited"
        /\ After(s) = "line" /\ logged[s] = Entries => ended[s]
    BY <1>0 DEF After, StageOf
  <2> QED BY <1>0, <1>5, <2>1, <2>2 DEF StageOf
<1>6. CASE t = s /\ ScanDies(s)
  <2>1. step[s] # "idle" /\ step'[s] = "crashed" /\ UNCHANGED <<dir, logged, failed, ended>>
    BY <1>0, <1>6 DEF ScanDies
  <2> QED BY <1>0, <1>6, <2>1 DEF StageOf
<1> QED BY <1>1, <1>2, <1>3, <1>4, <1>5, <1>6

(* A scan cannot touch the file of another that is alone.                  *)
LEMMA OthersRecordOf ==
  ASSUME RecordInv, NEW s \in Scan, dir' = dir, dir[s] \in Directory,
         \A d \in Directory \ {dir[s]} : json'[d] = json[d],
         NEW t \in Scan, t # s,
         step'[t] = step[t], logged'[t] = logged[t], ended'[t] = ended[t]
  PROVE  RecordOf(t)'
<1> SUFFICES ASSUME Alone(t)', step[t] # "idle" PROVE RecordOf(t)'
  BY DEF RecordOf
<1>1. Alone(t) /\ dir[t] # dir[s] /\ dir[t] \in Directory
  BY DEF Alone, Users, RecordInv, ScanInv, LinesAreEntries
<1>2. json'[dir[t]] = json[dir[t]] /\ RecordOf(t)
  BY <1>1 DEF RecordInv
<1> QED BY <1>1, <1>2 DEF RecordOf, Document

(* Directories with nobody stay as they are while the users do.            *)
LEMMA SameUsers ==
  ASSUME RecordInv, NEW s \in Scan, dir' = dir, dir[s] \in Directory,
         \A d \in Directory \ {dir[s]} : json'[d] = json[d]
  PROVE  UnusedIsEmpty'
<1> SUFFICES ASSUME NEW d \in Directory, Users(d)' = {} PROVE json'[d] = Broken("missing")
  BY DEF UnusedIsEmpty, Directory, Broken
<1>1. Users(d) = {} /\ d # dir[s]
  BY DEF Users
<1> QED BY <1>1 DEF RecordInv, UnusedIsEmpty

(* A scan that is alone finds the file it truncated, and writes all of it. *)
LEMMA NextRecordOf ==
  ASSUME RecordInv, NEW s \in Scan,
         StartScan(s) \/ AppendLine(s) \/ OpenJson(s) \/ WriteJson(s) \/ ScanDies(s)
  PROVE  UnusedIsEmpty' /\ \A t \in Scan : RecordOf(t)'
<1>0. /\ step \in [Scan -> Steps] /\ dir \in [Scan -> 0..MaxMinute] /\ minute \in Directory
      /\ logged \in [Scan -> 0..Entries + 1]
      /\ failed \in [Scan -> BOOLEAN] /\ ended \in [Scan -> BOOLEAN]
      /\ json \in [Directory -> [st : {"missing", "empty", "torn", "whole"}, scan : Scan,
                                 entries : 0..Entries + 1, ended : BOOLEAN]]
      /\ StageOf(s) /\ RecordOf(s) /\ LinesAreEntries
      /\ EnvEntries \in Nat /\ Entries \in Nat /\ EnvEntries < Entries
  BY ScanConstantsOK DEF RecordInv, ScanInv, ScanTypeOK
<1>1. CASE StartScan(s)
  <2>1. /\ step[s] = "idle" /\ dir[s] = 0 /\ dir' = [dir EXCEPT ![s] = minute]
        /\ step' = [step EXCEPT ![s] = "open"] /\ UNCHANGED <<json, logged, ended>>
    BY <1>0, <1>1 DEF StartScan, StageOf
  <2>2. PICK m \in Directory : m = minute
    BY <1>0
  <2>3. \A d \in Directory : Users(d)' = IF d = m THEN Users(d) \cup {s} ELSE Users(d)
    BY <1>0, <2>1, <2>2, ScanConstantsOK DEF Users, Directory
  <2>4. s \notin Users(m)
    BY <1>0, <2>1, <2>2, ScanConstantsOK DEF Users, Directory
  <2>5. UnusedIsEmpty'
    BY <2>1, <2>3 DEF UnusedIsEmpty, RecordInv, Directory, Broken
  <2>6. RecordOf(s)'
    <3>1. dir'[s] = m /\ step'[s] = "open"
      BY <1>0, <2>1, <2>2
    <3> SUFFICES ASSUME Users(m)' = {s} PROVE json'[m].st = "missing"
      BY <3>1 DEF RecordOf, Alone, Users
    <3>2. Users(m) = {}
      BY <2>3, <2>4
    <3>3. json[m].st = "missing"
      <4>1. Broken("missing").st = "missing"
        BY DEF Broken
      <4> QED BY <3>2, <4>1 DEF RecordInv, UnusedIsEmpty
    <3> QED BY <2>1, <3>3
  <2>7. ASSUME NEW t \in Scan, t # s PROVE RecordOf(t)'
    <3>1. dir'[t] = dir[t] /\ step'[t] = step[t] /\ RecordOf(t)
      BY <1>0, <2>1, <2>7 DEF RecordInv
    <3>2. CASE step[t] = "idle"
      BY <3>1, <3>2 DEF RecordOf
    <3>3. CASE step[t] # "idle"
      <4>1. PICK d \in Directory : d = dir[t]
        BY <3>3 DEF RecordInv, ScanInv, LinesAreEntries
      <4>2. Alone(t)' => Users(d)' = {t}
        BY <3>1, <4>1 DEF Alone, Users
      <4>3. Users(d) \subseteq Users(d)' /\ t \in Users(d)
        BY <2>3, <4>1 DEF Users
      <4>4. Alone(t)' => Alone(t)
        <5>1. Users(d)' = {t} => Users(d) = {t}
          BY <4>3
        <5> QED BY <4>1, <4>2, <5>1 DEF Alone
      <4> QED BY <2>1, <3>1, <4>4 DEF RecordOf, Document
    <3> QED BY <3>2, <3>3
  <2> QED BY <2>5, <2>6, <2>7
<1>2. ASSUME AppendLine(s) \/ OpenJson(s) \/ WriteJson(s) \/ ScanDies(s)
      PROVE  UnusedIsEmpty' /\ \A t \in Scan : RecordOf(t)'
  <2>1. /\ step[s] # "idle" /\ dir' = dir /\ dir[s] \in Directory
        /\ \A t \in Scan \ {s} :
             step'[t] = step[t] /\ logged'[t] = logged[t] /\ ended'[t] = ended[t]
    <3>1. step[s] # "idle" /\ dir' = dir
      BY <1>2 DEF AppendLine, OpenJson, WriteJson, ScanDies
    <3>2. \A t \in Scan \ {s} :
            step'[t] = step[t] /\ logged'[t] = logged[t] /\ ended'[t] = ended[t]
      BY <1>0, <1>2 DEF AppendLine, OpenJson, WriteJson, ScanDies, Finalize
    <3> QED BY <1>0, <3>1, <3>2 DEF LinesAreEntries
  <2>2. \A d \in Directory \ {dir[s]} : json'[d] = json[d]
    BY <1>0, <1>2 DEF AppendLine, OpenJson, WriteJson, ScanDies
  <2>3. UnusedIsEmpty' /\ \A t \in Scan \ {s} : RecordOf(t)'
    BY <2>1, <2>2, SameUsers, OthersRecordOf
  <2>4. Alone(s)' = Alone(s)
    BY <2>1 DEF Alone, Users
  <2>5. RecordOf(s)'
    <3> SUFFICES ASSUME Alone(s)
                 PROVE  /\ step'[s] = "line" =>
                             json'[dir[s]] = Document(s, logged'[s], ended'[s])
                        /\ json'[dir[s]].st = "whole" => json'[dir[s]].entries + 1 >= logged'[s]
                        /\ step'[s] = "write" => json'[dir[s]].st = "empty"
                        /\ step'[s] = "done" => json'[dir[s]] = Document(s, Entries + 1, TRUE)
                        /\ step'[s] = "exited" =>
                             json'[dir[s]] = Document(s, EnvEntries + 1, FALSE)
      BY <2>1, <2>4 DEF RecordOf, Document
    <3>1. CASE AppendLine(s)
      <4>1. /\ step[s] = "line" /\ step'[s] = "open" /\ json' = json
            /\ logged'[s] = logged[s] + 1
        BY <1>0, <3>1 DEF AppendLine
      <4>2. json[dir[s]].entries = logged[s]
        BY <2>1, <1>0, <4>1 DEF RecordOf, Document
      <4>3. logged[s] + 1 >= logged'[s]
        BY <1>0, <4>1
      <4> QED BY <4>1, <4>2, <4>3
    <3>2. CASE OpenJson(s)
      <4>1. step'[s] = "write" /\ json'[dir[s]].st = "empty"
        BY <1>0, <2>1, <3>2 DEF OpenJson, Broken
      <4> QED BY <4>1
    <3>3. CASE WriteJson(s)
      <4>1. /\ step[s] = "write" /\ json[dir[s]].st = "empty" /\ step'[s] = After(s)
            /\ logged'[s] = logged[s]
            /\ ended'[s] = (ended[s] \/ (logged[s] = Entries /\ ~failed[s]))
        BY <1>0, <2>1, <3>3 DEF WriteJson, Finalize, RecordOf
      <4>2. json'[dir[s]] = Document(s, logged[s], ended[s])
        BY <1>0, <2>1, <3>3, <4>1 DEF WriteJson, Overlay
      <4>3. json'[dir[s]].entries + 1 >= logged'[s]
        <5>1. json'[dir[s]].entries = logged[s]
          BY <4>2 DEF Document
        <5> QED BY <1>0, <4>1, <5>1
      <4>4. /\ After(s) \in {"exited", "open", "done", "line"}
            /\ After(s) = "exited" => logged[s] = EnvEntries + 1 /\ ended[s] = FALSE
            /\ After(s) = "done" => logged[s] = Entries + 1 /\ ended[s] = TRUE
            /\ After(s) = "line" /\ logged[s] = Entries => ended[s]
        BY <1>0 DEF After, StageOf
      <4>5. After(s) = "line" => ended'[s] = ended[s]
        BY <1>0, <4>1, <4>4
      <4> QED BY <4>1, <4>2, <4>3, <4>4, <4>5
    <3>4. CASE ScanDies(s)
      <4>1. /\ step'[s] = "crashed" /\ logged'[s] = logged[s]
            /\ json'[dir[s]] \in {json[dir[s]], Broken("torn")}
        BY <1>0, <2>1, <3>4 DEF ScanDies
      <4>2. Broken("torn").st = "torn"
        BY DEF Broken
      <4>3. json[dir[s]].st = "whole" => json[dir[s]].entries + 1 >= logged[s]
        BY <2>1, <1>0 DEF RecordOf
      <4> QED BY <4>1, <4>2, <4>3
    <3> QED BY <1>2, <3>1, <3>2, <3>3, <3>4
  <2> QED BY <2>3, <2>5
<1> QED BY <1>1, <1>2

(* Every step keeps what the files record.                                 *)
LEMMA NextRecordInv == RecordInv /\ [ScanNext]_scanVars => RecordInv'
<1> SUFFICES ASSUME RecordInv, [ScanNext]_scanVars PROVE RecordInv'
  OBVIOUS
<1>1. ScanInv'
  BY NextScanInv DEF RecordInv
<1>2. CASE \E s \in Scan : \/ StartScan(s) \/ AppendLine(s) \/ OpenJson(s) \/ WriteJson(s)
                           \/ ScanDies(s)
  BY <1>1, <1>2, NextStageOf, NextRecordOf DEF RecordInv
<1>3. CASE MinutePasses \/ UNCHANGED scanVars
  <2>1. UNCHANGED <<step, dir, logged, failed, ended, json>>
    BY <1>3 DEF MinutePasses, scanVars
  <2>2. UnusedIsEmpty'
    BY <2>1 DEF UnusedIsEmpty, RecordInv, Users, Directory, Broken
  <2>3. \A s \in Scan : StageOf(s)' /\ RecordOf(s)'
    BY <2>1 DEF RecordInv, StageOf, RecordOf, Alone, Users, Document
  <2> QED BY <1>1, <2>2, <2>3 DEF RecordInv
<1> QED BY <1>2, <1>3 DEF ScanNext

(* The invariant holds in every reachable state.                           *)
THEOREM RecordInvariant == ScanSpec => []RecordInv
BY InitRecordInv, NextRecordInv, PTL DEF ScanSpec

(* A scan alone in its directory that ends records all of itself, and one  *)
(* that is killed leaves a document complete to its last entry but one, or *)
(* none that can be read.                                                  *)
THEOREM RecordedTheorem == ScanSpec => []RunRecorded
<1>1. RecordInv => RunRecorded
  <2> SUFFICES ASSUME RecordInv, NEW s \in Scan, step[s] # "idle", Alone(s)
               PROVE  /\ step[s] = "line" => json[dir[s]] = Document(s, logged[s], ended[s])
                      /\ json[dir[s]].st = "whole" =>
                           json[dir[s]].entries + 1 >= lines[dir[s]][s]
                      /\ step[s] = "done" => json[dir[s]] = Document(s, Entries + 1, TRUE)
                      /\ step[s] = "exited" => json[dir[s]] = Document(s, EnvEntries + 1, FALSE)
    BY DEF RunRecorded
  <2>1. RecordOf(s) /\ lines[dir[s]][s] = logged[s]
    BY DEF RecordInv, ScanInv, LinesAreEntries
  <2> QED BY <2>1 DEF RecordOf
<1> QED BY RecordInvariant, <1>1, PTL
-----------------------------------------------------------------------------
(* Accounts: the registrations of a name.                                    *)
-----------------------------------------------------------------------------

(* A registration that is hashing while its name is taken found it free:   *)
(* the name was committed in between.                                      *)
RacesKnown ==
  \A r \in Registration :
    handler[r] = "hashing" /\ HasAccount(form[r].username) => r \in raced

AccountsInv == AccountsTypeOK /\ RacesKnown /\ RegisteredOnce

-----------------------------------------------------------------------------
(* No account and no token exists at first.                                 *)
LEMMA InitAccountsInv == AccountsInit => AccountsInv
  BY AccountsConstantsOK
     DEF AccountsInit, AccountsInv, AccountsTypeOK, RacesKnown, RegisteredOnce, HasAccount

(* The unique column keeps a second commit from taking the name over.      *)
LEMMA CommitInv ==
  ASSUME AccountsInv, NEW r \in Registration, RegisterCommit(r)
  PROVE  AccountsInv'
<1> USE AccountsConstantsOK DEF AccountsInv, AccountsTypeOK
<1> DEFINE name == form[r].username
<1>1. /\ handler[r] = "hashing" /\ users[name] = NoPassword
      /\ users' = [users EXCEPT ![name] = form[r].password]
      /\ handler' = [handler EXCEPT ![r] = "200"]
      /\ tokens' = tokens \cup {[sub |-> name, exp |-> hour + Hours]}
      /\ raced \subseteq raced' /\ raced' \subseteq Registration
      /\ \A q \in Registration \ {r} :
           handler[q] = "hashing" /\ form[q].username = name => q \in raced'
      /\ UNCHANGED <<hour, form, answer>>
  BY DEF RegisterCommit, HasAccount, CreateAccessToken
<1>2. name \in Username /\ form[r].password \in Password /\ form[r].password # NoPassword
  BY DEF Forms
<1>3. [sub |-> name, exp |-> hour + Hours] \in Tokens
  BY <1>2 DEF Tokens
<1>4. \A q \in Registration : handler[q] = "200" => form[q].username # name
  <2> SUFFICES ASSUME NEW q \in Registration, handler[q] = "200", form[q].username = name
               PROVE  FALSE
    OBVIOUS
  <2>1. users[name] = form[q].password /\ form[q].password \in Password
    BY DEF RegisteredOnce, Forms
  <2> QED BY <2>1, <1>1
<1> HIDE DEF name
<1>5. AccountsTypeOK'
  BY <1>1, <1>2, <1>3
<1>6. \A n \in Username : users[n] # NoPassword => users'[n] = users[n]
  BY <1>1
<1>7. RegisteredOnce'
  <2>1. \A t \in tokens' : users'[t.sub] # NoPassword
    BY <1>1, <1>2, <1>6 DEF RegisteredOnce, HasAccount, Tokens
  <2> SUFFICES ASSUME NEW q \in Registration
               PROVE  /\ handler'[q] = "200" => users'[form[q].username] = form[q].password
                      /\ handler'[q] = "500" => q \in raced'
                      /\ \A p \in Registration \ {q} :
                           handler'[q] = "200" /\ handler'[p] = "200" =>
                             form[q].username # form[p].username
    BY <1>1, <2>1 DEF RegisteredOnce, HasAccount
  <2>2. handler'[q] = "200" => users'[form[q].username] = form[q].password
    BY <1>1, <1>2, <1>4 DEF RegisteredOnce, Forms, name
  <2>3. handler'[q] = "500" => q \in raced'
    BY <1>1 DEF RegisteredOnce
  <2>4. \A p \in Registration \ {q} :
          handler'[q] = "200" /\ handler'[p] = "200" => form[q].username # form[p].username
    BY <1>1, <1>4 DEF RegisteredOnce, name
  <2> QED BY <2>2, <2>3, <2>4
<1>8. RacesKnown'
  BY <1>1, <1>2 DEF RacesKnown, HasAccount, Forms, name
<1> QED BY <1>5, <1>7, <1>8

(* Every step keeps the invariant: only a commit writes to the table.       *)
LEMMA NextAccountsInv == AccountsInv /\ [AccountsNext]_accountVars => AccountsInv'
<1> SUFFICES ASSUME AccountsInv, [AccountsNext]_accountVars PROVE AccountsInv'
  OBVIOUS
<1> USE AccountsConstantsOK DEF AccountsInv, AccountsTypeOK, RacesKnown, RegisteredOnce, HasAccount
<1>1. CASE HourPasses
  BY <1>1 DEF HourPasses
<1>2. CASE \E r \in Registration : RegisterRefused(r)
  BY <1>2 DEF RegisterRefused
<1>3. CASE \E r \in Registration : RegisterLookup(r)
  BY <1>3 DEF RegisterLookup
<1>4. CASE \E r \in Registration : RegisterCommit(r)
  BY <1>4, CommitInv
<1>5. CASE \E r \in Registration : RegisterCollides(r)
  BY <1>5 DEF RegisterCollides
<1>6. CASE \E n \in Username, p \in Password : Login(n, p)
  <2> PICK n \in Username, p \in Password : Login(n, p)
    BY <1>6
  <2>1. UNCHANGED <<hour, users, form, handler, raced>> /\ answer' \in {200, 400}
    BY DEF Login
  <2>2. tokens' = tokens \/ (tokens' = tokens \cup {[sub |-> n, exp |-> hour + Hours]}
                             /\ users[n] # NoPassword)
    BY DEF Login, CreateAccessToken
  <2>3. tokens' \subseteq Tokens /\ \A t \in tokens' : users[t.sub] # NoPassword
    <3>1. [sub |-> n, exp |-> hour + Hours] \in Tokens
      BY DEF Tokens
    <3> QED BY <2>2, <3>1
  <2> QED BY <2>1, <2>3
<1>7. CASE \E t \in tokens, role \in DOMAIN Rank : Authorise(t, role)
  BY <1>7 DEF Authorise
<1>8. CASE UNCHANGED accountVars
  BY <1>8 DEF accountVars
<1> QED BY <1>1, <1>2, <1>3, <1>4, <1>5, <1>6, <1>7, <1>8 DEF AccountsNext

(* However registrations overlap, a name is one account's, with the        *)
(* password it was registered with; a 500 means a lost race.               *)
THEOREM RegisterTheorem == AccountsSpec => []RegisteredOnce
<1>1. AccountsInv => RegisteredOnce
  BY DEF AccountsInv
<1> QED BY InitAccountsInv, NextAccountsInv, <1>1, PTL DEF AccountsSpec
-----------------------------------------------------------------------------
(* PluginRegistry: the plugin of a manufacturer.                             *)
-----------------------------------------------------------------------------

(* A nonempty set of naturals has a least element.                         *)
LEMMA LeastNat == ASSUME NEW T, T \subseteq Nat, T # {} PROVE \E m \in T : \A k \in T : m <= k
<1>1. OpToRel(<, Nat) = {ss \in Nat \X Nat : ss[1] < ss[2]}
  BY DEF OpToRel
<1> DEFINE R == OpToRel(<, Nat)
<1>2. IsWellFoundedOn(R, Nat)
  BY NatLessThanWellFounded
<1>3. \A x, y \in Nat : x < y => <<x, y>> \in R
  BY <1>1
<1> HIDE DEF R
<1>4. PICK x \in T : \A y \in T : ~ (<<y, x>> \in R)
  BY <1>2, WFMin
<1>5. \A k \in T : x <= k
  <2> TAKE k \in T
  <2>1. k \in Nat /\ x \in Nat /\ ~(k < x)
    BY <1>3, <1>4
  <2> QED BY <2>1
<1> QED BY <1>5

(* Max of a nonempty set of directories is one of them.                    *)
LEMMA MaxIs ==
  ASSUME NEW n \in Nat, NEW S, S \subseteq 1..n, S # {}
  PROVE  Max(S) \in S /\ \A y \in S : Max(S) >= y
<1> DEFINE T == {n - x : x \in S}
<1>1. T \subseteq Nat /\ T # {}
  <2>1. \A x \in S : n - x \in Nat
    OBVIOUS
  <2> QED BY <2>1
<1>2. PICK m \in T : \A k \in T : m <= k
  <2> HIDE DEF T
  <2> QED BY <1>1, LeastNat
<1>3. PICK x \in S : m = n - x
  OBVIOUS
<1>4. \A y \in S : x >= y
  <2> TAKE y \in S
  <2>1. n - y \in T /\ y \in Int /\ x \in Int
    OBVIOUS
  <2>2. n - x <= n - y
    BY <1>2, <1>3, <2>1
  <2> QED BY <2>1, <2>2
<1> QED BY <1>4 DEF Max

(* After a discover() the registry is what it would register now; until    *)
(* the first edit it is that or nothing, and the class is of the registry. *)
RegisteredNow ==
  /\ ~installed => ~fresh /\ \A o \in Oem : manifests[o] = 0 /\ classes[o] = 0
  /\ fresh => \A o \in Oem : manifests[o] = Registered(o)
  /\ edits = 0 => \A o \in Oem : /\ manifests[o] \in {0, Registered(o)}
                                  /\ classes[o] \in {0, manifests[o]}

RegistryInv == RegistryTypeOK /\ RegisteredNow

(* Registered finds the last directory of an OEM, or none.                 *)
LEMMA RegisteredIsLast ==
  ASSUME RegistryTypeOK, NEW o \in Oem
  PROVE  /\ Registered(o) \in 0..Dirs
         /\ Registered(o) # 0 => Provides(Registered(o), o)
         /\ Registered(o) = 0 => Candidates(o) = {}
<1>1. CASE Candidates(o) = {}
  BY <1>1, RegistryConstantsOK DEF Registered
<1>2. CASE Candidates(o) # {}
  <2>1. Candidates(o) \subseteq 1..Dirs
    BY DEF Candidates, Scanned, PluginDir
  <2> DEFINE d == Registered(o)
  <2>2. d \in Candidates(o) /\ \A e \in Candidates(o) : d >= e
    BY <1>2, <2>1, MaxIs, RegistryConstantsOK DEF Registered
  <2> HIDE DEF d
  <2>3. d \in 1..Dirs /\ disk[d].manifest = "valid" /\ disk[d].oem = o
    BY <2>2 DEF Candidates, Scanned, PluginDir
  <2>4. \A e \in PluginDir : disk[e].manifest = "scalar" => d < e
    <3> SUFFICES ASSUME NEW e \in PluginDir, disk[e].manifest = "scalar" PROVE d < e
      OBVIOUS
    <3>1. e \notin 1..d
      BY <2>2 DEF Candidates, Scanned
    <3> QED BY <2>3, <3>1, RegistryConstantsOK DEF PluginDir
  <2>5. \A e \in PluginDir : disk[e].manifest = "valid" /\ disk[e].oem = o =>
          e <= d \/ \E f \in 1..e : disk[f].manifest = "scalar"
    <3> SUFFICES ASSUME NEW e \in PluginDir, disk[e].manifest = "valid", disk[e].oem = o,
                        \A f \in 1..e : disk[f].manifest # "scalar"
                 PROVE  e <= d
      OBVIOUS
    <3>1. e \in Candidates(o)
      BY DEF Candidates, Scanned
    <3> QED BY <2>2, <2>3, <3>1, RegistryConstantsOK DEF PluginDir
  <2> QED BY <2>3, <2>4, <2>5, RegistryConstantsOK DEF Provides, d
<1> QED BY <1>1, <1>2

(* Nothing is registered at first.                                         *)
LEMMA InitRegistryInv == RegistryInit => RegistryInv
<1> SUFFICES ASSUME RegistryInit PROVE RegistryInv
  OBVIOUS
<1>1. NoPlugin \in Plugins
  BY RegistryConstantsOK DEF NoPlugin, Plugins
<1>2. installed \in BOOLEAN /\ fresh \in BOOLEAN
  BY Zenon DEF RegistryInit
<1>3. RegistryTypeOK
  BY <1>1, <1>2, RegistryConstantsOK DEF RegistryInit, RegistryTypeOK
<1>4. RegisteredNow
  BY DEF RegistryInit, RegisteredNow
<1> QED BY <1>3, <1>4 DEF RegistryInv

(* discover() and load() register what is there; the class that load()     *)
(* caches is of the directory that is registered.                          *)
LEMMA NextRegistryInv == RegistryInv /\ [RegistryNext]_registryVars => RegistryInv'
<1> SUFFICES ASSUME RegistryInv, [RegistryNext]_registryVars PROVE RegistryInv'
  OBVIOUS
<1> USE RegistryConstantsOK DEF RegistryInv
<1>1. CASE Install
  <2>1. /\ ~installed /\ installed' = TRUE /\ disk' \in [PluginDir -> Plugins]
        /\ UNCHANGED <<manifests, classes, edits, fresh>>
    BY <1>1 DEF Install
  <2>2. installed' \in BOOLEAN
    BY <2>1, Zenon
  <2> QED BY <2>1, <2>2 DEF RegistryTypeOK, RegisteredNow
<1>2. CASE \E d \in PluginDir : Edit(d)
  <2>1. /\ edits' = edits + 1 /\ edits' # 0 /\ edits' \in 0..MaxEdits /\ installed
        /\ fresh' = FALSE
    BY <1>2 DEF Edit, RegistryTypeOK
  <2>2. disk' \in [PluginDir -> Plugins] /\ UNCHANGED <<manifests, classes, installed>>
    BY <1>2 DEF Edit, RegistryTypeOK
  <2> QED BY <2>1, <2>2 DEF RegistryTypeOK, RegisteredNow
<1>3. CASE Discover
  <2>1. installed /\ UNCHANGED <<disk, classes, installed, edits>>
    BY <1>3 DEF Discover
  <2>2. /\ fresh' = TRUE /\ manifests' \in [Oem -> 0..Dirs]
        /\ \A o \in Oem : manifests'[o] = Registered(o)
    BY <1>3, RegisteredIsLast DEF Discover
  <2>3. \A o \in Oem : Registered(o)' = Registered(o)
    BY <2>1 DEF Registered, Candidates, Scanned
  <2> QED BY <2>1, <2>2, <2>3 DEF RegistryTypeOK, RegisteredNow
<1>4. CASE \E o \in Oem : Load(o)
  <2> PICK o \in Oem : Load(o)
    BY <1>4
  <2>1. installed /\ UNCHANGED <<disk, installed, edits>>
    BY DEF Load
  <2>2. \/ manifests' = manifests /\ fresh' = fresh /\ manifests[o] # 0
        \/ manifests' = [p \in Oem |-> Registered(p)] /\ manifests[o] = 0
    BY Zenon DEF Load, RegistryTypeOK
  <2>3. /\ manifests' \in [Oem -> 0..Dirs]
        /\ \A p \in Oem : manifests'[p] \in {manifests[p], Registered(p)}
    BY <2>2, RegisteredIsLast DEF RegistryTypeOK
  <2>4. classes' = classes \/ classes' = [classes EXCEPT ![o] = manifests'[o]]
    BY DEF Load
  <2>5. /\ classes' \in [Oem -> 0..Dirs]
        /\ \A p \in Oem : classes'[p] \in {classes[p], manifests'[p]}
    BY <2>3, <2>4 DEF RegistryTypeOK
  <2>6. \A p \in Oem : Registered(p)' = Registered(p)
    BY <2>1 DEF Registered, Candidates, Scanned
  <2>7. fresh' \in BOOLEAN
    BY Zenon DEF Load
  <2>8. RegistryTypeOK'
    BY <2>1, <2>3, <2>5, <2>7 DEF RegistryTypeOK
  <2>9. fresh' => \A p \in Oem : manifests'[p] = Registered(p)
    BY <2>2, Zenon DEF RegisteredNow
  <2>10. ASSUME edits = 0, NEW p \in Oem
         PROVE  manifests'[p] \in {0, Registered(p)} /\ classes'[p] \in {0, manifests'[p]}
    <3>1. manifests'[p] \in {0, Registered(p)}
      BY <2>3, <2>10 DEF RegisteredNow
    <3>2. classes[p] # 0 => manifests'[p] = manifests[p] /\ classes[p] = manifests[p]
      BY <2>3, <2>10 DEF RegisteredNow
    <3> QED BY <2>5, <3>1, <3>2
  <2>11. RegisteredNow'
    BY <2>1, <2>6, <2>9, <2>10 DEF RegisteredNow
  <2> QED BY <2>8, <2>11
<1>5. CASE UNCHANGED registryVars
  <2>1. UNCHANGED <<disk, manifests, classes, installed, edits, fresh>>
    BY <1>5 DEF registryVars
  <2>2. fresh' \in BOOLEAN
    BY <2>1, Zenon DEF RegistryTypeOK
  <2>3. RegistryTypeOK'
    BY <2>1, <2>2 DEF RegistryTypeOK
  <2>4. \A o \in Oem : Registered(o)' = Registered(o)
    BY <2>1 DEF Registered, Candidates, Scanned
  <2> QED BY <2>1, <2>3, <2>4 DEF RegisteredNow
<1> QED BY <1>1, <1>2, <1>3, <1>4, <1>5 DEF RegistryNext

(* From a discover() to the next edit the registry has for each manufacturer *)
(* the last directory with a valid manifest before the first scalar one, and *)
(* nothing for the others, however the directories were edited before; the   *)
(* cached class is of that directory while nobody has edited anything.  Of a *)
(* class cached before an edit it says nothing (plugins/loader.py:73).       *)
THEOREM PluginTheorem == RegistrySpec => []OnePluginPerOem
<1>1. RegistryInv => OnePluginPerOem
  <2> SUFFICES ASSUME RegistryInv, NEW o \in Oem
               PROVE  /\ fresh /\ manifests[o] # 0 => Provides(manifests[o], o)
                      /\ fresh /\ manifests[o] = 0 =>
                           \A d \in PluginDir : disk[d].manifest = "valid" /\ disk[d].oem = o =>
                             \E f \in 1..d : disk[f].manifest = "scalar"
                      /\ edits = 0 /\ classes[o] # 0 => classes[o] = manifests[o]
    BY DEF OnePluginPerOem
  <2>1. fresh /\ manifests[o] # 0 => Provides(manifests[o], o)
    BY RegisteredIsLast DEF RegistryInv, RegisteredNow
  <2>2. fresh /\ manifests[o] = 0 => Candidates(o) = {}
    BY RegisteredIsLast DEF RegistryInv, RegisteredNow
  <2> QED BY <2>1, <2>2 DEF RegistryInv, RegisteredNow, Candidates, Scanned
<1> QED BY InitRegistryInv, NextRegistryInv, <1>1, PTL DEF RegistrySpec
-----------------------------------------------------------------------------
(* MCTools: the parts side by side.                                          *)
-----------------------------------------------------------------------------

(* The parts as their own specifications have them.                          *)
PartSpecs ==
  /\ ScanSpec /\ PassThruSpec /\ EcuSpec /\ CatalogSpec
  /\ RegistrySpec /\ SnifferSpec /\ VinSpec /\ AccountsSpec

PartInits ==
  /\ ScanInit /\ PassThruInit /\ EcuInit /\ CatalogInit
  /\ RegistryInit /\ SnifferInit /\ VinInit /\ AccountsInit

(* Every step is one of a single part and leaves the others as they are.     *)
LEMMA ToolsStep ==
  [ToolsNext]_toolsVars =>
    /\ [ScanNext]_scanVars /\ [PassThruNext]_passThruVars /\ [EcuNext]_ecuVars
    /\ [CatalogNext]_catalogVars /\ [RegistryNext]_registryVars
    /\ [SnifferNext]_snifferVars /\ [VinNext]_vinVars /\ [AccountsNext]_accountVars
<1> SUFFICES ASSUME [ToolsNext]_toolsVars
             PROVE  /\ [ScanNext]_scanVars /\ [PassThruNext]_passThruVars /\ [EcuNext]_ecuVars
                    /\ [CatalogNext]_catalogVars /\ [RegistryNext]_registryVars
                    /\ [SnifferNext]_snifferVars /\ [VinNext]_vinVars
                    /\ [AccountsNext]_accountVars
  OBVIOUS
<1>1. CASE ScanPart
  BY <1>1 DEF ScanPart
<1>2. CASE PassThruPart
  BY <1>2 DEF PassThruPart
<1>3. CASE EcuPart
  BY <1>3 DEF EcuPart
<1>4. CASE CatalogPart
  BY <1>4 DEF CatalogPart
<1>5. CASE RegistryPart
  BY <1>5 DEF RegistryPart
<1>6. CASE SnifferPart
  BY <1>6 DEF SnifferPart
<1>7. CASE VinPart
  BY <1>7 DEF VinPart
<1>8. CASE AccountsPart
  BY <1>8 DEF AccountsPart
<1>9. CASE UNCHANGED toolsVars
  BY <1>9 DEF toolsVars
<1> QED BY <1>1, <1>2, <1>3, <1>4, <1>5, <1>6, <1>7, <1>8, <1>9 DEF ToolsNext

(* Side by side each part behaves as its own specification says, so what is  *)
(* proved of the part holds here.                                            *)
THEOREM ToolsImplementParts == ToolsSpec => PartSpecs
<1>1. ToolsInit => PartInits
  BY DEF ToolsInit, PartInits
<1> QED
  BY <1>1, ToolsStep, PTL
     DEF ToolsSpec, PartInits, PartSpecs, ScanSpec, PassThruSpec, EcuSpec, CatalogSpec,
         RegistrySpec, SnifferSpec, VinSpec, AccountsSpec

(* Every variable of every part stays in its type.                           *)
THEOREM ToolsTypeTheorem == ToolsSpec => []ToolsTypeOK
<1>1. ScanInv => ScanTypeOK
  BY DEF ScanInv
<1>2. PassThruInv => PassThruTypeOK
  BY DEF PassThruInv
<1>3. EcuInv => EcuTypeOK
  BY DEF EcuInv
<1>4. RegistryInv => RegistryTypeOK
  BY DEF RegistryInv
<1>5. VinInv => VinTypeOK
  BY DEF VinInv
<1>6. AccountsInv => AccountsTypeOK
  BY DEF AccountsInv
<1>7. /\ ScanSpec => []ScanTypeOK
      /\ PassThruSpec => []PassThruTypeOK
      /\ EcuSpec => []EcuTypeOK
  BY InitScanInv, NextScanInv, <1>1, PassThruInvariant, <1>2, EcuInvariant, <1>3, PTL
     DEF ScanSpec
<1>8. /\ RegistrySpec => []RegistryTypeOK
      /\ VinSpec => []VinTypeOK
      /\ AccountsSpec => []AccountsTypeOK
  BY InitRegistryInv, NextRegistryInv, <1>4, InitVinInv, NextVinInv, <1>5, InitAccountsInv,
     NextAccountsInv, <1>6, PTL
     DEF RegistrySpec, VinSpec, AccountsSpec
<1> QED
  BY <1>7, <1>8, CatalogTypeTheorem, SnifferTypeTheorem, ToolsImplementParts, PTL
     DEF PartSpecs, ToolsTypeOK
=============================================================================
