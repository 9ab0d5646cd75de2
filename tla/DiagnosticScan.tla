--------------------------- MODULE DiagnosticScan ---------------------------
(***************************************************************************)
(* scripts/diagnostic_scan.py and its SessionLogger                        *)
(* (src/logging/session.py): scans of one car, the directory each of them  *)
(* writes session.log and session.json to, and crashes in between.         *)
(*                                                                         *)
(* The directory is named after VIN, minute and prefix and may exist: two  *)
(* scans started in one minute share it.  Every entry is first appended to *)
(* session.log and then session.json is truncated and written anew.  Texts *)
(* of different lengths over one another leave no JSON ("torn").           *)
(***************************************************************************)
EXTENDS Naturals

CONSTANTS
  Scan,       \* runs of the script
  EnvEntries, \* entries before the environment check: 3 in the code
  Entries,    \* entries of a complete run before finalize
  MaxMinute   \* bound: minutes of the clock

ASSUME ScanConstantsOK ==
  /\ Scan # {}
  /\ EnvEntries \in Nat \ {0} /\ Entries \in Nat /\ EnvEntries < Entries
  /\ MaxMinute \in Nat \ {0}

VARIABLES
  minute,   \* the clock, which names directories
  step,     \* what each scan does next
  dir,      \* its directory, 0 before it starts
  logged,   \* its entries so far, which are also in memory
  failed,   \* its environment check failed
  ended,    \* finalize has set `ended` and `summary`
  lines,    \* how many lines of each scan the session.log of a directory has
  json      \* session.json of each directory

scanVars == <<minute, step, dir, logged, failed, ended, lines, json>>

Directory == 1..MaxMinute
Steps == {"idle", "line", "open", "write", "exited", "done", "crashed"}

\* What session.json holds: a whole document of one scan, or something else.
Document(s, n, e) == [st |-> "whole", scan |-> s, entries |-> n, ended |-> e]
Broken(st) == [st |-> st, scan |-> CHOOSE s \in Scan : TRUE, entries |-> 0, ended |-> FALSE]

ScanInit ==
  /\ minute = 1
  /\ step = [s \in Scan |-> "idle"] /\ dir = [s \in Scan |-> 0]
  /\ logged = [s \in Scan |-> 0]
  /\ failed = [s \in Scan |-> FALSE] /\ ended = [s \in Scan |-> FALSE]
  /\ lines = [d \in Directory |-> [s \in Scan |-> 0]]
  /\ json = [d \in Directory |-> Broken("missing")]

-----------------------------------------------------------------------------
MinutePasses ==
  /\ minute < MaxMinute /\ minute' = minute + 1
  /\ UNCHANGED <<step, dir, logged, failed, ended, lines, json>>

\* SessionLogger(): the directory, then _write_json of a log without entries.
StartScan(s) ==
  /\ step[s] = "idle"
  /\ dir' = [dir EXCEPT ![s] = minute]
  /\ step' = [step EXCEPT ![s] = "open"]
  /\ UNCHANGED <<minute, logged, failed, ended, lines, json>>

\* Faulty variant of AppendLine: the line goes to session.log last of all, once
\* session.json has its entry.
AppendLineLate(s) ==
  /\ step[s] = "line"
  /\ lines' = [lines EXCEPT ![dir[s]][s] = logged[s]]
  /\ logged' = [logged EXCEPT ![s] = @ + 1]
  /\ IF logged[s] = EnvEntries
     THEN \E b \in BOOLEAN : failed' = [failed EXCEPT ![s] = b]
     ELSE UNCHANGED failed
  /\ step' = [step EXCEPT ![s] = "open"]
  /\ UNCHANGED <<minute, dir, ended, json>>

\* _append up to _write_json: the line in session.log, the entry in memory.
\* The fourth line tells how check_environment came out.
AppendLine(s) ==
  /\ step[s] = "line"
  /\ lines' = [lines EXCEPT ![dir[s]][s] = @ + 1]
  /\ logged' = [logged EXCEPT ![s] = @ + 1]
  /\ IF logged[s] = EnvEntries
     THEN \E b \in BOOLEAN : failed' = [failed EXCEPT ![s] = b]
     ELSE UNCHANGED failed
  /\ step' = [step EXCEPT ![s] = "open"]
  /\ UNCHANGED <<minute, dir, ended, json>>

\* Faulty variant of OpenJson: the file is opened without truncating it.
OpenJsonKeeping(s) ==
  /\ step[s] = "open"
  /\ step' = [step EXCEPT ![s] = "write"]
  /\ UNCHANGED <<minute, dir, logged, failed, ended, lines, json>>

\* _write_json: open(..., "w") truncates the file,
OpenJson(s) ==
  /\ step[s] = "open"
  /\ json' = [json EXCEPT ![dir[s]] = Broken("empty")]
  /\ step' = [step EXCEPT ![s] = "write"]
  /\ UNCHANGED <<minute, dir, logged, failed, ended, lines>>

\* ... and json.dump writes the document from the start of the file.  Over
\* something another scan has written since, it may leave a rest of that.
Overlay(d, document) == {document} \cup
  (IF json[d].st = "empty" THEN {} ELSE {Broken("torn")})

\* sys.exit(1) after the error, finalize after the last entry, and the end of
\* main after the entry that follows finalize.
After(s) ==
  CASE failed[s] -> "exited"
    [] ~failed[s] /\ logged[s] = Entries /\ ~ended[s] -> "open"
    [] logged[s] = Entries + 1 -> "done"
    [] OTHER -> "line"

\* finalize sets `ended` and `summary` after the last entry, before it writes.
Finalize(s) == ended' = [ended EXCEPT ![s] = @ \/ (logged[s] = Entries /\ ~failed[s])]

WriteJson(s) ==
  /\ step[s] = "write"
  /\ \E text \in Overlay(dir[s], Document(s, logged[s], ended[s])) :
       json' = [json EXCEPT ![dir[s]] = text]
  /\ step' = [step EXCEPT ![s] = After(s)]
  /\ Finalize(s)
  /\ UNCHANGED <<minute, dir, logged, failed, lines>>

\* The script is killed: a write under way leaves an empty or a partial file.
ScanDies(s) ==
  /\ step[s] \in {"line", "open", "write"}
  /\ step' = [step EXCEPT ![s] = "crashed"]
  /\ \/ UNCHANGED json
     \/ step[s] = "write" /\ json' = [json EXCEPT ![dir[s]] = Broken("torn")]
  /\ UNCHANGED <<minute, dir, logged, failed, ended, lines>>

ScanNext ==
  \/ MinutePasses
  \/ \E s \in Scan : \/ StartScan(s) \/ AppendLine(s) \/ OpenJson(s) \/ WriteJson(s)
                     \/ ScanDies(s)

ScanSpec == ScanInit /\ [][ScanNext]_scanVars
-----------------------------------------------------------------------------
ScanTypeOK ==
  /\ minute \in Directory
  /\ step \in [Scan -> Steps] /\ dir \in [Scan -> 0..MaxMinute]
  /\ logged \in [Scan -> 0..Entries + 1]
  /\ failed \in [Scan -> BOOLEAN] /\ ended \in [Scan -> BOOLEAN]
  /\ lines \in [Directory -> [Scan -> 0..Entries + 1]]
  /\ json \in [Directory -> [st : {"missing", "empty", "torn", "whole"}, scan : Scan,
                             entries : 0..Entries + 1, ended : BOOLEAN]]

Users(d) == {s \in Scan : dir[s] = d}
Alone(s) == Users(dir[s]) = {s}

(* Whatever session.json says, session.log says too: it has a line for every *)
(* entry of the scan the document describes - across crashes, and when       *)
(* another scan writes to the same two files.                                *)
JsonWithinLog ==
  \A d \in Directory : json[d].st = "whole" => json[d].entries <= lines[d][json[d].scan]

(* What a scan that has its directory to itself leaves in session.json,      *)
(* whenever it stops: between two entries a document of all of them; after a *)
(* kill, if there is a document, one at most one line behind session.log; at *)
(* its end one with all its entries that says when it ended; and after a     *)
(* failed environment check one up to the error that never says so.          *)
RunRecorded ==
  \A s \in Scan : step[s] # "idle" /\ Alone(s) =>
    /\ step[s] = "line" => json[dir[s]] = Document(s, logged[s], ended[s])
    /\ json[dir[s]].st = "whole" => json[dir[s]].entries + 1 >= lines[dir[s]][s]
    /\ step[s] = "done" => json[dir[s]] = Document(s, Entries + 1, TRUE)
    /\ step[s] = "exited" => json[dir[s]] = Document(s, EnvEntries + 1, FALSE)
=============================================================================
