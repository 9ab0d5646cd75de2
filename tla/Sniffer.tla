-------------------------------- MODULE Sniffer --------------------------------
(***************************************************************************)
(* SnifferEngine (src/sniffer/engine.py): the capture buffer, its filters, *)
(* the statistics kept per arbitration id, payload diffs and the guess at  *)
(* the bitrate.                                                            *)
(*                                                                         *)
(* Timestamps are milliseconds of the wall clock, which may step back.     *)
(* Filters are id allowlists, the form filter profiles have.               *)
(***************************************************************************)
EXTENDS Integers, Sequences, SequencesExt

CONSTANTS
  ArbIds,    \* arbitration ids
  Payload,   \* frame payloads, sequences of bytes
  Gap,       \* milliseconds between frames on the bus
  MinFrames, \* frames detect_bitrate needs: 10 in the code
  MaxSent,   \* bound: frames on the bus
  MaxFilters \* bound: filters installed at a time

ASSUME SnifferConstantsOK ==
  /\ Gap \subseteq Int /\ MinFrames \in Nat \ {0, 1}
  /\ MaxSent \in Nat /\ MaxFilters \in Nat

VARIABLES
  now, sent,   \* the clock, and frames on the bus so far
  frames,      \* frames
  filters,     \* _filters
  idStats,     \* _id_stats, of the ids seen
  diff,        \* what the last capture() returned, NoDiff for None
  bitrate      \* detected_bitrate, 0 for None

snifferVars == <<now, sent, frames, filters, idStats, diff, bitrate>>

NoDiff == [st |-> "none", changed |-> {}]

SnifferInit ==
  /\ now = 0 /\ sent = 0
  /\ frames = <<>> /\ filters = <<>> /\ idStats = <<>>
  /\ diff = NoDiff /\ bitrate = 0
-----------------------------------------------------------------------------
PassesFilters(id) == \A i \in DOMAIN filters : id \in filters[i]

\* _diff_payload: byte positions are compared up to the shorter length.
DiffPayload(old, new) ==
  [st |-> "diff",
   changed |-> {i \in (DOMAIN old) \cap (DOMAIN new) : old[i] # new[i]}]

FirstSeen(ts) == [count |-> 0, first |-> ts, last |-> ts, payload |-> <<>>, intervals |-> <<>>]

StatsOf(id, ts) == IF id \in DOMAIN idStats THEN idStats[id] ELSE FirstSeen(ts)

\* The new statistics of an id on a frame of it.
Counted(stats, data, ts) ==
  [stats EXCEPT !.count = @ + 1, !.last = ts, !.payload = data,
                !.intervals = IF stats.count > 0 THEN Append(@, ts - stats.last) ELSE @]

\* Faulty variant of Capture: the filters are asked after the statistics.
CaptureFilteredLate(id, data, gap) ==
  /\ sent < MaxSent /\ sent' = sent + 1 /\ now' = now + gap
  /\ LET stats == StatsOf(id, now')
     IN  /\ diff' = IF PassesFilters(id) /\ stats.count > 0 /\ stats.payload # data
                    THEN DiffPayload(stats.payload, data) ELSE NoDiff
         /\ idStats' = [i \in DOMAIN idStats \cup {id} |->
                         IF i = id THEN Counted(stats, data, now') ELSE idStats[i]]
  /\ frames' = IF PassesFilters(id)
               THEN Append(frames, [id |-> id, data |-> data, ts |-> now']) ELSE frames
  /\ UNCHANGED <<filters, bitrate>>

\* The next frame on the bus, and capture() of it.
Capture(id, data, gap) ==
  /\ sent < MaxSent /\ sent' = sent + 1 /\ now' = now + gap
  /\ IF PassesFilters(id)
     THEN LET stats == StatsOf(id, now')
          IN  /\ frames' = Append(frames, [id |-> id, data |-> data, ts |-> now'])
              /\ diff' = IF stats.count > 0 /\ stats.payload # data
                         THEN DiffPayload(stats.payload, data) ELSE NoDiff
              /\ idStats' = [i \in DOMAIN idStats \cup {id} |->
                              IF i = id THEN Counted(stats, data, now') ELSE idStats[i]]
     ELSE diff' = NoDiff /\ UNCHANGED <<frames, idStats>>
  /\ UNCHANGED <<filters, bitrate>>

AddFilter(ids) ==
  /\ Len(filters) < MaxFilters
  /\ filters' = Append(filters, ids)
  /\ UNCHANGED <<now, sent, frames, idStats, diff, bitrate>>

\* load_filter_profile: an empty allowlist filters nothing.
LoadFilterProfile(ids) ==
  IF ids # {} THEN AddFilter(ids) ELSE UNCHANGED snifferVars

ClearFilters ==
  /\ filters' = <<>>
  /\ UNCHANGED <<now, sent, frames, idStats, diff, bitrate>>

\* The bucket of an average spacing of total/n ms, in bits per second.
Bucket(total, n) ==
  CASE total <= 2 * n -> 500000
    [] total > 2 * n /\ total <= 8 * n -> 250000
    [] total > 8 * n /\ total <= 20 * n -> 125000
    [] OTHER -> 33300

Deltas == [i \in 1..Len(frames) - 1 |-> frames[i + 1].ts - frames[i].ts]
SumOf(s) == FoldSeq(+, 0, s)

\* detect_bitrate; of too few frames it returns None and keeps its last guess.
DetectBitrate ==
  /\ Len(frames) >= MinFrames
  /\ bitrate' = Bucket(SumOf(Deltas), Len(Deltas))
  /\ UNCHANGED <<now, sent, frames, filters, idStats, diff>>

SnifferNext ==
  \/ \E id \in ArbIds, data \in Payload, gap \in Gap : Capture(id, data, gap)
  \/ \E ids \in SUBSET ArbIds : AddFilter(ids) \/ LoadFilterProfile(ids)
  \/ ClearFilters \/ DetectBitrate

SnifferSpec == SnifferInit /\ [][SnifferNext]_snifferVars
-----------------------------------------------------------------------------
SnifferTypeOK ==
  /\ now \in Int /\ sent \in 0..MaxSent
  /\ frames \in Seq([id : ArbIds, data : Payload, ts : Int])
  /\ filters \in Seq(SUBSET ArbIds)
  /\ DOMAIN idStats \subseteq ArbIds
  /\ \A id \in DOMAIN idStats :
       /\ idStats[id].count \in Nat /\ idStats[id].payload \in Payload
       /\ {idStats[id].first, idStats[id].last} \subseteq Int
       /\ idStats[id].intervals \in Seq(Int)
  /\ diff.st \in {"none", "diff"}
  /\ bitrate \in {0, 500000, 250000, 125000, 33300}

\* The positions in the buffer of the n frames of an id, in order.
PositionsOf(id, n) ==
  {pos \in [1..n -> DOMAIN frames] :
     /\ {pos[k] : k \in 1..n} = {i \in DOMAIN frames : frames[i].id = id}
     /\ \A j, k \in 1..n : j < k => pos[j] < pos[k]}

(* The statistics, kept frame by frame while filters come and go, are those  *)
(* of the buffer: an id has statistics if and only if it has frames, they    *)
(* count them and hold the first and last timestamp and the last payload,    *)
(* and its intervals - the source of its frequency - are the times between   *)
(* its successive frames, also if the clock steps back.                      *)
StatsMatchFrames ==
  /\ DOMAIN idStats = {frames[i].id : i \in DOMAIN frames}
  /\ \A id \in DOMAIN idStats :
       LET stats == idStats[id]
           n == stats.count
       IN  \E pos \in PositionsOf(id, n) :
             /\ stats.first = frames[pos[1]].ts
             /\ stats.last = frames[pos[n]].ts /\ stats.payload = frames[pos[n]].data
             /\ Len(stats.intervals) = n - 1
             /\ \A k \in 1..n - 1 : stats.intervals[k] = frames[pos[k + 1]].ts - frames[pos[k]].ts
===============================================================================
