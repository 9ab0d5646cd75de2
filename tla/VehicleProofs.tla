--------------------------- MODULE VehicleProofs ----------------------------
(***************************************************************************)
(* What holds of the parts that speak to a car or interpret what it says:  *)
(* the J2534 simulator, the UDS client and Trionic 8 interface, the CAN    *)
(* sniffer and the VIN decoder.  For any protocols, seeds of 16 bits,      *)
(* identifiers, payloads, gaps and VINs, and any number of channels,       *)
(* snapshots and frames.                                                   *)
(***************************************************************************)
EXTENDS PassThru, EcuTools, Sniffer, VinDecoder, SequenceTheorems, TLAPS

(* The receive queue holds the answers the caller has not read, whatever   *)
(* was probed, and while it has read before each new channel they are the  *)
(* present channel's.                                                      *)
QueueOfChannel ==
  /\ unread = Len(rxQueue)
  /\ drained => \A i \in 1..Len(rxQueue) :
       rxQueue[i].channel = channels /\ (channelOpen => rxQueue[i].proto = protocol)
  /\ probing /\ drained => rxQueue = <<>>

(* What a probe has tried was found active, and its first try closed the   *)
(* channel.                                                                *)
ProbedSoFar ==
  probing => active = Protocol \ untried /\ (channelOpen => untried = Protocol)

PassThruInv == PassThruTypeOK /\ QueueOfChannel /\ ProbedSoFar

(* A device that was never opened.                                         *)
LEMMA InitPassThruInv == PassThruInit => PassThruInv
<1> SUFFICES ASSUME PassThruInit PROVE PassThruInv
  OBVIOUS
<1> USE DEF PassThruInit
<1>1. isOpen \in BOOLEAN /\ channelOpen \in BOOLEAN /\ probing \in BOOLEAN /\ drained \in BOOLEAN
  BY Zenon
<1>2. PassThruTypeOK
  BY <1>1, PassThruConstantsOK DEF PassThruTypeOK
<1>3. QueueOfChannel /\ ProbedSoFar
  BY DEF QueueOfChannel, ProbedSoFar
<1> QED BY <1>2, <1>3 DEF PassThruInv

(* An answer to a request on an open channel comes from that channel.      *)
LEMMA WriteMsgInv ==
  ASSUME PassThruInv, NEW id \in ArbId, NEW data \in Data, WriteMsg(id, data)
  PROVE  PassThruInv'
<1> USE PassThruConstantsOK DEF PassThruInv, PassThruTypeOK, QueueOfChannel, ProbedSoFar, WriteMsg
<1>1. CASE ~Answered(id, data)
  BY <1>1
<1>2. CASE Answered(id, data)
  <2> DEFINE a == Handle(ecuSim, data, channels)
  <2>1. a \in Answer /\ a.channel = channels /\ a.proto = protocol
    BY DEF Handle, Answer
  <2> HIDE DEF a
  <2>2. rxQueue' = Append(rxQueue, a) /\ unread' = unread + 1
    BY <1>2 DEF a
  <2>3. /\ rxQueue' \in Seq(Answer) /\ Len(rxQueue') = Len(rxQueue) + 1
        /\ rxQueue'[Len(rxQueue) + 1] = a
        /\ \A i \in 1..Len(rxQueue) : rxQueue'[i] = rxQueue[i]
    BY <2>1, <2>2
  <2>4. unread' \in 0..MaxUnread /\ unread' = Len(rxQueue')
    BY <2>2, <2>3
  <2>5. \A i \in 1..Len(rxQueue') : i \in 1..Len(rxQueue) \/ i = Len(rxQueue) + 1
    BY <2>3
  <2>6. drained => \A i \in 1..Len(rxQueue') :
          rxQueue'[i].channel = channels /\ rxQueue'[i].proto = protocol
    BY <2>1, <2>3, <2>5
  <2> QED BY <2>3, <2>4, <2>6
<1> QED BY <1>1, <1>2

(* Reading takes the oldest answer off.                                    *)
LEMMA ReadMsgInv == PassThruInv /\ ReadMsg => PassThruInv'
<1> SUFFICES ASSUME PassThruInv, ReadMsg PROVE PassThruInv'
  OBVIOUS
<1> USE PassThruConstantsOK DEF PassThruInv, PassThruTypeOK, QueueOfChannel, ProbedSoFar, ReadMsg
<1>1. /\ rxQueue' \in Seq(Answer) /\ Len(rxQueue') = Len(rxQueue) - 1 /\ Len(rxQueue) >= 1
      /\ \A i \in 1..(Len(rxQueue) - 1) : rxQueue'[i] = rxQueue[i + 1]
  OBVIOUS
<1>2. unread' \in 0..MaxUnread /\ unread' = Len(rxQueue')
  BY <1>1
<1>3. \A i \in 1..Len(rxQueue') : i + 1 \in 1..Len(rxQueue) /\ rxQueue'[i] = rxQueue[i + 1]
  BY <1>1
<1> QED BY <1>1, <1>2, <1>3

(* A probe reads as many answers as it asks for.                           *)
LEMMA ProbeNextInv ==
  ASSUME PassThruInv, NEW p \in Protocol, ProbeNext(p)
  PROVE  PassThruInv' /\ active' = Protocol \ untried' /\ Len(rxQueue') = Len(rxQueue)
<1> USE PassThruConstantsOK DEF PassThruInv, PassThruTypeOK, QueueOfChannel, ProbedSoFar
<1> DEFINE a == Handle(p, "mode 01", channels + 1)
<1>1. a \in Answer
  BY DEF Handle, Answer
<1> HIDE DEF a
<1> DEFINE answers == Append(rxQueue, a)
<1>2. answers \in Seq(Answer) /\ answers # <<>> /\ Len(answers) = Len(rxQueue) + 1
  BY <1>1
<1> HIDE DEF answers
<1>3. /\ probing /\ p \in untried /\ untried' = untried \ {p} /\ channels' = channels + 1
      /\ active' = active \cup {p} /\ rxQueue' = Tail(answers)
      /\ ChannelGone /\ UNCHANGED <<isOpen, probing, unread, drained>>
  BY <1>2 DEF ProbeNext, Answered, a, answers
<1>4. rxQueue' \in Seq(Answer) /\ Len(rxQueue') = Len(rxQueue)
  BY <1>2, <1>3
<1>5. active' = Protocol \ untried'
  BY <1>3
<1>6. drained => rxQueue' = <<>>
  BY <1>3, <1>4
<1>7. channelOpen' = FALSE /\ protocol' = NoProtocol /\ ecuSim' = NoProtocol
  BY <1>3 DEF ChannelGone
<1>8. PassThruTypeOK'
  <2>1. channelOpen' \in BOOLEAN
    BY <1>7, Zenon
  <2> QED BY <1>3, <1>4, <1>5, <1>7, <2>1
<1>9. QueueOfChannel'
  BY <1>3, <1>4, <1>6, <1>7
<1> QED BY <1>3, <1>4, <1>5, <1>7, <1>8, <1>9

(* Every call keeps the invariant.                                         *)
LEMMA NextPassThruInv == PassThruInv /\ [PassThruNext]_passThruVars => PassThruInv'
<1> SUFFICES ASSUME PassThruInv, [PassThruNext]_passThruVars PROVE PassThruInv'
  OBVIOUS
<1> USE PassThruConstantsOK DEF PassThruInv, PassThruTypeOK, QueueOfChannel, ProbedSoFar
<1>1. CASE PassThruOpen
  BY <1>1, Zenon DEF PassThruOpen
<1>2. CASE PassThruDisconnect \/ PassThruClose
  <2>1. /\ channelOpen' = FALSE /\ protocol' = NoProtocol /\ ecuSim' = NoProtocol
        /\ isOpen' = isOpen \/ isOpen' = FALSE
        /\ ~probing /\ UNCHANGED <<rxQueue, probing, untried, active, channels, unread, drained>>
    BY <1>2 DEF PassThruDisconnect, PassThruClose, ChannelGone
  <2>2. channelOpen' \in BOOLEAN /\ isOpen' \in BOOLEAN
    BY <2>1, Zenon
  <2> QED BY <2>1, <2>2
<1>3. CASE \E p \in Protocol : PassThruConnect(p)
  BY <1>3 DEF PassThruConnect
<1>4. CASE ProbeStart
  BY <1>4 DEF ProbeStart
<1>5. CASE ProbeEnd
  BY <1>5 DEF ProbeEnd
<1>6. CASE UNCHANGED passThruVars
  BY <1>6 DEF passThruVars
<1> HIDE DEF PassThruInv
<1> QED BY <1>1, <1>2, <1>3, <1>4, <1>5, <1>6, WriteMsgInv, ReadMsgInv, ProbeNextInv
        DEF PassThruNext

(* For any protocols, and any number of channels and of unread answers.      *)
THEOREM PassThruInvariant == PassThruSpec => []PassThruInv
BY InitPassThruInv, NextPassThruInv, PTL DEF PassThruSpec

(* A caller that has read its answers before it opens a channel reads on it  *)
(* the answers of that channel alone, whatever was probed in between         *)
(* (j2534/simulator.py).                                                     *)
THEOREM AnswersTheorem == PassThruSpec => []AnswersOfThisChannel
<1>1. PassThruInv => AnswersOfThisChannel
  BY DEF PassThruInv, PassThruTypeOK, QueueOfChannel, AnswersOfThisChannel
<1> QED BY PassThruInvariant, <1>1, PTL

(* Whatever the order in which it tries them, a probe finds every protocol   *)
(* active, leaves the number of unread answers as it was and closes the      *)
(* channel of its caller (emulator/tech2.py, j2534/simulator.py).            *)
THEOREM ProbeTheorem == PassThruSpec => ProbeFindsAll
<1> DEFINE Found ==
      probing => /\ untried' = untried \/ active' = Protocol \ untried'
                 /\ Len(rxQueue') = Len(rxQueue)
                 /\ ~probing' => ~channelOpen'
<1>1. PassThruInv /\ [PassThruNext]_passThruVars => [Found]_passThruVars
  <2> SUFFICES ASSUME PassThruInv, PassThruNext, probing
               PROVE  /\ untried' = untried \/ active' = Protocol \ untried'
                      /\ Len(rxQueue') = Len(rxQueue)
                      /\ ~probing' => ~channelOpen'
    OBVIOUS
  <2>1. CASE ProbeEnd
    BY <2>1, PassThruConstantsOK DEF ProbeEnd, PassThruInv, PassThruTypeOK, ProbedSoFar
  <2>2. CASE \E p \in Protocol : ProbeNext(p)
    <3>1. probing'
      BY <2>2 DEF ProbeNext
    <3> QED BY <2>2, <3>1, ProbeNextInv
  <2> QED BY <2>1, <2>2 DEF PassThruNext, PassThruOpen, ReadMsg, PassThruDisconnect, PassThruClose,
                            PassThruConnect, WriteMsg, ProbeStart
<1> QED BY PassThruInvariant, <1>1, PTL DEF PassThruSpec, ProbeFindsAll
-----------------------------------------------------------------------------
(* EcuTools: the session, the decoded readings and the keys.                 *)
-----------------------------------------------------------------------------

(* t8_keygen is an involution on 16-bit words: it complements the bits its   *)
(* constant has at 0 and keeps the others.                                   *)
LEMMA KeygenInvolution ==
  ASSUME NEW s \in Word
  PROVE  T8Keygen(s) \in Word /\ T8Keygen(T8Keygen(s)) = s
  BY DEF Word, T8Keygen

(* The raw value of every data id is a number, and so is what it decodes to. *)
LEMMA StubDataIsInt == \A r \in Reading : StubData[r] \in Int
  BY DEF Reading, StubData

(* The scales and offsets of the readings are numbers.                       *)
LEMMA DecodesToInt == \A r \in Reading : Scale(r) \in Int /\ Offset(r) \in Int
  BY DEF Scale, Offset

(* Each raw value of the stub decodes to the value documented beside it.     *)
LEMMA StubDecodes == [r \in Reading |-> StubData[r] * Scale(r) - Offset(r)] = Documented
  BY DEF Reading, StubData, Scale, Offset, Documented

EcuInv == EcuTypeOK /\ SessionFollowsTransport /\ ReadingsAsDocumented /\ KeyDeterminesSeed

(* A new client has no session and no reading, and has unlocked nothing.     *)
LEMMA InitEcuInv == EcuInit => EcuInv
<1> SUFFICES ASSUME EcuInit PROVE EcuInv
  OBVIOUS
<1>1. stub \in BOOLEAN /\ connected \in BOOLEAN
  BY Zenon DEF EcuInit
<1>2. EcuTypeOK
  BY <1>1, EcuConstantsOK DEF EcuInit, EcuTypeOK
<1>3. SessionFollowsTransport /\ ReadingsAsDocumented /\ KeyDeterminesSeed
  BY DEF EcuInit, SessionFollowsTransport, ReadingsAsDocumented, KeyDeterminesSeed
<1> QED
  BY <1>2, <1>3 DEF EcuInv

(* The menu and the table of services leave the Trionic 8 client alone.      *)
LEMMA SelectInv == EcuInv /\ Select => EcuInv'
<1> SUFFICES ASSUME EcuInv, Select PROVE EcuInv'
  OBVIOUS
<1> USE EcuConstantsOK
<1>1. /\ UNCHANGED t8Vars
      /\ snapshots' \in 0..MaxSnapshots /\ injected' \in 0..MaxSnapshots
      /\ raised' \in {"no", "KeyError", "TypeError", "ValueError", "IndexError"}
  BY DEF Select, SelectDtcRead, SelectLiveData, SelectActuatorTest, SelectPassthru,
         SelectSnapshot, SelectInject, DtcRead, LiveData, ActuatorTest, WithClient, TakeSnapshot,
         InjectFrame, Returns, Raises, toolVars, EcuInv, EcuTypeOK
<1> QED
  BY <1>1, Zenon DEF EcuInv, EcuTypeOK, SessionFollowsTransport, ReadingsAsDocumented,
                     KeyDeterminesSeed, t8Vars

(* Every step of the client preserves the invariant.                         *)
LEMMA NextEcuInv == EcuInv /\ [EcuNext]_ecuVars => EcuInv'
<1> SUFFICES ASSUME EcuInv, [EcuNext]_ecuVars PROVE EcuInv'
  OBVIOUS
<1> USE EcuConstantsOK DEF EcuInv
<1>1. CASE \E b \in BOOLEAN : NewTrionic8(b)
  <2>1. stub' \in BOOLEAN /\ connected' \in BOOLEAN
    BY <1>1, Zenon DEF NewTrionic8
  <2>2. EcuTypeOK'
    BY <1>1, <2>1 DEF NewTrionic8, Returns, toolVars, EcuTypeOK
  <2> QED
    BY <1>1, <2>2 DEF NewTrionic8, SessionFollowsTransport, ReadingsAsDocumented, KeyDeterminesSeed
<1>2. CASE T8Connect
  <2>1. connected' \in BOOLEAN
    BY <1>2, Zenon DEF T8Connect, TransportConnect, EcuTypeOK
  <2>2. EcuTypeOK'
    BY <1>2, <2>1 DEF T8Connect, TransportConnect, Returns, Raises, toolVars, EcuTypeOK
  <2> QED
    BY <1>2, <2>2 DEF T8Connect, TransportConnect, EcuTypeOK, SessionFollowsTransport,
                      ReadingsAsDocumented, KeyDeterminesSeed
<1>3. CASE T8Disconnect
  <2>1. connected' \in BOOLEAN
    BY <1>3, Zenon DEF T8Disconnect
  <2>2. EcuTypeOK'
    BY <1>3, <2>1 DEF T8Disconnect, SetSession, SendRecv, Returns, Raises, toolVars, EcuTypeOK
  <2> QED
    BY <1>3, <2>2 DEF T8Disconnect, SetSession, EcuTypeOK, SessionFollowsTransport,
                      ReadingsAsDocumented, KeyDeterminesSeed
<1>4. CASE ReadEcuInfo
  BY <1>4 DEF ReadEcuInfo, Returns, toolVars, EcuTypeOK, SessionFollowsTransport,
              ReadingsAsDocumented, KeyDeterminesSeed
<1>5. CASE ReadLiveData
  <2>1. live' \in [Reading -> Int]
    <3>1. \A r \in Reading : ReadInt(r) * Scale(r) - Offset(r) \in Int
      BY StubDataIsInt, DecodesToInt DEF ReadInt
    <3> QED
      BY <1>5, <3>1 DEF ReadLiveData
  <2>2. EcuTypeOK'
    BY <1>5, <2>1 DEF ReadLiveData, Returns, toolVars, EcuTypeOK
  <2>3. ASSUME vin' = "read" PROVE live' = Documented
    <3>1. connected
      BY <1>5, <2>3 DEF ReadLiveData
    <3> QED
      BY <1>5, <3>1, StubDecodes DEF ReadLiveData, ReadInt
  <2>4. ASSUME vin' = "UNKNOWN" PROVE \A r \in Reading : live'[r] = -Offset(r)
    <3>1. ~connected
      BY <1>5, <2>4 DEF ReadLiveData
    <3> QED
      BY <1>5, <3>1, DecodesToInt DEF ReadLiveData, ReadInt
  <2>5. SessionFollowsTransport' /\ KeyDeterminesSeed'
    BY <1>5 DEF ReadLiveData, SessionFollowsTransport, KeyDeterminesSeed
  <2> QED
    BY <2>2, <2>3, <2>4, <2>5 DEF ReadingsAsDocumented
<1>6. CASE Request
  BY <1>6 DEF Request, SendRecv, Returns, Raises, t8Vars, toolVars, EcuTypeOK,
              SessionFollowsTransport, ReadingsAsDocumented, KeyDeterminesSeed
<1>7. ASSUME NEW s \in Seed, UnlockExtended(s)
      PROVE  EcuInv'
  <2>1. s \in Word
    OBVIOUS
  <2>2. unlocks' \subseteq unlocks \cup {<<s, T8Keygen(s)>>}
    BY <1>7 DEF UnlockExtended, SendSecurityKey
  <2>3. EcuTypeOK'
    BY <1>7, <2>1, <2>2, KeygenInvolution
       DEF UnlockExtended, SendRecv, Returns, Raises, toolVars, EcuTypeOK
  <2>4. KeyDeterminesSeed'
    BY <2>1, <2>2, KeygenInvolution DEF KeyDeterminesSeed
  <2>5. SessionFollowsTransport' /\ ReadingsAsDocumented'
    BY <1>7 DEF UnlockExtended, SessionFollowsTransport, ReadingsAsDocumented
  <2> QED
    BY <2>3, <2>4, <2>5
<1>8. CASE Select
  BY <1>8, SelectInv
<1>9. CASE UNCHANGED ecuVars
  BY <1>9 DEF ecuVars, t8Vars, toolVars, EcuTypeOK, SessionFollowsTransport,
              ReadingsAsDocumented, KeyDeterminesSeed
<1> QED
  BY <1>1, <1>2, <1>3, <1>4, <1>5, <1>6, <1>7, <1>8, <1>9 DEF EcuNext

(* The session follows the transport, readings are decoded as documented,    *)
(* and a key that unlocked the unit determines its seed.                     *)
THEOREM EcuInvariant == EcuSpec => []EcuInv
  BY InitEcuInv, NextEcuInv, PTL DEF EcuSpec

(* The client is in the extended session exactly while it is connected.      *)
THEOREM SessionTheorem == EcuSpec => []SessionFollowsTransport
<1>1. EcuInv => SessionFollowsTransport
  BY DEF EcuInv
<1> QED BY EcuInvariant, <1>1, PTL

(* What read_live_data returns is what the stub's table documents, and what  *)
(* it returns without a connection gives itself away by its VIN alone.       *)
THEOREM ReadingsTheorem == EcuSpec => []ReadingsAsDocumented
<1>1. EcuInv => ReadingsAsDocumented
  BY DEF EcuInv
<1> QED BY EcuInvariant, <1>1, PTL

(* For all seeds of 16 bits, no two have the same key.                       *)
THEOREM KeyTheorem == EcuSpec => []KeyDeterminesSeed
<1>1. EcuInv => KeyDeterminesSeed
  BY DEF EcuInv
<1> QED BY EcuInvariant, <1>1, PTL
-----------------------------------------------------------------------------
(* Sniffer: the statistics of an identifier are those of its frames.         *)
-----------------------------------------------------------------------------

(* Counting a frame keeps the statistics of its id in their types.           *)
LEMMA CountedType ==
  ASSUME SnifferTypeOK, NEW id \in ArbIds, NEW data \in Payload, NEW ts \in Int
  PROVE  LET s == Counted(StatsOf(id, ts), data, ts)
         IN  /\ s.count \in Nat /\ s.payload \in Payload
             /\ {s.first, s.last} \subseteq Int
             /\ s.intervals \in Seq(Int)
<1>1. CASE id \in DOMAIN idStats
  <2> DEFINE t == idStats[id]
  <2>1. /\ t.count \in Nat /\ t.first \in Int /\ t.last \in Int /\ t.intervals \in Seq(Int)
        /\ StatsOf(id, ts) = t
    BY <1>1 DEF SnifferTypeOK, StatsOf
  <2> QED BY <2>1 DEF Counted
<1>2. CASE id \notin DOMAIN idStats
  BY <1>2 DEF StatsOf, FirstSeen, Counted
<1> QED BY <1>1, <1>2

(* A capture adds one well-formed frame and one well-formed record.          *)
LEMMA CaptureTypeOK ==
  ASSUME SnifferTypeOK, NEW id \in ArbIds, NEW data \in Payload, NEW gap \in Gap,
         Capture(id, data, gap)
  PROVE  SnifferTypeOK'
<1>1. now' \in Int /\ sent' \in 0..MaxSent /\ UNCHANGED <<filters, bitrate>>
  BY SnifferConstantsOK DEF Capture, SnifferTypeOK
<1>2. CASE ~PassesFilters(id)
  BY <1>1, <1>2 DEF Capture, SnifferTypeOK, NoDiff
<1>3. CASE PassesFilters(id)
  <2> DEFINE c == Counted(StatsOf(id, now'), data, now')
             f == [id |-> id, data |-> data, ts |-> now']
  <2>1. /\ c.count \in Nat /\ c.payload \in Payload /\ {c.first, c.last} \subseteq Int
        /\ c.intervals \in Seq(Int)
    BY <1>1, CountedType
  <2>2. frames' \in Seq([id : ArbIds, data : Payload, ts : Int])
    <3>1. f \in [id : ArbIds, data : Payload, ts : Int]
      BY <1>1
    <3>2. frames' = Append(frames, f)
      BY <1>3 DEF Capture
    <3> HIDE DEF f
    <3> QED BY <3>1, <3>2 DEF SnifferTypeOK
  <2>3. idStats' = [i \in DOMAIN idStats \cup {id} |-> IF i = id THEN c ELSE idStats[i]]
    BY <1>3 DEF Capture
  <2>4. diff'.st \in {"none", "diff"}
    BY <1>3 DEF Capture, NoDiff, DiffPayload
  <2> HIDE DEF c
  <2>5. DOMAIN idStats' \subseteq ArbIds
    BY <2>3 DEF SnifferTypeOK
  <2>6. \A i \in DOMAIN idStats' :
          /\ idStats'[i].count \in Nat /\ idStats'[i].payload \in Payload
          /\ {idStats'[i].first, idStats'[i].last} \subseteq Int
          /\ idStats'[i].intervals \in Seq(Int)
    BY <2>1, <2>3 DEF SnifferTypeOK
  <2> QED BY <1>1, <2>2, <2>4, <2>5, <2>6 DEF SnifferTypeOK
<1> QED BY <1>2, <1>3

(* A sniffer that has captured nothing.                                      *)
LEMMA InitSnifferTypeOK == SnifferInit => SnifferTypeOK
  BY SnifferConstantsOK DEF SnifferInit, SnifferTypeOK, NoDiff

(* Every step of the sniffer keeps its variables in their types.             *)
LEMMA NextSnifferTypeOK == SnifferTypeOK /\ [SnifferNext]_snifferVars => SnifferTypeOK'
<1> SUFFICES ASSUME SnifferTypeOK, [SnifferNext]_snifferVars PROVE SnifferTypeOK'
  OBVIOUS
<1>1. CASE \E id \in ArbIds, data \in Payload, gap \in Gap : Capture(id, data, gap)
  BY <1>1, CaptureTypeOK
<1>2. ASSUME NEW ids \in SUBSET ArbIds, AddFilter(ids) PROVE SnifferTypeOK'
  BY <1>2 DEF AddFilter, SnifferTypeOK
<1>3. ASSUME NEW ids \in SUBSET ArbIds, LoadFilterProfile(ids) PROVE SnifferTypeOK'
  <2>1. CASE AddFilter(ids)
    BY <1>2, <2>1
  <2>2. CASE UNCHANGED snifferVars
    BY <2>2 DEF snifferVars, SnifferTypeOK
  <2> QED BY <1>3, <2>1, <2>2 DEF LoadFilterProfile
<1>4. CASE ClearFilters
  BY <1>4 DEF ClearFilters, SnifferTypeOK
<1>5. CASE DetectBitrate
  <2>1. bitrate' \in {0, 500000, 250000, 125000, 33300}
    BY <1>5 DEF DetectBitrate, Bucket
  <2> QED BY <1>5, <2>1 DEF DetectBitrate, SnifferTypeOK
<1>6. CASE UNCHANGED snifferVars
  BY <1>6 DEF snifferVars, SnifferTypeOK
<1> QED BY <1>1, <1>2, <1>3, <1>4, <1>5, <1>6 DEF SnifferNext

(* For any identifiers, payloads and gaps.                                   *)
THEOREM SnifferTypeTheorem == SnifferSpec => []SnifferTypeOK
BY InitSnifferTypeOK, NextSnifferTypeOK, PTL DEF SnifferSpec

-----------------------------------------------------------------------------
(* The statistics of id are those of its frames in the buffer.               *)
Matches(id) ==
  LET stats == idStats[id]
      n == stats.count
  IN  \E pos \in PositionsOf(id, n) :
        /\ stats.first = frames[pos[1]].ts
        /\ stats.last = frames[pos[n]].ts /\ stats.payload = frames[pos[n]].data
        /\ Len(stats.intervals) = n - 1
        /\ \A k \in 1..n - 1 : stats.intervals[k] = frames[pos[k + 1]].ts - frames[pos[k]].ts

StatsRecord ==
  [count : Nat, first : Int, last : Int, payload : Payload, intervals : Seq(Int)]

(* Every id that has statistics has been counted, in a whole record.         *)
StatsAreRecords ==
  \A id \in DOMAIN idStats :
    /\ idStats[id] \in StatsRecord
    /\ idStats[id].count > 0

StatsInv ==
  /\ SnifferTypeOK /\ StatsAreRecords
  /\ DOMAIN idStats = {frames[i].id : i \in DOMAIN frames}
  /\ \A id \in DOMAIN idStats : Matches(id)

(* A frame at the end of the buffer leaves the positions of other ids.       *)
LEMMA SameMatches ==
  ASSUME UNCHANGED <<frames, idStats>>, StatsInv, SnifferTypeOK'
  PROVE  StatsInv'
<1>1. frames' = frames /\ idStats' = idStats
  OBVIOUS
<1>2. \A id \in DOMAIN idStats : Matches(id)'
  <2> SUFFICES ASSUME NEW id \in DOMAIN idStats PROVE Matches(id)'
    OBVIOUS
  <2> DEFINE n == idStats[id].count
  <2>1. PICK pos \in PositionsOf(id, n) :
          /\ idStats[id].first = frames[pos[1]].ts
          /\ idStats[id].last = frames[pos[n]].ts /\ idStats[id].payload = frames[pos[n]].data
          /\ Len(idStats[id].intervals) = n - 1
          /\ \A k \in 1..n - 1 :
               idStats[id].intervals[k] = frames[pos[k + 1]].ts - frames[pos[k]].ts
    BY DEF StatsInv, Matches
  <2>2. PICK m \in Nat : m = idStats'[id].count /\ m = n
    BY <1>1 DEF StatsInv, StatsAreRecords, StatsRecord
  <2> HIDE DEF n
  <2>3. /\ pos \in [1..m -> DOMAIN frames']
        /\ {pos[k] : k \in 1..m} = {i \in DOMAIN frames' : frames'[i].id = id}
        /\ \A j, k \in 1..m : j < k => pos[j] < pos[k]
    BY <1>1, <2>1, <2>2 DEF PositionsOf
  <2>4. /\ idStats'[id].first = frames'[pos[1]].ts
        /\ idStats'[id].last = frames'[pos[m]].ts /\ idStats'[id].payload = frames'[pos[m]].data
        /\ Len(idStats'[id].intervals) = m - 1
        /\ \A k \in 1..m - 1 :
             idStats'[id].intervals[k] = frames'[pos[k + 1]].ts - frames'[pos[k]].ts
    BY <1>1, <2>1, <2>2
  <2> QED BY <2>2, <2>3, <2>4 DEF Matches, PositionsOf
<1>3. StatsAreRecords'
  BY <1>1 DEF StatsInv, StatsAreRecords
<1>4. DOMAIN idStats' = {frames'[i].id : i \in DOMAIN frames'}
  BY <1>1 DEF StatsInv
<1>5. \A id \in DOMAIN idStats' : Matches(id)'
  BY <1>1, <1>2
<1> QED BY <1>3, <1>4, <1>5 DEF StatsInv

(* A frame of one identifier leaves what is counted of the others alone.     *)
LEMMA OthersMatch ==
  ASSUME StatsInv, NEW f, frames' = Append(frames, f), NEW id \in DOMAIN idStats,
         f.id # id, idStats'[id] = idStats[id]
  PROVE  Matches(id)'
<1>1. frames \in Seq([id : ArbIds, data : Payload, ts : Int]) /\ Len(frames) \in Nat
  BY DEF StatsInv, SnifferTypeOK
<1>2. /\ DOMAIN frames = 1..Len(frames) /\ DOMAIN frames' = 1..Len(frames) + 1
      /\ \A i \in 1..Len(frames) : frames'[i] = frames[i]
      /\ frames'[Len(frames) + 1] = f
  BY <1>1
<1> DEFINE n == idStats[id].count
<1>3. PICK pos \in PositionsOf(id, n) :
        /\ idStats[id].first = frames[pos[1]].ts
        /\ idStats[id].last = frames[pos[n]].ts /\ idStats[id].payload = frames[pos[n]].data
        /\ Len(idStats[id].intervals) = n - 1
        /\ \A k \in 1..n - 1 :
             idStats[id].intervals[k] = frames[pos[k + 1]].ts - frames[pos[k]].ts
  BY DEF StatsInv, Matches
<1>4. n \in Nat \ {0}
  BY DEF StatsInv, StatsAreRecords, StatsRecord
<1> HIDE DEF n
<1>5. /\ pos \in [1..n -> 1..Len(frames)]
      /\ {pos[k] : k \in 1..n} = {i \in DOMAIN frames : frames[i].id = id}
      /\ \A j, k \in 1..n : j < k => pos[j] < pos[k]
  BY <1>2, <1>3 DEF PositionsOf
<1>6. {i \in DOMAIN frames : frames[i].id = id} = {i \in DOMAIN frames' : frames'[i].id = id}
  BY <1>1, <1>2
<1>7. pos \in [1..n -> DOMAIN frames']
  BY <1>1, <1>2, <1>5
<1>8. \A k \in 1..n : frames'[pos[k]] = frames[pos[k]]
  BY <1>2, <1>5
<1>9. /\ idStats'[id].first = frames'[pos[1]].ts
      /\ idStats'[id].last = frames'[pos[n]].ts /\ idStats'[id].payload = frames'[pos[n]].data
      /\ Len(idStats'[id].intervals) = n - 1
      /\ \A k \in 1..n - 1 :
           idStats'[id].intervals[k] = frames'[pos[k + 1]].ts - frames'[pos[k]].ts
  <2>1. \A k \in 1..n - 1 : k \in 1..n /\ k + 1 \in 1..n
    BY <1>4
  <2>2. 1 \in 1..n /\ n \in 1..n
    BY <1>4
  <2> QED BY <1>3, <1>8, <2>1, <2>2
<1>10. /\ {pos[k] : k \in 1..n} = {i \in DOMAIN frames' : frames'[i].id = id}
       /\ n = idStats'[id].count
  BY <1>5, <1>6 DEF n
<1> QED BY <1>5, <1>7, <1>9, <1>10 DEF Matches, PositionsOf

(* One more frame of an id, and the first one.                               *)
LEMMA CountedIs ==
  ASSUME NEW old \in StatsRecord, old.count > 0, NEW data \in Payload, NEW ts \in Int,
         NEW counted, counted = Counted(old, data, ts)
  PROVE  /\ counted \in StatsRecord
         /\ counted.count = old.count + 1 /\ counted.first = old.first
         /\ counted.last = ts /\ counted.payload = data
         /\ counted.intervals = Append(old.intervals, ts - old.last)
<1> DEFINE c == old.count + 1
           iv == Append(old.intervals, ts - old.last)
           new == [old EXCEPT !.count = c, !.last = ts, !.payload = data, !.intervals = iv]
<1>1. c \in Nat /\ iv \in Seq(Int)
  <2>1. ts - old.last \in Int /\ old.intervals \in Seq(Int) /\ old.count \in Nat
    BY DEF StatsRecord
  <2> QED BY <2>1
<1>2. Counted(old, data, ts) = new
  BY Zenon DEF Counted
<1> HIDE DEF c, iv
<1>3. /\ new \in StatsRecord
      /\ new.count = c /\ new.first = old.first /\ new.last = ts /\ new.payload = data
      /\ new.intervals = iv
  BY <1>1 DEF StatsRecord
<1> QED BY <1>2, <1>3 DEF c, iv

(* The record after the first frame of an identifier.                        *)
LEMMA FirstCountedIs ==
  ASSUME NEW data \in Payload, NEW ts \in Int
  PROVE  LET new == Counted(FirstSeen(ts), data, ts)
         IN  /\ new \in StatsRecord
             /\ new.count = 1 /\ new.first = ts /\ new.last = ts
             /\ new.payload = data /\ new.intervals = <<>>
<1> DEFINE f == FirstSeen(ts)
           new == [f EXCEPT !.count = 1, !.last = ts, !.payload = data, !.intervals = <<>>]
<1>1. f = [count |-> 0, first |-> ts, last |-> ts, payload |-> <<>>, intervals |-> <<>>]
  BY DEF FirstSeen
<1>2. ~(f.count > 0) /\ f.count + 1 = 1 /\ f.intervals = <<>>
  BY <1>1
<1>3. Counted(f, data, ts) = new
  <2>1. Counted(f, data, ts) = [f EXCEPT !.count = f.count + 1, !.last = ts, !.payload = data,
                                         !.intervals = f.intervals]
    BY <1>2, Zenon DEF Counted
  <2> HIDE DEF f
  <2> QED BY <1>2, <2>1
<1>4. /\ new \in StatsRecord
      /\ new.count = 1 /\ new.first = ts /\ new.last = ts /\ new.payload = data
      /\ new.intervals = <<>>
  <2>1. 1 \in Nat /\ <<>> \in Seq(Int)
    OBVIOUS
  <2>2. f \in [count : Nat, first : Int, last : Int, payload : {<<>>}, intervals : Seq(Int)]
    BY <1>1
  <2>3. f.first = ts
    BY <1>1
  <2> HIDE DEF f
  <2> QED BY <2>1, <2>2, <2>3 DEF StatsRecord
<1> QED BY <1>3, <1>4

(* A frame of id goes to the end of its positions.                           *)
LEMMA CountedMatches ==
  ASSUME StatsInv, SnifferTypeOK', NEW id \in ArbIds, NEW data \in Payload, NEW gap \in Gap,
         Capture(id, data, gap), PassesFilters(id)
  PROVE  Matches(id)' /\ idStats'[id].count > 0
                      /\ idStats'[id] \in StatsRecord
<1> DEFINE f == [id |-> id, data |-> data, ts |-> now']
           len == Len(frames)
           new == idStats'[id]
<1>1. frames \in Seq([id : ArbIds, data : Payload, ts : Int]) /\ len \in Nat /\ now' \in Int
  BY DEF StatsInv, SnifferTypeOK
<1>2. /\ DOMAIN frames = 1..len /\ DOMAIN frames' = 1..len + 1
      /\ \A i \in 1..len : frames'[i] = frames[i]
      /\ frames'[len + 1] = f
  <2>1. frames' = Append(frames, f)
    BY DEF Capture
  <2> HIDE DEF f
  <2> QED BY <2>1, <1>1
<1>3. new = Counted(StatsOf(id, now'), data, now')
  BY DEF Capture
<1>4. CASE id \in DOMAIN idStats
  <2> DEFINE old == idStats[id]
             n == old.count
  <2>1. /\ old \in StatsRecord
        /\ n \in Nat \ {0}
    BY <1>4 DEF StatsInv, StatsAreRecords, StatsRecord
  <2>2. PICK pos \in PositionsOf(id, n) :
          /\ old.first = frames[pos[1]].ts
          /\ old.last = frames[pos[n]].ts /\ old.payload = frames[pos[n]].data
          /\ Len(old.intervals) = n - 1
          /\ \A k \in 1..n - 1 : old.intervals[k] = frames[pos[k + 1]].ts - frames[pos[k]].ts
    BY <1>4 DEF StatsInv, Matches
  <2> HIDE DEF new
  <2>3. new = Counted(old, data, now')
    BY <1>3, <1>4 DEF StatsOf
  <2>4. /\ new.count = n + 1 /\ new.first = old.first /\ new.last = now'
        /\ new.payload = data /\ new.intervals = Append(old.intervals, now' - old.last)
        /\ new \in StatsRecord
    <3>1. old.count > 0
      BY <2>1
    <3> HIDE DEF old, n
    <3>2. /\ new.count = old.count + 1 /\ new.first = old.first /\ new.last = now'
          /\ new.payload = data /\ new.intervals = Append(old.intervals, now' - old.last)
          /\ new \in StatsRecord
      BY <1>1, <2>1, <2>3, <3>1, CountedIs
    <3> QED BY <3>2 DEF n
  <2>5. /\ Len(new.intervals) = n
        /\ \A k \in 1..n - 1 : new.intervals[k] = old.intervals[k]
        /\ new.intervals[n] = now' - old.last
    <3> DEFINE iv == old.intervals
               e == now' - old.last
    <3>1. iv \in Seq(Int) /\ Len(iv) = n - 1 /\ e \in Int /\ new.intervals = Append(iv, e)
      <4>1. iv \in Seq(Int) /\ e \in Int
        BY <1>1, <2>1 DEF StatsRecord
      <4>2. Len(iv) = n - 1
        BY <2>2
      <4> QED BY <4>1, <4>2, <2>4
    <3> HIDE DEF iv, e, n
    <3>2. Len(new.intervals) = n /\ (\A k \in 1..n - 1 : new.intervals[k] = iv[k])
          /\ new.intervals[n] = e
      BY <2>1, <3>1
    <3> QED BY <3>2 DEF iv, e
  <2> HIDE DEF old, n
  <2>6. /\ pos \in [1..n -> 1..len]
        /\ {pos[k] : k \in 1..n} = {i \in DOMAIN frames : frames[i].id = id}
        /\ \A j, k \in 1..n : j < k => pos[j] < pos[k]
    BY <1>2, <2>2 DEF PositionsOf
  <2> DEFINE q == [k \in 1..n + 1 |-> IF k = n + 1 THEN len + 1 ELSE pos[k]]
  <2> HIDE DEF len
  <2>7. /\ q \in [1..n + 1 -> 1..len + 1] /\ q[n + 1] = len + 1
        /\ \A k \in 1..n : q[k] = pos[k] /\ q[k] \in 1..len
    BY <1>1, <2>1, <2>6
  <2> HIDE DEF q
  <2>8. \A j, k \in 1..n + 1 : j < k => q[j] < q[k]
    <3> SUFFICES ASSUME NEW j \in 1..n + 1, NEW k \in 1..n + 1, j < k PROVE q[j] < q[k]
      OBVIOUS
    <3>1. j \in 1..n
      BY <2>1
    <3>2. CASE k = n + 1
      BY <3>1, <3>2, <1>1, <2>7
    <3>3. CASE k \in 1..n
      BY <3>1, <3>3, <2>6, <2>7
    <3> QED BY <3>2, <3>3, <2>1
  <2>9. {q[k] : k \in 1..n + 1} = {i \in DOMAIN frames' : frames'[i].id = id}
    <3>1. {q[k] : k \in 1..n + 1} = {pos[k] : k \in 1..n} \cup {len + 1}
      BY <2>1, <2>7
    <3>2. {i \in 1..len + 1 : frames'[i].id = id}
            = {i \in 1..len : frames[i].id = id} \cup {len + 1}
      BY <1>1, <1>2
    <3> QED BY <3>1, <3>2, <2>6, <1>2
  <2>11. /\ new.first = frames'[q[1]].ts
         /\ new.last = frames'[q[n + 1]].ts /\ new.payload = frames'[q[n + 1]].data
    BY <1>2, <2>1, <2>2, <2>4, <2>7
  <2>12. \A k \in 1..n : new.intervals[k] = frames'[q[k + 1]].ts - frames'[q[k]].ts
    <3> SUFFICES ASSUME NEW k \in 1..n
                 PROVE  new.intervals[k] = frames'[q[k + 1]].ts - frames'[q[k]].ts
      OBVIOUS
    <3>1. CASE k = n
      BY <3>1, <1>2, <2>1, <2>2, <2>5, <2>7
    <3>2. CASE k \in 1..n - 1
      <4>1. k \in 1..n /\ k + 1 \in 1..n
        BY <3>2, <2>1
      <4>2. new.intervals[k] = frames[pos[k + 1]].ts - frames[pos[k]].ts
        BY <3>2, <2>2, <2>5
      <4>3. frames'[q[k]] = frames[pos[k]] /\ frames'[q[k + 1]] = frames[pos[k + 1]]
        BY <4>1, <1>2, <2>7
      <4> QED BY <4>2, <4>3
    <3> QED BY <3>1, <3>2, <2>1
  <2>13. Matches(id)'
    <3>1. PICK m \in Nat : m = n + 1 /\ m - 1 = n /\ m = idStats'[id].count
      BY <2>1, <2>4 DEF new
    <3>2. /\ q \in [1..m -> DOMAIN frames']
          /\ {q[k] : k \in 1..m} = {i \in DOMAIN frames' : frames'[i].id = id}
          /\ \A j, k \in 1..m : j < k => q[j] < q[k]
      BY <3>1, <1>2, <2>7, <2>8, <2>9
    <3>3. /\ idStats'[id].first = frames'[q[1]].ts
          /\ idStats'[id].last = frames'[q[m]].ts
          /\ idStats'[id].payload = frames'[q[m]].data
          /\ Len(idStats'[id].intervals) = m - 1
          /\ \A k \in 1..m - 1 :
               idStats'[id].intervals[k] = frames'[q[k + 1]].ts - frames'[q[k]].ts
      BY <3>1, <2>5, <2>11, <2>12 DEF new
    <3> QED BY <3>1, <3>2, <3>3 DEF Matches, PositionsOf
  <2> QED BY <2>1, <2>4, <2>13 DEF new
<1>5. CASE id \notin DOMAIN idStats
  <2>1. /\ new.count = 1 /\ new.first = now' /\ new.last = now' /\ new.payload = data
        /\ new.intervals = <<>>
        /\ new \in StatsRecord
    BY <1>1, <1>3, <1>5, FirstCountedIs DEF StatsOf
  <2>2. \A i \in 1..len : frames[i].id # id
    BY <1>2, <1>5 DEF StatsInv
  <2> DEFINE q == [k \in 1..1 |-> len + 1]
  <2>3. q \in [1..1 -> 1..len + 1] /\ q[1] = len + 1
    BY <1>1
  <2>4. {q[k] : k \in 1..1} = {i \in DOMAIN frames' : frames'[i].id = id}
    BY <1>1, <1>2, <2>2
  <2> HIDE DEF q, new
  <2>5. Matches(id)'
    BY <1>2, <2>1, <2>3, <2>4 DEF Matches, PositionsOf, new
  <2> QED BY <2>1, <2>5 DEF new
<1> QED BY <1>4, <1>5

(* A capture keeps every record true to the frames.                          *)
LEMMA CaptureStatsInv ==
  ASSUME StatsInv, NEW id \in ArbIds, NEW data \in Payload, NEW gap \in Gap,
         Capture(id, data, gap)
  PROVE  StatsInv'
<1>1. SnifferTypeOK'
  BY CaptureTypeOK DEF StatsInv
<1>2. CASE ~PassesFilters(id)
  <2>1. UNCHANGED <<frames, idStats>>
    BY <1>2 DEF Capture
  <2> QED BY <1>1, <2>1, SameMatches
<1>3. CASE PassesFilters(id)
  <2> DEFINE f == [id |-> id, data |-> data, ts |-> now']
  <2>1. /\ frames' = Append(frames, f) /\ f.id = id
        /\ DOMAIN idStats' = DOMAIN idStats \cup {id}
        /\ \A i \in DOMAIN idStats : i # id => idStats'[i] = idStats[i]
    BY <1>3 DEF Capture
  <2>2. \A i \in DOMAIN idStats : i # id => Matches(i)'
    BY <2>1, OthersMatch
  <2>3. /\ Matches(id)' /\ idStats'[id].count > 0
        /\ idStats'[id] \in StatsRecord
    BY <1>1, <1>3, CountedMatches
  <2> HIDE DEF f
  <2>4. StatsAreRecords'
    BY <2>1, <2>3 DEF StatsInv, StatsAreRecords
  <2>5. DOMAIN idStats' = {frames'[i].id : i \in DOMAIN frames'}
    <3>1. frames \in Seq([id : ArbIds, data : Payload, ts : Int]) /\ Len(frames) \in Nat
      BY DEF StatsInv, SnifferTypeOK
    <3>2. /\ DOMAIN frames = 1..Len(frames) /\ DOMAIN frames' = 1..Len(frames) + 1
          /\ \A i \in 1..Len(frames) : frames'[i] = frames[i]
          /\ frames'[Len(frames) + 1] = f
      BY <3>1, <2>1
    <3>3. {frames'[i].id : i \in DOMAIN frames'} = {frames[i].id : i \in DOMAIN frames} \cup {id}
      BY <2>1, <3>1, <3>2
    <3> QED BY <2>1, <3>3 DEF StatsInv
  <2>6. \A i \in DOMAIN idStats' : Matches(i)'
    BY <2>1, <2>2, <2>3
  <2> QED BY <1>1, <2>4, <2>5, <2>6 DEF StatsInv
<1> QED BY <1>2, <1>3

(* Every step of the sniffer preserves the invariant.                        *)
LEMMA NextStatsInv == StatsInv /\ [SnifferNext]_snifferVars => StatsInv'
<1> SUFFICES ASSUME StatsInv, [SnifferNext]_snifferVars PROVE StatsInv'
  OBVIOUS
<1>1. CASE \E id \in ArbIds, data \in Payload, gap \in Gap : Capture(id, data, gap)
  BY <1>1, CaptureStatsInv
<1>2. CASE UNCHANGED <<frames, idStats>>
  <2>1. SnifferTypeOK'
    BY NextSnifferTypeOK DEF StatsInv
  <2> QED BY <1>2, <2>1, SameMatches
<1> QED BY <1>1, <1>2 DEF SnifferNext, AddFilter, LoadFilterProfile, ClearFilters, DetectBitrate,
                          snifferVars

(* For any buffer, filters and clock the statistics match the buffer.        *)
THEOREM StatsTheorem == SnifferSpec => []StatsMatchFrames
<1>1. SnifferInit => StatsInv
  <2> SUFFICES ASSUME SnifferInit PROVE StatsInv
    OBVIOUS
  <2>1. SnifferTypeOK
    BY InitSnifferTypeOK
  <2>2. idStats = <<>> /\ frames = <<>>
    BY DEF SnifferInit
  <2> QED BY <2>1, <2>2 DEF StatsInv, StatsAreRecords
<1>2. StatsInv => StatsMatchFrames
  BY DEF StatsInv, StatsMatchFrames, Matches
<1> QED BY <1>1, <1>2, NextStatsInv, PTL DEF SnifferSpec
-----------------------------------------------------------------------------
(* VinDecoder: the slips the check digit detects, by arithmetic modulo 11.   *)
-----------------------------------------------------------------------------

Vin == [1..17 -> Transliterated]
Value(c) == Transliteration[c]

(* The ten digits are different characters, and none is the X.               *)
LEMMA DigitsDiffer ==
  /\ DOMAIN Digits = 1..10
  /\ \A i, j \in 1..10 : Digits[i] = Digits[j] => i = j
  /\ \A i \in 1..10 : Digits[i] # "X"
  /\ Digits[5] = "4"
BY DEF Digits

(* A digit is transliterated to its value.                                   *)
LEMMA DigitValue == \A i \in 1..10 : Digits[i] \in Transliterated /\ Value(Digits[i]) = i - 1
<1> SUFFICES ASSUME NEW i \in 1..10
             PROVE  Digits[i] \in Transliterated /\ Value(Digits[i]) = i - 1
  OBVIOUS
<1>1. Digits[i] \in ToSet(Digits)
  BY DigitsDiffer DEF ToSet
<1>2. (CHOOSE k \in DOMAIN Digits : Digits[k] = Digits[i]) = i
  BY DigitsDiffer
<1> QED BY <1>1, <1>2 DEF Transliterated, Value, Transliteration

(* The letters that have a value are different characters.                   *)
LEMMA LettersDiffer ==
  /\ DOMAIN Letters = 1..23
  /\ \A i, j \in 1..23 : Letters[i] = Letters[j] => i = j
  /\ Letters[21] = "X"
BY DEF Letters

(* A letter is transliterated to the value of its place in the list.         *)
LEMMA LetterValue ==
  \A i \in 1..23 : /\ Letters[i] \in Transliterated /\ Letters[i] \notin ToSet(Digits)
                   /\ Value(Letters[i]) = LetterValues[i]
<1> SUFFICES ASSUME NEW i \in 1..23
             PROVE  /\ Letters[i] \in Transliterated /\ Letters[i] \notin ToSet(Digits)
                    /\ Value(Letters[i]) = LetterValues[i]
  OBVIOUS
<1>1. Letters[i] \in ToSet(Letters)
  BY LettersDiffer DEF ToSet
<1>2. (CHOOSE k \in DOMAIN Letters : Letters[k] = Letters[i]) = i
  BY LettersDiffer
<1>3. Letters[i] \notin ToSet(Digits)
  BY DEF Letters, Digits, ToSet
<1> QED BY <1>1, <1>2, <1>3 DEF Transliterated, Value, Transliteration

(* The X has the value 7, and as a check digit stands for 10.                *)
LEMMA ValueOfX == "X" \in Transliterated /\ "X" \notin ToSet(Digits) /\ Value("X") = 7
  BY LettersDiffer, LetterValue DEF LetterValues

(* Every value is a single decimal digit.                                    *)
LEMMA ValueType == \A c \in Transliterated : Value(c) \in 0..9
<1> SUFFICES ASSUME NEW c \in Transliterated PROVE Value(c) \in 0..9
  OBVIOUS
<1>1. CASE c \in ToSet(Digits)
  BY <1>1, DigitsDiffer, DigitValue DEF ToSet
<1>2. CASE c \in ToSet(Letters)
  <2>1. PICK i \in 1..23 : c = Letters[i]
    BY <1>2, LettersDiffer DEF ToSet
  <2>2. LetterValues[i] \in 0..9
    BY DEF LetterValues
  <2> QED BY <2>1, <2>2, LetterValue
<1> QED BY <1>1, <1>2 DEF Transliterated

(* The expected check digit tells the remainder: 0 to 9 by the digit, 10 by  *)
(* the X.                                                                    *)
LEMMA CheckDigitTells ==
  /\ \A r, q \in 0..10 : CheckDigit(r) = CheckDigit(q) => r = q
  /\ \A r \in 0..10 : CheckDigit(r) \in Transliterated /\ CheckDigit(r) # "?"
  /\ \A r \in 0..9 : CheckDigit(r) \in ToSet(Digits) /\ Value(CheckDigit(r)) = r
  /\ CheckDigit(10) = "X" /\ CheckDigit(4) = "4"
<1>1. \A r \in 0..9 : CheckDigit(r) = Digits[r + 1] /\ r + 1 \in 1..10
  BY DEF CheckDigit
<1>2. CheckDigit(10) = "X"
  BY DEF CheckDigit
<1>3. \A r \in 0..10 : r = 10 \/ r \in 0..9
  OBVIOUS
<1>4. \A r \in 0..9 : /\ CheckDigit(r) \in ToSet(Digits) /\ CheckDigit(r) \in Transliterated
                      /\ Value(CheckDigit(r)) = r /\ CheckDigit(r) # "X"
  BY <1>1, DigitsDiffer, DigitValue DEF ToSet
<1>5. CheckDigit(4) = "4"
  BY <1>1, DigitsDiffer
<1>6. "?" \notin Transliterated
  BY DEF Transliterated, ToSet, Digits, Letters
<1>7. \A r, q \in 0..10 : CheckDigit(r) = CheckDigit(q) => r = q
  BY <1>2, <1>3, <1>4
<1> QED BY <1>2, <1>3, <1>4, <1>5, <1>6, <1>7, ValueOfX

(* The terms of the sum are numbers.                                         *)
LEMMA WeightsAre ==
  /\ \A i \in 1..17 : Weights[i] \in 0..10
  /\ \A i \in 1..17 \ {9} : Weights[i] \in 2..10
  /\ Weights[8] = 10 /\ Weights[9] = 0 /\ Weights[10] = 9
  /\ Weights[8] - Weights[7] = 8
  /\ \A i \in (1..16) \ {7, 8, 9} : Weights[i + 1] - Weights[i] = -1
BY DEF Weights

(* A term is a weight times a value.                                         *)
LEMMA TermIsNat == ASSUME NEW v \in Vin, NEW i \in 1..17 PROVE Term(v, i) \in Nat
<1>1. Value(v[i]) \in Nat /\ Weights[i] \in Nat
  BY ValueType, WeightsAre DEF Vin
<1> QED BY <1>1 DEF Term, Value

First(f)  == f[1] + f[2] + f[3] + f[4] + f[5] + f[6]
Middle(f) == f[7] + f[8] + f[9] + f[10] + f[11] + f[12]
Last17(f) == f[13] + f[14] + f[15] + f[16] + f[17]
Sum17(f)  == First(f) + Middle(f) + Last17(f)

Terms(v) == [i \in 1..17 |-> Term(v, i)]

(* The terms of a number, as a function of the position.                     *)
LEMMA TermsType == ASSUME NEW v \in Vin PROVE Terms(v) \in [1..17 -> Int]
  BY TermIsNat DEF Terms

(* A grouped sum of seventeen numbers is a number.                           *)
LEMMA SumType ==
  ASSUME NEW f \in [1..17 -> Int]
  PROVE  First(f) \in Int /\ Middle(f) \in Int /\ Last17(f) \in Int /\ Sum17(f) \in Int
<1>1. First(f) \in Int
  BY DEF First
<1>2. Middle(f) \in Int
  BY DEF Middle
<1>3. Last17(f) \in Int
  BY DEF Last17
<1> QED BY <1>1, <1>2, <1>3 DEF Sum17

(* The total that decode() computes is the sum of the terms.                 *)
LEMMA TotalIs ==
  ASSUME NEW v \in Vin
  PROVE  Total(v) = Sum17(Terms(v)) /\ Total(v) \in Int
<1>1. Total(v) = Sum17(Terms(v))
  BY DEF Total, Terms, Sum17, First, Middle, Last17
<1> QED BY <1>1, TermsType, SumType

(* Sums that differ in one term, or in two, differ by what is there.         *)
LEMMA SumDiffers ==
  ASSUME NEW f \in [1..17 -> Int], NEW g \in [1..17 -> Int],
         NEW h \in [1..17 -> Int], h = [j \in 1..17 |-> g[j] - f[j]]
  PROVE  Sum17(g) = Sum17(f) + Sum17(h)
<1>1. \A j \in 1..17 : f[j] \in Int /\ g[j] = f[j] + h[j] /\ h[j] \in Int
  OBVIOUS
<1>2. First(g) = First(f) + First(h)
  BY <1>1 DEF First
<1>3. Middle(g) = Middle(f) + Middle(h)
  BY <1>1 DEF Middle
<1>4. Last17(g) = Last17(f) + Last17(h)
  BY <1>1 DEF Last17
<1> QED BY <1>2, <1>3, <1>4, SumType DEF Sum17

(* A sum with one term that is not 0 is that term.                           *)
LEMMA SumOfOne ==
  ASSUME NEW h \in [1..17 -> Int], NEW i \in 1..17, \A j \in 1..17 : j # i => h[j] = 0
  PROVE  Sum17(h) = h[i]
<1>1. h[i] \in Int
  OBVIOUS
<1>2. First(h) = IF i \in 1..6 THEN h[i] ELSE 0
  <2>1. \A j \in 1..6 : h[j] = IF j = i THEN h[i] ELSE 0
    OBVIOUS
  <2>2. CASE i \notin 1..6
    <3>1. h[1] = 0 /\ h[2] = 0 /\ h[3] = 0 /\ h[4] = 0 /\ h[5] = 0 /\ h[6] = 0
      BY <2>1, <2>2
    <3> QED BY <2>2, <3>1 DEF First
  <2>3. CASE i \in 1..6
    <3>1. i = 1 \/ i = 2 \/ i = 3 \/ i = 4 \/ i = 5 \/ i = 6
      BY <2>3
    <3> QED BY <1>1, <2>1, <2>3, <3>1 DEF First
  <2> QED BY <2>2, <2>3
<1>3. Middle(h) = IF i \in 7..12 THEN h[i] ELSE 0
  <2>1. \A j \in 7..12 : h[j] = IF j = i THEN h[i] ELSE 0
    OBVIOUS
  <2>2. CASE i \notin 7..12
    <3>1. h[7] = 0 /\ h[8] = 0 /\ h[9] = 0 /\ h[10] = 0 /\ h[11] = 0 /\ h[12] = 0
      BY <2>1, <2>2
    <3> QED BY <2>2, <3>1 DEF Middle
  <2>3. CASE i \in 7..12
    <3>1. i = 7 \/ i = 8 \/ i = 9 \/ i = 10 \/ i = 11 \/ i = 12
      BY <2>3
    <3> QED BY <1>1, <2>1, <2>3, <3>1 DEF Middle
  <2> QED BY <2>2, <2>3
<1>4. Last17(h) = IF i \in 13..17 THEN h[i] ELSE 0
  <2>1. \A j \in 13..17 : h[j] = IF j = i THEN h[i] ELSE 0
    OBVIOUS
  <2>2. CASE i \notin 13..17
    <3>1. h[13] = 0 /\ h[14] = 0 /\ h[15] = 0 /\ h[16] = 0 /\ h[17] = 0
      BY <2>1, <2>2
    <3> QED BY <2>2, <3>1 DEF Last17
  <2>3. CASE i \in 13..17
    <3>1. i = 13 \/ i = 14 \/ i = 15 \/ i = 16 \/ i = 17
      BY <2>3
    <3> QED BY <1>1, <2>1, <2>3, <3>1 DEF Last17
  <2> QED BY <2>2, <2>3
<1> QED BY <1>1, <1>2, <1>3, <1>4 DEF Sum17

(* A sum with two terms that are not 0 is one with the first of them and one *)
(* with the second.                                                          *)
LEMMA SumOfTwo ==
  ASSUME NEW h \in [1..17 -> Int], NEW i \in 1..16,
         \A j \in 1..17 : j \notin {i, i + 1} => h[j] = 0
  PROVE  Sum17(h) = h[i] + h[i + 1]
<1> DEFINE f == [j \in 1..17 |-> IF j = i THEN h[i] ELSE 0]
           g == [j \in 1..17 |-> IF j = i + 1 THEN h[i + 1] ELSE 0]
<1>1. i \in 1..17 /\ i + 1 \in 1..17 /\ h[i] \in Int /\ h[i + 1] \in Int
  OBVIOUS
<1>2. f \in [1..17 -> Int] /\ g \in [1..17 -> Int] /\ f[i] = h[i] /\ g[i + 1] = h[i + 1]
  BY <1>1
<1>3. Sum17(f) = h[i]
  <2>1. \A j \in 1..17 : j # i => f[j] = 0
    OBVIOUS
  <2> HIDE DEF f
  <2> QED BY <2>1, <1>1, <1>2, SumOfOne
<1>4. Sum17(g) = h[i + 1]
  <2>1. \A j \in 1..17 : j # i + 1 => g[j] = 0
    OBVIOUS
  <2> HIDE DEF g
  <2> QED BY <2>1, <1>1, <1>2, SumOfOne
<1>5. g = [j \in 1..17 |-> h[j] - f[j]]
  BY <1>1
<1> HIDE DEF f, g
<1>6. Sum17(h) = Sum17(f) + Sum17(g)
  BY <1>2, <1>5, SumDiffers
<1> QED BY <1>3, <1>4, <1>6

(* The totals of two numbers that differ in one character.                   *)
LEMMA OneTermDiffers ==
  ASSUME NEW v \in Vin, NEW u \in Vin, NEW i \in 1..17,
         \A j \in 1..17 : j # i => u[j] = v[j]
  PROVE  Total(u) = Total(v) + (Term(u, i) - Term(v, i))
<1> DEFINE h == [j \in 1..17 |-> Terms(u)[j] - Terms(v)[j]]
<1>1. Terms(u) \in [1..17 -> Int] /\ Terms(v) \in [1..17 -> Int] /\ h \in [1..17 -> Int]
  BY TermsType
<1>2. \A j \in 1..17 : h[j] = Term(u, j) - Term(v, j)
  BY DEF Terms
<1>3. \A j \in 1..17 : j # i => h[j] = 0
  BY <1>2, TermIsNat DEF Term
<1> HIDE DEF h
<1>4. Sum17(h) = h[i]
  BY <1>1, <1>3, SumOfOne
<1>5. Sum17(Terms(u)) = Sum17(Terms(v)) + Sum17(h)
  BY <1>1, SumDiffers DEF h
<1> QED BY <1>2, <1>4, <1>5, TotalIs

(* The totals of two numbers that differ in two adjacent characters.         *)
LEMMA TwoTermsDiffer ==
  ASSUME NEW v \in Vin, NEW u \in Vin, NEW i \in 1..16,
         \A j \in 1..17 : j \notin {i, i + 1} => u[j] = v[j]
  PROVE  Total(u) = Total(v) + (Term(u, i) - Term(v, i)) + (Term(u, i + 1) - Term(v, i + 1))
<1> DEFINE h == [j \in 1..17 |-> Terms(u)[j] - Terms(v)[j]]
<1>1. Terms(u) \in [1..17 -> Int] /\ Terms(v) \in [1..17 -> Int] /\ h \in [1..17 -> Int]
  BY TermsType
<1>2. \A j \in 1..17 : h[j] = Term(u, j) - Term(v, j)
  BY DEF Terms
<1>3. \A j \in 1..17 : j \notin {i, i + 1} => h[j] = 0
  BY <1>2, TermIsNat DEF Term
<1> HIDE DEF h
<1>4. Sum17(h) = h[i] + h[i + 1]
  BY <1>1, <1>3, SumOfTwo
<1>5. Sum17(Terms(u)) = Sum17(Terms(v)) + Sum17(h)
  BY <1>1, SumDiffers DEF h
<1>6. i \in 1..17 /\ i + 1 \in 1..17
  OBVIOUS
<1>7. /\ Term(u, i) \in Nat /\ Term(v, i) \in Nat /\ Term(u, i + 1) \in Nat
      /\ Term(v, i + 1) \in Nat
  BY <1>6, TermIsNat
<1> QED BY <1>2, <1>4, <1>5, <1>6, <1>7, TotalIs
-----------------------------------------------------------------------------
(* 11 is prime: no weight times the difference of two values is a multiple   *)
(* of it, unless the values are equal.                                       *)
LEMMA NoMultipleOf11 ==
  ASSUME NEW w \in 1..10, NEW d \in -9..9, NEW k \in Int, w * d = 11 * k
  PROVE  d = 0
<1>1. CASE w = 1
  BY <1>1
<1>2. CASE w = 2
  BY <1>2
<1>3. CASE w = 3
  BY <1>3
<1>4. CASE w = 4
  BY <1>4
<1>5. CASE w = 5
  BY <1>5
<1>6. CASE w = 6
  BY <1>6
<1>7. CASE w = 7
  BY <1>7
<1>8. CASE w = 8
  BY <1>8
<1>9. CASE w = 9
  BY <1>9
<1>10. CASE w = 10
  BY <1>10
<1> QED BY <1>1, <1>2, <1>3, <1>4, <1>5, <1>6, <1>7, <1>8, <1>9, <1>10

(* Sums with the same remainder differ by a multiple of 11.                  *)
LEMMA EqualRemainders ==
  ASSUME NEW s \in Int, NEW d \in Int, (s + d) % 11 = s % 11
  PROVE  \E k \in Int : d = 11 * k
<1> DEFINE k == ((s + d) \div 11) - (s \div 11)
<1>1. k \in Int /\ d = 11 * k
  OBVIOUS
<1> QED BY <1>1

(* The remainders there are.                                                 *)
LEMMA RemainderType == ASSUME NEW v \in Vin PROVE Total(v) % 11 \in 0..10
  BY TotalIs

(* What decode() accepts has seventeen characters with values, and for       *)
(* ninth the digit the others give.                                          *)
LEMMA AcceptedIs ==
  ASSUME NEW v \in [1..17 -> Char], ErrorsOf(v) = {}
  PROVE  v \in Vin /\ v[9] = CheckDigit(Total(v) % 11)
<1>1. ToSet(v) \cap Disallowed = {} /\ Len(v) = 17
  BY DEF ErrorsOf
<1>2. ExpectedCheckDigit(v) = v[9]
  BY <1>1 DEF ErrorsOf
<1>3. v[9] # "?"
  BY DEF Char, ToSet, Digits, Letters, Disallowed
<1>4. \A i \in DOMAIN v : v[i] \in Transliterated
  BY <1>2, <1>3 DEF ExpectedCheckDigit
<1>5. ExpectedCheckDigit(v) = CheckDigit(Total(v) % 11)
  BY <1>4, Zenon DEF ExpectedCheckDigit
<1> QED BY <1>2, <1>4, <1>5 DEF Vin

(* The number of a car is one that decode() accepts.                         *)
LEMMA CarVinIs ==
  ASSUME NEW v \in Vins
  PROVE  v \in Vin /\ v \in [1..17 -> Char] /\ v[9] = CheckDigit(Total(v) % 11)
<1>1. v \in Vin /\ ErrorsOf(v) = {}
  BY VinConstantsOK DEF Vin
<1>2. v \in [1..17 -> Char]
  BY <1>1 DEF Vin, Char, Transliterated
<1> QED BY <1>1, <1>2, AcceptedIs

(* Away from the check digit a character is taken for another only if it has *)
(* its value; at the check digit, never.                                     *)
LEMMA MistypedIs ==
  ASSUME NEW m \in Vins, NEW i \in 1..17, NEW c \in Char, c # m[i],
         ErrorsOf([m EXCEPT ![i] = c]) = {}
  PROVE  i # 9 /\ SameValue(c, m[i])
<1> DEFINE v == [m EXCEPT ![i] = c]
<1>1. m \in Vin /\ m \in [1..17 -> Char] /\ m[9] = CheckDigit(Total(m) % 11)
  BY CarVinIs
<1>2. v \in [1..17 -> Char] /\ v[i] = c /\ \A j \in 1..17 : j # i => v[j] = m[j]
  BY <1>1
<1>3. v \in Vin /\ v[9] = CheckDigit(Total(v) % 11)
  BY <1>2, AcceptedIs
<1> HIDE DEF v
<1>4. Total(v) = Total(m) + (Term(v, i) - Term(m, i)) /\ Total(m) \in Int
  BY <1>1, <1>2, <1>3, OneTermDiffers, TotalIs
<1>5. /\ c \in Transliterated /\ m[i] \in Transliterated
      /\ Value(c) \in 0..9 /\ Value(m[i]) \in 0..9 /\ Weights[i] \in 0..10
  BY <1>1, <1>2, <1>3, ValueType, WeightsAre DEF Vin
<1>6. /\ Term(v, i) = Value(c) * Weights[i] /\ Term(m, i) = Value(m[i]) * Weights[i]
      /\ Term(v, i) \in Nat /\ Term(m, i) \in Nat
  BY <1>1, <1>2, <1>3, TermIsNat DEF Term, Value
<1>7. i # 9
  <2> SUFFICES ASSUME i = 9 PROVE FALSE
    OBVIOUS
  <2>1. Term(v, i) = 0 /\ Term(m, i) = 0
    BY <1>5, <1>6, WeightsAre
  <2>2. Total(v) = Total(m)
    BY <2>1, <1>4
  <2> QED BY <2>2, <1>1, <1>2, <1>3
<1>8. Total(v) % 11 = Total(m) % 11
  <2>1. v[9] = m[9]
    BY <1>2, <1>7
  <2>2. Total(v) % 11 \in 0..10 /\ Total(m) % 11 \in 0..10
    BY <1>1, <1>3, RemainderType
  <2> QED BY <2>1, <2>2, <1>1, <1>3, CheckDigitTells
<1>9. \E k \in Int : Term(v, i) - Term(m, i) = 11 * k
  <2> DEFINE e == Term(v, i) - Term(m, i)
             s == Total(m)
  <2>1. e \in Int /\ s \in Int /\ Total(v) = s + e
    BY <1>4, <1>6
  <2> HIDE DEF e, s
  <2>2. (s + e) % 11 = s % 11
    BY <2>1, <1>8 DEF s
  <2> QED BY <2>1, <2>2, EqualRemainders DEF e
<1>10. Value(c) - Value(m[i]) = 0
  <2> DEFINE d == Value(c) - Value(m[i])
             w == Weights[i]
  <2>1. w \in 1..10 /\ d \in -9..9
    BY <1>5, <1>7, WeightsAre
  <2>2. Term(v, i) - Term(m, i) = w * d
    <3> DEFINE p == Value(c)
               q == Value(m[i])
    <3>1. p \in Int /\ q \in Int /\ w \in Int
      BY <1>5
    <3>2. Term(v, i) = p * w /\ Term(m, i) = q * w
      BY <1>6
    <3> HIDE DEF p, q, w
    <3>3. p * w - q * w = w * (p - q)
      BY <3>1
    <3> QED BY <3>2, <3>3 DEF p, q
  <2> HIDE DEF d, w
  <2>3. d = 0
    BY <1>9, <2>1, <2>2, NoMultipleOf11
  <2> QED BY <2>3 DEF d
<1> QED BY <1>5, <1>7, <1>10 DEF SameValue, Value

(* Exchanging two neighbours changes the sum by the difference of the values *)
(* times that of the weights.                                                *)
LEMMA SwapChangesTotal ==
  ASSUME NEW m \in Vin, NEW i \in 1..16, NEW v \in Vin,
         v[i] = m[i + 1], v[i + 1] = m[i], \A j \in 1..17 : j \notin {i, i + 1} => v[j] = m[j]
  PROVE  Total(v) = Total(m) + (Weights[i + 1] - Weights[i]) * (Value(m[i]) - Value(m[i + 1]))
<1>1. Total(v) = Total(m) + (Term(v, i) - Term(m, i)) + (Term(v, i + 1) - Term(m, i + 1))
  BY TwoTermsDiffer
<1> DEFINE a == Value(m[i])
           b == Value(m[i + 1])
           x == Weights[i]
           y == Weights[i + 1]
<1>2. a \in Int /\ b \in Int /\ x \in Int /\ y \in Int
  BY ValueType, WeightsAre DEF Vin
<1>3. /\ Term(v, i) = b * x /\ Term(m, i) = a * x
      /\ Term(v, i + 1) = a * y /\ Term(m, i + 1) = b * y
  BY DEF Term, Value
<1>4. Total(m) \in Int
  BY TotalIs
<1> HIDE DEF a, b, x, y
<1>5. (b * x - a * x) + (a * y - b * y) = (y - x) * (a - b)
  BY <1>2
<1>6. /\ b * x \in Int /\ a * x \in Int /\ a * y \in Int /\ b * y \in Int
      /\ (y - x) * (a - b) \in Int
  BY <1>2
<1>7. Total(v) = Total(m) + (y - x) * (a - b)
  BY <1>1, <1>3, <1>4, <1>5, <1>6
<1> QED BY <1>7 DEF a, b, x, y

(* Two neighbours taken for each other have the same value, or one of them   *)
(* is the check digit.                                                       *)
LEMMA SwappedIs ==
  ASSUME NEW m \in Vins, NEW i \in 1..16, m[i] # m[i + 1],
         ErrorsOf([m EXCEPT ![i] = m[i + 1], ![i + 1] = m[i]]) = {}
  PROVE  \/ i \notin {8, 9} /\ SameValue(m[i], m[i + 1])
         \/ i = 8 /\ {m[8], m[9]} \subseteq ToSet(Digits)
         \/ i = 9 /\ {m[9], m[10]} = {"4", "X"}
<1> DEFINE v == [m EXCEPT ![i] = m[i + 1], ![i + 1] = m[i]]
           a == Value(m[i])
           b == Value(m[i + 1])
           d == a - b
           r == Total(m) % 11
           q == Total(v) % 11
<1>1. m \in Vin /\ m \in [1..17 -> Char] /\ m[9] = CheckDigit(r)
  BY CarVinIs
<1>2. /\ v \in [1..17 -> Char] /\ v[i] = m[i + 1] /\ v[i + 1] = m[i]
      /\ \A j \in 1..17 : j \notin {i, i + 1} => v[j] = m[j]
  BY <1>1
<1>3. v \in Vin /\ v[9] = CheckDigit(q)
  BY <1>2, AcceptedIs
<1> HIDE DEF v
<1>4. Total(v) = Total(m) + (Weights[i + 1] - Weights[i]) * d
  BY <1>1, <1>2, <1>3, SwapChangesTotal
<1>5. /\ m[i] \in Transliterated /\ m[i + 1] \in Transliterated
      /\ a \in 0..9 /\ b \in 0..9 /\ d \in -9..9 /\ d = a - b
  <2>1. m[i] \in Transliterated /\ m[i + 1] \in Transliterated
    BY <1>1 DEF Vin
  <2>2. a \in 0..9 /\ b \in 0..9
    BY <2>1, ValueType
  <2> QED BY <2>1, <2>2
<1>6. r \in 0..10 /\ q \in 0..10 /\ Total(m) \in Int
  BY <1>1, <1>3, RemainderType, TotalIs
<1> DEFINE t == Total(m)
<1>7. r = t % 11 /\ t \in Int
  BY <1>6
<1>8. /\ a = Value(m[i]) /\ b = Value(m[i + 1]) /\ q = Total(v) % 11
      /\ Total(v) = t + (Weights[i + 1] - Weights[i]) * d
  BY <1>4
<1> HIDE DEF a, b, d, r, q, t
<1>9. CASE i \notin {7, 8, 9}
  <2>1. Weights[i + 1] - Weights[i] = -1 /\ v[9] = m[9]
    BY <1>2, <1>9, WeightsAre
  <2>2. q = r
    BY <1>1, <1>3, <1>6, <2>1, CheckDigitTells
  <2>3. (t + -d) % 11 = t % 11 /\ -d \in Int
    BY <1>5, <1>7, <1>8, <2>1, <2>2
  <2>4. PICK k \in Int : -d = 11 * k
    BY <2>3, <1>7, EqualRemainders
  <2>5. a = b
    BY <2>4, <1>5
  <2> QED BY <2>5, <1>5, <1>8, <1>9 DEF SameValue, Value
<1>10. CASE i = 7
  <2>1. Weights[i + 1] - Weights[i] = 8 /\ v[9] = m[9]
    BY <1>2, <1>10, WeightsAre
  <2>2. q = r
    BY <1>1, <1>3, <1>6, <2>1, CheckDigitTells
  <2>3. (t + 8 * d) % 11 = t % 11 /\ 8 * d \in Int
    BY <1>5, <1>7, <1>8, <2>1, <2>2
  <2>4. PICK k \in Int : 8 * d = 11 * k
    BY <2>3, <1>7, EqualRemainders
  <2>5. a = b
    BY <2>4, <1>5
  <2>6. SameValue(m[i], m[i + 1])
    BY <2>5, <1>5, <1>8 DEF SameValue, Value
  <2> QED BY <2>6, <1>10
<1>11. CASE i = 8
  <2>1. /\ Weights[i + 1] - Weights[i] = -10 /\ v[9] = m[8] /\ m[i] = m[8] /\ m[i + 1] = m[9]
    BY <1>2, <1>11, WeightsAre
  <2>2. q = (t - 10 * d) % 11 /\ m[8] = CheckDigit(q) /\ m[9] = CheckDigit(r)
    BY <1>1, <1>3, <1>5, <1>7, <1>8, <2>1
  <2>3. CASE r = 10
    <3>1. b = 7 /\ m[9] = "X"
      BY <2>1, <2>2, <2>3, <1>8, CheckDigitTells, ValueOfX
    <3>2. CASE q \in 0..9
      <4>1. a = q
        BY <2>1, <2>2, <3>2, <1>8, CheckDigitTells
      <4> QED BY <4>1, <3>1, <2>2, <2>3, <1>5, <1>7, <3>2
    <3>3. CASE q = 10
      BY <3>3, <3>1, <2>1, <2>2, <1>11, CheckDigitTells
    <3> QED BY <3>2, <3>3, <1>6
  <2>4. CASE r \in 0..9
    <3>1. b = r /\ m[9] \in ToSet(Digits)
      BY <2>1, <2>2, <2>4, <1>8, CheckDigitTells
    <3>2. CASE q \in 0..9
      BY <3>1, <3>2, <2>2, <1>11, CheckDigitTells
    <3>3. CASE q = 10
      <4>1. a = 7
        BY <2>1, <2>2, <3>3, <1>8, CheckDigitTells, ValueOfX
      <4> QED BY <4>1, <3>1, <3>3, <2>2, <2>4, <1>5, <1>7
    <3> QED BY <3>2, <3>3, <1>6
  <2> QED BY <2>3, <2>4, <1>6
<1>12. CASE i = 9
  <2>1. /\ Weights[i + 1] - Weights[i] = 9 /\ v[9] = m[10] /\ m[i] = m[9] /\ m[i + 1] = m[10]
    BY <1>2, <1>12, WeightsAre
  <2>2. q = (t + 9 * d) % 11 /\ m[10] = CheckDigit(q) /\ m[9] = CheckDigit(r)
    BY <1>1, <1>3, <1>5, <1>7, <1>8, <2>1
  <2>3. m[9] # m[10]
    BY <2>1
  <2>4. CASE r = 10 /\ q \in 0..9
    <3>1. a = 7 /\ b = q
      BY <2>1, <2>2, <2>4, <1>8, CheckDigitTells, ValueOfX
    <3>2. q = 4
      BY <3>1, <2>2, <2>4, <1>5, <1>7
    <3> QED BY <3>2, <2>2, <2>4, <1>12, CheckDigitTells
  <2>5. CASE r \in 0..9 /\ q = 10
    <3>1. a = r /\ b = 7
      BY <2>1, <2>2, <2>5, <1>8, CheckDigitTells, ValueOfX
    <3>2. r = 4
      BY <3>1, <2>2, <2>5, <1>5, <1>7
    <3> QED BY <3>2, <2>2, <2>5, <1>12, CheckDigitTells
  <2>6. CASE r \in 0..9 /\ q \in 0..9
    <3>1. a = r /\ b = q
      BY <2>1, <2>2, <2>6, <1>8, CheckDigitTells
    <3>2. PICK k \in Int, n \in Int : t = 11 * k + r /\ t + 9 * d = 11 * n + q
      <4> DEFINE k == t \div 11
                 n == (t + 9 * d) \div 11
      <4>1. k \in Int /\ n \in Int /\ t = 11 * k + r /\ t + 9 * d = 11 * n + q
        BY <2>2, <1>5, <1>7
      <4> QED BY <4>1
    <3>3. 10 * d = 11 * (n - k) /\ n - k \in Int
      <4>1. d = r - q /\ d \in Int /\ t \in Int /\ r \in Int /\ q \in Int
        BY <3>1, <1>5, <1>6, <1>7
      <4>2. t + 9 * d + d = 11 * n + q + d
        BY <3>2, <4>1
      <4> QED BY <3>2, <4>1, <4>2
    <3>4. d = 0
      BY <3>3, <1>5, NoMultipleOf11
    <3>5. r = q
      BY <3>1, <3>4, <1>5
    <3> QED BY <3>5, <2>2, <2>3
  <2>7. r # q
    BY <2>2, <2>3
  <2>8. (r = 10 \/ r \in 0..9) /\ (q = 10 \/ q \in 0..9)
    BY <1>6
  <2> QED BY <2>4, <2>5, <2>6, <2>7, <2>8
<1> QED BY <1>9, <1>10, <1>11, <1>12

(* A VIN without one of its characters is too short.                         *)
LEMMA MissingIs ==
  ASSUME NEW m \in Vins, NEW i \in 1..17
  PROVE  /\ RemoveAt(m, i) \in Seq(Char) /\ Len(RemoveAt(m, i)) = 16
         /\ ErrorsOf(RemoveAt(m, i)) # {}
<1>1. m \in [1..17 -> Char] /\ Len(m) = 17
  BY CarVinIs
<1>2. m = [j \in 1..17 |-> m[j]] /\ m \in Seq(Char)
  <2>1. m = [j \in 1..17 |-> m[j]] /\ \A j \in 1..17 : m[j] \in Char
    BY <1>1
  <2> QED BY <2>1
<1> DEFINE a == SubSeq(m, 1, i - 1)
           b == SubSeq(m, i + 1, 17)
<1>3. a \in Seq(Char) /\ Len(a) = i - 1
  <2>1. \A j \in 1..i - 1 : m[j] \in Char
    BY <1>1
  <2> QED BY <2>1, SubSeqProperties
<1>4. b \in Seq(Char) /\ Len(b) = 17 - i
  <2>1. \A j \in i + 1..17 : m[j] \in Char
    BY <1>1
  <2> QED BY <2>1, SubSeqProperties
<1> HIDE DEF a, b
<1>5. a \o b \in Seq(Char) /\ Len(a \o b) = 16
  BY <1>3, <1>4
<1>6. RemoveAt(m, i) = a \o b
  BY <1>1 DEF RemoveAt, a, b
<1>7. ASSUME NEW u, Len(u) = 16 PROVE ErrorsOf(u) # {}
  <2>1. "length" \in ErrorsOf(u)
    BY <1>7 DEF ErrorsOf
  <2> QED BY <2>1
<1> QED BY <1>5, <1>6, <1>7

-----------------------------------------------------------------------------
(* The model year is one of the thirty of the table, or 0.                   *)
LEMMA YearType == \A v : ModelYear(v) \in Years
<1>1. DOMAIN YearCodes = 1..30
  BY DEF YearCodes
<1> SUFFICES ASSUME NEW v PROVE ModelYear(v) \in Years
  OBVIOUS
<1>2. CASE Len(v) >= 10 /\ v[10] \in ToSet(YearCodes)
  <2> DEFINE n == CHOOSE i \in DOMAIN YearCodes : YearCodes[i] = v[10]
  <2>1. \E i \in DOMAIN YearCodes : YearCodes[i] = v[10]
    BY <1>2 DEF ToSet
  <2>2. n \in 1..30
    BY <2>1, <1>1
  <2>3. ModelYear(v) = 2000 + n
    BY <1>2 DEF ModelYear
  <2> HIDE DEF n
  <2> QED BY <2>2, <2>3 DEF Years
<1>3. CASE ~(Len(v) >= 10 /\ v[10] \in ToSet(YearCodes))
  BY <1>3 DEF ModelYear, Years
<1> QED BY <1>2, <1>3

VinInv == VinTypeOK /\ (slip = "unread" => entered = meant) /\ SlipsDetected

(* Nothing has been decoded.                                                 *)
LEMMA InitVinInv == VinInit => VinInv
<1> SUFFICES ASSUME VinInit PROVE VinInv
  OBVIOUS
<1>1. meant \in Vins /\ entered = meant /\ slip = "unread" /\ at = 0 /\ errors = {} /\ year = 0
  BY DEF VinInit
<1>2. entered \in Seq(Char) /\ Len(entered) = 17
  <2>1. meant \in [1..17 -> Char]
    BY <1>1, CarVinIs
  <2>2. meant = [j \in 1..17 |-> meant[j]] /\ \A j \in 1..17 : meant[j] \in Char
    BY <2>1
  <2> QED BY <2>2, <1>1
<1>3. 0 \in Years
  BY DEF Years
<1> QED BY <1>1, <1>2, <1>3 DEF VinInv, VinTypeOK, SlipsDetected

(* decode() of a sequence of 16 or 17 characters keeps the types.            *)
LEMMA DecodeTypeOK ==
  ASSUME VinTypeOK, NEW v \in Seq(Char), Len(v) \in {16, 17}, Decode(v),
         slip' \in {"none", "mistyped", "swapped", "missing"}, at' \in 0..17
  PROVE  VinTypeOK'
<1>1. ErrorsOf(v) \subseteq {"length", "alphabet", "check digit", "year"}
  BY DEF ErrorsOf
<1>2. ErrorsOf(v) = errors' /\ ModelYear(v) = year' /\ entered' = v /\ meant' \in Vins
  BY DEF VinTypeOK, Decode
<1>3. year' \in Years
  BY <1>2, YearType
<1>4. slip' \in {"unread", "none", "mistyped", "swapped", "missing"}
  OBVIOUS
<1> QED BY <1>1, <1>2, <1>3, <1>4 DEF VinTypeOK

(* A number is a sequence of seventeen characters.                           *)
LEMMA FunctionIsSeq == ASSUME NEW v \in [1..17 -> Char] PROVE v \in Seq(Char) /\ Len(v) = 17
<1>1. v = [j \in 1..17 |-> v[j]] /\ \A j \in 1..17 : v[j] \in Char
  OBVIOUS
<1> QED BY <1>1

(* Every step of the decoder preserves the invariant.                        *)
LEMMA NextVinInv == VinInv /\ [VinNext]_vinVars => VinInv'
<1> SUFFICES ASSUME VinInv, [VinNext]_vinVars PROVE VinInv'
  OBVIOUS
<1>1. VinTypeOK /\ meant \in Vins /\ meant \in [1..17 -> Char]
  <2>1. VinTypeOK
    BY DEF VinInv
  <2>2. meant \in Vins
    BY <2>1, Zenon DEF VinTypeOK
  <2> QED BY <2>1, <2>2, CarVinIs
<1>2. CASE DecodeRight
  <2>1. Decode(meant) /\ slip' = "none" /\ at' = 0
    BY <1>2 DEF DecodeRight
  <2>2. VinTypeOK'
    BY <1>1, <2>1, DecodeTypeOK, FunctionIsSeq
  <2>3. errors' = {}
    BY <1>1, <2>1, VinConstantsOK DEF Decode
  <2> QED BY <2>1, <2>2, <2>3 DEF VinInv, SlipsDetected
<1>3. ASSUME NEW i \in 1..17, DecodeMissing(i) PROVE VinInv'
  <2>1. Decode(RemoveAt(meant, i)) /\ slip' = "missing" /\ at' = i
    BY <1>3 DEF DecodeMissing
  <2>2. VinTypeOK'
    BY <1>1, <2>1, DecodeTypeOK, MissingIs
  <2>3. errors' # {}
    BY <1>1, <2>1, MissingIs DEF Decode
  <2> QED BY <2>1, <2>2, <2>3 DEF VinInv, SlipsDetected
<1>4. ASSUME NEW i \in 1..17, NEW c \in Char, DecodeMistyped(i, c) PROVE VinInv'
  <2> DEFINE v == [meant EXCEPT ![i] = c]
  <2>1. c # meant[i] /\ Decode(v) /\ slip' = "mistyped" /\ at' = i
    BY <1>4 DEF DecodeMistyped
  <2>2. v \in [1..17 -> Char] /\ v[i] = c
    BY <1>1
  <2>3. errors' = {} => i # 9 /\ SameValue(c, meant[i])
    BY <1>1, <2>1, MistypedIs DEF Decode
  <2>4. entered' = v /\ meant' = meant
    BY <2>1 DEF Decode
  <2>5. entered'[i] = c
    BY <2>2, <2>4
  <2> HIDE DEF v
  <2>6. VinTypeOK'
    BY <1>1, <2>1, <2>2, DecodeTypeOK, FunctionIsSeq
  <2> QED BY <2>1, <2>3, <2>4, <2>5, <2>6 DEF VinInv, SlipsDetected, SameValue
<1>5. ASSUME NEW i \in 1..16, DecodeSwapped(i) PROVE VinInv'
  <2> DEFINE v == [meant EXCEPT ![i] = meant[i + 1], ![i + 1] = meant[i]]
  <2>1. meant[i] # meant[i + 1] /\ Decode(v) /\ slip' = "swapped" /\ at' = i
    BY <1>5 DEF DecodeSwapped
  <2>2. v \in [1..17 -> Char]
    BY <1>1
  <2>3. errors' = {} =>
          \/ i \notin {8, 9} /\ SameValue(meant[i], meant[i + 1])
          \/ i = 8 /\ {meant[8], meant[9]} \subseteq ToSet(Digits)
          \/ i = 9 /\ {meant[9], meant[10]} = {"4", "X"}
    BY <1>1, <2>1, SwappedIs DEF Decode
  <2>4. meant' = meant
    BY <2>1 DEF Decode
  <2> HIDE DEF v
  <2>5. VinTypeOK'
    BY <1>1, <2>1, <2>2, DecodeTypeOK, FunctionIsSeq
  <2> QED BY <2>1, <2>3, <2>4, <2>5 DEF VinInv, SlipsDetected, SameValue
<1>6. CASE UNCHANGED vinVars
  <2>1. /\ entered' = entered /\ meant' = meant /\ slip' = slip /\ at' = at
        /\ errors' = errors /\ year' = year
    BY <1>6 DEF vinVars
  <2>2. VinTypeOK'
    BY <1>1, <2>1 DEF VinTypeOK
  <2>3. SlipsDetected'
    BY <2>1 DEF VinInv, SlipsDetected, SameValue
  <2> QED BY <2>1, <2>2, <2>3 DEF VinInv
<1> QED BY <1>2, <1>3, <1>4, <1>5, <1>6 DEF VinNext

(* For every VIN with a right check digit and year code: as it is it is      *)
(* accepted, and of the characters mistyped, exchanged or left out, only     *)
(* those SlipsDetected names go undetected.                                  *)
THEOREM SlipsTheorem == VinSpec => []SlipsDetected
<1>1. VinInv => SlipsDetected
  BY DEF VinInv
<1> QED BY InitVinInv, NextVinInv, <1>1, PTL DEF VinSpec
=============================================================================
