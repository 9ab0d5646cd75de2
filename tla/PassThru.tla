------------------------------- MODULE PassThru -------------------------------
(***************************************************************************)
(* J2534Device and SimulatedECU (src/j2534/simulator.py): the lifecycle of *)
(* the simulated pass-thru device, its receive queue, and the probing of   *)
(* all protocols.                                                          *)
(*                                                                         *)
(* The device is used from one thread.  probe_all_protocols is a loop over *)
(* a set, in whatever order Python iterates it: each iteration is a step,  *)
(* and no other call comes between.  A request is what SimulatedECU.handle *)
(* distinguishes about it, and an answer is the kind it chooses.           *)
(***************************************************************************)
EXTENDS Naturals, Sequences, SequencesExt

CONSTANTS
  Protocol,    \* SUPPORTED
  NoProtocol,  \* None
  MaxChannel,  \* bound: channels opened
  MaxUnread    \* bound: answers left in the queue by the caller

ASSUME PassThruConstantsOK ==
  /\ NoProtocol \notin Protocol
  /\ MaxChannel \in Nat /\ MaxUnread \in Nat

VARIABLES
  isOpen, channelOpen, protocol, \* _is_open, _channel_open, protocol
  ecuSim,     \* the protocol of the SimulatedECU, NoProtocol for None
  rxQueue,    \* _rx_queue
  probing,    \* probe_all_protocols is running
  untried,    \* protocols its loop has not come to
  active,     \* those that answered
  channels,   \* channels opened so far; numbers them (history)
  unread,     \* answers to the caller's requests less those it read (history)
  drained     \* no channel was opened while there were any (history)

passThruVars == <<isOpen, channelOpen, protocol, ecuSim, rxQueue, probing, untried, active,
                  channels, unread, drained>>

ArbId == {"7E0", "7DF", "other"}       \* TX_ID, the functional address, any other
Data  == {"empty", "mode 01", "other"}  \* mode 01: at least 3 bytes, the second is 0x01
Answer == [proto : Protocol, kind : {"pids", "reject"}, channel : Nat]

PassThruInit ==
  /\ isOpen = FALSE /\ channelOpen = FALSE
  /\ protocol = NoProtocol /\ ecuSim = NoProtocol /\ rxQueue = <<>>
  /\ probing = FALSE /\ untried = {} /\ active = {}
  /\ channels = 0 /\ unread = 0 /\ drained = TRUE

-----------------------------------------------------------------------------
\* Faulty variant of Answered: the ECU does not listen to the functional address.
AnsweredPhysical(id, data) == id = "7E0" /\ data # "empty"

\* SimulatedECU.handle answers a request.
Answered(id, data) == id \in {"7E0", "7DF"} /\ data # "empty"

\* ... with the supported PIDs, or with a negative response.
Handle(p, data, channel) ==
  [proto |-> p, kind |-> IF data = "mode 01" THEN "pids" ELSE "reject", channel |-> channel]

PassThruOpen ==
  /\ ~probing
  /\ isOpen' = TRUE
  /\ UNCHANGED <<channelOpen, protocol, ecuSim, rxQueue, probing, untried, active, channels,
                 unread, drained>>

\* connect(p): J2534Error unless open; a channel that is open is replaced.
PassThruConnect(p) ==
  /\ ~probing /\ isOpen /\ channels < MaxChannel
  /\ protocol' = p /\ ecuSim' = p /\ channelOpen' = TRUE
  /\ channels' = channels + 1
  /\ drained' = (drained /\ unread = 0)
  /\ UNCHANGED <<isOpen, rxQueue, probing, untried, active, unread>>

\* write_msg: the answer of the ECU, if any, is in the queue at once.
WriteMsg(id, data) ==
  /\ ~probing /\ channelOpen /\ Len(rxQueue) < MaxUnread
  /\ rxQueue' = IF Answered(id, data)
                THEN Append(rxQueue, Handle(ecuSim, data, channels)) ELSE rxQueue
  /\ unread' = IF Answered(id, data) THEN unread + 1 ELSE unread
  /\ UNCHANGED <<isOpen, channelOpen, protocol, ecuSim, probing, untried, active, channels,
                 drained>>

\* read_msg, which returns None on an empty queue.
ReadMsg ==
  /\ ~probing /\ channelOpen /\ rxQueue # <<>>
  /\ rxQueue' = Tail(rxQueue)
  /\ unread' = IF unread > 0 THEN unread - 1 ELSE 0
  /\ UNCHANGED <<isOpen, channelOpen, protocol, ecuSim, probing, untried, active, channels,
                 drained>>

ChannelGone == channelOpen' = FALSE /\ protocol' = NoProtocol /\ ecuSim' = NoProtocol

\* disconnect(): the queue stays.
PassThruDisconnect ==
  /\ ~probing /\ ChannelGone
  /\ UNCHANGED <<isOpen, rxQueue, probing, untried, active, channels, unread, drained>>

\* Faulty variant of PassThruClose: the channel is left as it is.
PassThruCloseOnly ==
  /\ ~probing /\ isOpen' = FALSE
  /\ UNCHANGED <<channelOpen, protocol, ecuSim, rxQueue, probing, untried, active, channels,
                 unread, drained>>

PassThruClose ==
  /\ ~probing /\ ChannelGone /\ isOpen' = FALSE
  /\ UNCHANGED <<rxQueue, probing, untried, active, channels, unread, drained>>
-----------------------------------------------------------------------------
\* probe_all_protocols on an open device.  (On a closed one the first connect
\* raises, and its `finally` disconnects what is not connected.)
ProbeStart ==
  /\ ~probing /\ isOpen
  /\ channels < MaxChannel
  /\ probing' = TRUE /\ untried' = Protocol /\ active' = {}
  /\ drained' = (drained /\ unread = 0)
  /\ UNCHANGED <<isOpen, channelOpen, protocol, ecuSim, rxQueue, channels, unread>>

\* Faulty variant of ProbeNext: a protocol that answers is not read.
ProbeNextUnread(p) ==
  /\ probing /\ p \in untried
  /\ untried' = untried \ {p}
  /\ channels' = channels + 1
  /\ rxQueue' = Append(rxQueue, Handle(p, "mode 01", channels'))
  /\ active' = active \cup {p}
  /\ ChannelGone
  /\ UNCHANGED <<isOpen, probing, unread, drained>>

\* One iteration: connect, the request, read_msg, disconnect.  Any answer in
\* the queue, not just this protocol's, counts.
ProbeNext(p) ==
  /\ probing /\ p \in untried
  /\ untried' = untried \ {p}
  /\ channels' = channels + 1
  /\ LET answers == IF Answered("7DF", "mode 01")
                    THEN Append(rxQueue, Handle(p, "mode 01", channels')) ELSE rxQueue
     IN  /\ active' = IF answers # <<>> THEN active \cup {p} ELSE active
         /\ rxQueue' = IF answers # <<>> THEN Tail(answers) ELSE answers
  /\ ChannelGone
  /\ UNCHANGED <<isOpen, probing, unread, drained>>

ProbeEnd ==
  /\ probing /\ untried = {}
  /\ probing' = FALSE
  /\ UNCHANGED <<isOpen, channelOpen, protocol, ecuSim, rxQueue, untried, active, channels,
                 unread, drained>>

PassThruNext ==
  \/ PassThruOpen \/ ReadMsg \/ PassThruDisconnect \/ PassThruClose
  \/ \E p \in Protocol : PassThruConnect(p) \/ ProbeNext(p)
  \/ \E id \in ArbId, data \in Data : WriteMsg(id, data)
  \/ ProbeStart \/ ProbeEnd

PassThruSpec == PassThruInit /\ [][PassThruNext]_passThruVars
-----------------------------------------------------------------------------
\* A channel exists only on an open device, and has its protocol and its ECU.
PassThruTypeOK ==
  /\ isOpen \in BOOLEAN /\ channelOpen \in BOOLEAN
  /\ protocol \in Protocol \cup {NoProtocol} /\ ecuSim = protocol
  /\ channelOpen <=> protocol # NoProtocol
  /\ channelOpen => isOpen
  /\ rxQueue \in Seq(Answer)
  /\ probing \in BOOLEAN /\ untried \subseteq Protocol /\ active \subseteq Protocol
  /\ channels \in Nat /\ unread \in 0..MaxUnread /\ drained \in BOOLEAN

(* What read_msg returns was asked for on the present channel, as long as    *)
(* the caller has read its answers before opening a channel - whatever was   *)
(* probed in between.  (disconnect does not empty the queue, so an answer    *)
(* left unread is returned on the next channel, of another protocol.)        *)
AnswersOfThisChannel ==
  drained /\ channelOpen =>
    \A i \in DOMAIN rxQueue : rxQueue[i].channel = channels /\ rxQueue[i].proto = protocol

(* A probe finds every protocol active, whatever the order, and neither adds *)
(* to nor takes from the number of unread answers; it closes the channel the *)
(* caller had open.                                                          *)
ProbeFindsAll ==
  [][probing => /\ untried' = untried \/ active' = Protocol \ untried'
                /\ Len(rxQueue') = Len(rxQueue)
                /\ ~probing' => ~channelOpen']_passThruVars
===============================================================================
