-------------------------------- MODULE UsbOtg --------------------------------
(***************************************************************************)
(* UsbOtgTransport (android/.../transport/UsbOtgTransport.kt): permission, *)
(* open, bulk transfer, disconnect and close of a USB adapter on the phone.*)
(*                                                                         *)
(* The transport keeps five fields.  A UsbDeviceConnection is a file       *)
(* descriptor of the kernel, which lets one descriptor at a time claim an  *)
(* interface; one that no field names any more stays open.  Every          *)
(* requestPermission registers a receiver of one and the same broadcast.   *)
(* UsbManager and the kernel are external.                                 *)
(***************************************************************************)
EXTENDS Naturals, FiniteSets

CONSTANTS
  Device,    \* adapters
  NoDevice,  \* null
  Has,       \* [Device -> SUBSET {"vendor", "in", "out"}]: the interface and
             \* endpoints each of them has
  MaxOpen,   \* bound: connections opened
  MaxAsk,    \* bound: calls of requestPermission
  MaxUnplug  \* bound: devices unplugged

ASSUME UsbConstantsOK ==
  /\ NoDevice \notin Device
  /\ Has \in [Device -> SUBSET {"vendor", "in", "out"}]
  /\ {MaxOpen, MaxAsk, MaxUnplug} \subseteq Nat

Connection == 1..MaxOpen  \* numbered in the order they are opened; 0 is null
Ask == 1..MaxAsk

VARIABLES
  attached,     \* devices plugged in
  granted,      \* devices the user has let the application use
  opens,        \* connections opened so far
  openOn,       \* the device of each open connection
  claim,        \* the connection that has claimed a device's interface, or 0
  device, connection, usbInterface, endpointIn, endpointOut, \* the fields
  asks,         \* calls of requestPermission so far
  call,         \* each call: its device, what became of it, and its result
  receivers,    \* calls whose receiver is registered
  dialogs,      \* calls the user has not answered
  unplugs,      \* devices unplugged so far
  holding,      \* whether disconnect() followed the last open() (history)
  crossed       \* calls during which a dialog for another device was up (history)

kernelVars == <<attached, granted, opens, openOn, claim>>
fieldVars  == <<device, connection, usbInterface, endpointIn, endpointOut>>
askVars    == <<asks, call, receivers, dialogs, crossed>>
usbVars    == <<kernelVars, fieldVars, askVars, unplugs, holding>>

NoCall == [dev |-> NoDevice, st |-> "none", result |-> FALSE]

UsbInit ==
  /\ attached = Device /\ granted = {}
  /\ opens = 0 /\ openOn = [c \in Connection |-> NoDevice]
  /\ claim = [d \in Device |-> 0]
  /\ device = NoDevice /\ connection = 0 /\ usbInterface = NoDevice
  /\ endpointIn = NoDevice /\ endpointOut = NoDevice
  /\ asks = 0 /\ call = [a \in Ask |-> NoCall]
  /\ receivers = {} /\ dialogs = {} /\ crossed = {}
  /\ unplugs = 0 /\ holding = "no"

-----------------------------------------------------------------------------
\* discoverDevices(), from which callers take the device to open.
DiscoverDevices == {d \in attached : "vendor" \in Has[d]}

\* The endpoint of a direction, or null: an endpoint is named by its device.
EndpointOf(d, direction) == IF direction \in Has[d] THEN d ELSE NoDevice

\* Faulty variant of OpenRefused: the endpoints are looked up before the claim.
OpenRefusedEndpointsFirst(d) ==
  /\ d \in attached \cap granted /\ opens < MaxOpen
  /\ "vendor" \notin Has[d] \/ claim[d] # 0
  /\ opens' = opens + 1
  /\ openOn' = [openOn EXCEPT ![opens'] = d]
  /\ endpointIn' = EndpointOf(d, "in") /\ endpointOut' = EndpointOf(d, "out")
  /\ UNCHANGED <<attached, granted, claim, device, connection, usbInterface, askVars, unplugs,
                 holding>>

\* open() that gets no further than a new connection: no vendor interface, or
\* the kernel refuses the claim.  The connection is not closed.
OpenRefused(d) ==
  /\ d \in attached \cap granted /\ opens < MaxOpen
  /\ "vendor" \notin Has[d] \/ claim[d] # 0
  /\ opens' = opens + 1
  /\ openOn' = [openOn EXCEPT ![opens'] = d]
  /\ UNCHANGED <<attached, granted, claim, fieldVars, askVars, unplugs, holding>>

\* open(): claims the interface, then fills in the fields.
Open(d) ==
  /\ d \in DiscoverDevices \cap granted /\ opens < MaxOpen
  /\ claim[d] = 0
  /\ opens' = opens + 1
  /\ openOn' = [openOn EXCEPT ![opens'] = d]
  /\ claim' = [claim EXCEPT ![d] = opens']
  /\ endpointIn' = EndpointOf(d, "in") /\ endpointOut' = EndpointOf(d, "out")
  /\ device' = d /\ connection' = opens' /\ usbInterface' = d
  /\ holding' = IF holding = "no" THEN "yes" ELSE "over"
  /\ UNCHANGED <<attached, granted, askVars, unplugs>>

\* connection?.releaseInterface(usbInterface)
Release ==
  claim' = IF usbInterface # NoDevice /\ connection # 0 /\ claim[usbInterface] = connection
           THEN [claim EXCEPT ![usbInterface] = 0] ELSE claim

\* "over": an open() that nothing released was followed by another.
Settle == holding' = IF holding = "over" THEN "over" ELSE "no"

\* Faulty variant of Disconnect: the interface is not released.
DisconnectKeepsClaim ==
  /\ Settle
  /\ endpointIn' = NoDevice /\ endpointOut' = NoDevice
  /\ UNCHANGED <<attached, granted, opens, openOn, claim, device, connection, usbInterface,
                 askVars, unplugs>>

Disconnect ==
  /\ Release /\ Settle
  /\ endpointIn' = NoDevice /\ endpointOut' = NoDevice
  /\ UNCHANGED <<attached, granted, opens, openOn, device, connection, usbInterface, askVars,
                 unplugs>>

\* close(): disconnect(), then the connection itself.
Close ==
  /\ Release /\ Settle
  /\ endpointIn' = NoDevice /\ endpointOut' = NoDevice
  /\ openOn' = IF connection # 0 THEN [openOn EXCEPT ![connection] = NoDevice] ELSE openOn
  /\ connection' = 0 /\ device' = NoDevice
  /\ UNCHANGED <<attached, granted, opens, usbInterface, askVars, unplugs>>

\* write() and read() get past their checks, and to bulkTransfer.
WriteReady == connection # 0 /\ endpointOut # NoDevice
ReadReady  == connection # 0 /\ endpointIn # NoDevice
-----------------------------------------------------------------------------
\* requestPermission(d): registers a receiver and asks the system.
RequestPermission(d) ==
  /\ asks < MaxAsk /\ d \in attached
  /\ asks' = asks + 1
  /\ call' = [call EXCEPT ![asks'] = [dev |-> d, st |-> "waiting", result |-> FALSE]]
  /\ receivers' = receivers \cup {asks'}
  /\ dialogs' = dialogs \cup {asks'}
  /\ LET others == {a \in dialogs : call[a].dev # d}
     IN  crossed' = crossed \cup others \cup (IF others = {} THEN {} ELSE {asks'})
  /\ UNCHANGED <<kernelVars, fieldVars, unplugs, holding>>

\* Faulty variant of Broadcast: that there was an answer counts as a grant.
BroadcastAnswered(granting) ==
  /\ receivers' = {}
  /\ call' = [a \in Ask |->
       IF a \in receivers /\ call[a].st = "waiting"
       THEN [call[a] EXCEPT !.st = "resumed", !.result = TRUE] ELSE call[a]]

\* onReceive of every registered receiver: each one unregisters itself and
\* resumes its call if that is still active, whatever device was answered for.
Broadcast(granting) ==
  /\ receivers' = {}
  /\ call' = [a \in Ask |->
       IF a \in receivers /\ call[a].st = "waiting"
       THEN [call[a] EXCEPT !.st = "resumed", !.result = granting] ELSE call[a]]

\* The user answers the dialog of call a, or the system does if the device is
\* granted already.
AnswerDialog(a, granting) ==
  /\ a \in dialogs /\ call[a].dev \in attached
  /\ granting \/ call[a].dev \notin granted
  /\ dialogs' = dialogs \ {a}
  /\ granted' = IF granting THEN granted \cup {call[a].dev} ELSE granted
  /\ Broadcast(granting)
  /\ UNCHANGED <<attached, opens, openOn, claim, fieldVars, asks, crossed, unplugs, holding>>

\* The coroutine of call a is cancelled; its receiver stays registered.
CancelCall(a) ==
  /\ call[a].st = "waiting"
  /\ call' = [call EXCEPT ![a].st = "cancelled"]
  /\ UNCHANGED <<kernelVars, fieldVars, asks, receivers, dialogs, crossed, unplugs, holding>>

\* A device is unplugged: the system forgets its connections, claims, dialogs
\* and permission.  The transport is not told.
Unplug(d) ==
  /\ d \in attached /\ unplugs < MaxUnplug
  /\ unplugs' = unplugs + 1
  /\ attached' = attached \ {d} /\ granted' = granted \ {d}
  /\ openOn' = [c \in Connection |-> IF openOn[c] = d THEN NoDevice ELSE openOn[c]]
  /\ claim' = [claim EXCEPT ![d] = 0]
  /\ dialogs' = {a \in dialogs : call[a].dev # d}
  /\ UNCHANGED <<opens, fieldVars, asks, call, receivers, crossed, holding>>

UsbNext ==
  \/ \E d \in Device : OpenRefused(d) \/ Open(d) \/ RequestPermission(d) \/ Unplug(d)
  \/ \E a \in Ask : CancelCall(a) \/ \E granting \in BOOLEAN : AnswerDialog(a, granting)
  \/ Disconnect \/ Close

UsbSpec == UsbInit /\ [][UsbNext]_usbVars
-----------------------------------------------------------------------------
UsbTypeOK ==
  /\ attached \subseteq Device /\ granted \subseteq attached
  /\ opens \in 0..MaxOpen /\ openOn \in [Connection -> Device \cup {NoDevice}]
  /\ claim \in [Device -> 0..MaxOpen]
  /\ {device, usbInterface, endpointIn, endpointOut} \subseteq Device \cup {NoDevice}
  /\ connection \in 0..MaxOpen
  /\ asks \in 0..MaxAsk
  /\ call \in [Ask -> [dev : Device \cup {NoDevice},
                       st : {"none", "waiting", "cancelled", "resumed"}, result : BOOLEAN]]
  /\ receivers \subseteq 1..asks /\ dialogs \subseteq 1..asks /\ crossed \subseteq 1..asks
  /\ unplugs \in 0..MaxUnplug /\ holding \in {"no", "yes", "over"}

Reaches(d) ==
  /\ device = d /\ usbInterface = d
  /\ d \in attached => openOn[connection] = d /\ claim[d] = connection

(* read() and write() never put an endpoint of one device on a connection to *)
(* another, and never use a connection that was closed or whose interface is *)
(* not claimed, short of an unplugged device - also after a later open() of  *)
(* another device was refused.                                               *)
TransfersReachTheDevice ==
  /\ endpointOut # NoDevice => WriteReady /\ Reaches(endpointOut)
  /\ endpointIn # NoDevice => ReadReady /\ Reaches(endpointIn)

(* An interface is claimed by the connection the transport holds, and so can *)
(* be released, as long as each open() came after a disconnect() of the one  *)
(* before.  Otherwise the claim outlives its last reference, and every later *)
(* open() of that device is refused until it is unplugged.                   *)
ClaimsCanBeReleased ==
  holding # "over" => \A d \in Device : claim[d] # 0 => claim[d] = connection /\ usbInterface = d

(* requestPermission returns true only for a device the user has granted,    *)
(* unless a dialog for another device was up during the call: its answer is  *)
(* taken for this call's own.                                                *)
GrantedToTheCaller ==
  \A a \in Ask : call[a].st = "resumed" /\ call[a].result /\ a \notin crossed =>
    call[a].dev \in granted \/ call[a].dev \notin attached
===============================================================================
