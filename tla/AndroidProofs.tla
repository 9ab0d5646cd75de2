--------------------------- MODULE AndroidProofs ----------------------------
(***************************************************************************)
(* What holds of the two transports of the phone.  A phone that uses one   *)
(* of them behaves, for each of the two, as the specification of that      *)
(* transport says (AndroidImplementsTransports), so what is proved of a    *)
(* transport alone holds of the phone.  For any devices, and any number of *)
(* connections, permission requests, frames and lost gateways.             *)
(***************************************************************************)
EXTENDS MCAndroid, RemoteCanProofs

(* The kernel's books: connections are numbered as they are opened, and a  *)
(* claim belongs to an open connection to that very device.                *)
ClaimsOfOpen ==
  /\ connection <= opens
  /\ \A d \in Device : claim[d] # 0 => claim[d] <= opens /\ openOn[claim[d]] = d

(* The transport's connection, unless the system closed it, is to the      *)
(* device whose interface the transport has.                               *)
InterfaceOfConnection ==
  connection # 0 => openOn[connection] \in {usbInterface, NoDevice}

(* The endpoints are of one device, the one whose interface is claimed,    *)
(* and there are none without a connection.                                *)
EndpointsOfDevice ==
  /\ endpointOut # NoDevice => connection # 0 /\ Reaches(endpointOut)
  /\ endpointIn # NoDevice => connection # 0 /\ Reaches(endpointIn)

(* A transport that let go of what it opened leaves nothing claimed.       *)
HoldingIsClaim ==
  /\ holding = "no" => \A d \in Device : claim[d] = 0
  /\ holding = "yes" => connection # 0
  /\ ClaimsCanBeReleased

UsbInv ==
  /\ UsbTypeOK /\ ClaimsOfOpen /\ InterfaceOfConnection /\ EndpointsOfDevice /\ HoldingIsClaim

-----------------------------------------------------------------------------
(* The initial state satisfies the invariant.                              *)
LEMMA InitUsbInv == UsbInit => UsbInv
<1> SUFFICES ASSUME UsbInit PROVE UsbInv
  OBVIOUS
<1> USE UsbConstantsOK DEF UsbInit
<1>1. UsbTypeOK
  BY DEF UsbTypeOK, Connection, Ask, NoCall
<1>2. ClaimsOfOpen /\ InterfaceOfConnection /\ EndpointsOfDevice
  BY DEF ClaimsOfOpen, InterfaceOfConnection, EndpointsOfDevice
<1>3. HoldingIsClaim
  BY DEF HoldingIsClaim, ClaimsCanBeReleased
<1> QED BY <1>1, <1>2, <1>3 DEF UsbInv

(* No step spoils the types.                                               *)
LEMMA NextUsbTypeOK == UsbTypeOK /\ [UsbNext]_usbVars => UsbTypeOK'
<1> SUFFICES ASSUME UsbTypeOK, [UsbNext]_usbVars PROVE UsbTypeOK'
  OBVIOUS
<1> USE UsbConstantsOK DEF UsbTypeOK, Connection, Ask, kernelVars, fieldVars, askVars
<1>1. CASE \E d \in Device : OpenRefused(d)
  BY <1>1 DEF OpenRefused
<1>2. CASE \E d \in Device : Open(d)
  BY <1>2 DEF Open, EndpointOf
<1>3. CASE \E d \in Device : RequestPermission(d)
  <2> PICK d \in Device : RequestPermission(d)
    BY <1>3
  <2>1. asks' = asks + 1 /\ asks' \in 1..MaxAsk
    BY DEF RequestPermission
  <2>2. call' \in [Ask -> [dev : Device \cup {NoDevice},
                          st : {"none", "waiting", "cancelled", "resumed"}, result : BOOLEAN]]
    BY <2>1 DEF RequestPermission
  <2>3. /\ receivers' \subseteq receivers \cup {asks'} /\ dialogs' \subseteq dialogs \cup {asks'}
        /\ crossed' \subseteq crossed \cup dialogs \cup {asks'}
    BY DEF RequestPermission
  <2>4. /\ receivers' \subseteq 1..asks' /\ dialogs' \subseteq 1..asks'
        /\ crossed' \subseteq 1..asks'
    BY <2>1, <2>3
  <2>5. UNCHANGED <<kernelVars, fieldVars, unplugs, holding>> /\ asks' \in 0..MaxAsk
    BY <2>1 DEF RequestPermission
  <2> QED BY <2>2, <2>4, <2>5
<1>4. CASE \E d \in Device : Unplug(d)
  <2> PICK d \in Device : Unplug(d)
    BY <1>4
  <2>1. attached' \subseteq Device /\ granted' \subseteq attached' /\ unplugs' \in 0..MaxUnplug
    BY DEF Unplug
  <2>2. openOn' \in [Connection -> Device \cup {NoDevice}] /\ claim' \in [Device -> 0..MaxOpen]
    BY DEF Unplug
  <2>3. dialogs' \subseteq 1..asks
    BY DEF Unplug
  <2> QED BY <2>1, <2>2, <2>3 DEF Unplug
<1>5. CASE \E a \in Ask : CancelCall(a)
  <2> PICK a \in Ask : CancelCall(a)
    BY <1>5
  <2>1. [call[a] EXCEPT !.st = "cancelled"] \in
          [dev : Device \cup {NoDevice}, st : {"none", "waiting", "cancelled", "resumed"},
           result : BOOLEAN]
    OBVIOUS
  <2>2. call' \in [Ask -> [dev : Device \cup {NoDevice},
                          st : {"none", "waiting", "cancelled", "resumed"}, result : BOOLEAN]]
    BY <2>1 DEF CancelCall
  <2> QED BY <2>2 DEF CancelCall
<1>6. CASE \E a \in Ask, granting \in BOOLEAN : AnswerDialog(a, granting)
  <2> PICK a \in Ask, granting \in BOOLEAN : AnswerDialog(a, granting)
    BY <1>6
  <2>1. call' \in [Ask -> [dev : Device \cup {NoDevice},
                          st : {"none", "waiting", "cancelled", "resumed"}, result : BOOLEAN]]
    BY DEF AnswerDialog, Broadcast
  <2>2. granted' \subseteq attached
    BY DEF AnswerDialog
  <2>3. receivers' \subseteq 1..asks /\ dialogs' \subseteq 1..asks
    BY DEF AnswerDialog, Broadcast
  <2> QED BY <2>1, <2>2, <2>3 DEF AnswerDialog
<1>7. CASE Disconnect
  BY <1>7 DEF Disconnect, Release, Settle
<1>8. CASE Close
  BY <1>8 DEF Close, Release, Settle
<1>9. CASE UNCHANGED usbVars
  BY <1>9 DEF usbVars
<1> QED BY <1>1, <1>2, <1>3, <1>4, <1>5, <1>6, <1>7, <1>8, <1>9 DEF UsbNext

(* Steps that concern permissions alone leave the rest as it is.           *)
LEMMA PermissionSteps ==
  ASSUME UsbInv,
         \/ \E d \in Device : RequestPermission(d)
         \/ \E a \in Ask : CancelCall(a)
         \/ \E a \in Ask, granting \in BOOLEAN : AnswerDialog(a, granting)
         \/ UNCHANGED usbVars
  PROVE  ClaimsOfOpen' /\ InterfaceOfConnection' /\ EndpointsOfDevice' /\ HoldingIsClaim'
<1>1. UNCHANGED <<attached, opens, openOn, claim, fieldVars, holding>>
  BY DEF RequestPermission, CancelCall, AnswerDialog, usbVars, kernelVars
<1> QED BY <1>1 DEF UsbInv, ClaimsOfOpen, InterfaceOfConnection, EndpointsOfDevice, Reaches,
                    HoldingIsClaim, ClaimsCanBeReleased, fieldVars

(* A claim never outlives its connection, and belongs to that connection's *)
(* device: open() claims with the connection it has just opened, and       *)
(* close() closes one whose interface it has released.                     *)
LEMMA NextClaimsOfOpen ==
  UsbInv /\ UsbTypeOK' /\ [UsbNext]_usbVars => ClaimsOfOpen' /\ InterfaceOfConnection'
<1> SUFFICES ASSUME UsbInv, UsbTypeOK', [UsbNext]_usbVars
             PROVE  ClaimsOfOpen' /\ InterfaceOfConnection'
  OBVIOUS
<1> USE UsbConstantsOK DEF UsbInv, UsbTypeOK, Connection, ClaimsOfOpen, InterfaceOfConnection
<1>1. CASE \E d \in Device : OpenRefused(d)
  BY <1>1 DEF OpenRefused, fieldVars
<1>2. CASE \E d \in Device : Open(d)
  BY <1>2 DEF Open
<1>3. CASE \E d \in Device : Unplug(d)
  BY <1>3 DEF Unplug, fieldVars
<1>4. CASE Disconnect
  BY <1>4 DEF Disconnect, Release
<1>5. CASE Close
  BY <1>5 DEF Close, Release
<1>6. CASE \/ \E d \in Device : RequestPermission(d)
           \/ \E a \in Ask : CancelCall(a)
           \/ \E a \in Ask, granting \in BOOLEAN : AnswerDialog(a, granting)
           \/ UNCHANGED usbVars
  BY <1>6, PermissionSteps
<1> QED BY <1>1, <1>2, <1>3, <1>4, <1>5, <1>6 DEF UsbNext

(* A refused open() leaves the endpoints and what they are used with       *)
(* alone; every step that takes the claim away forgets them.               *)
LEMMA NextEndpointsOfDevice == UsbInv /\ [UsbNext]_usbVars => EndpointsOfDevice'
<1> SUFFICES ASSUME UsbInv, [UsbNext]_usbVars PROVE EndpointsOfDevice'
  OBVIOUS
<1> USE UsbConstantsOK DEF UsbInv, UsbTypeOK, Connection, EndpointsOfDevice, Reaches
<1>1. CASE \E d \in Device : OpenRefused(d)
  BY <1>1 DEF OpenRefused, fieldVars, ClaimsOfOpen
<1>2. CASE \E d \in Device : Open(d)
  BY <1>2 DEF Open, EndpointOf
<1>3. CASE \E d \in Device : Unplug(d)
  BY <1>3 DEF Unplug, fieldVars
<1>4. CASE Disconnect \/ Close
  BY <1>4 DEF Disconnect, Close
<1>5. CASE \/ \E d \in Device : RequestPermission(d)
           \/ \E a \in Ask : CancelCall(a)
           \/ \E a \in Ask, granting \in BOOLEAN : AnswerDialog(a, granting)
           \/ UNCHANGED usbVars
  BY <1>5, PermissionSteps
<1> QED BY <1>1, <1>2, <1>3, <1>4, <1>5 DEF UsbNext

(* As long as every open() came after a disconnect() the one claim there   *)
(* may be is the one disconnect() releases.                                *)
LEMMA NextHoldingIsClaim == UsbInv /\ [UsbNext]_usbVars => HoldingIsClaim'
<1> SUFFICES ASSUME UsbInv, [UsbNext]_usbVars PROVE HoldingIsClaim'
  OBVIOUS
<1> USE UsbConstantsOK DEF UsbInv, UsbTypeOK, Connection, HoldingIsClaim, ClaimsCanBeReleased
<1>1. CASE \E d \in Device : OpenRefused(d)
  BY <1>1 DEF OpenRefused, fieldVars
<1>2. CASE \E d \in Device : Open(d)
  BY <1>2 DEF Open, DiscoverDevices
<1>3. CASE \E d \in Device : Unplug(d)
  BY <1>3 DEF Unplug, fieldVars
<1>4. CASE Disconnect
  BY <1>4 DEF Disconnect, Release, Settle
<1>5. CASE Close
  BY <1>5 DEF Close, Release, Settle
<1>6. CASE \/ \E d \in Device : RequestPermission(d)
           \/ \E a \in Ask : CancelCall(a)
           \/ \E a \in Ask, granting \in BOOLEAN : AnswerDialog(a, granting)
           \/ UNCHANGED usbVars
  BY <1>6, PermissionSteps
<1> QED BY <1>1, <1>2, <1>3, <1>4, <1>5, <1>6 DEF UsbNext

(* The invariant holds in every reachable state.                           *)
THEOREM UsbInvariant == UsbSpec => []UsbInv
<1>1. UsbInv /\ [UsbNext]_usbVars => UsbInv'
  BY NextUsbTypeOK, NextClaimsOfOpen, NextEndpointsOfDevice, NextHoldingIsClaim DEF UsbInv
<1> QED BY InitUsbInv, <1>1, PTL DEF UsbSpec

(* read() and write() of the transport only ever reach the device it       *)
(* opened, through a connection that is open and has the claim.            *)
THEOREM TransfersTheorem == UsbSpec => []TransfersReachTheDevice
<1>1. UsbInv => TransfersReachTheDevice
  BY DEF UsbInv, EndpointsOfDevice, TransfersReachTheDevice, WriteReady, ReadReady
<1> QED BY UsbInvariant, <1>1, PTL

(* No claim leaks while open() and disconnect() alternate.                 *)
THEOREM ClaimsTheorem == UsbSpec => []ClaimsCanBeReleased
<1>1. UsbInv => ClaimsCanBeReleased
  BY DEF UsbInv, HoldingIsClaim
<1> QED BY UsbInvariant, <1>1, PTL
-----------------------------------------------------------------------------
(* A call that waits has its receiver registered, and its dialog up unless *)
(* its device was unplugged; calls are numbered as they come.              *)
WaitingIsAsked ==
  \A a \in Ask :
    /\ call[a].st # "none" => a <= asks
    /\ call[a].st = "waiting" => a \in receivers /\ (call[a].dev \in attached => a \in dialogs)

(* Of two dialogs for different devices, each was up during the other's.   *)
DialogsCross == \A a, b \in dialogs : call[a].dev # call[b].dev => a \in crossed

PermissionInv == UsbTypeOK /\ WaitingIsAsked /\ DialogsCross /\ GrantedToTheCaller

(* Nobody has asked at first.                                              *)
LEMMA InitPermissionInv == UsbInit => PermissionInv
<1> SUFFICES ASSUME UsbInit PROVE PermissionInv
  OBVIOUS
<1>1. UsbTypeOK
  BY InitUsbInv DEF UsbInv
<1>2. \A a \in Ask : call[a] = NoCall
  BY DEF UsbInit
<1>3. dialogs = {}
  BY DEF UsbInit
<1> QED BY <1>1, <1>2, <1>3
        DEF PermissionInv, WaitingIsAsked, DialogsCross, GrantedToTheCaller, NoCall

(* What concerns no call leaves the permissions as they are.               *)
LEMMA TransferSteps ==
  ASSUME PermissionInv,
         \/ \E d \in Device : OpenRefused(d) \/ Open(d)
         \/ Disconnect \/ Close \/ UNCHANGED usbVars
  PROVE  WaitingIsAsked' /\ DialogsCross' /\ GrantedToTheCaller'
<1>1. UNCHANGED <<attached, granted, asks, call, receivers, dialogs, crossed>>
  BY DEF OpenRefused, Open, Disconnect, Close, usbVars, kernelVars, askVars
<1> QED BY <1>1 DEF PermissionInv, WaitingIsAsked, DialogsCross, GrantedToTheCaller

(* A new call takes a number of its own, and marks the dialogs it crosses. *)
LEMMA RequestSteps ==
  ASSUME PermissionInv, NEW d \in Device, RequestPermission(d)
  PROVE  WaitingIsAsked' /\ DialogsCross' /\ GrantedToTheCaller'
<1> DEFINE n == asks + 1
<1> DEFINE others == {a \in dialogs : call[a].dev # d}
<1>1. /\ n \in Ask /\ asks \in Nat /\ asks' = n
      /\ call \in [Ask -> [dev : Device \cup {NoDevice},
                           st : {"none", "waiting", "cancelled", "resumed"}, result : BOOLEAN]]
      /\ dialogs \subseteq 1..asks /\ dialogs \subseteq Ask
  BY UsbConstantsOK DEF PermissionInv, UsbTypeOK, Ask, RequestPermission
<1>2. /\ call' = [call EXCEPT ![n] = [dev |-> d, st |-> "waiting", result |-> FALSE]]
      /\ receivers' = receivers \cup {n} /\ dialogs' = dialogs \cup {n}
      /\ crossed' = crossed \cup others \cup (IF others = {} THEN {} ELSE {n})
      /\ UNCHANGED <<attached, granted>>
  BY DEF RequestPermission, kernelVars
<1>3. n \notin dialogs /\ (\A a \in Ask : a <= asks => a <= n)
  BY <1>1 DEF Ask
<1> HIDE DEF n
<1>4. /\ call'[n] = [dev |-> d, st |-> "waiting", result |-> FALSE]
      /\ \A a \in Ask \ {n} : call'[a] = call[a]
  BY <1>1, <1>2
<1>5. WaitingIsAsked'
  <2> SUFFICES ASSUME NEW a \in Ask
               PROVE  /\ call'[a].st # "none" => a <= asks'
                      /\ call'[a].st = "waiting" =>
                           a \in receivers' /\ (call'[a].dev \in attached' => a \in dialogs')
    BY DEF WaitingIsAsked
  <2>1. CASE a = n
    BY <1>1, <1>2, <2>1 DEF n
  <2>2. CASE a # n
    BY <1>1, <1>2, <1>3, <1>4, <2>2 DEF PermissionInv, WaitingIsAsked
  <2> QED BY <2>1, <2>2
<1>6. DialogsCross'
  <2> SUFFICES ASSUME NEW a \in dialogs', NEW b \in dialogs', call'[a].dev # call'[b].dev
               PROVE  a \in crossed'
    BY DEF DialogsCross
  <2>1. CASE a = n
    <3>1. b \in dialogs /\ call[b].dev # d
      BY <1>1, <1>2, <1>4, <2>1
    <3> QED BY <1>2, <2>1, <3>1
  <2>2. CASE b = n
    <3>1. a \in dialogs /\ call[a].dev # d
      BY <1>1, <1>2, <1>4, <2>2
    <3> QED BY <1>2, <3>1
  <2>3. CASE a # n /\ b # n
    <3>1. a \in dialogs /\ b \in dialogs /\ call[a].dev # call[b].dev
      BY <1>1, <1>2, <1>4, <2>3
    <3> QED BY <1>2, <3>1 DEF PermissionInv, DialogsCross
  <2> QED BY <2>1, <2>2, <2>3
<1>7. GrantedToTheCaller'
  <2> SUFFICES ASSUME NEW a \in Ask, call'[a].st = "resumed", call'[a].result, a \notin crossed'
               PROVE  call'[a].dev \in granted' \/ call'[a].dev \notin attached'
    BY DEF GrantedToTheCaller
  <2>1. a # n
    BY <1>4
  <2> QED BY <1>2, <1>4, <2>1 DEF PermissionInv, GrantedToTheCaller
<1> QED BY <1>5, <1>6, <1>7

(* An answer resumes every waiting call.  One of another device has its    *)
(* dialog up besides the answered one, so that it is crossed, unless its   *)
(* device is gone.                                                         *)
LEMMA AnswerSteps ==
  ASSUME PermissionInv, NEW b \in Ask, NEW granting \in BOOLEAN, AnswerDialog(b, granting)
  PROVE  WaitingIsAsked' /\ DialogsCross' /\ GrantedToTheCaller'
<1> DEFINE resumes(a) == a \in receivers /\ call[a].st = "waiting"
<1>1. /\ b \in dialogs /\ dialogs' = dialogs \ {b} /\ UNCHANGED <<attached, asks, crossed>>
      /\ granted' = IF granting THEN granted \cup {call[b].dev} ELSE granted
      /\ dialogs \subseteq Ask
      /\ call \in [Ask -> [dev : Device \cup {NoDevice},
                           st : {"none", "waiting", "cancelled", "resumed"}, result : BOOLEAN]]
  BY UsbConstantsOK DEF AnswerDialog, PermissionInv, UsbTypeOK, Ask
<1>2. \A a \in Ask : resumes(a) =>
        call'[a].dev = call[a].dev /\ call'[a].st = "resumed" /\ call'[a].result = granting
  BY <1>1 DEF AnswerDialog, Broadcast
<1>3. \A a \in Ask : ~resumes(a) => call'[a] = call[a]
  BY DEF AnswerDialog, Broadcast
<1>4. \A a \in Ask : call[a].st = "waiting" => resumes(a)
  BY DEF PermissionInv, WaitingIsAsked
<1> HIDE DEF resumes
<1>5. \A a \in Ask : call'[a].dev = call[a].dev /\ call'[a].st # "waiting"
  BY <1>2, <1>3, <1>4
<1>6. WaitingIsAsked'
  <2>1. \A a \in Ask : call'[a].st # "none" => a <= asks
    BY <1>2, <1>3 DEF PermissionInv, WaitingIsAsked, resumes
  <2> QED BY <1>1, <1>5, <2>1 DEF WaitingIsAsked
<1>7. DialogsCross'
  BY <1>1, <1>5 DEF PermissionInv, DialogsCross
<1>8. GrantedToTheCaller'
  <2> SUFFICES ASSUME NEW a \in Ask, call'[a].st = "resumed", call'[a].result, a \notin crossed'
               PROVE  call'[a].dev \in granted' \/ call'[a].dev \notin attached'
    BY DEF GrantedToTheCaller
  <2>1. CASE resumes(a)
    <3>1. granting = TRUE /\ call[b].dev \in granted'
      BY <1>1, <1>2, <2>1
    <3>2. call[a].dev \in attached => a \in dialogs
      BY <2>1 DEF PermissionInv, WaitingIsAsked, resumes
    <3>3. call[a].dev \in attached => call[a].dev = call[b].dev
      BY <1>1, <3>2 DEF PermissionInv, DialogsCross
    <3> QED BY <1>1, <1>5, <3>1, <3>3
  <2>2. CASE ~resumes(a)
    BY <1>1, <1>3, <2>2 DEF PermissionInv, GrantedToTheCaller
  <2> QED BY <2>1, <2>2
<1> QED BY <1>6, <1>7, <1>8

(* Every step keeps it.                                                    *)
LEMMA NextPermissionInv == PermissionInv /\ [UsbNext]_usbVars => PermissionInv'
<1> SUFFICES ASSUME PermissionInv, [UsbNext]_usbVars PROVE PermissionInv'
  OBVIOUS
<1>1. UsbTypeOK'
  BY NextUsbTypeOK DEF PermissionInv
<1>2. CASE \E a \in Ask : CancelCall(a)
  <2> PICK a \in Ask : CancelCall(a)
    BY <1>2
  <2>1. /\ call' = [call EXCEPT ![a].st = "cancelled"]
        /\ UNCHANGED <<attached, granted, asks, receivers, dialogs, crossed>>
    BY DEF CancelCall, kernelVars
  <2>2. /\ call \in [Ask -> [dev : Device \cup {NoDevice},
                             st : {"none", "waiting", "cancelled", "resumed"}, result : BOOLEAN]]
        /\ dialogs \subseteq Ask
    BY UsbConstantsOK DEF PermissionInv, UsbTypeOK, Ask
  <2>3. \A c \in Ask : /\ call'[c].dev = call[c].dev /\ call'[c].result = call[c].result
                       /\ call'[c].st \in {call[c].st, "cancelled"}
                       /\ call'[c].st # "none" => call[c].st # "none"
    BY <2>1, <2>2 DEF CancelCall
  <2>4. WaitingIsAsked' /\ GrantedToTheCaller'
    BY <2>1, <2>3 DEF PermissionInv, WaitingIsAsked, GrantedToTheCaller
  <2>5. DialogsCross'
    BY <2>1, <2>2, <2>3 DEF PermissionInv, DialogsCross
  <2> QED BY <1>1, <2>4, <2>5 DEF PermissionInv
<1>3. CASE \E d \in Device : Unplug(d)
  <2> PICK d \in Device : Unplug(d)
    BY <1>3
  <2>1. /\ attached' = attached \ {d} /\ granted' = granted \ {d}
        /\ dialogs' = {a \in dialogs : call[a].dev # d}
        /\ UNCHANGED <<asks, call, receivers, crossed>>
    BY DEF Unplug
  <2> QED BY <1>1, <2>1 DEF PermissionInv, WaitingIsAsked, DialogsCross, GrantedToTheCaller
<1> QED BY <1>1, <1>2, <1>3, TransferSteps, RequestSteps, AnswerSteps DEF UsbNext, PermissionInv

(* No call of requestPermission is told that the user agreed when its own  *)
(* device was not granted, unless dialogs of two devices crossed.          *)
THEOREM PermissionTheorem == UsbSpec => []GrantedToTheCaller
<1>1. PermissionInv => GrantedToTheCaller
  BY DEF PermissionInv
<1> QED BY InitPermissionInv, NextPermissionInv, <1>1, PTL DEF UsbSpec
-----------------------------------------------------------------------------
(* The phone: one of the two transports is in use.                           *)
-----------------------------------------------------------------------------

(* Every step of the phone is a step of one transport or of the other, and   *)
(* leaves the state of the one that is not in use alone.                     *)
LEMMA AndroidStep ==
  [AndroidNext]_<<transport, canVars, usbVars>> =>
    [RemoteCanNext]_canVars /\ [UsbNext]_usbVars
  BY DEF AndroidNext

(* The phone implements both transports.                                     *)
THEOREM AndroidImplementsTransports == AndroidSpec => RemoteCanSpec /\ UsbSpec
<1>1. AndroidInit => RemoteCanInit /\ UsbInit
  BY DEF AndroidInit
<1> QED
  BY <1>1, AndroidStep, PTL DEF AndroidSpec, RemoteCanSpec, UsbSpec

(* Every field of the two transports stays in its type, whichever is used.   *)
THEOREM AndroidTypeTheorem == AndroidSpec => []AndroidTypeOK
<1>1. RemoteCanInv /\ UsbInv => AndroidTypeOK
  BY DEF RemoteCanInv, UsbInv, AndroidTypeOK
<1> QED
  BY <1>1, AndroidImplementsTransports, RemoteCanInvariant, UsbInvariant, PTL
=============================================================================
