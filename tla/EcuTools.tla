------------------------------- MODULE EcuTools -------------------------------
(***************************************************************************)
(* What is built on UDSClient (src/uds/client.py): the Trionic8 interface  *)
(* (src/ecu/trionic8.py) with its session, security handshake and decoding *)
(* of live data, and the ServiceTable and menu of the Tech2 emulator       *)
(* (src/emulator/tech2.py), which makes a client of its own for each call. *)
(*                                                                         *)
(* Only the stub transport works: the live one raises NotImplementedError. *)
(* The stub answers every service positively, and 0x0000 for a data id it  *)
(* does not know.  Engineering values are hundredths of their unit, and a  *)
(* 16-bit word is the set of its bits that are 1.                          *)
(***************************************************************************)
EXTENDS Integers, Sequences

CONSTANTS
  Seed,         \* the seeds an ECU may answer; the stub always answers 0x1234
  MaxSnapshots  \* bound: snapshots taken and frames injected

Bits == 0..15
Word == SUBSET Bits

ASSUME EcuConstantsOK == Seed \subseteq Word /\ MaxSnapshots \in Nat

VARIABLES
  stub, connected, session, \* J2534Transport.stub, ._connected, UDSClient._session
  unlocks,      \* history: the seeds received, each with the key sent for it
  live,         \* the values read_live_data returned last
  vin,          \* and their VIN: "none" before, "UNKNOWN" if it could not be read
  info,         \* what read_ecu_info returned last: "none", "read" or "errors"
  raised,       \* the exception of the last call, "no" if it returned
  snapshots,    \* ServiceTable.snapshots
  injected      \* ServiceTable._injected_frames

t8Vars   == <<stub, connected, session, unlocks, live, vin, info>>
toolVars == <<snapshots, injected>>
ecuVars  == <<t8Vars, toolVars, raised>>

\* _STUB_DID_DATA: the raw 16-bit value of each numeric data id.
StubData == [
  RPM |-> 850, BOOST_KPA |-> 950, IAT_C |-> 625, COOLANT_C |-> 1310, THROTTLE_PCT |-> 32,
  IGN_TIMING |-> 125, INJ_PW_MS |-> 214, lambda_ |-> 100, KNOCK_RETARD |-> 0,
  WASTEGATE_DUTY |-> 120, HALDEX_ENGAGEMENT |-> 0, BATTERY_V |-> 141, VEHICLE_SPEED |-> 0,
  MAF_GS |-> 28, FUEL_TRIM_ST |-> 1012, FUEL_TRIM_LT |-> 996]

\* The values the comments of that table give, in hundredths.
Documented == [
  RPM |-> 85000, BOOST_KPA |-> 9500, IAT_C |-> 2250, COOLANT_C |-> 9100, THROTTLE_PCT |-> 320,
  IGN_TIMING |-> 1250, INJ_PW_MS |-> 214, lambda_ |-> 100, KNOCK_RETARD |-> 0,
  WASTEGATE_DUTY |-> 1200, HALDEX_ENGAGEMENT |-> 0, BATTERY_V |-> 1410, VEHICLE_SPEED |-> 0,
  MAF_GS |-> 280, FUEL_TRIM_ST |-> 120, FUEL_TRIM_LT |-> -40]

Reading == DOMAIN StubData

EcuInit ==
  /\ stub = TRUE /\ connected = FALSE /\ session = "DEFAULT"
  /\ unlocks = {}
  /\ live = [r \in Reading |-> 0] /\ vin = "none" /\ info = "none"
  /\ raised = "no"
  /\ snapshots = 0 /\ injected = 0

Returns == raised' = "no"
Raises(e) == raised' = e
-----------------------------------------------------------------------------
\* Trionic8(stub): a client of its own.
NewTrionic8(withStub) ==
  /\ stub' = withStub /\ connected' = FALSE /\ session' = "DEFAULT"
  /\ live' = [r \in Reading |-> 0] /\ vin' = "none" /\ info' = "none"
  /\ unlocks' = {}
  /\ Returns /\ UNCHANGED toolVars

\* J2534Transport.connect: only the stub can.
TransportConnect ==
  IF stub THEN connected' = TRUE /\ Returns
          ELSE Raises("NotImplementedError") /\ UNCHANGED connected

\* J2534Transport.send_recv: the stub answers every service positively.
SendRecv == IF connected THEN Returns ELSE Raises("TransportError")

\* UDSClient.set_session: the session is noted once the request returned.
SetSession(s) == SendRecv /\ session' = IF connected THEN s ELSE session

\* connect(): the transport, then set_session(EXTENDED) on it.
T8Connect ==
  /\ TransportConnect
  /\ session' = IF stub THEN "EXTENDED" ELSE session
  /\ UNCHANGED <<stub, unlocks, live, vin, info, toolVars>>

\* Faulty variant of T8Disconnect: the transport first, so set_session raises.
T8DisconnectTransportFirst ==
  /\ connected' = FALSE /\ Raises("TransportError")
  /\ UNCHANGED <<stub, session, unlocks, live, vin, info, toolVars>>

\* disconnect(): set_session(DEFAULT), then the transport.  The first raises
\* only if there is nothing to disconnect.
T8Disconnect ==
  /\ SetSession("DEFAULT") /\ connected' = FALSE
  /\ UNCHANGED <<stub, unlocks, live, vin, info, toolVars>>

\* read_ecu_info(): an error becomes the text of the entry.
ReadEcuInfo ==
  /\ info' = IF connected THEN "read" ELSE "errors"
  /\ Returns
  /\ UNCHANGED <<stub, connected, session, unlocks, live, vin, toolVars>>

\* _read_int of what UDSClient.read_data returns: 0 if the id cannot be read.
ReadInt(r) == IF connected THEN StubData[r] ELSE 0

Scale(r) ==
  CASE r \in {"RPM", "VEHICLE_SPEED"} -> 100
    [] r \in {"INJ_PW_MS", "lambda_"} -> 1
    [] OTHER -> 10

\* Faulty variant of Offset: the temperatures are not offset.
OffsetTrimsOnly(r) == IF r \in {"FUEL_TRIM_ST", "FUEL_TRIM_LT"} THEN 10000 ELSE 0

Offset(r) ==
  CASE r \in {"IAT_C", "COOLANT_C"} -> 4000
    [] r \in {"FUEL_TRIM_ST", "FUEL_TRIM_LT"} -> 10000
    [] OTHER -> 0

\* read_live_data(): never raises.
ReadLiveData ==
  /\ live' = [r \in Reading |-> ReadInt(r) * Scale(r) - Offset(r)]
  /\ vin' = IF connected THEN "read" ELSE "UNKNOWN"
  /\ Returns
  /\ UNCHANGED <<stub, connected, session, unlocks, info, toolVars>>

\* read_dtcs(), clear_dtcs(), reset(): one request each.
Request ==
  /\ SendRecv
  /\ UNCHANGED <<t8Vars, toolVars>>

\* 0x4A4D
Mask == {0, 2, 3, 6, 9, 11, 14}

\* Faulty variant of T8Keygen: the complement is cut to 15 bits.
T8Keygen15(s) == {b \in 0..14 : b \in s <=> b \in Mask}

\* t8_keygen: (~s ^ 0x4A4D) & 0xFFFF.
T8Keygen(s) == {b \in Bits : b \in s <=> b \in Mask}

\* UDSClient.security_access answered s, then send_security_key sent k.
SendSecurityKey(s, k) == unlocks' = IF connected THEN unlocks \cup {<<s, k>>} ELSE unlocks

\* unlock_extended(): the seed of level 1, its key to level 2.
UnlockExtended(s) ==
  /\ SendRecv /\ SendSecurityKey(s, T8Keygen(s))
  /\ UNCHANGED <<stub, connected, session, live, vin, info, toolVars>>
-----------------------------------------------------------------------------
\* DEFAULT_CAPABILITY_MAP: the actuator routines of each module, the airbags
\* having none and no actuator tests.
Routines == [ENGINE |-> {513, 514}, TRANS |-> {769}, ABS |-> {1025, 1026}, BCM |-> {1281},
             SDM |-> {}]
Modules == DOMAIN Routines

\* _client_for: KeyError for a module not on the map.  A call that has its
\* client disconnects it in a `finally`, so none outlives the call.
WithClient(module, fails) ==
  /\ raised' = CASE module \notin Modules -> "KeyError"
                 [] module \in Modules /\ fails -> "TypeError"
                 [] OTHER -> "no"
  /\ UNCHANGED <<t8Vars, toolVars>>

DtcRead(module) == WithClient(module, FALSE)

\* live_data: one of the ids may be no integer.
LiveData(module, badDid) == WithClient(module, badDid)

ActuatorTest(module, routine) ==
  /\ raised' = CASE module \notin Modules -> "KeyError"
                 [] module \in Modules /\ routine \notin Routines[module] -> "ValueError"
                 [] OTHER -> "no"
  /\ UNCHANGED <<t8Vars, toolVars>>

TakeSnapshot ==
  /\ snapshots < MaxSnapshots
  /\ snapshots' = snapshots + 1
  /\ Returns /\ UNCHANGED <<t8Vars, injected>>

\* inject_frame: the constructor opened the simulator, so it never refuses.
InjectFrame ==
  /\ injected < MaxSnapshots
  /\ injected' = injected + 1
  /\ Returns /\ UNCHANGED <<t8Vars, snapshots>>

\* select(index): menu[index - 1], where Python counts negative indexes from
\* the end: 0 is the last item, CAN injection.
MenuItem(index) == ((index - 1) % 6) + 1

SelectDtcRead(index)  == MenuItem(index) = 1 /\ \E m \in Modules \cup {"none"} : DtcRead(m)
SelectLiveData(index) ==
  MenuItem(index) = 2 /\ \E m \in Modules \cup {"none"}, bad \in BOOLEAN : LiveData(m, bad)
SelectActuatorTest(index) ==
  MenuItem(index) = 3 /\ \E m \in Modules \cup {"none"}, r \in {513, 0} : ActuatorTest(m, r)
SelectPassthru(index) == MenuItem(index) = 4 /\ Returns /\ UNCHANGED <<t8Vars, toolVars>>
SelectSnapshot(index) == MenuItem(index) = 5 /\ TakeSnapshot
SelectInject(index)   == MenuItem(index) = 6 /\ InjectFrame

Select ==
  \/ \E index \in -5..6 :
       \/ SelectDtcRead(index) \/ SelectLiveData(index) \/ SelectActuatorTest(index)
       \/ SelectPassthru(index) \/ SelectSnapshot(index) \/ SelectInject(index)
  \/ Raises("IndexError") /\ UNCHANGED <<t8Vars, toolVars>>

EcuNext ==
  \/ \E b \in BOOLEAN : NewTrionic8(b)
  \/ T8Connect \/ T8Disconnect \/ ReadEcuInfo \/ ReadLiveData \/ Request
  \/ \E s \in Seed : UnlockExtended(s)
  \/ Select

EcuSpec == EcuInit /\ [][EcuNext]_ecuVars
-----------------------------------------------------------------------------
EcuTypeOK ==
  /\ stub \in BOOLEAN /\ connected \in BOOLEAN /\ session \in {"DEFAULT", "EXTENDED"}
  /\ unlocks \subseteq Word \X Word
  /\ live \in [Reading -> Int]
  /\ vin \in {"none", "read", "UNKNOWN"} /\ info \in {"none", "read", "errors"}
  /\ raised \in {"no", "TransportError", "NotImplementedError", "KeyError", "TypeError",
                 "ValueError", "IndexError"}
  /\ snapshots \in 0..MaxSnapshots /\ injected \in 0..MaxSnapshots

(* However connect, disconnect, failed calls and new objects follow each     *)
(* other, the extended session is held exactly as long as the transport is   *)
(* connected: disconnect leaves the ECU in its default session.              *)
SessionFollowsTransport == connected <=> session = "EXTENDED"

(* The readings decode to the values the stub's table documents; without a   *)
(* connection every raw value counts as 0, so that a temperature reads -40   *)
(* and a trim -100, and only the VIN tells that nothing was read.            *)
ReadingsAsDocumented ==
  /\ vin = "read" => live = Documented
  /\ vin = "UNKNOWN" => \A r \in Reading : live[r] = -Offset(r)

(* The same derivation turns each key sent back into the seed it was sent    *)
(* for, so two seeds never share a key: none of the 16 bits is lost to the   *)
(* complement, the constant or the mask of t8_keygen.                        *)
KeyDeterminesSeed == \A u \in unlocks : T8Keygen(u[2]) = u[1]
===============================================================================
