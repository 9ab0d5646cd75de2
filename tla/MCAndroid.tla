------------------------------ MODULE MCAndroid ------------------------------
(* The phone application reaches a car through a USB adapter or through the  *)
(* remote hub (android/README.md): one of the two transports is in use.      *)
EXTENDS RemoteCan, UsbOtg, TLC

CONSTANTS adapter, listener, camera

AdaptersHave ==
  (adapter :> {"vendor", "in", "out"}) @@ (listener :> {"vendor", "in"}) @@ (camera :> {})

VARIABLE transport

AndroidInit == transport \in {"remote", "usb"} /\ RemoteCanInit /\ UsbInit

AndroidNext ==
  /\ UNCHANGED transport
  /\ \/ transport = "remote" /\ RemoteCanNext /\ UNCHANGED usbVars
     \/ transport = "usb" /\ UsbNext /\ UNCHANGED canVars

AndroidSpec ==
  AndroidInit /\ [][AndroidNext]_<<transport, canVars, usbVars>> /\ RemoteCanFairness

(* Every field of either transport stays in its type. *)
AndroidTypeOK == RemoteCanTypeOK /\ UsbTypeOK
==============================================================================
