--------------------------- MODULE MCIfaceManager ---------------------------
(***************************************************************************)
(* One interface of each kind: usb is a LAN, rmnet a WAN (the modem), wlan *)
(* an access point or a station as the driver says.  No symmetry of Obj:   *)
(* the run checks a liveness property.                                     *)
(***************************************************************************)
EXTENDS IfaceManager, TLC

CONSTANTS usb, rmnet, wlan, o1, o2, o3
MCCategory == usb :> "LAN_IF" @@ rmnet :> "WAN_IF" @@ wlan :> "UNKNOWN_IF"
=============================================================================
