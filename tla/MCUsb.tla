--------------------------------- MODULE MCUsb ---------------------------------
(* Usb with a configuration of each kind: with a trigger in one file and   *)
(* in both, with its functions by name, with a device class, and charging. *)
EXTENDS Usb

MCConfig == {{"mtp", "adb"}, {"adb"}, {"acm"}, Charging}
================================================================================
