----------------------------- MODULE MCUsbSkel ------------------------------
(* Small instances of UsbSkel for TLC.                                     *)
EXTENDS UsbSkel

CONSTANTS f1, f2, f3, d1, d2, d3
=============================================================================
