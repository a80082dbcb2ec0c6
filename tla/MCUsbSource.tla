------------------------------ MODULE MCUsbSource ------------------------------
(* UsbSource with the menu and the server.                                   *)
EXTENDS UsbSource
=============================================================================
