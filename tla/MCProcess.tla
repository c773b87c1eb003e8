----------------------------- MODULE MCProcess ------------------------------
(* Instances of Process for TLC.                                            *)
EXTENDS Process
MCDevices == {"ahci", "xhci"}
MCAllDevices == {"xhci", "compositor", "vga"}
MCNoDevices == {}
=============================================================================
