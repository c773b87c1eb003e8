---------------------------- MODULE MCFileSystem ----------------------------
(***************************************************************************)
(* The file server on a small disk: two allocatable inodes, blocks 11 to   *)
(* TotalBlocks of two cells, two direct blocks per file.  The devices      *)
(* below and beside it: the virtqueues of disk and display with indices    *)
(* that wrap, the USB controller with two slots, and the TCP client with   *)
(* two requests, two attempts each, and a response shorter or longer than  *)
(* its buffer.  Text applications: windows of two rows of three columns,   *)
(* the terminal's with a row for the line being typed, and a tab of two    *)
(* columns.  The parts share no state; part says which one a behaviour     *)
(* exercises.                                                              *)
(***************************************************************************)
EXTENDS FileSystem, Virtqueue, Xhci, Tcp, TextApps

VARIABLE part

MCDirNames == {"d"}
MCFileNames == {"greeting", "f"}
MCValues == {"v"}
MCExtents == {<<0, 1>>, <<1, 3>>, <<5, 1>>}

mcvars == <<part, vars, vqVars, xhciVars, tcpVars, textVars>>

MCInit ==
    /\ part \in {"files", "virtqueue", "usb", "tcp", "text"}
    /\ Init /\ VqInit /\ XhciInit /\ TcpInit /\ TextInit
    /\ part # "virtqueue" => queueOf = "disk"
    /\ part # "text" => app = "editor"

Only(p, A) == part = p /\ A /\ UNCHANGED part

MCNext ==
    \/ Only("files", Next) /\ UNCHANGED <<vqVars, xhciVars, tcpVars, textVars>>
    \/ Only("virtqueue", VqNext) /\ UNCHANGED <<vars, xhciVars, tcpVars, textVars>>
    \/ Only("usb", XhciNext) /\ UNCHANGED <<vars, vqVars, tcpVars, textVars>>
    \/ Only("tcp", TcpNext) /\ UNCHANGED <<vars, vqVars, xhciVars, textVars>>
    \/ Only("text", TextNext) /\ UNCHANGED <<vars, vqVars, xhciVars, tcpVars>>

MCSpec == MCInit /\ [][MCNext]_mcvars
=============================================================================
