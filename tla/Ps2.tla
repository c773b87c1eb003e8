-------------------------------- MODULE Ps2 --------------------------------
(***************************************************************************)
(* The keyboard and the mouse driver, two ring-3 processes that share one  *)
(* 8042 controller, and the interrupt forwarding that wakes them           *)
(* (interrupt_forward.rs, idt.rs h_keyboard and h_mouse, system calls 5, 6,*)
(* 13, 20, 21 and 22).  A driver can be preempted between any two port     *)
(* accesses, so every port access is an action of its own.                 *)
(*                                                                         *)
(* The controller is external: one output byte with a flag saying which    *)
(* device it came from, an interrupt when a byte is put there, the last    *)
(* byte again when an empty port is read, and one pending command that     *)
(* says where the next data byte goes.  A byte is the name of what the     *)
(* device meant by it.  Bounded waits end when the wait is over, or give   *)
(* up while there is nothing to read.                                      *)
(***************************************************************************)
EXTENDS Integers, Sequences

CONSTANTS MaxKeys, MaxPackets   \* bytes and packets the devices send, bounds

VARIABLES
  outByte,    \* the output buffer of the controller: a byte or "none"
  lastByte,   \* what reading the empty port returns
  replies,    \* answers of the controller not yet in the buffer
  keys,       \* keyboard bytes still to come
  auxBytes,   \* bytes of the mouse not yet in the buffer
  packets,    \* packets the mouse will still send
  expects,    \* where the next data byte goes
  irq1,       \* configuration byte: keyboard interrupt and clock enabled
  irq12,      \* configuration byte: mouse interrupt and clock enabled
  irqPending, \* PENDING[vector]
  kpc, kold, kstatus, \* keyboard driver: place, configuration read, status
  mpc, mold, packet,  \* mouse driver: place, configuration read, packet
  torn        \* history: the two updates of the configuration byte interfered

ps2Vars == <<outByte, lastByte, replies, keys, auxBytes, packets, expects, irq1, irq12,
             irqPending, kpc, kold, kstatus, mpc, mold, packet, torn>>

AuxKinds == {"auxack", "p1", "p2", "p3"}
CfgKinds == {"cfg01", "cfg11", "cfg00", "cfg10"}
IsAux(b) == b \in AuxKinds
CfgByte == IF irq1 THEN (IF irq12 THEN "cfg11" ELSE "cfg10")
                   ELSE (IF irq12 THEN "cfg01" ELSE "cfg00")

Ps2Init ==
  /\ outByte = "none" /\ lastByte = "key" /\ replies = <<>>
  /\ keys = MaxKeys /\ auxBytes = <<>> /\ packets = MaxPackets
  /\ expects = "keyboard" /\ irq1 \in BOOLEAN /\ irq12 = FALSE
  /\ irqPending = [v \in {"kbd", "mouse"} |-> FALSE]
  /\ kpc = "flush" /\ kold = "none" /\ kstatus = "none"
  /\ mpc = "enable" /\ mold = "none" /\ packet = <<>>
  /\ torn = FALSE

kvars == <<kpc, kold, kstatus>>
mvars == <<mpc, mold, packet>>
devices == <<keys, auxBytes, packets>>
config == <<irq1, irq12>>

\* A mutant: an interrupt is only recorded for a driver that is waiting.
Notify_OnlyWaiting(v) ==
  irqPending' = [irqPending EXCEPT ![v] = (IF v = "kbd" THEN kpc ELSE mpc) = "wait"]

\* interrupt_forward::notify, from h_keyboard and h_mouse; both lines are
\* registered before the drivers enter ring 3.
Notify(v) == irqPending' = [irqPending EXCEPT ![v] = TRUE]

\* The controller moves a byte into its empty output buffer and raises the line
\* of the device it came from, if the configuration enables it.
Load(b) ==
  /\ outByte = "none"
  /\ outByte' = b /\ lastByte' = b
  /\ IF IsAux(b) /\ irq12 THEN Notify("mouse")
     ELSE IF ~IsAux(b) /\ irq1 THEN Notify("kbd")
     ELSE UNCHANGED irqPending
  /\ UNCHANGED <<expects, config, kvars, mvars, torn>>

LoadReply ==
  /\ replies # <<>>
  /\ Load(Head(replies))
  /\ replies' = Tail(replies)
  /\ UNCHANGED devices

LoadKey ==
  /\ replies = <<>> /\ keys > 0
  /\ Load("key")
  /\ keys' = keys - 1
  /\ UNCHANGED <<replies, auxBytes, packets>>

LoadAux ==
  /\ replies = <<>> /\ auxBytes # <<>>
  /\ Load(Head(auxBytes))
  /\ auxBytes' = Tail(auxBytes)
  /\ UNCHANGED <<replies, keys, packets>>

\* The mouse, once told to stream, sends a packet of three bytes.
Stream ==
  /\ mpc \in {"wait", "read", "ack"} /\ packets > 0 /\ auxBytes = <<>>
  /\ auxBytes' = <<"p1", "p2", "p3">>
  /\ packets' = packets - 1
  /\ UNCHANGED <<outByte, lastByte, replies, keys, expects, config, irqPending,
                 kvars, mvars, torn>>

\* Port accesses of a driver.  In: the byte read is `lastByte'.
In == outByte' = "none" /\ UNCHANGED <<lastByte, replies, devices, expects, config>>
NoPort == UNCHANGED <<outByte, lastByte, replies, devices, expects, config>>

OutCommand(c) ==
  /\ replies' = IF c = "readcfg" THEN Append(replies, CfgByte) ELSE replies
  /\ expects' = CASE c = "writecfg" -> "config" [] c = "toaux" -> "aux" [] OTHER -> expects
  /\ UNCHANGED <<outByte, lastByte, devices, config>>

\* A data byte goes where the last command said: the configuration (v1 and v12
\* are its enable bits), the mouse, which acknowledges it, or the keyboard,
\* which does too.
OutData(v1, v12) ==
  /\ expects' = "keyboard"
  /\ irq1' = IF expects = "config" THEN v1 ELSE irq1
  /\ irq12' = IF expects = "config" THEN v12 ELSE irq12
  /\ auxBytes' = IF expects = "aux" THEN Append(auxBytes, "auxack") ELSE auxBytes
  /\ replies' = IF expects = "keyboard" THEN Append(replies, "ack") ELSE replies
  /\ UNCHANGED <<outByte, lastByte, keys, packets>>

KStep == UNCHANGED <<irqPending, mvars>>

----------------------------------------------------------------------------
\* ps2_flush_output, before and after the configuration is written.
KFlush ==
  /\ kpc \in {"flush", "flush2"}
  /\ \/ outByte # "none" /\ In /\ UNCHANGED kpc
     \/ outByte = "none" /\ NoPort /\ kpc' = IF kpc = "flush" THEN "ask" ELSE "wait"
  /\ KStep /\ UNCHANGED <<kold, kstatus, torn>>

\* ps2_enable_irq1: command 0x20, then poll for a byte that is not the mouse's
\* and not an acknowledgement; give up with a default.
KAsk ==
  /\ kpc = "ask" /\ OutCommand("readcfg")
  /\ kpc' = "poll"
  /\ KStep /\ UNCHANGED <<kold, kstatus, torn>>

KPoll ==
  /\ kpc = "poll" /\ NoPort
  /\ \/ outByte # "none" /\ kstatus' = outByte /\ kpc' = "pollread" /\ UNCHANGED kold
     \/ outByte = "none" /\ kold' = "cfg11" /\ kpc' = "cmd" /\ UNCHANGED kstatus
  /\ KStep /\ UNCHANGED torn

KPollRead ==
  LET mine == ~IsAux(kstatus) /\ lastByte \notin {"ack", "auxack"}
  IN /\ kpc = "pollread" /\ In
     /\ kold' = IF mine THEN lastByte ELSE kold
     /\ kpc' = IF mine THEN "cmd" ELSE "poll"
     /\ kstatus' = "none"
     /\ torn' = (torn \/ (mine /\ lastByte \notin CfgKinds))
     /\ KStep

\* Command 0x60 and the new byte, (old | 0x43) & !0x30: both lines enabled
\* whatever was read.
KWriteCommand ==
  /\ kpc = "cmd" /\ OutCommand("writecfg")
  /\ kpc' = "data" /\ kold' = "none"
  /\ KStep /\ UNCHANGED <<kstatus, torn>>

KWriteConfig ==
  /\ kpc = "data" /\ OutData(TRUE, TRUE)
  /\ kpc' = "flush2"
  /\ torn' = (torn \/ expects # "config")
  /\ KStep /\ UNCHANGED <<kold, kstatus>>

\* wait_for_interrupt: the flag is taken and cleared in one swap.
Wait(v) == irqPending[v] /\ irqPending' = [irqPending EXCEPT ![v] = FALSE]

KWait ==
  /\ kpc = "wait" /\ Wait("kbd")
  /\ kpc' = "status"
  /\ NoPort /\ UNCHANGED <<kold, kstatus, mvars, torn>>

\* The loop of the keyboard driver: nothing to read, or a byte to look at.
KStatus ==
  /\ kpc = "status" /\ NoPort
  /\ kstatus' = outByte
  /\ kpc' = IF outByte = "none" THEN "ack" ELSE "read"
  /\ KStep /\ UNCHANGED <<kold, torn>>

\* The byte is read.  Unless the status said it was the mouse's or it is an
\* acknowledgement, it is routed (SYS_ROUTE_KEY_EVENT, module InputRouting).
KRead ==
  /\ kpc = "read" /\ In
  /\ kpc' = "ack" /\ kstatus' = "none"
  /\ KStep /\ UNCHANGED <<kold, torn>>

\* Routing and acknowledge (system calls 13 and 6, only audited), and back to
\* the wait; the next byte can arrive before it.
KAck ==
  /\ kpc = "ack" /\ kpc' = "wait"
  /\ NoPort /\ KStep /\ UNCHANGED <<kold, kstatus, torn>>

----------------------------------------------------------------------------
MStep == UNCHANGED <<irqPending, kvars>>

\* ps2_enable_aux_device: command 0xA8, then the configuration byte is read
\* without asking whose byte it is, and written back with the mouse line
\* enabled and the keyboard bits as read.
MEnable ==
  /\ mpc = "enable" /\ OutCommand("enable")
  /\ mpc' = "ask"
  /\ MStep /\ UNCHANGED <<mold, packet, torn>>

MAsk ==
  /\ mpc = "ask" /\ OutCommand("readcfg")
  /\ mpc' = "config"
  /\ MStep /\ UNCHANGED <<mold, packet, torn>>

MReadConfig ==
  /\ mpc = "config" /\ In
  /\ mold' = lastByte /\ mpc' = "cmd"
  /\ torn' = (torn \/ outByte \notin CfgKinds)
  /\ MStep /\ UNCHANGED packet

MWriteCommand ==
  /\ mpc = "cmd" /\ OutCommand("writecfg")
  /\ mpc' = "data"
  /\ MStep /\ UNCHANGED <<mold, packet, torn>>

\* The keyboard bits of a byte taken for the configuration.
KeptIrq1(b) == IF b \in CfgKinds THEN {b \in {"cfg11", "cfg10"}} ELSE BOOLEAN

MWriteConfig ==
  /\ mpc = "data"
  /\ \E v1 \in KeptIrq1(mold) : OutData(v1, TRUE)
  /\ mpc' = "reset" /\ mold' = "none"
  /\ torn' = (torn \/ expects # "config" \/ mold # CfgByte)
  /\ MStep /\ UNCHANGED packet

\* mouse_write_command, for 0xF6 and then 0xF4: command 0xD4, the byte, and a
\* bounded wait for an acknowledgement flagged as the mouse's.
MToAux ==
  /\ mpc \in {"reset", "start"} /\ OutCommand("toaux")
  /\ mpc' = IF mpc = "reset" THEN "reset2" ELSE "start2"
  /\ MStep /\ UNCHANGED <<mold, packet, torn>>

MAuxByte ==
  /\ mpc \in {"reset2", "start2"} /\ OutData(irq1, irq12)
  /\ mpc' = IF mpc = "reset2" THEN "resetack" ELSE "startack"
  /\ MStep /\ UNCHANGED <<mold, packet, torn>>

MAuxAck ==
  /\ mpc \in {"resetack", "startack"}
  /\ \/ IsAux(outByte) /\ NoPort /\ mpc' = mpc \o "read"
     \/ ~IsAux(outByte) /\ NoPort /\ mpc' = IF mpc = "resetack" THEN "start" ELSE "wait"
  /\ MStep /\ UNCHANGED <<mold, packet, torn>>

MAuxAckRead ==
  /\ mpc \in {"resetackread", "startackread"} /\ In
  /\ mpc' = IF mpc = "resetackread" THEN "start" ELSE "wait"
  /\ MStep /\ UNCHANGED <<mold, packet, torn>>

MWait ==
  /\ mpc = "wait" /\ Wait("mouse")
  /\ mpc' = "read"
  /\ NoPort /\ UNCHANGED <<kvars, mold, packet, torn>>

\* A first byte must have bit 3: a packet's first byte and an acknowledgement
\* (0xFA) have it, any other byte may.
SyncBit(b) == IF b \in {"p1", "ack", "auxack"} THEN {TRUE} ELSE BOOLEAN

\* The loop of the mouse driver reads the port without looking at the status,
\* and reports (SYS_MOUSE_REPORT, module Desktop) when it holds three bytes.
MRead ==
  /\ mpc = "read" /\ In
  /\ \E ok \in SyncBit(lastByte) :
       LET held == IF packet = <<>> /\ ~ok THEN <<>> ELSE Append(packet, lastByte)
       IN packet' = IF Len(held) = 3 THEN <<>> ELSE held
  /\ mpc' = "ack"
  /\ MStep /\ UNCHANGED <<mold, torn>>

MAck ==
  /\ mpc = "ack" /\ mpc' = "wait"
  /\ NoPort /\ MStep /\ UNCHANGED <<mold, packet, torn>>

Keyboard == KFlush \/ KAsk \/ KPoll \/ KPollRead \/ KWriteCommand \/ KWriteConfig
            \/ KWait \/ KStatus \/ KRead \/ KAck
Mouse == MEnable \/ MAsk \/ MReadConfig \/ MWriteCommand \/ MWriteConfig \/ MToAux
         \/ MAuxByte \/ MAuxAck \/ MAuxAckRead \/ MWait \/ MRead \/ MAck
Ps2Next == LoadReply \/ LoadKey \/ LoadAux \/ Stream \/ Keyboard \/ Mouse
Ps2Spec == Ps2Init /\ [][Ps2Next]_ps2Vars

----------------------------------------------------------------------------
\* Neither device can block the other for ever.  Once both drivers wait for
\* interrupts, both lines are enabled, and a byte in the controller's buffer
\* always has one driver about to wake, so the buffer, which takes no further
\* byte while it is full, is emptied.  This rests on the interrupt being kept
\* while its driver is busy (interrupt_forward.rs:42-46), on the flag being
\* cleared before the port is read (interrupt_forward.rs:59-65) and on each
\* driver keeping the other's bits of the configuration byte; it is lost only
\* if the two updates of that byte interfere: a stale or foreign byte written
\* back, or a command of one driver between the two writes of the other
\* (keyboard_driver main.rs:179-208, mouse_driver main.rs:173-187).
NeverStalls ==
  (kpc = "wait" /\ mpc = "wait" /\ ~torn)
    => /\ irq1 /\ irq12
       /\ outByte # "none" => irqPending["kbd"] \/ irqPending["mouse"]
=============================================================================
