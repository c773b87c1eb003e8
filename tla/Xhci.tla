-------------------------------- MODULE Xhci --------------------------------
(***************************************************************************)
(* The USB driver (usb_xhci_driver/src/main.rs): it resets the controller, *)
(* enumerates one device with commands and control transfers, queues its   *)
(* interrupt endpoint, and binds it again after an unplug.  One command    *)
(* TRB and one event ring are used over and over; every command rewrites   *)
(* both.  The controller and the device are external: the controller       *)
(* fetches a command when it likes, executes it, succeeds or not, and posts*)
(* events, its own port and report events among them.                      *)
(***************************************************************************)
EXTENDS Naturals, Sequences

CONSTANTS MaxSlots,       \* device slots of the controller
          MaxUnasked      \* bound: port and report events nobody asked for

ASSUME XhciAssumption == MaxSlots \in Nat \ {0} /\ MaxUnasked \in Nat

VARIABLES
    stage,   \* how far _start is
    step,    \* within a stage: what the driver does or waits for
    slotId,  \* the device slot in use, 0 before one is enabled
    trb,     \* the command TRB at the head of the command ring
    busy,    \* the command, then the transfer, the controller is executing
    eventRing, \* the event ring from its start
    hcSlots, \* the controller's slots
    dcbaa,   \* the slots whose context pointer is set
    serial,  \* the number of the last command or transfer
    unasked, \* events posted unasked so far
    left,    \* history: the driver turned to something else while the
             \* controller still had an order of its own to finish
    mixed    \* history: an event was taken for that of another order

xhciVars == <<stage, step, slotId, trb, busy, eventRing, hcSlots, dcbaa, serial,
              unasked, left, mixed>>

DeviceSlots == 1 .. MaxSlots

NoOrder == [kind |-> "none", slot |-> 0, id |-> 0]

\* The stages of _start that are commands, and those that are transfers on
\* endpoint 0: with a data stage, or without.
CommandOf ==
    [noop |-> "noop", enable |-> "enable", address |-> "address",
     configure |-> "configure", disable |-> "disable", reenable |-> "enable",
     readdress |-> "address", reconfigure |-> "configure"]

TransferIn == {"getdevice", "getconfig", "getfull", "getreport"}
TransferNoData == {"setconfig", "resetconfig"}

\* Where _start goes when a stage succeeds.
OnSuccess ==
    [caps |-> "reset", reset |-> "noop", noop |-> "enable", enable |-> "port",
     port |-> "address", address |-> "getdevice", getdevice |-> "getconfig",
     getconfig |-> "getfull", getfull |-> "scan", scan |-> "configure",
     configure |-> "setconfig", setconfig |-> "getreport", getreport |-> "queue",
     queue |-> "disable", disable |-> "reenable", reenable |-> "readdress",
     readdress |-> "reconfigure", reconfigure |-> "resetconfig",
     resetconfig |-> "requeue", requeue |-> "bound"]

\* And when it fails: it gives up, except that three results are only logged
\* and one is ignored.
OnFailure(s) ==
    IF s \in {"setconfig", "getreport", "disable", "resetconfig"}
    THEN OnSuccess[s] ELSE "stopped"

XhciInit ==
    /\ stage = "caps" /\ step = "go" /\ slotId = 0
    /\ trb = NoOrder /\ busy = NoOrder /\ eventRing = <<>>
    /\ hcSlots = [s \in DeviceSlots |-> "off"] /\ dcbaa = {}
    /\ serial = 0 /\ unasked = 0 /\ left = FALSE /\ mixed = FALSE

-----------------------------------------------------------------------------
(* The driver                                                               *)

\* The driver goes on to another stage; orders it leaves behind are noted.
GoTo(s) ==
    /\ stage' = s
    /\ step' = "go"
    /\ left' = (left \/ trb # NoOrder \/ busy # NoOrder)

\* The stages without an order: the capability registers are plausible, the
\* reset handshake completes, a port has a device, the descriptors hold an
\* interrupt-IN endpoint; or not.
Look ==
    /\ stage \in {"caps", "reset", "port", "scan"}
    /\ \/ GoTo(OnSuccess[stage])
       \/ GoTo("stopped")
    /\ UNCHANGED <<slotId, trb, busy, eventRing, hcSlots, dcbaa, serial, unasked, mixed>>

\* queue_interrupt_in, after which _start routes its sample reports.
QueueInterruptIn ==
    /\ stage \in {"queue", "requeue"}
    /\ GoTo(OnSuccess[stage])
    /\ UNCHANGED <<slotId, trb, busy, eventRing, hcSlots, dcbaa, serial, unasked, mixed>>

\* A mutant: the old events stay.
EmptiedRing_Kept == eventRing

\* run_command_ex empties the event ring before it rings the doorbell.
EmptiedRing == <<>>

\* The commands a step issues: its own, or those that open a transfer.
StepCommand ==
    IF step = "go" /\ stage \in DOMAIN CommandOf THEN CommandOf[stage]
    ELSE IF step = "go" THEN "stop" ELSE "dequeue"

\* address_device stores the context pointer before it issues the command.
BeforeCommand(kind) == IF kind = "address" THEN dcbaa \cup {slotId} ELSE dcbaa

\* The first command starts the controller, which may never leave its halted
\* state: the command is not even written.
NeverRuns ==
    /\ stage = "noop" /\ step = "go"
    /\ GoTo("stopped")
    /\ UNCHANGED <<slotId, trb, busy, eventRing, hcSlots, dcbaa, serial, unasked, mixed>>

\* run_command_ex up to the doorbell: both rings are rewritten.
RunCommand ==
    /\ \/ step = "go" /\ stage \in DOMAIN CommandOf \cup TransferIn \cup TransferNoData
       \/ step = "stopped"
    /\ serial' = serial + 1
    /\ trb' = [kind |-> StepCommand, slot |-> slotId, id |-> serial']
    /\ eventRing' = EmptiedRing
    /\ dcbaa' = BeforeCommand(StepCommand)
    /\ step' = IF step = "go"
               THEN IF stage \in DOMAIN CommandOf THEN "command" ELSE "stopping"
               ELSE "dequeuing"
    /\ left' = (left \/ trb # NoOrder \/ busy # NoOrder)
    /\ UNCHANGED <<stage, slotId, busy, hcSlots, unasked, mixed>>

Awaiting == step \in {"command", "stopping", "dequeuing"}

\* What disable_slot does after its command, whatever came of it.
AfterCommand == IF stage = "disable" THEN dcbaa \ {slotId} ELSE dcbaa

\* The first event is the completion of a command at the ring's head, which
\* every command is, with a success code; a slot id comes with it.
CommandDone ==
    /\ Awaiting /\ Len(eventRing) > 0
    /\ eventRing[1].type = "command" /\ eventRing[1].ok
    /\ mixed' = (mixed \/ eventRing[1].id # serial)
    /\ slotId' = IF stage \in {"enable", "reenable"} THEN eventRing[1].slot ELSE slotId
    /\ dcbaa' = AfterCommand
    /\ IF step = "command"
       THEN GoTo(IF stage \in {"enable", "reenable"} /\ slotId' = 0 THEN "stopped"
                 ELSE OnSuccess[stage])
       ELSE /\ step' = IF step = "stopping" THEN "stopped" ELSE "ready"
            /\ UNCHANGED <<stage, left>>
    /\ UNCHANGED <<trb, busy, eventRing, hcSlots, serial, unasked>>

\* Any other first event, or none in time: the command counts as failed.
CommandFailed ==
    /\ Awaiting
    /\ Len(eventRing) > 0 => ~(eventRing[1].type = "command" /\ eventRing[1].ok)
    /\ dcbaa' = AfterCommand
    /\ GoTo(OnFailure(stage))
    /\ UNCHANGED <<slotId, trb, busy, eventRing, hcSlots, serial, unasked, mixed>>

\* The transfer itself: its TRBs are written and the slot's doorbell is rung;
\* the event ring has been emptied again.
StartTransfer ==
    /\ step = "ready"
    /\ serial' = serial + 1
    /\ trb' = [kind |-> IF stage \in TransferIn THEN "in" ELSE "nodata",
               slot |-> slotId, id |-> serial']
    /\ eventRing' = EmptiedRing
    /\ step' = "transfer"
    /\ left' = (left \/ trb # NoOrder \/ busy # NoOrder)
    /\ UNCHANGED <<stage, slotId, busy, hcSlots, dcbaa, unasked, mixed>>

GoodTransfer(e) == e.type = "transfer" /\ e.slot = slotId /\ e.ok

\* control_transfer_in takes the first event's word for the data and then any
\* second event; control_transfer_no_data the first event's.
TransferDone ==
    /\ step = "transfer"
    /\ Len(eventRing) >= (IF stage \in TransferIn THEN 2 ELSE 1)
    /\ GoodTransfer(eventRing[1])
    /\ mixed' = (mixed \/ eventRing[1].id # serial)
    /\ GoTo(OnSuccess[stage])
    /\ UNCHANGED <<slotId, trb, busy, eventRing, hcSlots, dcbaa, serial, unasked>>

TransferFailed ==
    /\ step = "transfer"
    /\ GoTo(OnFailure(stage))
    /\ UNCHANGED <<slotId, trb, busy, eventRing, hcSlots, dcbaa, serial, unasked, mixed>>

Driver ==
    \/ Look \/ QueueInterruptIn \/ NeverRuns \/ RunCommand \/ CommandDone
    \/ CommandFailed \/ StartTransfer \/ TransferDone \/ TransferFailed

-----------------------------------------------------------------------------
(* The controller and the device, external                                  *)

Post(es) == eventRing' = eventRing \o es

Event(type, ok, slot, id) == [type |-> type, ok |-> ok, slot |-> slot, id |-> id]

Fetch ==
    /\ trb # NoOrder /\ busy = NoOrder
    /\ busy' = trb /\ trb' = NoOrder
    /\ UNCHANGED <<stage, step, slotId, eventRing, hcSlots, dcbaa, serial, unasked, left, mixed>>

\* The state a slot must be in for a command, and the one it is left in.
Needs == [address |-> {"enabled"}, configure |-> {"addressed"},
          disable |-> {"enabled", "addressed", "configured"},
          stop |-> {"addressed", "configured"}, dequeue |-> {"addressed", "configured"}]

Leaves == [address |-> "addressed", configure |-> "configured", disable |-> "off"]

\* A command on a slot: it succeeds only in the state it needs.
SlotCommand ==
    /\ busy.kind \in DOMAIN Needs
    /\ \E ok \in BOOLEAN :
          /\ ok => hcSlots[busy.slot] \in Needs[busy.kind]
          /\ Post(<<Event("command", ok, busy.slot, busy.id)>>)
          /\ hcSlots' = IF ok /\ busy.kind \in DOMAIN Leaves
                        THEN [hcSlots EXCEPT ![busy.slot] = Leaves[busy.kind]]
                        ELSE hcSlots

NoOp == busy.kind = "noop" /\ Post(<<Event("command", TRUE, 0, busy.id)>>) /\ UNCHANGED hcSlots

EnableSlot ==
    /\ busy.kind = "enable"
    /\ \/ \E s \in DeviceSlots :
             /\ hcSlots[s] = "off" /\ \A t \in 1 .. s - 1 : hcSlots[t] # "off"
             /\ hcSlots' = [hcSlots EXCEPT ![s] = "enabled"]
             /\ Post(<<Event("command", TRUE, s, busy.id)>>)
       \/ Post(<<Event("command", FALSE, 0, busy.id)>>) /\ UNCHANGED hcSlots

\* A transfer: an event for the data stage and one for the status stage, or
\* one event that says it stalled.
Transfer ==
    /\ busy.kind \in {"in", "nodata"}
    /\ \/ Post(<<Event("transfer", TRUE, busy.slot, busy.id)>>
               \o IF busy.kind = "in" THEN <<Event("transfer", TRUE, busy.slot, busy.id)>>
                  ELSE <<>>)
       \/ Post(<<Event("transfer", FALSE, busy.slot, busy.id)>>)
    /\ UNCHANGED hcSlots

Execute ==
    /\ SlotCommand \/ NoOp \/ EnableSlot \/ Transfer
    /\ busy' = NoOrder
    /\ UNCHANGED <<stage, step, slotId, trb, dcbaa, serial, unasked, left, mixed>>

\* A port changed.
PortEvent ==
    /\ unasked < MaxUnasked
    /\ stage \notin {"caps", "reset", "bound", "stopped"}
    /\ unasked' = unasked + 1
    /\ Post(<<Event("port", TRUE, 0, 0)>>)
    /\ UNCHANGED <<stage, step, slotId, trb, busy, hcSlots, dcbaa, serial, left, mixed>>

Controller == Fetch \/ Execute \/ PortEvent

XhciNext == Driver \/ Controller

XhciSpec == XhciInit /\ [][XhciNext]_xhciVars

-----------------------------------------------------------------------------
\* The driver never takes an old event for the answer to a new order, and when
\* it says the device is bound again the controller has the slot configured
\* and its context pointer is set, as it was when Address Device was executed
\* (xHCI requires the pointer before the command).  Every command has the same TRB address and
\* the event ring is emptied for each, so this rests on the driver never
\* leaving an order behind in the controller; it does after a timed-out or
\* overtaken Disable Slot, Set Configuration or Get Report, and goes on.
BoundTrue ==
    ~left =>
       /\ ~mixed
       /\ busy.kind = "address" => busy.slot \in dcbaa
       /\ stage = "bound" =>
             hcSlots[slotId] = "configured" /\ slotId \in dcbaa
=============================================================================
