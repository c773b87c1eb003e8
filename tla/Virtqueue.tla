------------------------------ MODULE Virtqueue ------------------------------
(***************************************************************************)
(* The two virtqueues that are used over and over: the disk driver's       *)
(* (virtio_blk_driver: submit_and_wait, ext2_read_block, ext2_write_block) *)
(* and the kernel's display queue (virtio_gpu.rs: send_cmd, flush_rect).   *)
(* Each has one descriptor chain, so one header, one buffer and one status *)
(* or response for every request, and each waits a bounded time.  The      *)
(* device is external: it takes the requests in order, each at its own     *)
(* pace, and reads the chain when it takes one.                            *)
(***************************************************************************)
EXTENDS Naturals

CONSTANTS Blocks,       \* block numbers of the disk
          Contents,     \* what a block may hold
          Wrap,         \* the ring indices count modulo this (2^16 in the code)
          MaxSubmits,   \* bound: block requests submitted
          MaxCommands   \* bound: display commands sent

ASSUME VirtqueueAssumption ==
    Wrap \in Nat \ {0, 1} /\ MaxSubmits \in Nat /\ MaxCommands \in Nat

VARIABLES
    queueOf,   \* which queue: "disk" or "display"
    chain,     \* the request the descriptors describe now
    buffer,    \* DATA_OFF: what the data descriptor points to
    answer,    \* the status byte, or the response header
    avail, usedIdx,  \* the ring indices
    taken,     \* how many requests the device has taken
    device,    \* the request it works on, and how far it is
    medium,      \* the device's blocks
    driver,    \* the driver: idle, waiting, or back with a result
    lastUsed,  \* send_cmd's last_used_idx
    pipeline,  \* display: probe commands answered well, or absent
    performed, \* history: display commands the device carried out
    orders,    \* submissions so far
    gaveUp     \* history: send_cmd once returned without a completion

vqVars == <<queueOf, chain, buffer, answer, avail, usedIdx, taken, device, medium,
            driver, lastUsed, pipeline,
            performed, orders, gaveUp>>

NoRequest == [op |-> "none", block |-> 0, content |-> 0, id |-> 0]

NoResult == [at |-> "idle", request |-> NoRequest, target |-> 0, behind |-> FALSE,
             status |-> "none"]

BlockRequests == [op : {"write"}, block : Blocks, content : Contents]
             \cup [op : {"read"}, block : Blocks, content : {0}]

\* probe_and_init creates a resource, attaches its backing, sets the scanout,
\* transfers and flushes; each command must be answered well.
ProbeCommands == 5

Absent == ProbeCommands + 1

\* Up to its first command: the device, its capabilities, its BAR, its
\* features, its queue and a page are there, or the display stays with the
\* framebuffer.
ProbeStart == {0, Absent}

VqInit ==
    /\ queueOf \in {"disk", "display"}
    /\ chain = NoRequest /\ buffer = 0 /\ answer = [status |-> "none", id |-> 0]
    /\ avail = 0 /\ usedIdx = 0 /\ taken = 0
    /\ device = [state |-> "free", request |-> NoRequest]
    /\ medium = [b \in Blocks |-> 0]
    /\ driver = NoResult /\ lastUsed = 0 /\ orders = 0 /\ gaveUp = FALSE
    /\ pipeline \in ProbeStart /\ (queueOf = "disk" => pipeline = 0) /\ performed = {}

Succ(i) == (i + 1) % Wrap

-----------------------------------------------------------------------------
(* The drivers                                                              *)

\* The device still has requests the driver has given up.  (The indices say so
\* too, unless a multiple of Wrap requests is outstanding.)
Behind == taken < orders \/ device.state # "free"

\* Header, descriptors, available ring and notification.
Submitted(r) ==
    /\ chain' = r
    /\ avail' = Succ(avail)
    /\ orders' = orders + 1
    /\ driver' = [at |-> "waiting", request |-> r, target |-> avail',
                  behind |-> Behind, status |-> "none"]

\* ext2_read_block or ext2_write_block up to the wait: what is to be written is
\* copied to the one data buffer first.
SubmitBlock ==
    /\ queueOf = "disk" /\ driver.at = "idle" /\ orders < MaxSubmits
    /\ \E r \in BlockRequests :
          /\ Submitted([op |-> r.op, block |-> r.block, content |-> r.content,
                        id |-> orders + 1])
          /\ buffer' = IF r.op = "write" THEN r.content ELSE buffer
    /\ UNCHANGED <<queueOf, answer, usedIdx, taken, device, medium, lastUsed,
                   pipeline, performed, gaveUp>>

\* send_cmd up to the wait: the next command of probe_and_init, or, once the
\* pipeline is up, the transfer or the flush of a flush_rect.
SubmitCommand ==
    /\ queueOf = "display" /\ driver.at = "idle" /\ orders < MaxCommands
    /\ pipeline # Absent
    /\ Submitted([op |-> "command", block |-> 0, content |-> 0, id |-> orders + 1])
    /\ UNCHANGED <<queueOf, buffer, answer, usedIdx, taken, device, medium, lastUsed,
                   pipeline, performed, gaveUp>>

\* A mutant: the index before this request ends the wait.
Completed_OneEarly ==
    IF queueOf = "disk" THEN Succ(usedIdx) = driver.target ELSE usedIdx # lastUsed

\* submit_and_wait leaves its loop when the used index is the one that
\* belongs to this request; send_cmd when it is not the last one it saw.
Completed ==
    IF queueOf = "disk" THEN usedIdx = driver.target ELSE usedIdx # lastUsed

Returned(status) == driver' = [driver EXCEPT !.at = "back", !.status = status]

\* A mutant: the index seen is not noted.
LastSeen_Kept == lastUsed

\* send_cmd notes the index it saw; submit_and_wait has no such state.
LastSeen == IF queueOf = "disk" THEN lastUsed ELSE usedIdx

\* The status byte or the response header is read after the wait.
WaitEnds ==
    /\ driver.at = "waiting" /\ Completed
    /\ Returned(answer.status)
    /\ lastUsed' = LastSeen
    /\ UNCHANGED <<queueOf, chain, buffer, answer, avail, usedIdx, taken, device, medium,
                   pipeline, performed, orders, gaveUp>>

\* The spins run out: 0xFF, or 0, and nothing else changes.
WaitTimesOut ==
    /\ driver.at = "waiting" /\ ~Completed
    /\ Returned("timeout")
    /\ gaveUp' = TRUE
    /\ UNCHANGED <<queueOf, chain, buffer, answer, avail, usedIdx, taken, device, medium,
                   lastUsed, pipeline, performed, orders>>

\* While probing, any answer but OK_NODATA ends it with the device marked
\* absent; flush_rect ignores its first answer and returns its second.
AfterAnswer ==
    IF queueOf = "disk" \/ pipeline = ProbeCommands THEN pipeline
    ELSE IF driver.status = "ok" THEN pipeline + 1 ELSE Absent

\* The caller goes on; a caller that read copies the buffer out whatever the
\* status.
Resume ==
    /\ driver.at = "back"
    /\ driver' = NoResult
    /\ pipeline' = AfterAnswer
    /\ UNCHANGED <<queueOf, chain, buffer, answer, avail, usedIdx, taken, device, medium,
                   lastUsed, performed, orders, gaveUp>>

-----------------------------------------------------------------------------
(* The device, external                                                     *)

DeviceTakes ==
    /\ device.state = "free" /\ taken < orders
    /\ taken' = taken + 1
    /\ device' = [state |-> "working", request |-> chain]
    /\ UNCHANGED <<queueOf, chain, buffer, answer, avail, usedIdx, medium, driver, lastUsed,
                   pipeline, performed, orders, gaveUp>>

\* The data goes to or comes from the buffer; or the request fails.
DeviceTransfers ==
    /\ device.state = "working"
    /\ \/ /\ device' = [device EXCEPT !.state = "good"]
          /\ buffer' = IF device.request.op = "read" THEN medium[device.request.block] ELSE buffer
          /\ medium' = IF device.request.op = "write"
                     THEN [medium EXCEPT ![device.request.block] = buffer] ELSE medium
       \/ /\ device' = [device EXCEPT !.state = "bad"]
          /\ UNCHANGED <<buffer, medium>>
    /\ UNCHANGED <<queueOf, chain, answer, avail, usedIdx, taken, driver, lastUsed, orders,
                   pipeline, performed, gaveUp>>

DeviceCompletes ==
    /\ device.state \in {"good", "bad"}
    /\ answer' = [status |-> IF device.state = "good" THEN "ok" ELSE "error",
                  id |-> device.request.id]
    /\ usedIdx' = Succ(usedIdx)
    /\ device' = [state |-> "free", request |-> NoRequest]
    /\ performed' = IF queueOf = "display" /\ device.state = "good"
                    THEN performed \cup {device.request.id} ELSE performed
    /\ UNCHANGED <<queueOf, chain, buffer, avail, taken, medium, driver, lastUsed, pipeline,
                   orders, gaveUp>>

-----------------------------------------------------------------------------
VqNext ==
    \/ SubmitBlock \/ SubmitCommand \/ WaitEnds \/ WaitTimesOut \/ Resume
    \/ DeviceTakes \/ DeviceTransfers \/ DeviceCompletes

VqSpec == VqInit /\ [][VqNext]_vqVars

\* A block request that came back with status 0 was carried out: what was read
\* is what the disk holds, what was written is on the disk.  The exception is
\* a request submitted while the device still had one the driver had given
\* up: both use the one buffer.  A timeout does no lasting harm, since the
\* wait is for this request's own index: once the device has caught up the
\* next request is answered truly again.
BlockTrue ==
    (queueOf = "disk" /\ driver.at = "back" /\ driver.status = "ok" /\ ~driver.behind) =>
       LET r == driver.request
       IN  medium[r.block] = IF r.op = "write" THEN r.content ELSE buffer

\* A good answer send_cmd returns means the device carried out that command,
\* as long as no command was given up: after a timeout in flush_rect
\* last_used_idx stays a completion behind, and every later command is
\* answered by its predecessor's answer.  And however probing went, a display
\* is used only if the device carried out all of its commands.
AnswerOwn ==
    queueOf = "display" =>
       /\ (~gaveUp /\ driver.at = "back" /\ driver.status = "ok") =>
             driver.request.id \in performed
       /\ pipeline = ProbeCommands => 1 .. ProbeCommands \subseteq performed
=============================================================================
