------------------------------ MODULE Service ------------------------------
(***************************************************************************)
(* Requests from applications to a serving process: file_service.rs (the   *)
(* disk driver serves) and net_service.rs (the network stack serves), over *)
(* the message ring of ipc.rs.                                             *)
(*                                                                         *)
(* A client puts a request in the kernel's table and a message with its id *)
(* in the server's ring, then polls the table.  The server takes messages, *)
(* fetches the client's data, does the work and replies by id.  Every      *)
(* system call is one step: they run with interrupts off on the boot core. *)
(* The two services have a table and a ring each and share no state; kind  *)
(* says which of them a behaviour is about.                                *)
(***************************************************************************)
EXTENDS Naturals, Sequences, FiniteSets, FiniteSetsExt

CONSTANTS
    Clients,
    Lengths,        \* how much a client writes
    PathLengths,    \* how long its paths are
    QueueDepth,     \* QUEUE_DEPTH, 32 in the code
    MaxBytes,       \* MAX_FILE_BYTES and MAX_NET_BYTES
    FetchMax,       \* what server_get_write_data hands over at most
    IdSpace,        \* ids that fit the message word, 2^32 in the code
    MaxRequests,    \* bound on the ids given out
    MaxCrashes      \* bound on the deaths of the server

ASSUME Sizes ==
    /\ QueueDepth \in Nat \ {0}
    /\ IdSpace \in Nat /\ MaxRequests \in Nat /\ MaxRequests < IdSpace
    /\ MaxBytes \in Nat /\ FetchMax \in 1..MaxBytes
    /\ Lengths \subseteq Nat /\ PathLengths \subseteq Nat

Ops == [file |-> {"read", "write", "lookup", "named"}, net |-> {"fetch"}]
WriteOps == {"write", "lookup", "named"}   \* sent through write_file
Ids == 1..MaxRequests
\* Every request is about an inode or a path of its own, so that any mix-up of two
\* requests shows; the object is named by the request's number.
Objects == Ids
NoObject == 0
Message == [id : 0..IdSpace - 1, op : Ops.file \cup Ops.net \cup {"none"},
            obj : Objects \cup {NoObject}]
NoAnswer == [op |-> "none", obj |-> NoObject, n |-> 0]
NoMessage == [id |-> 0, op |-> "none", obj |-> NoObject]
EmptyRing == [head |-> 0, tail |-> 0, len |-> 0,
              slots |-> [i \in 0..QueueDepth - 1 |-> NoMessage]]

VARIABLES
    kind,       \* "file" or "net"
    ring,       \* the endpoint SERVER_SEND_CAP names
    sendCap,    \* is SERVER_SEND_CAP set?
    reqs,       \* REQUESTS: id |-> request
    nextId,     \* NEXT_REQUEST_ID
    server,     \* "none", "dead", "ready", or the message it works on
    fetched,    \* what the server has of the request's data
    client,     \* the id each client polls for (0: none)
    lost,       \* ghost: requests that nobody will answer
    crashes

svars == <<kind, ring, sendCap, reqs, nextId, server, fetched, client, lost, crashes>>

None == [at |-> "none", msg |-> NoMessage]
Dead == [at |-> "dead", msg |-> NoMessage]
Ready == [at |-> "ready", msg |-> NoMessage]
At(where, m) == [at |-> where, msg |-> m]
NoData == [obj |-> NoObject, n |-> 0]

Init ==
    /\ kind \in {"file", "net"}
    /\ ring = EmptyRing
    /\ sendCap = FALSE
    /\ reqs = <<>>
    /\ nextId = 1
    /\ server = None
    /\ fetched = NoData
    /\ client = [c \in Clients |-> 0]
    /\ lost = {}
    /\ crashes = 0
-----------------------------------------------------------------------------
(* The ring of an endpoint.                                                *)

Full(r) == r.len >= QueueDepth

\* A writer that leaves the write position where it was.
Enqueue_SameHead(r, m) ==
    [r EXCEPT !.slots = [@ EXCEPT ![r.head] = m], !.len = @ + 1]

Enqueue(r, m) ==
    [r EXCEPT !.slots = [@ EXCEPT ![r.head] = m], !.head = (@ + 1) % QueueDepth,
              !.len = @ + 1]

\* A reader that takes the newest message.
Oldest_Newest(r) == r.slots[(r.head + QueueDepth - 1) % QueueDepth]

Oldest(r) == r.slots[r.tail]
Dequeue(r) == [r EXCEPT !.tail = (@ + 1) % QueueDepth, !.len = @ - 1]
Queue(r) == [i \in 1..r.len |-> r.slots[(r.tail + i - 1) % QueueDepth]]
-----------------------------------------------------------------------------
(* Clients.                                                                *)

\* An id cut down to one bit on its way into the message word.
Pack_Narrow(id, op, obj) ==
    [id |-> id % 2, op |-> op, obj |-> IF op \in {"read", "write"} THEN obj ELSE NoObject]

\* The message word: the id above, the operation and the inode below.  A path
\* does not fit: it stays in the request's data.
Pack(id, op, obj) ==
    [id |-> id % IdSpace, op |-> op, obj |-> IF op \in {"read", "write"} THEN obj ELSE NoObject]

\* What a client asks, which the table keeps, and the buffer it will poll with: an
\* application writes with a small buffer or none, reads with one that may be too
\* small, and has room for every other answer.
NewRequest(op, obj, len, max) ==
    [op |-> op, obj |-> obj, max |-> max, ready |-> FALSE, answer |-> NoAnswer,
     len |-> IF op \in WriteOps THEN Min({len, MaxBytes}) ELSE 0]
Gone == NewRequest("gone", NoObject, 0, 0)
DataLengths(op) == CASE op = "write" -> Lengths [] op \in WriteOps -> PathLengths [] OTHER -> {0}
BufSizes(op) == CASE op = "read" -> {1} [] op = "write" -> {0, 1} [] OTHER -> {MaxBytes}

\* request_file_internal, write_file, request_fetch: a server has registered.  A
\* full ring drops the message and the client gets its id all the same; so it
\* does when the endpoint is that of a dead server.
Request(c, op, len, max) ==
    /\ sendCap
    /\ client[c] = 0 /\ nextId <= MaxRequests
    /\ LET id == nextId
           kept == ~Full(ring)
       IN /\ nextId' = nextId + 1
          /\ reqs' = Append(reqs, NewRequest(op, id, len, max))
          /\ ring' = IF kept THEN Enqueue(ring, Pack(id, op, id)) ELSE ring
          /\ client' = [client EXCEPT ![c] = id]
          /\ lost' = IF kept /\ server.at # "dead" THEN lost ELSE lost \cup {id}
    /\ UNCHANGED <<kind, sendCap, server, fetched, crashes>>

\* The value poll_reply returns: the bytes copied out, except that a client
\* without a buffer, or one whose write is longer than its buffer, is told the
\* length of the reply.
PollValue(r) ==
    LET copied == Min({r.len, r.max})
    IN IF kind = "file" /\ (r.max = 0 \/ (r.op \in WriteOps /\ r.len > copied))
       THEN r.len ELSE copied

\* poll_reply finds the reply: the slot goes, the client goes on.  net_service
\* refuses to copy nothing (validate_user_buffer_writable).
Poll(c) ==
    LET id == client[c]
    IN /\ id # 0 /\ reqs[id].ready
       /\ kind = "net" => PollValue(reqs[id]) > 0
       /\ reqs' = [reqs EXCEPT ![id] = Gone]
       /\ client' = [client EXCEPT ![c] = 0]
       /\ UNCHANGED <<kind, ring, sendCap, nextId, server, fetched, lost, crashes>>

\* A client that counts its polls stops; its request stays in the table.
GiveUp(c) ==
    /\ client[c] # 0
    /\ client' = [client EXCEPT ![c] = 0]
    /\ UNCHANGED <<kind, ring, sendCap, reqs, nextId, server, fetched, lost, crashes>>
-----------------------------------------------------------------------------
(* The server.                                                             *)

InTable(id) == id \in DOMAIN reqs /\ reqs[id] # Gone
\* Requests a new endpoint leaves behind: messages of the old ring, and the one
\* in the server's hands.
Unread == {Queue(ring)[i].id : i \in 1..ring.len}
InHand == IF server.at \in {"none", "dead", "ready"} THEN {} ELSE {server.msg.id}

\* register_server, at the first start and at every restart: a new endpoint.
\* Only the network stack is supervised and comes back.
Register ==
    /\ server = None \/ (server = Dead /\ kind = "net")
    /\ server' = Ready
    /\ ring' = EmptyRing
    /\ sendCap' = TRUE
    /\ UNCHANGED <<kind, reqs, nextId, fetched, client, lost, crashes>>

\* The serving process faults.  Its endpoint stays, and stays the one requests
\* are sent to.
Crash ==
    /\ server.at \notin {"none", "dead"} /\ crashes < MaxCrashes
    /\ crashes' = crashes + 1
    /\ server' = Dead
    /\ fetched' = NoData
    /\ lost' = lost \cup Unread \cup InHand
    /\ UNCHANGED <<kind, ring, sendCap, reqs, nextId, client>>

\* SYS_IPC_TRY_RECEIVE, a message is there.
Receive ==
    /\ server = Ready /\ ring.len > 0
    /\ LET m == Oldest(ring)
       IN server' = At(IF m.op \in WriteOps THEN "fetch" ELSE "serve", m)
    /\ ring' = Dequeue(ring)
    /\ UNCHANGED <<kind, sendCap, reqs, nextId, fetched, client, lost, crashes>>

\* server_get_write_data: at most FetchMax bytes, and a failure when there are
\* none.  A write or a lookup is then dropped without a reply; the other
\* operations go on with an empty path.
Fetch ==
    /\ server.at = "fetch"
    /\ LET id == server.msg.id
           n == IF InTable(id) THEN Min({reqs[id].len, FetchMax}) ELSE 0
           drop == n = 0 /\ server.msg.op # "named"
       IN /\ server' = IF drop THEN Ready ELSE At("serve", server.msg)
          /\ fetched' = IF drop THEN NoData
                        ELSE [obj |-> IF n = 0 THEN NoObject ELSE reqs[id].obj, n |-> n]
          /\ lost' = IF drop THEN lost \cup {id} ELSE lost
    /\ UNCHANGED <<kind, ring, sendCap, reqs, nextId, client, crashes>>

\* What the server may come up with: a file of any size, all or part of the data
\* written, a page of any length; or no reply at all, when the network stack
\* connects and then cannot send.
Silent == MaxBytes + 1
Outcomes ==
    CASE kind = "net" -> {Silent, 0, MaxBytes}
      [] server.msg.op = "write" -> 0..fetched.n
      [] OTHER -> {0, MaxBytes}

\* A reply nobody is told of.
Answer_NotReady(r, op, obj, n) ==
    [r EXCEPT !.len = n, !.answer = [op |-> op, obj |-> obj, n |-> n]]

Answer(r, op, obj, n) ==
    [r EXCEPT !.ready = TRUE, !.len = n, !.answer = [op |-> op, obj |-> obj, n |-> n]]

\* server_reply by id.  net_service refuses an empty reply
\* (validate_user_buffer_readable), file_service takes it.
Reply(n) ==
    LET id == server.msg.id
        refused == n = Silent \/ (kind = "net" /\ n = 0)
        about == IF server.msg.op \in {"lookup", "named"} THEN fetched.obj ELSE server.msg.obj
        known == InTable(id) /\ ~refused
    IN /\ server.at = "serve"
       /\ reqs' = IF known THEN [reqs EXCEPT ![id] = Answer(@, server.msg.op, about, n)]
                  ELSE reqs
       /\ server' = Ready
       /\ fetched' = NoData
       /\ lost' = IF refused THEN lost \cup {id} ELSE lost
       /\ UNCHANGED <<kind, ring, sendCap, nextId, client, crashes>>

Serve == Receive \/ Fetch \/ \E n \in Outcomes : Reply(n)

Next ==
    \/ \E c \in Clients :
         \/ \E op \in Ops[kind] :
               \E len \in DataLengths(op), max \in BufSizes(op) : Request(c, op, len, max)
         \/ Poll(c)
         \/ GiveUp(c)
    \/ Register \/ Crash \/ Serve

(* A serving process and a polling client are threads the timer keeps      *)
(* running; nothing makes a dead server come back.                         *)
Fairness == WF_svars(Serve) /\ \A c \in Clients : WF_svars(Poll(c))
Spec == Init /\ [][Next]_svars /\ Fairness
-----------------------------------------------------------------------------
FifoQueue == INSTANCE Mailbox WITH Depth <- QueueDepth, queue <- Queue(ring)
\* The ring of head, tail and length is a bounded first-in first-out queue,
\* whatever the wrap-around.
Fifo == FifoQueue!Spec

Places == {"ring", "server", "lost"}
IsAt(id, place) ==
    CASE place = "ring" -> id \in Unread \ lost
      [] place = "server" -> id \in InHand
      [] OTHER -> id \in lost

\* No request falls through the cracks: one that is in the table and not answered
\* is in exactly one of three places, the server's ring, the server's hands, or
\* the set of requests some event is known to have cost its answer.
Accounted ==
    \A id \in DOMAIN reqs :
        InTable(id) /\ ~reqs[id].ready =>
            \E place \in Places : \A p \in Places : IsAt(id, p) <=> p = place

\* A reply is about what its client asked, however requests, replies, abandoned
\* polls and restarts interleave; and the length the client is told is the one
\* the server reported, cut only to the buffer of a client that reads.
AnswersMatch ==
    \A id \in DOMAIN reqs :
        LET r == reqs[id]
        IN r.ready =>
             /\ r.answer.op = r.op
             /\ r.answer.obj \in {r.obj, NoObject}
             /\ r.op = "write" => PollValue(r) = r.answer.n

\* A client that keeps polling gets its reply, unless its request is one of the
\* lost: dropped by a full ring, left with a dead server, or refused an answer.
PollReturns ==
    \A c \in Clients :
        (client[c] \notin lost \cup {0}) ~> (client[c] \in lost \cup {0})
=============================================================================
