----------------------------- MODULE Rendezvous -----------------------------
(***************************************************************************)
(* The blocking handshake of ipc.rs: send() and receive() on one endpoint. *)
(*                                                                         *)
(* Senders are threads inside a system call.  A system call runs with      *)
(* interrupts off and gives the core away only in spin_yield, so what a    *)
(* sender does between two waits is one step.  The receiver is a kernel    *)
(* thread, started with interrupts on: until its first spin_yield the      *)
(* timer may take the core from it between any two of its accesses, so     *)
(* each access is a step.  An endpoint has one receiver and may have       *)
(* several senders (both window clients signal the one "ready" endpoint).  *)
(***************************************************************************)
EXTENDS Naturals

CONSTANTS
    Senders,
    MaxSends    \* bound: how often each sender calls send()

ASSUME SendsBounded == MaxSends \in Nat

VARIABLES
    state,      \* Endpoint.state: "idle", "pending" or "taken"
    message,    \* Endpoint.message
    waiting,    \* senders that deposited and wait for MESSAGE_TAKEN
    rpc,        \* receiver: "load" the state, "copy" the message, "store" taken
    held,       \* receiver: its copy m of the message
    sent,       \* messages each sender has deposited
    received,   \* messages of each sender that receive() has returned
    done        \* calls of send() that have returned, by sender

rvars == <<state, message, waiting, rpc, held, sent, received, done>>

NoMsg == <<>>
\* A sender numbers its messages.
Messages == {<<s, n>> : s \in Senders, n \in 1..MaxSends}

RInit ==
    /\ state = "idle"
    /\ message = NoMsg
    /\ waiting = {}
    /\ rpc = "load"
    /\ held = NoMsg
    /\ sent = [s \in Senders |-> 0]
    /\ received = [s \in Senders |-> 0]
    /\ done = [s \in Senders |-> 0]

\* A careless first wait: only a pending message holds the sender back.
Deposit_NotPending(s) ==
    /\ s \notin waiting /\ sent[s] < MaxSends
    /\ state # "pending"
    /\ sent' = [sent EXCEPT ![s] = @ + 1]
    /\ message' = <<s, sent[s] + 1>>
    /\ state' = "pending"
    /\ waiting' = waiting \cup {s}
    /\ UNCHANGED <<rpc, held, received, done>>

\* send(), up to the second wait: the endpoint is idle, the message goes in.
Deposit(s) ==
    /\ s \notin waiting /\ sent[s] < MaxSends
    /\ state = "idle"
    /\ sent' = [sent EXCEPT ![s] = @ + 1]
    /\ message' = <<s, sent[s] + 1>>
    /\ state' = "pending"
    /\ waiting' = waiting \cup {s}
    /\ UNCHANGED <<rpc, held, received, done>>

\* A return that leaves the endpoint as it found it.
Confirm_NoReset(s) ==
    /\ s \in waiting
    /\ state = "taken"
    /\ waiting' = waiting \ {s}
    /\ done' = [done EXCEPT ![s] = @ + 1]
    /\ UNCHANGED <<state, message, rpc, held, sent, received>>

\* send(), after the second wait: the message was taken, the endpoint is idle
\* again and the call returns.
Confirm(s) ==
    /\ s \in waiting
    /\ state = "taken"
    /\ state' = "idle"
    /\ waiting' = waiting \ {s}
    /\ done' = [done EXCEPT ![s] = @ + 1]
    /\ UNCHANGED <<message, rpc, held, sent, received>>

\* receive(): the wait ends.
Load ==
    /\ rpc = "load"
    /\ state = "pending"
    /\ rpc' = "copy"
    /\ UNCHANGED <<state, message, waiting, held, sent, received, done>>

Copy ==
    /\ rpc = "copy"
    /\ held' = message
    /\ rpc' = "store"
    /\ UNCHANGED <<state, message, waiting, sent, received, done>>

\* The endpoint is marked taken and the caller has its message.
Store ==
    /\ rpc = "store"
    /\ state' = "taken"
    /\ rpc' = "load"
    /\ received' = [received EXCEPT ![held[1]] = held[2]]
    /\ held' = NoMsg
    /\ UNCHANGED <<message, waiting, sent, done>>

Receiver == Load \/ Copy \/ Store
RNext == (\E s \in Senders : Deposit(s) \/ Confirm(s)) \/ Receiver

(* The timer keeps giving every thread the core, and a thread that has it  *)
(* looks at the state again after each hlt.                                *)
RFairness == WF_rvars(Receiver) /\ \A s \in Senders : WF_rvars(Deposit(s) \/ Confirm(s))
RSpec == RInit /\ [][RNext]_rvars /\ RFairness
-----------------------------------------------------------------------------
RTypeOK ==
    /\ state \in {"idle", "pending", "taken"}
    /\ message \in Messages \cup {NoMsg}
    /\ waiting \subseteq Senders
    /\ rpc \in {"load", "copy", "store"}
    /\ held \in Messages \cup {NoMsg}
    /\ sent \in [Senders -> 0..MaxSends]
    /\ received \in [Senders -> 0..MaxSends]
    /\ done \in [Senders -> 0..MaxSends]

\* send() returns only when receive() has returned that very message: of each
\* sender the receiver has all messages whose send() returned and at most the one
\* being handed over, in the order they were sent.
SendConfirmed ==
    \A s \in Senders :
        /\ done[s] <= received[s] /\ received[s] <= sent[s]
        /\ sent[s] = done[s] + (IF s \in waiting THEN 1 ELSE 0)

(* What makes it so: the endpoint belongs to the one sender that waits,    *)
(* whose message stays in it until it is taken.                            *)
Handover ==
    /\ state = "idle" <=> waiting = {}
    /\ \A s, t \in waiting : s = t
    /\ \A s \in Senders \ waiting : received[s] = sent[s]
    /\ \A s \in waiting :
         /\ message = <<s, sent[s]>>
         /\ received[s] = (IF state = "taken" THEN sent[s] ELSE sent[s] - 1)
    /\ rpc # "load" => state = "pending"
    /\ rpc = "store" => held = message

RInv == RTypeOK /\ SendConfirmed /\ Handover

\* Every send() returns, the wait for an idle endpoint included, although the
\* senders compete for one endpoint and the receiver may be suspended between its
\* look at the state and its answer.
SendReturns == \A s \in Senders : <>(done[s] = MaxSends)
=============================================================================
