------------------------------- MODULE MCIpc -------------------------------
(* Model values and bounds for the two IPC protocols.  They share no state; *)
(* part says which of the two a behaviour exercises.                        *)
EXTENDS Rendezvous, Service

VARIABLE part

mcvars == <<part, rvars, svars>>

MCInit == part \in {"handshake", "service"} /\ RInit /\ Init /\ (part = "handshake" => kind = "file")

Handshake(A) == part = "handshake" /\ A /\ UNCHANGED <<part, svars>>
Services(A) == part = "service" /\ A /\ UNCHANGED <<part, rvars>>

MCNext == Handshake(RNext) \/ Services(Next)

MCSpec ==
    /\ MCInit /\ [][MCNext]_mcvars
    /\ WF_mcvars(Handshake(Receiver))
    /\ \A s \in Senders : WF_mcvars(Handshake(Deposit(s) \/ Confirm(s)))
    /\ WF_mcvars(Services(Serve))
    /\ \A c \in Clients : WF_mcvars(Services(Poll(c)))

\* Rendezvous!SendReturns, where the handshake is what runs.
HandshakeReturns == part = "handshake" => SendReturns
=============================================================================
