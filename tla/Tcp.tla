--------------------------------- MODULE Tcp ---------------------------------
(***************************************************************************)
(* The network stack's TCP client (netstack_driver/src/main.rs): its       *)
(* service loop takes a request, connects, sends the one request segment,  *)
(* receives the response, replies and closes, one connection at a time.    *)
(* The peer and the wire are external: the peer is a conforming TCP server *)
(* and the wire may lose, duplicate, delay and reorder any segment, so it  *)
(* is the set of segments ever sent: one that is never taken is lost, one  *)
(* taken twice is duplicated.  A segment the code polls and ignores is one *)
(* that is not taken; so is a frame tx_frame failed to send, but for the   *)
(* FIN, whose failure tcp_close acts on.                                   *)
(*                                                                         *)
(* Sequence numbers count units of data, 1 for the request and some for    *)
(* the response; `era' is the number of the connection, a history tag     *)
(* no guard of the stack reads.                                            *)
(***************************************************************************)
EXTENDS Naturals, Sequences

CONSTANTS Attempts,      \* transmissions of tcp_connect and tcp_send (3 in the code)
          BufLen,        \* room for the response (resp: [u8; 4096])
          RespLens,      \* lengths of the response the peer may send
          MaxConnections    \* bound: requests the service loop takes

ASSUME TcpAssumption ==
    /\ {Attempts, BufLen, MaxConnections} \subseteq Nat \ {0}
    /\ RespLens \subseteq Nat \ {0}

VARIABLES
    conn,    \* the stack: where it is, TcpConn, and the connection's number
    got,     \* resp[..total] of the current request
    peer,    \* the server's connection
    wire,    \* every segment sent
    crossed  \* history: the stack acted on a segment of an earlier connection

tcpVars == <<conn, got, peer, wire, crossed>>

\* The fixed initial sequence number of tcp_connect, here 0.
Isn == 0

\* The peer's initial sequence numbers, apart for different connections.
PeerIsn(era) == 10 * era

\* A unit of the response of connection era.
Unit(era, k) == <<era, k>>

Units(era, first, last) == [k \in 1 .. last + 1 - first |-> Unit(era, first - 1 + k)]

\* tcp_build: one segment.  data is the payload, as units.
Segment(to, flags, seq, ack, data, era) ==
    [to |-> to, flags |-> flags, seq |-> seq, ack |-> ack, data |-> data, era |-> era]

\* A segment of the current connection, from its send_next and recv_next.
Out(flags, c, data) ==
    Segment("peer", flags, c.sendNext, c.recvNext, data, c.era)

Sent(m) == wire' = wire \cup {m}

\* What the stack may find in its receive ring.
Arrived == {m \in wire : m.to = "stack"}

\* The stack acts on m; a segment of an earlier connection passes the test of
\* ports, because every connection uses port 53000 to the same port 80.
Take(m) ==
    /\ m \in Arrived
    /\ crossed' = (crossed \/ m.era # conn.era)

\* Between requests: no TcpConn; era requests have been taken.
NoConn(era) == [at |-> "idle", tries |-> 0, sendNext |-> 0, recvNext |-> 0,
                open |-> FALSE, era |-> era, end |-> "none"]

TcpInit ==
    /\ conn = NoConn(0)
    /\ got = <<>>
    /\ peer = [era |-> 0, state |-> "listen", rcvNxt |-> 0, sent |-> 0, len |-> 0]
    /\ wire = {}
    /\ crossed = FALSE

-----------------------------------------------------------------------------
(* The stack: the service loop, tcp_connect, tcp_send, tcp_recv, tcp_close  *)

\* SYS_IPC_TRY_RECEIVE returns a request: the loop calls tcp_connect.
TakeRequest ==
    /\ conn.at = "idle"
    /\ conn.era < MaxConnections
    /\ conn' = [conn EXCEPT !.at = "arp", !.era = @ + 1]
    /\ UNCHANGED <<got, peer, wire, crossed>>

\* The request ends without a connection: an empty reply, which the kernel
\* refuses (Service.tla).
ConnectFailed ==
    /\ conn' = NoConn(conn.era)
    /\ UNCHANGED <<got, peer, wire, crossed>>

\* arp_resolve: the table or three rounds of requests give the next hop's
\* address, or not.
ArpResolve ==
    /\ conn.at = "arp"
    /\ \/ /\ conn' = [conn EXCEPT !.at = "syn", !.tries = 0, !.sendNext = Isn + 1,
                                  !.recvNext = 0, !.open = TRUE]
          /\ UNCHANGED <<got, peer, wire, crossed>>
       \/ ConnectFailed

\* An attempt of tcp_connect: the first, or one after the wait ran out.
SynAttempt ==
    /\ conn.at = "syn"
    /\ conn.tries < Attempts
    /\ conn' = [conn EXCEPT !.tries = @ + 1]
    /\ Sent(Segment("peer", {"SYN"}, Isn, 0, <<>>, conn.era))
    /\ UNCHANGED <<got, peer, crossed>>

SynGivenUp ==
    /\ conn.at = "syn"
    /\ conn.tries = Attempts
    /\ ConnectFailed

\* tcp_wait_for finds SYN and ACK set: any such segment will do, its ack
\* number is not looked at.
SynAcked(m) ==
    /\ conn.at = "syn"
    /\ conn.tries > 0
    /\ Take(m)
    /\ {"SYN", "ACK"} \subseteq m.flags
    /\ conn' = [conn EXCEPT !.at = "send", !.tries = 0, !.recvNext = m.seq + 1]
    /\ Sent(Out({"ACK"}, conn', <<>>))
    /\ UNCHANGED <<got, peer>>

\* An attempt of tcp_send; the request is one unit.
SendAttempt ==
    /\ conn.at = "send"
    /\ conn.tries < Attempts
    /\ conn' = [conn EXCEPT !.tries = @ + 1]
    /\ Sent(Out({"PSH", "ACK"}, conn, <<Unit(conn.era, 0)>>))
    /\ UNCHANGED <<got, peer, crossed>>

\* The acknowledgement tcp_send waits for: exactly the end of the request.
AckOfRequest(m) == "ACK" \in m.flags /\ m.ack = conn.sendNext + 1

SendAcked(m) ==
    /\ conn.at = "send"
    /\ conn.tries > 0
    /\ Take(m)
    /\ AckOfRequest(m)
    /\ conn' = [conn EXCEPT !.at = "recv", !.sendNext = @ + 1]
    /\ UNCHANGED <<got, peer, wire>>

\* tcp_send returns false: the loop closes the connection and sends no reply.
SendGivenUp ==
    /\ conn.at = "send"
    /\ conn.tries = Attempts
    /\ conn' = [conn EXCEPT !.at = "close"]
    /\ UNCHANGED <<got, peer, wire, crossed>>

\* tcp_recv's tests, in their order: a reset, the next bytes, a FIN.
IsReset(m) == "RST" \in m.flags

IsNextData(m) == ~IsReset(m) /\ m.data # <<>> /\ m.seq = conn.recvNext

IsFin(m) == ~IsReset(m) /\ ~IsNextData(m) /\ "FIN" \in m.flags

\* What tcp_recv leaves in the connection; a FIN is taken wherever it stands.
Received(m) ==
    [conn EXCEPT !.recvNext = IF IsNextData(m) THEN @ + Len(m.data)
                              ELSE IF IsFin(m) THEN m.seq + 1 ELSE @,
                 !.open = @ /\ IsNextData(m)]

\* A segment tcp_recv returns for, acknowledged unless it is a reset.
RecvSegment(m, c) ==
    /\ Take(m)
    /\ IsReset(m) \/ IsNextData(m) \/ IsFin(m)
    /\ conn' = c
    /\ wire' = IF IsReset(m) THEN wire ELSE wire \cup {Out({"ACK"}, Received(m), <<>>)}

\* A mutant: one unit of room is given away.
Copied_ShortRoom(m) ==
    LET room == BufLen - Len(got) - 1
    IN  SubSeq(m.data, 1, IF Len(m.data) < room THEN Len(m.data) ELSE room)

\* min(payload, room) units are copied out, and the whole payload is
\* acknowledged.
Copied(m) ==
    LET room == BufLen - Len(got)
    IN  SubSeq(m.data, 1, IF Len(m.data) < room THEN Len(m.data) ELSE room)

\* Why the receive loop ended at m; a FIN beyond the bytes received so far
\* is an overtaking one.
EndOf(m) ==
    IF IsReset(m) THEN "reset"
    ELSE IF IsNextData(m) THEN "full"
    ELSE IF m.seq + Len(m.data) = conn.recvNext THEN "fin" ELSE "overtaken"

\* One call of tcp_recv in the receive loop that returns for a segment.
RecvLoop(m) ==
    /\ conn.at = "recv"
    /\ got' = IF IsNextData(m) THEN got \o Copied(m) ELSE got
    /\ LET more == IsNextData(m) /\ Len(got') < BufLen
       IN  RecvSegment(m, [Received(m) EXCEPT !.at = IF more THEN "recv" ELSE "reply",
                                              !.end = IF more THEN @ ELSE EndOf(m)])
    /\ UNCHANGED <<peer>>

\* One that returns 0 because its spins ran out: the loop breaks.
RecvTimeout ==
    /\ conn.at = "recv"
    /\ conn' = [conn EXCEPT !.at = "reply", !.end = "timeout"]
    /\ UNCHANGED <<got, peer, wire, crossed>>

\* The reply with the bytes received, then tcp_close, which returns at once
\* when the connection is no longer open.
SendReply ==
    /\ conn.at = "reply"
    /\ conn' = IF conn.open THEN [conn EXCEPT !.at = "close", !.end = "none"]
               ELSE NoConn(conn.era)
    /\ got' = <<>>
    /\ UNCHANGED <<peer, wire, crossed>>

\* tcp_close sends its FIN once, or fails to and does not wait for its ACK.
CloseFin ==
    /\ conn.at = "close"
    /\ \/ /\ Sent(Out({"FIN", "ACK"}, conn, <<>>))
          /\ conn' = [conn EXCEPT !.at = "finwait", !.sendNext = @ + 1]
       \/ /\ conn' = [conn EXCEPT !.at = "drain"]
          /\ UNCHANGED wire
    /\ UNCHANGED <<got, peer, crossed>>

\* Any ACK, or none in time; then one tcp_recv.
CloseAck ==
    /\ conn.at = "finwait"
    /\ \/ \E m \in Arrived : "ACK" \in m.flags /\ Take(m)
       \/ UNCHANGED crossed
    /\ conn' = [conn EXCEPT !.at = "drain"]
    /\ UNCHANGED <<got, peer, wire>>

\* The last tcp_recv of tcp_close: whatever it returns, the state is Closed2.
CloseDrain ==
    /\ conn.at = "drain"
    /\ \/ \E m \in Arrived : RecvSegment(m, NoConn(conn.era))
       \/ /\ conn' = NoConn(conn.era)
          /\ UNCHANGED <<wire, crossed>>
    /\ UNCHANGED <<got, peer>>

-----------------------------------------------------------------------------
(* The peer, external: a conforming server                                  *)

PeerOut(flags, p, data, k) ==
    Segment("stack", flags, PeerIsn(p.era) + k, p.rcvNxt, data, p.era)

\* A segment addressed to the peer whose ack number is in the peer's window.
Acceptable(m) ==
    /\ m.to = "peer"
    /\ "ACK" \in m.flags
    /\ m.ack \in PeerIsn(peer.era) + 1 .. PeerIsn(peer.era) + 2 + peer.sent

\* A new connection; an old SYN does not come back to life at the peer, and
\* what is still on its way to it from earlier connections is as good as gone,
\* its ack numbers being outside the new window.
PeerSyn(m) ==
    /\ m.flags = {"SYN"} /\ m.to = "peer"
    /\ m.era > peer.era
    /\ peer' = [era |-> m.era, state |-> "listen", rcvNxt |-> m.seq + 1, sent |-> 0,
                len |-> 0]
    /\ wire' = {w \in wire : w.to = "stack" \/ w.era = m.era}
               \cup {PeerOut({"SYN", "ACK"}, peer', <<>>, 0)}
    /\ UNCHANGED <<conn, got, crossed>>

\* The request arrives in order and is acknowledged at once.
PeerRequest(m) ==
    /\ peer.state = "listen" /\ peer.era > 0
    /\ Acceptable(m)
    /\ m.data # <<>> /\ m.seq = peer.rcvNxt
    /\ \E len \in RespLens :
          peer' = [peer EXCEPT !.state = "asked", !.rcvNxt = @ + 1, !.len = len]
    /\ Sent(PeerOut({"ACK"}, peer', <<>>, 1))
    /\ UNCHANGED <<conn, got, crossed>>

\* The next n units of the response, the last segment with or without a FIN.
PeerData ==
    /\ peer.state = "asked"
    /\ \E n \in 1 .. 2 : \E fin \in SUBSET {"FIN"} :
          /\ peer.sent + n <= peer.len
          /\ fin # {} => peer.sent + n = peer.len
          /\ peer' = [peer EXCEPT !.sent = @ + n,
                                  !.state = IF fin = {} THEN @ ELSE "done"]
          /\ Sent(PeerOut({"ACK"} \cup fin, peer,
                          Units(peer.era, peer.sent + 1, peer.sent + n),
                          peer.sent + 1))
    /\ UNCHANGED <<conn, got, crossed>>

\* Everything is sent: a FIN of its own.
PeerFin ==
    /\ peer.state = "asked"
    /\ peer.sent = peer.len
    /\ peer' = [peer EXCEPT !.state = "done"]
    /\ Sent(PeerOut({"FIN", "ACK"}, peer, <<>>, peer.sent + 1))
    /\ UNCHANGED <<conn, got, crossed>>

\* The stack's FIN is acknowledged.
PeerAcksFin(m) ==
    /\ Acceptable(m)
    /\ "FIN" \in m.flags /\ m.seq = peer.rcvNxt
    /\ peer' = [peer EXCEPT !.rcvNxt = @ + 1]
    /\ Sent(PeerOut({"ACK"}, peer', <<>>, peer.sent + 1))
    /\ UNCHANGED <<conn, got, crossed>>

\* The server gives the connection up.
PeerReset ==
    /\ peer.state \in {"listen", "asked"} /\ peer.era > 0
    /\ peer' = [peer EXCEPT !.state = "done"]
    /\ Sent(PeerOut({"RST"}, peer, <<>>, peer.sent + 1))
    /\ UNCHANGED <<conn, got, crossed>>

-----------------------------------------------------------------------------
StackStep ==
    \/ TakeRequest \/ ArpResolve \/ SynAttempt \/ SynGivenUp
    \/ SendAttempt \/ SendGivenUp \/ RecvTimeout \/ SendReply
    \/ CloseFin \/ CloseAck \/ CloseDrain
    \/ \E m \in Arrived : SynAcked(m) \/ SendAcked(m) \/ RecvLoop(m)

PeerStep ==
    \/ PeerData \/ PeerFin \/ PeerReset
    \/ \E m \in wire : PeerSyn(m) \/ PeerRequest(m) \/ PeerAcksFin(m)

TcpNext == StackStep \/ PeerStep

TcpSpec == TcpInit /\ [][TcpNext]_tcpVars

-----------------------------------------------------------------------------
(* Properties                                                               *)

Least2(a, b) == IF a < b THEN a ELSE b

\* Whatever the wire loses, repeats or reorders, the bytes in the response
\* buffer, which the reply is made of, are the first bytes of the response to
\* that request, each once and in order; when tcp_send has returned true the
\* server has the request; and a reply sent because the peer closed, or the
\* buffer is full, holds the whole response as far as it fits.  Two exceptions:
\* a FIN that overtook data still on the wire, which tcp_recv does not test
\* for, and a segment of an earlier connection: the ports and the initial
\* sequence number are the same every time, so it is taken for one of the
\* current connection.
StreamTrue ==
    ~crossed =>
       /\ got = Units(conn.era, 1, Len(got))
       /\ conn.at \in {"recv", "reply"} =>
             peer.era = conn.era /\ peer.rcvNxt > Isn + 1
       /\ conn.at = "reply" /\ conn.end \in {"fin", "full"} =>
             Len(got) = Least2(BufLen, peer.len)
=============================================================================
