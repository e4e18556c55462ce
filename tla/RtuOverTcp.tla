----------------------------- MODULE RtuOverTcp -----------------------------
(***************************************************************************)
(* The raw RTU-over-TCP client (rtu_over_tcp.py): one persistent stream,   *)
(* reopened by the next request after a failed exchange closed it, and not *)
(* reopened after close().  The peer is a gateway that answers a request   *)
(* on the connection it came from, whole or in two parts, late, with bytes *)
(* that are no frame, or not at all, and may drop the connection.  One     *)
(* request at a time: SerializedModbusClient serializes them.              *)
(***************************************************************************)
EXTENDS Naturals, Sequences

CONSTANTS
    MaxBuffer,    \* pieces the receive buffer keeps (257 bytes)
    MaxRequests,  \* bound for TLC
    Unanswered

ASSUME TcpAssumption ==
    /\ MaxBuffer \in Nat \ {0, 1}
    /\ MaxRequests \in Nat
    /\ Unanswered \notin Nat

VARIABLES
    conn,      \* _transport and _protocol: a connection, or 0 for None
    fresh,     \* the connection create_connection has made, or 0
    made,      \* number of connections made
    opened,    \* connections whose transport is open
    lost,      \* the protocol of the request in progress is lost
    buffer,    \* its buffer
    closed,    \* _explicitly_closed
    pc,        \* where the call in progress is
    seq,       \* number of requests written
    wire,      \* pieces on their way to the client, in order
    owed,      \* requests the peer has not answered on this connection
    accepted   \* history: the request whose reply the last call returned

stream == <<conn, fresh, made, opened, lost>>
peer == <<wire, owed>>
vars == <<conn, fresh, made, opened, lost, buffer, closed, pc, seq, wire, owed, accepted>>

Piece == [of : Nat, part : {"whole", "head", "tail", "bad"}]

TypeOK ==
    /\ conn \in Nat
    /\ fresh \in Nat
    /\ made \in Nat
    /\ opened \subseteq Nat
    /\ lost \in BOOLEAN
    /\ buffer \in Seq(Piece)
    /\ Len(buffer) <= MaxBuffer
    /\ closed \in BOOLEAN
    /\ pc \in {"new", "idle", "connecting", "established", "waiting"}
    /\ seq \in Nat
    /\ wire \in Seq(Piece)
    /\ owed \in Seq(Nat)
    /\ accepted \in Nat \cup {Unanswered}

Init ==
    /\ conn = 0
    /\ fresh = 0
    /\ made = 0
    /\ opened = {}
    /\ lost = FALSE
    /\ buffer = <<>>
    /\ closed = FALSE
    /\ pc = "new"
    /\ seq = 0
    /\ wire = <<>>
    /\ owed = <<>>
    /\ accepted = Unanswered

-----------------------------------------------------------------------------
(* create_connection has a new connection; nobody else knows it yet.       *)
Make ==
    /\ made' = made + 1
    /\ fresh' = made + 1
    /\ opened' = opened \cup {made + 1}
    /\ lost' = FALSE
    /\ buffer' = <<>>
    /\ wire' = <<>>
    /\ owed' = <<>>

(* _disconnect.                                                            *)
Disconnect ==
    /\ conn' = 0
    /\ lost' = TRUE
    /\ opened' = opened \ {conn}
    /\ wire' = <<>>
    /\ owed' = <<>>

(* connect_modbus connects a client before it hands it out; a client whose *)
(* connect failed is thrown away.                                          *)
Connect ==
    /\ pc = "new"
    /\ conn' = made + 1
    /\ made' = made + 1
    /\ opened' = opened \cup {made + 1}
    /\ pc' = "idle"
    /\ UNCHANGED <<fresh, lost, buffer, closed, seq, peer, accepted>>

(* The connection a waiting connect() is given later is not known yet.     *)
Close ==
    /\ pc # "new"
    /\ closed' = TRUE
    /\ IF conn # 0 THEN Disconnect ELSE UNCHANGED <<conn, lost, opened, peer>>
    /\ UNCHANGED <<fresh, made, buffer, pc, seq, accepted>>

-----------------------------------------------------------------------------
(* One request.  A failure of any kind discards the stream.                *)

(* Mutant: the call fails and the stream is kept.                          *)
FailCallKeeping ==
    /\ pc' = "idle"
    /\ UNCHANGED <<stream, buffer, closed, seq, peer, accepted>>

FailCall ==
    /\ pc' = "idle"
    /\ Disconnect
    /\ UNCHANGED <<fresh, made, buffer, closed, seq, accepted>>

Write ==
    /\ pc' = "waiting"
    /\ seq' = seq + 1
    /\ accepted' = Unanswered
    /\ owed' = IF lost THEN owed ELSE Append(owed, seq + 1)

(* Nothing is sent over a stream with unsolicited data in its buffer; a    *)
(* stream that is gone is made again; a closed client refuses.             *)
Request ==
    /\ pc = "idle"
    /\ ~closed
    /\ seq < MaxRequests
    /\ \/ /\ conn # 0 /\ ~lost
          /\ \/ buffer # <<>> /\ FailCall
             \/ /\ buffer = <<>>
                /\ Write
                /\ UNCHANGED <<stream, buffer, closed, wire>>
       \/ /\ conn = 0 \/ lost
          /\ pc' = "connecting"
          /\ Disconnect
          /\ UNCHANGED <<fresh, made, buffer, closed, seq, accepted>>

Established ==
    /\ pc = "connecting"
    /\ made <= MaxRequests
    /\ Make
    /\ pc' = "established"
    /\ UNCHANGED <<conn, closed, seq, accepted>>

(* The connection just made is closed and the call ends.                   *)
Discard ==
    /\ pc' = "idle"
    /\ lost' = TRUE
    /\ opened' = opened \ {fresh}
    /\ wire' = <<>>
    /\ owed' = <<>>

(* Mutants: a connection made for a closed client is used, or is forgotten *)
(* without closing it.                                                     *)
ResumeUnchecked ==
    /\ pc = "established"
    /\ fresh' = 0
    /\ buffer = <<>>
    /\ conn' = fresh
    /\ Write
    /\ UNCHANGED <<lost, opened, wire, made, buffer, closed>>

ResumeForgetting ==
    /\ pc = "established"
    /\ fresh' = 0
    /\ \/ /\ closed
          /\ pc' = "idle"
          /\ UNCHANGED <<conn, lost, opened, seq, peer, accepted>>
       \/ /\ ~closed /\ buffer = <<>>
          /\ conn' = fresh
          /\ Write
          /\ UNCHANGED <<lost, opened, wire>>
    /\ UNCHANGED <<made, buffer, closed>>

(* connect() and _request go on without an await in between: the           *)
(* connection is discarded if the client was closed meanwhile, or if it    *)
(* already has unsolicited data.                                           *)
Resume ==
    /\ pc = "established"
    /\ fresh' = 0
    /\ \/ /\ closed \/ buffer # <<>>
          /\ Discard
          /\ UNCHANGED <<conn, seq, accepted>>
       \/ /\ ~closed /\ buffer = <<>>
          /\ conn' = fresh
          /\ Write
          /\ UNCHANGED <<lost, opened, wire>>
    /\ UNCHANGED <<made, buffer, closed>>

(* What is in the buffer is the answer, the beginning of it, or something  *)
(* else: another device, function, length or CRC, or trailing bytes.       *)
Complete ==
    \/ Len(buffer) = 1 /\ buffer[1].part = "whole"
    \/ /\ Len(buffer) = 2
       /\ buffer[1].part = "head" /\ buffer[2].part = "tail" /\ buffer[1].of = buffer[2].of

Beginning ==
    \/ buffer = <<>>
    \/ Len(buffer) = 1 /\ buffer[1].part = "head"

Accept ==
    /\ pc = "waiting"
    /\ Complete
    /\ pc' = "idle"
    /\ accepted' = buffer[1].of
    /\ buffer' = <<>>
    /\ UNCHANGED <<stream, closed, seq, peer>>

Refuse ==
    /\ pc = "waiting"
    /\ ~Complete
    /\ ~Beginning \/ lost
    /\ FailCall

(* The one deadline of the request expires, or it is cancelled; a          *)
(* connection that was just made is closed by create_connection.           *)
Abort ==
    \/ pc = "waiting" /\ FailCall
    \/ /\ pc \in {"connecting", "established"}
       /\ Discard
       /\ fresh' = 0
       /\ UNCHANGED <<conn, made, buffer, closed, seq, accepted>>

-----------------------------------------------------------------------------
(* The peer and the stream.                                                *)

Put(pieces) ==
    /\ Len(wire) + Len(pieces) <= MaxBuffer
    /\ wire' = wire \o pieces
    /\ UNCHANGED <<stream, buffer, closed, pc, seq, accepted>>

PeerReply ==
    /\ owed # <<>>
    /\ owed' = Tail(owed)
    /\ \/ Put(<<[of |-> Head(owed), part |-> "whole"]>>)
       \/ Put(<<[of |-> Head(owed), part |-> "head"], [of |-> Head(owed), part |-> "tail"]>>)

PeerNoise ==
    /\ ~lost
    /\ conn # 0 \/ fresh # 0
    /\ Put(<<[of |-> 0, part |-> "bad"]>>)
    /\ UNCHANGED owed

(* data_received keeps no more than the buffer holds.                      *)
DataReceived ==
    /\ wire # <<>>
    /\ wire' = Tail(wire)
    /\ buffer' = IF Len(buffer) < MaxBuffer THEN Append(buffer, Head(wire)) ELSE buffer
    /\ UNCHANGED <<stream, closed, pc, seq, owed, accepted>>

ConnectionLost ==
    /\ ~lost
    /\ conn # 0 \/ fresh # 0
    /\ lost' = TRUE
    /\ opened' = opened \ {conn, fresh}
    /\ wire' = <<>>
    /\ owed' = <<>>
    /\ UNCHANGED <<conn, fresh, made, buffer, closed, pc, seq, accepted>>

-----------------------------------------------------------------------------
Next ==
    \/ Connect
    \/ Close
    \/ Request
    \/ Established
    \/ Resume
    \/ Accept
    \/ Refuse
    \/ Abort
    \/ PeerReply
    \/ PeerNoise
    \/ DataReceived
    \/ ConnectionLost

Spec == Init /\ [][Next]_vars

-----------------------------------------------------------------------------
(* Explicit close() prevents implicit reopening: a closed client holds no  *)
(* stream, whatever call was in progress (rtu_over_tcp.py:97-129).         *)
ClosedStaysClosed == closed => conn = 0

(* No connection is left open that the client does not hold, or is about   *)
(* to hold: failed, interrupted and superseded ones are closed.            *)
NothingLeaks == opened \subseteq ({conn, fresh} \ {0}) /\ (fresh # 0 => pc = "established")

(* The client implements the exchange service: a request is written at     *)
(* most once, and the answer is its own, although frames carry no          *)
(* transaction id: a failed exchange discards the stream.                  *)
Exchange == INSTANCE ExchangeService
    WITH call <- seq, open <- pc = "waiting", answer <- accepted
ImplementsExchange == Exchange!ExchangeSpec
=============================================================================
