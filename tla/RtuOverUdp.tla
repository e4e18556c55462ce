----------------------------- MODULE RtuOverUdp -----------------------------
(***************************************************************************)
(* The raw RTU-over-UDP client (rtu_over_udp.py).  RTU frames carry no     *)
(* transaction id, so the client cannot tell the answer of one request     *)
(* from a late answer of another.  It keeps one socket on a fixed local    *)
(* port, discards what is queued before it sends, and after a request that *)
(* went out and ended without a valid answer it gives the socket up and    *)
(* leaves the port unbound for a quarantine before it binds a new one: a   *)
(* new transport epoch.                                                    *)
(*                                                                         *)
(* A reply is one datagram, two (a head and a tail), or comes with bytes   *)
(* that are no frame; the network reorders and loses datagrams and         *)
(* delivers none later than MaxDelay after the request.  Datagrams of      *)
(* other sources come without end; a request ignores them, and while no    *)
(* request waits they only take their share of what is discarded.          *)
(***************************************************************************)
EXTENDS Naturals, Sequences

CONSTANTS
    Shapes,       \* device, function and length: what a frame is checked for
    Timeout,      \* response timeout, in ticks
    Quarantine,   \* RTU_OVER_UDP_EPOCH_QUARANTINE_SECONDS, in ticks
    MaxStale,     \* _MAX_STALE_DATAGRAMS
    MaxDelay,     \* bound on the life of a datagram
    Duplicates,   \* the network duplicates datagrams
    MaxRequests,  \* bound for TLC
    Unanswered

ASSUME UdpAssumption ==
    /\ Timeout \in Nat \ {0}
    /\ Quarantine \in Nat
    /\ MaxStale \in Nat
    /\ MaxDelay \in Nat \ {0}
    /\ MaxDelay <= Quarantine
    /\ Duplicates \in BOOLEAN
    /\ MaxRequests \in Nat
    /\ Unanswered \notin Nat

VARIABLES
    bound,      \* the fixed port is bound: _socket is not None
    epoch,      \* _transport_epoch
    tainted,    \* _epoch_tainted
    remaining,  \* ticks until _ambiguity_started + quarantine
    closed,     \* _explicitly_closed
    pc,         \* where the call in progress is
    seq,        \* _request_sequence
    shape,      \* what the request asks for
    deadline,   \* ticks until its deadline
    frame,      \* the datagrams accumulated for it
    ignored,    \* history: it ignored an odd number of datagrams of other sources
    queue,      \* datagrams in the socket
    flight,     \* datagrams on their way
    accepted    \* history: the request whose reply it returned

transport == <<bound, epoch, tainted, remaining, closed>>
vars == <<bound, epoch, tainted, remaining, closed, pc, seq, shape, deadline, frame,
          ignored, queue, flight, accepted>>

Phases == {"new", "idle", "recovering", "sending", "waiting"}
Parts == {"whole", "head", "tail", "bad"}
Datagram == [of : Nat, epoch : Nat, shape : Shapes, part : Parts, copy : {0, 1},
             life : Nat \ {0}]

TypeOK ==
    /\ bound \in BOOLEAN
    /\ epoch \in Nat
    /\ tainted \in BOOLEAN
    /\ remaining \in 0..Quarantine
    /\ closed \in BOOLEAN
    /\ pc \in Phases
    /\ seq \in Nat
    /\ shape \in Shapes
    /\ deadline \in 0..Timeout
    /\ frame \in Seq(Datagram)
    /\ ignored \in BOOLEAN
    /\ queue \in Seq(Datagram)
    /\ flight \subseteq Datagram
    /\ accepted \in Nat \cup {Unanswered}

Init ==
    /\ bound = FALSE
    /\ epoch = 0
    /\ tainted = FALSE
    /\ remaining = 0
    /\ closed = FALSE
    /\ pc = "new"
    /\ seq = 0
    /\ shape \in Shapes
    /\ deadline = 0
    /\ frame = <<>>
    /\ ignored = FALSE
    /\ queue = <<>>
    /\ flight = {}
    /\ accepted = Unanswered

-----------------------------------------------------------------------------
(* Opening and closing.  connect_modbus connects a client before it hands  *)
(* it out; a client whose connect failed is thrown away.                   *)

Bind ==
    /\ bound' = TRUE
    /\ epoch' = epoch + 1
    /\ tainted' = FALSE
    /\ remaining' = 0

Connect ==
    /\ pc = "new"
    /\ Bind
    /\ pc' = "idle"
    /\ UNCHANGED <<closed, seq, shape, deadline, frame, ignored, queue, flight, accepted>>

(* A datagram the waiting request was already handed survives its socket.  *)
Close ==
    /\ pc # "new"
    /\ closed' = TRUE
    /\ bound' = FALSE
    /\ tainted' = FALSE
    /\ remaining' = 0
    /\ \/ queue' = <<>>
       \/ pc = "waiting" /\ queue # <<>> /\ queue' = <<Head(queue)>>
    /\ UNCHANGED <<epoch, pc, seq, shape, deadline, frame, ignored, flight, accepted>>

(* Mutant: the port is bound again without a quarantine.                   *)
TaintUnquarantined ==
    /\ tainted' = TRUE
    /\ remaining' = 0
    /\ bound' = FALSE
    /\ queue' = <<>>

(* A request that may have gone out ended without a valid answer: the      *)
(* socket and what is in it are given up.                                  *)
Taint ==
    /\ tainted' = TRUE
    /\ remaining' = Quarantine
    /\ bound' = FALSE
    /\ queue' = <<>>

-----------------------------------------------------------------------------
(* One request.                                                            *)

(* Only what is already queued is discarded, and at most MaxStale of it,   *)
(* the datagrams of other sources included.                                *)
Drains(q) == {SubSeq(q, n + 1, Len(q)) : n \in 0..MaxStale}

BeginSend(s, q) ==
    /\ pc' = "sending"
    /\ seq' = seq + 1
    /\ shape' = s
    /\ queue' \in Drains(q)
    /\ accepted' = Unanswered

(* Mutant: a tainted epoch is refused, nobody recovers it.                 *)
RequestRefusing(s) ==
    /\ pc = "idle"
    /\ seq < MaxRequests
    /\ ~tainted
    /\ bound
    /\ BeginSend(s, queue)
    /\ UNCHANGED <<transport, deadline, frame, ignored, flight>>

(* A tainted epoch is recovered first; a closed client refuses.            *)
Request(s) ==
    /\ pc = "idle"
    /\ seq < MaxRequests
    /\ \/ /\ tainted
          /\ pc' = "recovering"
          /\ shape' = s
          /\ UNCHANGED <<seq, queue, accepted>>
       \/ ~tainted /\ bound /\ BeginSend(s, queue)
    /\ UNCHANGED <<transport, deadline, frame, ignored, flight>>

(* Mutants: a failed recovery tries again in the same call until the port  *)
(* is bound; the recovery does not look at the client being closed.        *)
RecoverRetrying ==
    /\ pc = "recovering"
    /\ remaining = 0
    /\ ~closed
    /\ remaining' = Quarantine
    /\ UNCHANGED <<bound, epoch, tainted, closed, pc, seq, shape, deadline, frame, ignored,
                   queue, flight, accepted>>

RecoverClosed ==
    /\ pc = "recovering"
    /\ remaining = 0
    /\ Bind
    /\ BeginSend(shape, <<>>)
    /\ UNCHANGED <<closed, deadline, frame, ignored, flight>>

(* The quarantine is over: a port that cannot be bound starts another one; *)
(* a bound one is used at once.                                            *)
RecoverFails ==
    /\ pc = "recovering"
    /\ remaining = 0
    /\ pc' = "idle"
    /\ \/ closed /\ UNCHANGED remaining
       \/ ~closed /\ remaining' = Quarantine
    /\ UNCHANGED <<bound, epoch, tainted, closed, seq, shape, deadline, frame, ignored,
                   queue, flight, accepted>>

Recover ==
    /\ pc = "recovering"
    /\ remaining = 0
    /\ ~closed
    /\ Bind
    /\ BeginSend(shape, <<>>)
    /\ UNCHANGED <<closed, deadline, frame, ignored, flight>>

(* What the device and the network can make of the request.                *)
Reply(part, copy) ==
    [of |-> seq, epoch |-> epoch, shape |-> shape, part |-> part, copy |-> copy,
     life |-> MaxDelay]

Replies ==
    {{}, {Reply("whole", 0)}, {Reply("head", 0), Reply("tail", 0)},
     {Reply("bad", 0), Reply("whole", 0)}}
    \cup {{Reply("whole", 0), Reply("whole", 1)} : d \in {TRUE} \cap {Duplicates}}

PutOnWire == \E reply \in Replies : flight' = flight \cup reply

Send ==
    /\ pc = "sending"
    /\ bound
    /\ PutOnWire
    /\ pc' = "waiting"
    /\ deadline' = Timeout
    /\ UNCHANGED <<transport, seq, shape, frame, ignored, queue, accepted>>

End ==
    /\ pc' = "idle"
    /\ frame' = <<>>
    /\ ignored' = FALSE
    /\ deadline' = 0
    /\ UNCHANGED <<seq, shape>>

(* Draining or sending raises OSError: nothing went out.                   *)
SendError ==
    /\ pc = "sending"
    /\ End
    /\ UNCHANGED <<transport, queue, flight, accepted>>

(* What has accumulated is the frame asked for, the beginning of it, or    *)
(* something else.                                                         *)
Complete(f) ==
    /\ f[1].shape = shape
    /\ \/ Len(f) = 1 /\ f[1].part = "whole"
       \/ Len(f) = 2 /\ f[1].part = "head" /\ f[2].part = "tail" /\ f[1].of = f[2].of

Beginning(f) == f[1].shape = shape /\ Len(f) = 1 /\ f[1].part = "head"

Accept(f) ==
    /\ Complete(f)
    /\ End
    /\ accepted' = f[1].of
    /\ queue' = Tail(queue)
    /\ UNCHANGED transport

(* Something else is kept as long as it is too short to tell.              *)
KeepWaiting(f) ==
    /\ ~Complete(f)
    /\ frame' = f
    /\ queue' = Tail(queue)
    /\ UNCHANGED <<transport, pc, seq, shape, deadline, ignored, accepted>>

(* Wrong function, wrong length, wrong CRC, trailing bytes.                *)
Refuse(f) ==
    /\ ~Complete(f)
    /\ ~Beginning(f)
    /\ End
    /\ Taint
    /\ UNCHANGED <<epoch, closed, accepted>>

Receive ==
    /\ pc = "waiting"
    /\ queue # <<>>
    /\ LET f == Append(frame, Head(queue)) IN Accept(f) \/ KeepWaiting(f) \/ Refuse(f)
    /\ UNCHANGED flight

(* Mutant: the deadline is a timeout after the last datagram.              *)
IgnoreRestarting ==
    /\ pc = "waiting"
    /\ bound
    /\ deadline > 0
    /\ ignored' = ~ignored
    /\ deadline' = Timeout
    /\ UNCHANGED <<transport, pc, seq, shape, frame, queue, flight, accepted>>

(* A datagram of another source: the deadline stays where it is.           *)
Ignore ==
    /\ pc = "waiting"
    /\ bound
    /\ deadline > 0
    /\ ignored' = ~ignored
    /\ UNCHANGED <<transport, pc, seq, shape, deadline, frame, queue, flight, accepted>>

(* Mutant: a request that timed out leaves the socket open.                *)
ResponseTimeoutUntainted ==
    /\ pc = "waiting"
    /\ deadline = 0
    /\ End
    /\ UNCHANGED <<transport, queue, flight, accepted>>

ResponseTimeout ==
    /\ pc = "waiting"
    /\ deadline = 0
    /\ End
    /\ Taint
    /\ UNCHANGED <<epoch, closed, flight, accepted>>

(* The next receive of a closed client fails: not an OSError, no taint.    *)
ReceiveClosed ==
    /\ pc = "waiting"
    /\ ~bound
    /\ End
    /\ UNCHANGED <<transport, queue, flight, accepted>>

(* A cancelled request taints the epoch once its send was attempted.       *)
Cancel ==
    /\ \/ pc = "recovering" /\ UNCHANGED <<bound, tainted, remaining, queue, flight>>
       \/ pc = "sending" /\ Taint /\ (PutOnWire \/ UNCHANGED flight)
       \/ pc = "waiting" /\ Taint /\ UNCHANGED flight
    /\ End
    /\ UNCHANGED <<epoch, closed, accepted>>

-----------------------------------------------------------------------------
(* The network, and time.                                                  *)

(* A datagram reaches the port, and the socket if one is bound.            *)
Deliver(d) ==
    /\ flight' = flight \ {d}
    /\ queue' = IF bound THEN Append(queue, d) ELSE queue
    /\ UNCHANGED <<transport, pc, seq, shape, deadline, frame, ignored, accepted>>

Lose(d) ==
    /\ flight' = flight \ {d}
    /\ UNCHANGED <<transport, pc, seq, shape, deadline, frame, ignored, queue, accepted>>

Sooner(n) == IF n > 0 THEN n - 1 ELSE 0

Tick ==
    /\ deadline' = Sooner(deadline)
    /\ remaining' = Sooner(remaining)
    /\ flight' = {[d EXCEPT !.life = @ - 1] : d \in {e \in flight : e.life > 1}}
    /\ UNCHANGED <<bound, epoch, tainted, closed, pc, seq, shape, frame, ignored, queue,
                   accepted>>

-----------------------------------------------------------------------------
Progress == Send \/ SendError \/ Receive \/ Ignore \/ ResponseTimeout

Next ==
    \/ Connect
    \/ Close
    \/ \E s \in Shapes : Request(s)
    \/ Recover
    \/ RecoverFails
    \/ Progress
    \/ ReceiveClosed
    \/ Cancel
    \/ \E d \in flight : Deliver(d) \/ Lose(d)
    \/ Tick

Spec == Init /\ [][Next]_vars

(* Fairness.  Time passes, a started request gets on (its deadline is      *)
(* absolute), the coordinators keep asking, not every request is           *)
(* cancelled while it waits, and the port can be bound now and then.       *)
Fairness ==
    /\ WF_vars(Tick)
    /\ WF_vars(Progress)
    /\ WF_vars(\E s \in Shapes : Request(s))
    /\ WF_vars(Recover \/ RecoverFails)
    /\ SF_vars(Recover)

LiveSpec == Spec /\ Fairness

-----------------------------------------------------------------------------
(* Whatever is bound, everything in the socket and in the accumulated      *)
(* frame belongs to the current epoch: no reply to a request of an epoch   *)
(* that was given up is ever taken for an answer, however it was delayed   *)
(* or duplicated (rtu_over_udp.py:18-22, 207-269).                         *)
NothingStale ==
    bound => /\ \A i \in DOMAIN queue : queue[i].epoch = epoch
             /\ \A i \in DOMAIN frame : frame[i].epoch = epoch

(* A client that was closed does not bind its port again, also when it was *)
(* closed during the quarantine (rtu_over_udp.py:177-183, 236-237).        *)
ClosedStaysClosed == closed => ~bound

(* As long as nothing is duplicated, the client implements the exchange    *)
(* service: one transmission per call, and the answer is its own.          *)
Exchange == INSTANCE ExchangeService
    WITH call <- seq, open <- pc \in {"sending", "waiting"}, answer <- accepted
ImplementsExchange == Exchange!ExchangeSpec

(* Every call ends, also one that receives nothing but datagrams of other  *)
(* sources, without end, and one whose port cannot be bound again          *)
(* (rtu_over_udp.py:236-242, 403-428).                                     *)
CallEnds == pc \notin {"new", "idle"} ~> pc = "idle"

(* A tainted client works again, if it is still used and not closed.       *)
Recovers == tainted /\ seq < MaxRequests ~> bound \/ closed
=============================================================================
