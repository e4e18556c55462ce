-------------------------- MODULE S2000PPSelector --------------------------
(***************************************************************************)
(* The selector/result transactions of an S2000-PP gateway (s2000_pp.py).  *)
(* Child devices that share the gateway's Modbus client read numeric and   *)
(* counter values by writing a zone number to a selector register and then *)
(* reading a result register.  The gateway has one selection at a time and *)
(* needs time to measure, so a request may stay parked over several polls. *)
(* A selector session (one per client and gateway) holds the parked        *)
(* request under an asyncio lock; the exchange itself runs under the       *)
(* request lock of the shared client.                                      *)
(***************************************************************************)
CONSTANTS
    Readers,     \* child devices that poll values through the gateway
    Channels,    \* values: records with a family and a zone
    Uses,        \* Uses[r]: the channels child r polls
    Removable,   \* children whose entry may be unloaded or stop polling
    Other,       \* the rest of the traffic on the shared client
    NoOne,       \* a free lock
    NoChannel,
    NoRequest

(* The key of a parked request: the family of the reader and the zone.     *)
Request(c) == <<c.family, c.zone>>

(* One row of the gateway's zone table has one type and so one kind of     *)
(* value: a family and a zone name one channel.                            *)
ASSUME ChannelAssumption ==
    /\ \A c, d \in Channels : Request(c) = Request(d) => c = d
    /\ \A c \in Channels : Request(c) # NoRequest
    /\ NoChannel \notin Channels

ASSUME ReaderAssumption ==
    /\ Uses \in [Readers -> SUBSET Channels]
    /\ Removable \subseteq Readers
    /\ NoOne \notin Readers
    /\ Other \notin Readers
    /\ Other # NoOne

VARIABLES
    pending_request,  \* the parked request of the session, or NoRequest
    sessionLock,      \* holder of the session lock
    requestLock,      \* holder of the client's request lock
    pc,               \* where the current async_read of each child is
    want,             \* its channel
    outcome,          \* its answer
    loaded,           \* the child is still polled
    armed,            \* gateway: the channel selected last
    ready,            \* gateway: it is measured
    answered          \* history: that measurement was already handed out

session == <<pending_request, sessionLock, requestLock>>
calls == <<pc, want, outcome, loaded>>
gateway == <<armed, ready, answered>>
vars == <<pending_request, sessionLock, requestLock, pc, want, outcome, loaded,
          armed, ready, answered>>

Phases == {"idle", "queued", "waitSelect", "select", "waitResult", "result"}
Inside == {"waitSelect", "select", "waitResult", "result"}
Statuses == {"none", "ready", "pending", "retryable", "error", "raised"}
Requests == {Request(c) : c \in Channels}
Answers == [status : Statuses, value : Channels \cup {NoChannel}]

TypeOK ==
    /\ pending_request \in Requests \cup {NoRequest}
    /\ sessionLock \in Readers \cup {NoOne}
    /\ requestLock \in Readers \cup {Other, NoOne}
    /\ pc \in [Readers -> Phases]
    /\ want \in [Readers -> Channels]
    /\ outcome \in [Readers -> Answers]
    /\ loaded \in [Readers -> BOOLEAN]
    /\ armed \in Channels \cup {NoChannel}
    /\ ready \in BOOLEAN
    /\ answered \in BOOLEAN

Answer(status, value) == [status |-> status, value |-> value]

Init ==
    /\ pending_request = NoRequest
    /\ sessionLock = NoOne
    /\ requestLock = NoOne
    /\ pc = [r \in Readers |-> "idle"]
    /\ want \in [Readers -> Channels]
    /\ outcome = [r \in Readers |-> Answer("none", NoChannel)]
    /\ loaded = [r \in Readers |-> TRUE]
    /\ armed = NoChannel
    /\ ready = FALSE
    /\ answered = FALSE

(* Exception replies: "correlated" stands for the function code and the    *)
(* device id matching the phase; 15 is "in progress", 6 "busy", 4 any      *)
(* other code.                                                             *)
ExceptionReplies == [code : {4, 6, 15}, correlated : BOOLEAN]

NumericErrorStatus(e) ==
    CASE e.correlated /\ e.code = 15 -> "pending"
      [] e.correlated /\ e.code = 6 -> "retryable"
      [] OTHER -> "error"

CounterErrorStatus(e) ==
    CASE e.correlated /\ e.code = 15 -> "pending"
      [] e.correlated /\ e.code = 6 -> "retryable"
      [] OTHER -> "error"

ErrorStatus(c, e) ==
    IF c.family = "counter" THEN CounterErrorStatus(e) ELSE NumericErrorStatus(e)

-----------------------------------------------------------------------------
(* One call of async_read.                                                 *)

StartRead(r, c) ==
    /\ loaded[r]
    /\ pc[r] = "idle"
    /\ pc' = [pc EXCEPT ![r] = "queued"]
    /\ want' = [want EXCEPT ![r] = c]
    /\ outcome' = [outcome EXCEPT ![r] = Answer("none", NoChannel)]
    /\ UNCHANGED <<session, loaded, gateway>>

(* Mutants of EnterSession: one selects over a request parked for somebody *)
(* else, one takes any parked request for its own, one selects its own     *)
(* parked request again, one refuses its own parked request.               *)
Enter(r, phase) ==
    /\ pc[r] = "queued"
    /\ sessionLock = NoOne
    /\ sessionLock' = IF phase = "idle" THEN NoOne ELSE r
    /\ pc' = [pc EXCEPT ![r] = phase]
    /\ outcome' = [outcome EXCEPT ![r] =
          Answer(IF phase = "idle" THEN "retryable" ELSE "none", NoChannel)]
    /\ UNCHANGED <<pending_request, requestLock, want, loaded, gateway>>

EnterStealing(r) ==
    Enter(r, IF pending_request = Request(want[r]) THEN "waitResult" ELSE "waitSelect")

EnterUnkeyed(r) ==
    Enter(r, IF pending_request # NoRequest THEN "waitResult" ELSE "waitSelect")

EnterReselecting(r) ==
    Enter(r, IF pending_request \in {NoRequest, Request(want[r])} THEN "waitSelect" ELSE "idle")

EnterRefusing(r) ==
    Enter(r, IF pending_request # NoRequest THEN "idle" ELSE "waitSelect")

(* Under the session lock: a request parked for somebody else is answered  *)
(* at once; a free selector is selected; one's own request goes straight   *)
(* to the result.                                                          *)
EnterSession(r) ==
    /\ pc[r] = "queued"
    /\ sessionLock = NoOne
    /\ \/ /\ pending_request \notin {NoRequest, Request(want[r])}
          /\ pc' = [pc EXCEPT ![r] = "idle"]
          /\ outcome' = [outcome EXCEPT ![r] = Answer("retryable", NoChannel)]
          /\ UNCHANGED sessionLock
       \/ /\ pending_request = NoRequest
          /\ sessionLock' = r
          /\ pc' = [pc EXCEPT ![r] = "waitSelect"]
          /\ UNCHANGED outcome
       \/ /\ pending_request = Request(want[r])
          /\ sessionLock' = r
          /\ pc' = [pc EXCEPT ![r] = "waitResult"]
          /\ UNCHANGED outcome
    /\ UNCHANGED <<pending_request, requestLock, want, loaded, gateway>>

NumericRead(r) == want[r].family = "numeric" /\ EnterSession(r)
CounterRead(r) == want[r].family = "counter" /\ EnterSession(r)

(* async_execute_serialized: the whole operation runs under the lock.      *)
AcquireClient(r) ==
    /\ requestLock = NoOne
    /\ requestLock' = r
    /\ \/ pc[r] = "waitSelect" /\ pc' = [pc EXCEPT ![r] = "select"]
       \/ pc[r] = "waitResult" /\ pc' = [pc EXCEPT ![r] = "result"]
    /\ UNCHANGED <<pending_request, sessionLock, want, outcome, loaded, gateway>>

(* The call returns: both locks are released without another await.        *)
Leave(r, status, value) ==
    /\ pc' = [pc EXCEPT ![r] = "idle"]
    /\ outcome' = [outcome EXCEPT ![r] = Answer(status, value)]
    /\ sessionLock' = NoOne
    /\ requestLock' = IF requestLock = r THEN NoOne ELSE requestLock
    /\ UNCHANGED <<want, loaded>>

(* Mutant: a value that was handed out stays parked.                       *)
ReturnKeepsParked(r, status, value) ==
    /\ Leave(r, status, value)
    /\ pending_request' = IF status = "error" THEN NoRequest ELSE pending_request

(* A returned result keeps the request parked only while the gateway still *)
(* works on it.                                                            *)
Return(r, status, value) ==
    /\ Leave(r, status, value)
    /\ pending_request' =
          IF status \in {"pending", "retryable"} THEN pending_request ELSE NoRequest

(* The gateway takes the selection.                                        *)
Arm(c) ==
    /\ armed' = c
    /\ ready' = FALSE
    /\ answered' = FALSE

(* FC06 to the selector register: accepted, refused by an exception, or    *)
(* answered by something that is no echo (the gateway may have taken it).  *)
Select(r) ==
    /\ pc[r] = "select"
    /\ \/ /\ Arm(want[r])
          /\ pending_request' = Request(want[r])
          /\ pc' = [pc EXCEPT ![r] = "result"]
          /\ UNCHANGED <<sessionLock, requestLock, want, outcome, loaded>>
       \/ /\ \E e \in ExceptionReplies : Return(r, ErrorStatus(want[r], e), NoChannel)
          /\ UNCHANGED gateway
       \/ /\ Return(r, "error", NoChannel)
          /\ Arm(want[r]) \/ UNCHANGED gateway

NumericSelect(r) == want[r].family = "numeric" /\ Select(r)
CounterSelect(r) == want[r].family = "counter" /\ Select(r)

(* FC03 to the result register: the value when it is measured, exception   *)
(* 15 only while it is being measured, any other exception, or a malformed *)
(* response.                                                               *)
ReadResult(r) ==
    /\ pc[r] = "result"
    /\ \/ /\ ready
          /\ Return(r, "ready", armed)
          /\ answered' = TRUE
       \/ /\ \E e \in ExceptionReplies :
                /\ e.correlated /\ e.code = 15 => armed # NoChannel /\ ~ready
                /\ Return(r, ErrorStatus(want[r], e), NoChannel)
          /\ UNCHANGED answered
       \/ /\ Return(r, "error", NoChannel)
          /\ UNCHANGED answered
    /\ UNCHANGED <<armed, ready>>

NumericResult(r) == want[r].family = "numeric" /\ ReadResult(r)
CounterResult(r) == want[r].family = "counter" /\ ReadResult(r)

(* Mutant: only the locks are released.                                    *)
InterruptForgets(r) ==
    /\ pc[r] \in Inside
    /\ Leave(r, "raised", NoChannel)
    /\ UNCHANGED pending_request
    /\ \/ pc[r] = "select" /\ Arm(want[r])
       \/ UNCHANGED gateway

(* BaseException inside the session lock: a timeout, a transport error or  *)
(* a cancellation, waiting for the client or in an exchange whose request  *)
(* the gateway may have taken.                                             *)
Interrupt(r) ==
    /\ pc[r] \in Inside
    /\ Leave(r, "raised", NoChannel)
    /\ pending_request' =
          IF pending_request = Request(want[r]) THEN NoRequest ELSE pending_request
    /\ \/ pc[r] = "select" /\ Arm(want[r])
       \/ UNCHANGED gateway

(* Mutant: the cleanup of the session runs although the call is not in it. *)
CancelQueuedResets(r) ==
    /\ pc[r] = "queued"
    /\ pc' = [pc EXCEPT ![r] = "idle"]
    /\ outcome' = [outcome EXCEPT ![r] = Answer("raised", NoChannel)]
    /\ pending_request' = NoRequest
    /\ UNCHANGED <<sessionLock, requestLock, want, loaded, gateway>>

(* Cancelled in the queue for the session lock: nothing is cleaned up.     *)
CancelQueued(r) ==
    /\ pc[r] = "queued"
    /\ pc' = [pc EXCEPT ![r] = "idle"]
    /\ outcome' = [outcome EXCEPT ![r] = Answer("raised", NoChannel)]
    /\ UNCHANGED <<session, want, loaded, gateway>>

(* The child's entry is unloaded (or its coordinator has no listener any   *)
(* more): it is not polled again.  The session is not told.                *)
Unload(r) ==
    /\ r \in Removable
    /\ loaded[r]
    /\ pc[r] = "idle"
    /\ loaded' = [loaded EXCEPT ![r] = FALSE]
    /\ UNCHANGED <<session, pc, want, outcome, gateway>>

-----------------------------------------------------------------------------
(* The rest of the client's traffic, and the gateway.                      *)

OtherRequest ==
    /\ \/ requestLock = NoOne /\ requestLock' = Other
       \/ requestLock = Other /\ requestLock' = NoOne
    /\ UNCHANGED <<pending_request, sessionLock, calls, gateway>>

Measure ==
    /\ armed # NoChannel
    /\ ready' = TRUE
    /\ UNCHANGED <<session, calls, armed, answered>>

Restart ==
    /\ armed' = NoChannel
    /\ ready' = FALSE
    /\ answered' = FALSE
    /\ UNCHANGED <<session, calls>>

-----------------------------------------------------------------------------
Step(r) ==
    \/ NumericRead(r) \/ CounterRead(r)
    \/ AcquireClient(r)
    \/ NumericSelect(r) \/ CounterSelect(r)
    \/ NumericResult(r) \/ CounterResult(r)

Next ==
    \/ \E r \in Readers :
          \/ \E c \in Uses[r] : StartRead(r, c)
          \/ Step(r)
          \/ Interrupt(r)
          \/ CancelQueued(r)
          \/ Unload(r)
    \/ OtherRequest
    \/ Measure
    \/ Restart

Spec == Init /\ [][Next]_vars

(* A child has one value at a time under way: while a request of its own   *)
(* is parked, that is the value it polls (the cursors of the equipment     *)
(* classes advance on READY only).                                         *)
Cursor(r, c) ==
    (\E d \in Uses[r] : pending_request = Request(d)) => pending_request = Request(c)

(* Fairness.  asyncio locks are FIFO and every exchange ends (it has a     *)
(* deadline), so a call that waits or exchanges gets on; the coordinator   *)
(* polls a loaded child again and again and does not always cancel it; the *)
(* gateway measures what it selected and does not stay busy for ever.      *)
Fairness ==
    /\ \A r \in Readers :
          /\ SF_vars(\E c \in Uses[r] : Cursor(r, c) /\ StartRead(r, c))
          /\ SF_vars(Cursor(r, want[r]) /\ EnterSession(r))
          /\ SF_vars(AcquireClient(r))
          /\ WF_vars(Step(r))
          /\ SF_vars(ReadResult(r) /\ outcome'[r].status # "retryable")
    /\ WF_vars(OtherRequest /\ requestLock = Other)
    /\ WF_vars(Measure)

LiveSpec == Spec /\ Fairness

-----------------------------------------------------------------------------
(* The locks, the parked request and the gateway agree: one child is       *)
(* inside the session, it selects only when nothing is parked and reads    *)
(* only its own parked request, and the gateway (unless it restarted) is   *)
(* still selected for what is parked and owes its value.                   *)
SessionInv ==
    /\ \A r \in Readers :
          /\ pc[r] \in Inside <=> sessionLock = r
          /\ pc[r] \in {"select", "result"} <=> requestLock = r
          /\ pc[r] \in {"waitSelect", "select"} => pending_request = NoRequest
          /\ pc[r] \in {"waitResult", "result"} => pending_request = Request(want[r])
          /\ pc[r] # "idle" => outcome[r].status = "none"
    /\ \A c \in Channels : pending_request = Request(c) => armed \in {c, NoChannel}
    /\ armed = NoChannel => ~ready
    /\ pending_request # NoRequest => ~answered

(* A READY answer is the value of the channel the child asked for, however *)
(* the polls of other children, failures and restarts interleave.          *)
ReadyIsCorrelated ==
    \A r \in Readers :
        outcome[r].status = "ready" => outcome[r].value = want[r]

(* While a request is parked nobody makes the gateway select another       *)
(* channel: its measurement is not thrown away by another child.           *)
SelectorNotStolen ==
    [][pending_request # NoRequest => armed' \in {armed, NoChannel}]_vars

(* Two READY answers never come from the same selection: every value was   *)
(* measured after the previous one had been handed out.                    *)
NoStaleAnswer ==
    [][\A r \in Readers :
          outcome'[r].status = "ready" /\ outcome[r].status # "ready" => ~answered]_vars

(* A call that got past the session lock and ends with a value, an error   *)
(* or an exception leaves nothing parked for its channel, so the next poll *)
(* selects again.                                                          *)
EndedCallUnparks ==
    [][\A r \in Readers :
          /\ pc[r] \in Inside
          /\ pc'[r] = "idle"
          /\ outcome'[r].status \in {"ready", "error", "raised"}
          => pending_request' # Request(want[r])]_vars

(* The protocol implements the selector service.                           *)
Service == INSTANCE SelectorService WITH parked <- pending_request
ImplementsService == Service!ServiceSpec

(* What is parked for a child that goes on being polled is eventually      *)
(* released.                                                               *)
Held == \E r \in Readers : loaded[r] /\ \E c \in Uses[r] : pending_request = Request(c)
PolledIsReleased == Held ~> ~Held

(* Any parked request is eventually released, so that one child cannot     *)
(* block the others indefinitely (s2000_pp.py:388-391).                    *)
ParkedIsReleased == pending_request # NoRequest ~> pending_request = NoRequest
=============================================================================
