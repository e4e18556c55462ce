----------------------- MODULE S2000PPSelector_proofs -----------------------
(* Proofs about the selector protocol, for any children and channels.      *)
EXTENDS S2000PPSelector, TLAPS

(* An exception reply is never classified as a value or as a raised call.  *)
LEMMA ErrorStatusType ==
    ASSUME NEW c, NEW e
    PROVE  ErrorStatus(c, e) \in {"pending", "retryable", "error"}
  BY DEF ErrorStatus, NumericErrorStatus, CounterErrorStatus

(* An answer is a record of a status and a value.                          *)
LEMMA AnswerType ==
    ASSUME NEW s \in Statuses, NEW v \in Channels \cup {NoChannel}
    PROVE  Answer(s, v) \in Answers
  BY DEF Answer, Answers

(* A call that leaves keeps the types of what it releases and reports.     *)
LEMMA LeaveType ==
    ASSUME TypeOK, NEW r \in Readers, NEW s \in Statuses,
           NEW v \in Channels \cup {NoChannel}, Leave(r, s, v)
    PROVE  /\ pc' \in [Readers -> Phases]
           /\ outcome' \in [Readers -> Answers]
           /\ sessionLock' \in Readers \cup {NoOne}
           /\ requestLock' \in Readers \cup {Other, NoOne}
           /\ want' \in [Readers -> Channels]
           /\ loaded' \in [Readers -> BOOLEAN]
<1>1. Answer(s, v) \in Answers
  BY AnswerType
<1>2. outcome' \in [Readers -> Answers]
  BY <1>1 DEF Leave, TypeOK
<1>3. pc' \in [Readers -> Phases]
  BY DEF Leave, TypeOK, Phases
<1>4. QED  BY <1>2, <1>3 DEF Leave, TypeOK

(* A result keeps the parked request or clears it.                         *)
LEMMA ReturnType ==
    ASSUME TypeOK, NEW r \in Readers, NEW s \in Statuses,
           NEW v \in Channels \cup {NoChannel}, Return(r, s, v)
    PROVE  Leave(r, s, v) /\ pending_request' \in Requests \cup {NoRequest}
  BY DEF Return, TypeOK

(* Arming the gateway with a channel, or leaving it alone.                 *)
LEMMA GatewayType ==
    ASSUME TypeOK, NEW c \in Channels, Arm(c) \/ UNCHANGED gateway
    PROVE  armed' \in Channels \cup {NoChannel} /\ ready' \in BOOLEAN /\ answered' \in BOOLEAN
  BY DEF TypeOK, Arm, gateway

(* The initial states and every step keep the variables in their types     *)
(* (s2000_pp.py:150-154, 340-401, 529-578).                                *)
THEOREM TypeCorrect == Spec => []TypeOK
<1>1. Init => TypeOK
  <2> SUFFICES ASSUME Init PROVE TypeOK
    OBVIOUS
  <2>1. Answer("none", NoChannel) \in Answers
    BY AnswerType DEF Statuses
  <2>2. QED  BY <2>1 DEF Init, TypeOK, Phases
<1>2. TypeOK /\ [Next]_vars => TypeOK'
  <2> SUFFICES ASSUME TypeOK, [Next]_vars PROVE TypeOK'
    OBVIOUS
  <2>1. ASSUME NEW r \in Readers, NEW c \in Uses[r], StartRead(r, c) PROVE TypeOK'
    <3>1. c \in Channels
      BY ReaderAssumption
    <3>2. Answer("none", NoChannel) \in Answers
      BY AnswerType DEF Statuses
    <3>3. outcome' \in [Readers -> Answers]
      BY <2>1, <3>2 DEF StartRead, TypeOK
    <3>4. pc' \in [Readers -> Phases] /\ want' \in [Readers -> Channels]
      BY <2>1, <3>1 DEF StartRead, TypeOK, Phases
    <3>5. QED  BY <2>1, <3>3, <3>4 DEF StartRead, TypeOK, session, gateway
  <2>2. ASSUME NEW r \in Readers, EnterSession(r) PROVE TypeOK'
    <3>1. Answer("retryable", NoChannel) \in Answers
      BY AnswerType DEF Statuses
    <3>2. outcome' \in [Readers -> Answers]
      BY <2>2, <3>1 DEF EnterSession, TypeOK
    <3>3. pc' \in [Readers -> Phases] /\ sessionLock' \in Readers \cup {NoOne}
      BY <2>2 DEF EnterSession, TypeOK, Phases
    <3>4. QED  BY <2>2, <3>2, <3>3 DEF EnterSession, TypeOK, gateway
  <2>3. ASSUME NEW r \in Readers, AcquireClient(r) PROVE TypeOK'
    <3>1. pc' \in [Readers -> Phases]
      BY <2>3 DEF AcquireClient, TypeOK, Phases
    <3>2. QED  BY <2>3, <3>1 DEF AcquireClient, TypeOK, gateway
  <2>4. ASSUME NEW r \in Readers, Select(r) PROVE TypeOK'
    <3>1. want[r] \in Channels /\ Request(want[r]) \in Requests
      BY DEF Requests, TypeOK
    <3>2. Arm(want[r]) \/ UNCHANGED gateway
      BY <2>4 DEF Select
    <3>3. armed' \in Channels \cup {NoChannel} /\ ready' \in BOOLEAN /\ answered' \in BOOLEAN
      BY <3>1, <3>2, GatewayType
    <3>4. CASE /\ pending_request' = Request(want[r])
               /\ pc' = [pc EXCEPT ![r] = "result"]
               /\ UNCHANGED <<sessionLock, requestLock, want, outcome, loaded>>
      <4>1. pc' \in [Readers -> Phases]
        BY <3>4 DEF TypeOK, Phases
      <4>2. QED  BY <3>1, <3>3, <3>4, <4>1 DEF TypeOK
    <3>5. CASE \E s \in {"pending", "retryable", "error"} : Return(r, s, NoChannel)
      <4>1. PICK s \in {"pending", "retryable", "error"} : Return(r, s, NoChannel)
        BY <3>5
      <4>2. s \in Statuses
        BY DEF Statuses
      <4>3. QED  BY <3>3, <4>1, <4>2, LeaveType, ReturnType DEF TypeOK
    <3>6. QED  BY <2>4, <3>4, <3>5, ErrorStatusType DEF Select
  <2>5. ASSUME NEW r \in Readers, ReadResult(r) PROVE TypeOK'
    <3>1. PICK s \in {"ready", "pending", "retryable", "error"}, v \in {armed, NoChannel} :
             Return(r, s, v)
      BY <2>5, ErrorStatusType DEF ReadResult
    <3>2. s \in Statuses /\ v \in Channels \cup {NoChannel}
      BY <3>1 DEF Statuses, TypeOK
    <3>3. armed' = armed /\ ready' = ready /\ answered' \in BOOLEAN
      BY <2>5 DEF ReadResult, TypeOK
    <3>4. QED  BY <3>1, <3>2, <3>3, LeaveType, ReturnType DEF TypeOK
  <2>6. ASSUME NEW r \in Readers, Interrupt(r) PROVE TypeOK'
    <3>1. want[r] \in Channels /\ (Arm(want[r]) \/ UNCHANGED gateway)
      BY <2>6 DEF Interrupt, TypeOK
    <3>2. armed' \in Channels \cup {NoChannel} /\ ready' \in BOOLEAN /\ answered' \in BOOLEAN
      BY <3>1, GatewayType
    <3>3. Leave(r, "raised", NoChannel) /\ pending_request' \in {NoRequest, pending_request}
      BY <2>6 DEF Interrupt
    <3>4. QED  BY <3>2, <3>3, LeaveType DEF TypeOK, Statuses
  <2>7. ASSUME NEW r \in Readers, CancelQueued(r) PROVE TypeOK'
    <3>1. Answer("raised", NoChannel) \in Answers
      BY AnswerType DEF Statuses
    <3>2. outcome' \in [Readers -> Answers]
      BY <2>7, <3>1 DEF CancelQueued, TypeOK
    <3>3. pc' \in [Readers -> Phases]
      BY <2>7 DEF CancelQueued, TypeOK, Phases
    <3>4. QED  BY <2>7, <3>2, <3>3 DEF CancelQueued, TypeOK, session, gateway
  <2>8. ASSUME NEW r \in Readers, Unload(r) PROVE TypeOK'
    BY <2>8 DEF Unload, TypeOK, session, gateway
  <2>9. CASE OtherRequest
    BY <2>9 DEF OtherRequest, TypeOK, calls, gateway
  <2>10. CASE Measure
    BY <2>10 DEF Measure, TypeOK, session, calls
  <2>11. CASE Restart
    BY <2>11 DEF Restart, TypeOK, session, calls
  <2>12. CASE UNCHANGED vars
    BY <2>12 DEF vars, TypeOK
  <2>13. QED
    BY <2>1, <2>2, <2>3, <2>4, <2>5, <2>6, <2>7, <2>8, <2>9, <2>10, <2>11, <2>12
    DEF Next, Step, NumericRead, CounterRead, NumericSelect, CounterSelect,
        NumericResult, CounterResult
<1>3. QED
  BY <1>1, <1>2, PTL DEF Spec

(* What a call that leaves changes: it is idle, both locks it held are     *)
(* free, and nobody else's call is touched.                                *)
LEMMA LeaveEffect ==
    ASSUME TypeOK, NEW r \in Readers, NEW s, NEW v, Leave(r, s, v)
    PROVE  /\ pc' = [pc EXCEPT ![r] = "idle"]
           /\ \A q \in Readers : q # r => pc'[q] = pc[q] /\ outcome'[q] = outcome[q]
           /\ pc'[r] = "idle"
           /\ outcome'[r] = Answer(s, v)
           /\ sessionLock' = NoOne
           /\ requestLock' = IF requestLock = r THEN NoOne ELSE requestLock
           /\ want' = want
  BY DEF Leave, TypeOK

(* A call that leaves from inside the session keeps the locks and the      *)
(* phases of the others consistent: they are all outside.                  *)
LEMMA LeaveKeepsSession ==
    ASSUME TypeOK, SessionInv, NEW r \in Readers, NEW s, NEW v, Leave(r, s, v),
           pc[r] \in Inside
    PROVE  \A q \in Readers :
              /\ pc'[q] \notin Inside
              /\ sessionLock' # q
              /\ requestLock' # q
              /\ pc'[q] # "idle" => outcome'[q].status = "none"
<1>1. sessionLock = r
  BY DEF SessionInv
<1>2. \A q \in Readers : q # r => pc[q] \notin Inside
  BY <1>1 DEF SessionInv
<1>3. \A q \in Readers : pc'[q] \notin Inside
  BY <1>2, LeaveEffect DEF Inside
<1>4. \A q \in Readers : requestLock' # q
  <2> SUFFICES ASSUME NEW q \in Readers PROVE requestLock' # q
    OBVIOUS
  <2>1. CASE q = r
    BY <2>1, LeaveEffect, ReaderAssumption
  <2>2. CASE q # r
    <3>1. requestLock # q
      BY <1>2, <2>2 DEF SessionInv, Inside
    <3>2. QED  BY <3>1, <2>2, LeaveEffect, ReaderAssumption
  <2>3. QED  BY <2>1, <2>2
<1>5. \A q \in Readers : sessionLock' # q
  BY LeaveEffect, ReaderAssumption
<1>6. \A q \in Readers : pc'[q] # "idle" => outcome'[q].status = "none"
  BY LeaveEffect DEF SessionInv
<1>7. QED  BY <1>3, <1>4, <1>5, <1>6

(* Locks, parked request and gateway stay consistent: whoever is inside    *)
(* the session works on the parked request, and the gateway is selected    *)
(* for it unless it restarted (s2000_pp.py:347-401, 532-578).              *)
THEOREM SessionConsistent == Spec => []SessionInv
<1>1. Init => SessionInv
  <2> SUFFICES ASSUME Init PROVE SessionInv
    OBVIOUS
  <2>1. \A c \in Channels : pending_request # Request(c)
    BY ChannelAssumption DEF Init
  <2>2. QED  BY <2>1, ReaderAssumption DEF Init, SessionInv, Inside
<1>2. TypeOK /\ SessionInv /\ [Next]_vars => SessionInv'
  <2> SUFFICES ASSUME TypeOK, SessionInv, [Next]_vars PROVE SessionInv'
    OBVIOUS
  <2>1. ASSUME NEW r \in Readers, NEW c \in Uses[r], StartRead(r, c) PROVE SessionInv'
    BY <2>1 DEF StartRead, SessionInv, TypeOK, Inside, session, gateway, Answer
  <2>2. ASSUME NEW r \in Readers, EnterSession(r) PROVE SessionInv'
    <3>1. \A q \in Readers : pc[q] \notin Inside
      BY <2>2, ReaderAssumption DEF EnterSession, SessionInv
    <3>2. \A q \in Readers : q # r => pc'[q] = pc[q] /\ outcome'[q] = outcome[q]
      BY <2>2 DEF EnterSession, TypeOK
    <3>3. pc'[r] \in {"waitSelect", "waitResult"} <=> sessionLock' = r
      BY <2>2, ReaderAssumption DEF EnterSession, TypeOK
    <3>4. /\ pc'[r] \in {"idle", "waitSelect", "waitResult"}
          /\ pc'[r] = "waitSelect" => pending_request = NoRequest
          /\ pc'[r] = "waitResult" => pending_request = Request(want[r])
          /\ pc'[r] # "idle" => outcome'[r] = outcome[r] /\ outcome[r].status = "none"
          /\ sessionLock' \in {r, NoOne}
      BY <2>2 DEF EnterSession, TypeOK, SessionInv
    <3>5. UNCHANGED <<pending_request, requestLock, want, armed, ready, answered>>
      BY <2>2 DEF EnterSession, gateway
    <3>6. QED  BY <3>1, <3>2, <3>3, <3>4, <3>5, ReaderAssumption DEF SessionInv, Inside
  <2>3. ASSUME NEW r \in Readers, AcquireClient(r) PROVE SessionInv'
    BY <2>3, ReaderAssumption DEF AcquireClient, SessionInv, TypeOK, Inside, gateway
  <2>4. ASSUME NEW r \in Readers, Select(r) PROVE SessionInv'
    <3>1. pc[r] = "select" /\ pc[r] \in Inside /\ pending_request = NoRequest
      BY <2>4 DEF Select, SessionInv, Inside
    <3>2. want[r] \in Channels
      BY DEF TypeOK
    <3>3. armed' = NoChannel => ~ready'
      BY <2>4, <3>2, ChannelAssumption DEF Select, Arm, SessionInv, gateway
    <3>4. CASE /\ Arm(want[r])
               /\ pending_request' = Request(want[r])
               /\ pc' = [pc EXCEPT ![r] = "result"]
               /\ UNCHANGED <<sessionLock, requestLock, want, outcome, loaded>>
      <4>1. \A q \in Readers : q # r => pc[q] \notin Inside /\ pc'[q] = pc[q]
        BY <3>1, <3>4 DEF SessionInv, TypeOK
      <4>2. pc'[r] = "result"
        BY <3>4 DEF TypeOK
      <4>3. \A c \in Channels : pending_request' = Request(c) => armed' = c
        BY <3>2, <3>4, ChannelAssumption DEF Arm
      <4>4. QED  BY <3>1, <3>3, <3>4, <4>1, <4>2, <4>3 DEF SessionInv, Inside, Arm
    <3>5. CASE \E s \in {"pending", "retryable", "error"} : Return(r, s, NoChannel)
      <4>1. PICK s \in {"pending", "retryable", "error"} : Return(r, s, NoChannel)
        BY <3>5
      <4>2. Leave(r, s, NoChannel) /\ pending_request' = NoRequest
        BY <3>1, <4>1 DEF Return
      <4>3. \A c \in Channels : pending_request' # Request(c)
        BY <4>2, ChannelAssumption
      <4>4. QED  BY <3>1, <3>3, <4>2, <4>3, LeaveKeepsSession DEF SessionInv, Inside
    <3>6. QED  BY <2>4, <3>4, <3>5, ErrorStatusType DEF Select
  <2>5. ASSUME NEW r \in Readers, ReadResult(r) PROVE SessionInv'
    <3>1. pc[r] \in Inside /\ armed' = armed /\ ready' = ready
      BY <2>5 DEF ReadResult, Inside
    <3>2. PICK s \in {"ready", "pending", "retryable", "error"}, v \in {armed, NoChannel} :
             Return(r, s, v) /\ (s # "ready" => answered' = answered)
      BY <2>5, ErrorStatusType DEF ReadResult
    <3>3. Leave(r, s, v) /\ pending_request' \in {pending_request, NoRequest}
      BY <3>2 DEF Return
    <3>4. \A c \in Channels : pending_request' = Request(c) => armed' \in {c, NoChannel}
      BY <3>1, <3>3, ChannelAssumption DEF SessionInv
    <3>5. pending_request' # NoRequest => ~answered'
      BY <3>2 DEF Return, SessionInv
    <3>6. QED  BY <3>1, <3>3, <3>4, <3>5, LeaveKeepsSession DEF SessionInv, Inside
  <2>6. ASSUME NEW r \in Readers, Interrupt(r) PROVE SessionInv'
    <3>1. pc[r] \in Inside /\ Leave(r, "raised", NoChannel)
      BY <2>6 DEF Interrupt
    <3>2. pending_request' = NoRequest
      BY <2>6, <3>1 DEF Interrupt, SessionInv, Inside
    <3>3. \A c \in Channels : pending_request' # Request(c)
      BY <3>2, ChannelAssumption
    <3>4. armed' = NoChannel => ~ready'
      BY <2>6, ChannelAssumption DEF Interrupt, Arm, SessionInv, gateway, TypeOK
    <3>5. QED  BY <3>1, <3>2, <3>3, <3>4, LeaveKeepsSession DEF SessionInv, Inside
  <2>7. ASSUME NEW r \in Readers, CancelQueued(r) PROVE SessionInv'
    BY <2>7 DEF CancelQueued, SessionInv, TypeOK, Inside, session, gateway, Answer
  <2>8. ASSUME NEW r \in Readers, Unload(r) PROVE SessionInv'
    BY <2>8 DEF Unload, SessionInv, session, gateway
  <2>9. CASE OtherRequest
    BY <2>9, ReaderAssumption DEF OtherRequest, SessionInv, calls, gateway
  <2>10. CASE Measure
    BY <2>10 DEF Measure, SessionInv, session, calls
  <2>11. CASE Restart
    BY <2>11 DEF Restart, SessionInv, session, calls
  <2>12. CASE UNCHANGED vars
    BY <2>12 DEF vars, SessionInv
  <2>13. QED
    BY <2>1, <2>2, <2>3, <2>4, <2>5, <2>6, <2>7, <2>8, <2>9, <2>10, <2>11, <2>12
    DEF Next, Step, NumericRead, CounterRead, NumericSelect, CounterSelect,
        NumericResult, CounterResult
<1>3. QED
  BY <1>1, <1>2, TypeCorrect, PTL DEF Spec

(* A value is handed out only by the reader whose request is parked, and   *)
(* then the gateway is selected for exactly its channel.                   *)
LEMMA ReadyValue ==
    ASSUME TypeOK, SessionInv, NEW r \in Readers, pc[r] = "result", ready
    PROVE  armed = want[r] /\ ~answered /\ pending_request = Request(want[r])
<1>1. want[r] \in Channels /\ pending_request = Request(want[r])
  BY DEF TypeOK, SessionInv
<1>2. armed \in {want[r], NoChannel} /\ armed # NoChannel
  BY <1>1 DEF SessionInv
<1>3. QED  BY <1>1, <1>2, ChannelAssumption DEF SessionInv

(* A READY answer is the value of the channel that was asked for           *)
(* (s2000_pp.py:340-401, 462-518, 611-645).                                *)
THEOREM ReadyCorrelated == Spec => []ReadyIsCorrelated
<1>1. Init => ReadyIsCorrelated
  BY DEF Init, ReadyIsCorrelated, Answer
<1>2. TypeOK /\ SessionInv /\ ReadyIsCorrelated /\ [Next]_vars => ReadyIsCorrelated'
  <2> SUFFICES ASSUME TypeOK, SessionInv, ReadyIsCorrelated, [Next]_vars
               PROVE  ReadyIsCorrelated'
    OBVIOUS
  <2>0. ASSUME NEW r \in Readers, NEW s, NEW v, s = "ready" => v = want[r],
               outcome' = [outcome EXCEPT ![r] = Answer(s, v)], want' = want
        PROVE  ReadyIsCorrelated'
    <3>1. /\ outcome'[r].status = s /\ outcome'[r].value = v
          /\ \A q \in Readers : q # r => outcome'[q] = outcome[q]
      BY <2>0 DEF TypeOK, Answer
    <3>2. QED  BY <2>0, <3>1 DEF ReadyIsCorrelated
  <2>1. ASSUME NEW r \in Readers, NEW s, NEW v, Leave(r, s, v),
               s = "ready" => v = want[r]
        PROVE  ReadyIsCorrelated'
    BY <2>0, <2>1 DEF Leave
  <2>2. ASSUME NEW r \in Readers, NEW c \in Uses[r], StartRead(r, c)
        PROVE  ReadyIsCorrelated'
    BY <2>2 DEF StartRead, ReadyIsCorrelated, TypeOK, Answer
  <2>3. ASSUME NEW r \in Readers, EnterSession(r) PROVE ReadyIsCorrelated'
    <3>1. CASE UNCHANGED outcome
      BY <2>3, <3>1 DEF EnterSession, ReadyIsCorrelated
    <3>2. CASE outcome' = [outcome EXCEPT ![r] = Answer("retryable", NoChannel)]
      BY <2>0, <2>3, <3>2 DEF EnterSession
    <3>3. QED  BY <2>3, <3>1, <3>2 DEF EnterSession
  <2>4. ASSUME NEW r \in Readers, Select(r) PROVE ReadyIsCorrelated'
    <3>1. CASE UNCHANGED <<sessionLock, requestLock, want, outcome, loaded>>
      BY <3>1 DEF ReadyIsCorrelated
    <3>2. CASE \E s \in {"pending", "retryable", "error"} : Return(r, s, NoChannel)
      BY <2>1, <3>2 DEF Return
    <3>3. QED  BY <2>4, <3>1, <3>2, ErrorStatusType DEF Select
  <2>5. ASSUME NEW r \in Readers, ReadResult(r) PROVE ReadyIsCorrelated'
    <3>1. CASE ready /\ Return(r, "ready", armed)
      BY <2>1, <2>5, <3>1, ReadyValue DEF Return, ReadResult
    <3>2. CASE \E s \in {"pending", "retryable", "error"} : Return(r, s, NoChannel)
      BY <2>1, <3>2 DEF Return
    <3>3. QED  BY <2>5, <3>1, <3>2, ErrorStatusType DEF ReadResult
  <2>6. ASSUME NEW r \in Readers, Interrupt(r) PROVE ReadyIsCorrelated'
    BY <2>1, <2>6 DEF Interrupt
  <2>7. ASSUME NEW r \in Readers, CancelQueued(r) PROVE ReadyIsCorrelated'
    BY <2>0, <2>7 DEF CancelQueued
  <2>8. CASE UNCHANGED <<want, outcome>>
    BY <2>8 DEF ReadyIsCorrelated
  <2>9. QED
    BY <2>2, <2>3, <2>4, <2>5, <2>6, <2>7, <2>8
    DEF Next, Step, NumericRead, CounterRead, NumericSelect, CounterSelect,
        NumericResult, CounterResult, AcquireClient, Unload, OtherRequest, Measure,
        Restart, calls, vars
<1>3. QED
  BY <1>1, <1>2, TypeCorrect, SessionConsistent, PTL DEF Spec

(* Nobody re-targets the gateway while a request is parked: only Select    *)
(* arms it, and a selection is made only when nothing is parked            *)
(* (s2000_pp.py:350-372, 535-554).                                         *)
THEOREM NotStolen == Spec => SelectorNotStolen
<1>1. TypeOK /\ SessionInv /\ [Next]_vars
         => [pending_request # NoRequest => armed' \in {armed, NoChannel}]_vars
  <2> SUFFICES ASSUME SessionInv, [Next]_vars, pending_request # NoRequest
               PROVE  armed' \in {armed, NoChannel}
    OBVIOUS
  <2>1. ASSUME NEW r \in Readers, Select(r) PROVE FALSE
    BY <2>1 DEF Select, SessionInv
  <2>2. ASSUME NEW r \in Readers, Interrupt(r) PROVE armed' = armed
    BY <2>2 DEF Interrupt, SessionInv, gateway
  <2>3. ASSUME NEW r \in Readers, ReadResult(r) PROVE armed' = armed
    BY <2>3 DEF ReadResult
  <2>4. QED
    BY <2>1, <2>2, <2>3
    DEF Next, Step, NumericRead, CounterRead, NumericSelect, CounterSelect,
        NumericResult, CounterResult, StartRead, EnterSession, AcquireClient,
        CancelQueued, Unload, OtherRequest, Measure, Restart, gateway, vars
<1>2. QED
  BY <1>1, TypeCorrect, SessionConsistent, PTL DEF Spec, SelectorNotStolen

(* Every READY answer is a measurement nobody was given before             *)
(* (s2000_pp.py:396-401, 573-578).                                         *)
THEOREM NoStale == Spec => NoStaleAnswer
<1> DEFINE Fresh(r) == outcome'[r].status = "ready" /\ outcome[r].status # "ready" => ~answered
<1>1. TypeOK /\ SessionInv /\ [Next]_vars => [\A r \in Readers : Fresh(r)]_vars
  <2> SUFFICES ASSUME TypeOK, SessionInv, [Next]_vars, NEW q \in Readers,
                      outcome'[q].status = "ready", outcome[q].status # "ready"
               PROVE  ~answered
    OBVIOUS
  <2>0. ASSUME NEW r \in Readers, NEW s, NEW v, s # "ready",
               outcome' = [outcome EXCEPT ![r] = Answer(s, v)]
        PROVE  FALSE
    <3>1. /\ outcome'[r].status = s
          /\ q # r => outcome'[q] = outcome[q]
      BY <2>0 DEF TypeOK, Answer
    <3>2. QED  BY <2>0, <3>1
  <2>1. ASSUME NEW r \in Readers, NEW s, NEW v, Leave(r, s, v), s # "ready" PROVE FALSE
    BY <2>0, <2>1 DEF Leave
  <2>2. ASSUME NEW r \in Readers, NEW c \in Uses[r], StartRead(r, c) PROVE FALSE
    BY <2>0, <2>2 DEF StartRead
  <2>3. ASSUME NEW r \in Readers, EnterSession(r) PROVE FALSE
    <3>1. UNCHANGED outcome \/ outcome' = [outcome EXCEPT ![r] = Answer("retryable", NoChannel)]
      BY <2>3 DEF EnterSession
    <3>2. QED  BY <2>0, <3>1
  <2>4. ASSUME NEW r \in Readers, Select(r) PROVE FALSE
    <3>1. CASE UNCHANGED <<sessionLock, requestLock, want, outcome, loaded>>
      BY <3>1
    <3>2. CASE \E s \in {"pending", "retryable", "error"} : Return(r, s, NoChannel)
      BY <2>1, <3>2 DEF Return
    <3>3. QED  BY <2>4, <3>1, <3>2, ErrorStatusType DEF Select
  <2>5. ASSUME NEW r \in Readers, ReadResult(r) PROVE ~answered
    <3>1. CASE ready
      BY <2>5, <3>1, ReadyValue DEF ReadResult
    <3>2. CASE \E s \in {"pending", "retryable", "error"} : Return(r, s, NoChannel)
      BY <2>1, <3>2 DEF Return
    <3>3. QED  BY <2>5, <3>1, <3>2, ErrorStatusType DEF ReadResult
  <2>6. ASSUME NEW r \in Readers, Interrupt(r) PROVE FALSE
    BY <2>1, <2>6 DEF Interrupt
  <2>7. ASSUME NEW r \in Readers, CancelQueued(r) PROVE FALSE
    BY <2>0, <2>7 DEF CancelQueued
  <2>8. CASE UNCHANGED outcome
    BY <2>8
  <2>9. QED
    BY <2>2, <2>3, <2>4, <2>5, <2>6, <2>7, <2>8
    DEF Next, Step, NumericRead, CounterRead, NumericSelect, CounterSelect,
        NumericResult, CounterResult, AcquireClient, Unload, OtherRequest, Measure,
        Restart, calls, vars
<1>2. QED
  BY <1>1, TypeCorrect, SessionConsistent, PTL DEF Spec, NoStaleAnswer

(* A call that ends for good unparks its own request: a value or an error  *)
(* by clearing what is parked, an exception by comparing it first          *)
(* (s2000_pp.py:387-401, 569-578).                                         *)
THEOREM EndedUnparks == Spec => EndedCallUnparks
<1> DEFINE Ended(q) == /\ pc[q] \in Inside
                       /\ pc'[q] = "idle"
                       /\ outcome'[q].status \in {"ready", "error", "raised"}
           Unparked(q) == pending_request' # Request(want[q])
<1>1. TypeOK /\ [Next]_vars
         => [\A r \in Readers :
                /\ pc[r] \in Inside
                /\ pc'[r] = "idle"
                /\ outcome'[r].status \in {"ready", "error", "raised"}
                => pending_request' # Request(want[r])]_vars
  <2> SUFFICES ASSUME TypeOK, [Next]_vars, NEW q \in Readers, Ended(q)
               PROVE  Unparked(q)
    OBVIOUS
  <2>0. Request(want[q]) # NoRequest
    BY ChannelAssumption DEF TypeOK
  <2>1. ASSUME NEW r \in Readers, NEW p, p # "idle" \/ pc[r] \notin Inside,
               pc' = [pc EXCEPT ![r] = p]
        PROVE  FALSE
    BY <2>1 DEF TypeOK, Inside
  <2>2. ASSUME NEW r \in Readers, NEW s, NEW v, Leave(r, s, v)
        PROVE  q = r /\ outcome'[q].status = s
    <3>1. pc' = [pc EXCEPT ![r] = "idle"] /\ outcome' = [outcome EXCEPT ![r] = Answer(s, v)]
      BY <2>2 DEF Leave
    <3>2. q = r
      BY <3>1 DEF TypeOK, Inside
    <3>3. QED  BY <3>1, <3>2 DEF TypeOK, Answer
  <2>3. ASSUME NEW r \in Readers, NEW s, NEW v, Return(r, s, v) PROVE Unparked(q)
    BY <2>0, <2>2, <2>3 DEF Return
  <2>4. ASSUME NEW r \in Readers, NEW c \in Uses[r], StartRead(r, c) PROVE FALSE
    BY <2>1, <2>4 DEF StartRead
  <2>5. ASSUME NEW r \in Readers, EnterSession(r) PROVE FALSE
    <3>1. pc[r] \notin Inside /\ \E p \in Phases : pc' = [pc EXCEPT ![r] = p]
      BY <2>5 DEF EnterSession, Inside, Phases
    <3>2. QED  BY <2>1, <3>1
  <2>6. ASSUME NEW r \in Readers, AcquireClient(r) PROVE FALSE
    BY <2>1, <2>6 DEF AcquireClient
  <2>7. ASSUME NEW r \in Readers, Select(r) PROVE Unparked(q)
    <3>1. CASE pc' = [pc EXCEPT ![r] = "result"]
      BY <2>1, <3>1
    <3>2. CASE \E s \in Statuses : Return(r, s, NoChannel)
      BY <2>3, <3>2
    <3>3. QED  BY <2>7, <3>1, <3>2, ErrorStatusType DEF Select, Statuses
  <2>8. ASSUME NEW r \in Readers, ReadResult(r) PROVE Unparked(q)
    <3>1. \E s \in Statuses : \E v : Return(r, s, v)
      BY <2>8, ErrorStatusType DEF ReadResult, Statuses
    <3>2. QED  BY <2>3, <3>1
  <2>9. ASSUME NEW r \in Readers, Interrupt(r) PROVE Unparked(q)
    BY <2>0, <2>2, <2>9 DEF Interrupt
  <2>10. ASSUME NEW r \in Readers, CancelQueued(r) PROVE FALSE
    BY <2>1, <2>10 DEF CancelQueued, Inside
  <2>11. ASSUME UNCHANGED pc PROVE FALSE
    BY <2>11 DEF Inside
  <2>12. QED
    BY <2>4, <2>5, <2>6, <2>7, <2>8, <2>9, <2>10, <2>11
    DEF Next, Step, NumericRead, CounterRead, NumericSelect, CounterSelect,
        NumericResult, CounterResult, Unload, OtherRequest, Measure, Restart, calls, vars
<1>2. QED
  BY <1>1, TypeCorrect, PTL DEF Spec, EndedCallUnparks

(* Every step of the protocol is a step of the selector service or leaves  *)
(* what the service sees unchanged: locks, exchanges and the gateway do    *)
(* not show (s2000_pp.py:340-401, 529-578).                                *)
THEOREM ProtocolImplementsService == Spec => ImplementsService
<1> USE DEF Request, Answer, Service!Request, Service!Answer, Service!Reply
<1>1. Init => Service!ServiceInit
  BY DEF Init, Service!ServiceInit
<1>2. TypeOK /\ SessionInv /\ [Next]_vars => [Service!ServiceNext]_(Service!serviceVars)
  <2> SUFFICES ASSUME TypeOK, SessionInv, [Next]_vars
               PROVE  Service!ServiceNext \/ UNCHANGED Service!serviceVars
    BY DEF Service!serviceVars
  <2> USE DEF Service!ServiceNext, Service!serviceVars
  <2>1. ASSUME NEW r \in Readers, NEW c \in Uses[r], StartRead(r, c)
        PROVE  Service!Ask(r, c) /\ c \in Channels
    BY <2>1, ReaderAssumption DEF StartRead, session, Service!Ask
  <2>2. ASSUME NEW r \in Readers, EnterSession(r)
        PROVE  Service!Defer(r) \/ UNCHANGED Service!serviceVars
    <3>1. outcome[r].status = "none"
      BY <2>2 DEF EnterSession, SessionInv
    <3>2. QED  BY <2>2, <3>1 DEF EnterSession, Service!Defer
  <2>3. ASSUME NEW r \in Readers, NEW s \in {"pending", "retryable"},
               outcome[r].status = "none", Return(r, s, NoChannel)
        PROVE  Service!Defer(r)
    BY <2>3 DEF Return, Leave, Service!Defer
  <2>4. ASSUME NEW r \in Readers, NEW s \in {"error", "raised"},
               outcome[r].status = "none", Leave(r, s, NoChannel), pending_request' = NoRequest,
               pending_request \in {NoRequest, Request(want[r])}
        PROVE  Service!Defer(r) \/ Service!Abandon(r)
    BY <2>4 DEF Leave, Service!Defer, Service!Abandon
  <2>5. ASSUME NEW r \in Readers, Select(r)
        PROVE  Service!Park(r) \/ Service!Defer(r) \/ Service!Abandon(r)
    <3>1. outcome[r].status = "none" /\ pending_request = NoRequest
      BY <2>5 DEF Select, SessionInv
    <3>2. CASE /\ pending_request' = Request(want[r])
               /\ UNCHANGED <<sessionLock, requestLock, want, outcome, loaded>>
      BY <3>1, <3>2 DEF Service!Park
    <3>3. CASE \E s \in {"pending", "retryable", "error"} : Return(r, s, NoChannel)
      <4>1. PICK s \in {"pending", "retryable", "error"} : Return(r, s, NoChannel)
        BY <3>3
      <4>2. QED  BY <2>3, <2>4, <3>1, <4>1 DEF Return
    <3>4. QED  BY <2>5, <3>2, <3>3, ErrorStatusType DEF Select
  <2>6. ASSUME NEW r \in Readers, ReadResult(r)
        PROVE  Service!Deliver(r) \/ Service!Defer(r) \/ Service!Abandon(r)
    <3>1. outcome[r].status = "none" /\ pending_request = Request(want[r])
      BY <2>6 DEF ReadResult, SessionInv
    <3>2. CASE ready /\ Return(r, "ready", armed)
      <4>1. armed = want[r]
        BY <2>6, <3>2, ReadyValue DEF ReadResult
      <4>2. QED  BY <3>1, <3>2, <4>1 DEF Return, Leave, Service!Deliver
    <3>3. CASE \E s \in {"pending", "retryable", "error"} : Return(r, s, NoChannel)
      <4>1. PICK s \in {"pending", "retryable", "error"} : Return(r, s, NoChannel)
        BY <3>3
      <4>2. QED  BY <2>3, <2>4, <3>1, <4>1 DEF Return
    <3>4. QED  BY <2>6, <3>2, <3>3, ErrorStatusType DEF ReadResult
  <2>7. ASSUME NEW r \in Readers, Interrupt(r)
        PROVE  Service!Defer(r) \/ Service!Abandon(r)
    <3>1. outcome[r].status = "none" /\ pending_request \in {NoRequest, Request(want[r])}
      BY <2>7 DEF Interrupt, SessionInv, Inside
    <3>2. QED  BY <2>4, <2>7, <3>1 DEF Interrupt
  <2>8. ASSUME NEW r \in Readers, CancelQueued(r) PROVE Service!Defer(r)
    <3>1. outcome[r].status = "none"
      BY <2>8 DEF CancelQueued, SessionInv
    <3>2. QED  BY <2>8, <3>1 DEF CancelQueued, session, Service!Defer
  <2>9. CASE UNCHANGED <<pending_request, want, outcome>>
    BY <2>9
  <2>10. ASSUME NEW r \in Readers, \/ Service!Park(r) \/ Service!Deliver(r)
                                   \/ Service!Defer(r) \/ Service!Abandon(r)
         PROVE  Service!ServiceNext
    BY <2>10
  <2>11. QED
    BY <2>1, <2>2, <2>5, <2>6, <2>7, <2>8, <2>9, <2>10
    DEF Next, Step, NumericRead, CounterRead, NumericSelect, CounterSelect,
        NumericResult, CounterResult, AcquireClient, Unload, OtherRequest, Measure,
        Restart, session, calls, vars
<1>3. QED
  BY <1>1, <1>2, TypeCorrect, SessionConsistent, PTL
  DEF Spec, ImplementsService, Service!ServiceSpec

=============================================================================
