------------------------- MODULE RtuOverUdp_proofs --------------------------
(* Proofs about the RTU-over-UDP client, for any timeout, quarantine,      *)
(* bounds and kinds of requests.                                           *)
EXTENDS RtuOverUdp, TLAPS

(* A datagram with time left is one tick older at the next tick.           *)
LEMMA OlderDatagram ==
    ASSUME NEW d \in Datagram, d.life > 1
    PROVE  /\ [d EXCEPT !.life = @ - 1] \in Datagram
           /\ [d EXCEPT !.life = @ - 1].life = d.life - 1
           /\ [d EXCEPT !.life = @ - 1].epoch = d.epoch
<1>1. d.life \in Nat \ {0}
  BY DEF Datagram
<1>2. d.life - 1 \in Nat \ {0}
  BY <1>1
<1>3. QED  BY <1>2 DEF Datagram

(* What a request puts on the wire carries its epoch and a whole life.     *)
LEMMA WireDatagrams ==
    ASSUME TypeOK, NEW reply \in Replies, NEW d \in reply
    PROVE  d \in Datagram /\ d.epoch = epoch /\ d.life = MaxDelay
<1>1. PICK part \in Parts, copy \in {0, 1} : d = Reply(part, copy)
  BY DEF Replies, Parts
<1>2. QED  BY <1>1, UdpAssumption DEF Reply, Datagram, TypeOK

(* No datagrams at all.                                                    *)
LEMMA NoDatagrams == \A S : <<>> \in Seq(S)
  OBVIOUS

(* Draining and receiving leave datagrams of the same kind.                *)
LEMMA DrainedDatagrams ==
    ASSUME NEW S, NEW q \in Seq(S), NEW left \in Drains(q)
    PROVE  left \in Seq(S)
<1>1. PICK n \in 0..MaxStale : left = SubSeq(q, n + 1, Len(q))
  BY DEF Drains
<1>2. \A i \in (n + 1)..Len(q) : q[i] \in S
  BY UdpAssumption
<1>3. QED  BY <1>1, <1>2, UdpAssumption

(* Taking the first one of some.                                           *)
LEMMA TakenDatagrams ==
    ASSUME NEW S, NEW q \in Seq(S), q # <<>>
    PROVE  Head(q) \in S /\ Tail(q) \in Seq(S)
  OBVIOUS

(* Giving the socket up keeps the types.                                   *)
LEMMA TaintTyped ==
    ASSUME TypeOK, Taint
    PROVE  /\ bound' \in BOOLEAN
           /\ tainted' \in BOOLEAN
           /\ remaining' \in 0..Quarantine
           /\ queue' \in Seq(Datagram)
<1>1. bound' = FALSE /\ tainted' = TRUE
  BY DEF Taint
<1>2. remaining' = Quarantine /\ Quarantine \in 0..Quarantine
  BY UdpAssumption DEF Taint
<1>3. queue' \in Seq(Datagram)
  BY NoDatagrams DEF Taint
<1>4. bound' \in BOOLEAN /\ tainted' \in BOOLEAN
  BY <1>1
<1>5. QED  BY <1>2, <1>3, <1>4

(* Ending a call keeps the types.                                          *)
LEMMA EndTyped ==
    ASSUME TypeOK, End
    PROVE  /\ pc' \in Phases
           /\ frame' \in Seq(Datagram)
           /\ ignored' \in BOOLEAN
           /\ deadline' \in 0..Timeout
           /\ seq' \in Nat
           /\ shape' \in Shapes
<1>1. pc' \in Phases
  BY DEF End, Phases
<1>2. frame' \in Seq(Datagram)
  BY NoDatagrams DEF End
<1>3. deadline' \in 0..Timeout
  BY UdpAssumption DEF End
<1>4. seq' \in Nat /\ shape' \in Shapes /\ ignored' \in BOOLEAN
  BY DEF End, TypeOK
<1>5. QED  BY <1>1, <1>2, <1>3, <1>4

(* Binding the port keeps the types.                                       *)
LEMMA BindTyped ==
    ASSUME TypeOK, Bind
    PROVE  /\ bound' \in BOOLEAN
           /\ epoch' \in Nat
           /\ tainted' \in BOOLEAN
           /\ remaining' \in 0..Quarantine
<1>1. bound' = TRUE /\ tainted' = FALSE
  BY DEF Bind
<1>2. epoch' \in Nat /\ remaining' \in 0..Quarantine
  BY UdpAssumption DEF Bind, TypeOK
<1>3. bound' \in BOOLEAN /\ tainted' \in BOOLEAN
  BY <1>1
<1>4. QED  BY <1>2, <1>3

(* Draining the socket and taking a number keep the types.                 *)
LEMMA BeginTyped ==
    ASSUME TypeOK, NEW s \in Shapes, NEW q \in Seq(Datagram), BeginSend(s, q)
    PROVE  /\ pc' \in Phases
           /\ seq' \in Nat
           /\ shape' \in Shapes
           /\ queue' \in Seq(Datagram)
           /\ accepted' \in Nat \cup {Unanswered}
<1>1. queue' \in Seq(Datagram)
  BY DrainedDatagrams DEF BeginSend
<1>2. QED  BY <1>1 DEF BeginSend, Phases, TypeOK

(* What the network makes of a request is datagrams.                       *)
LEMMA WireTyped ==
    ASSUME TypeOK, PutOnWire
    PROVE  flight' \subseteq Datagram
<1>1. PICK reply \in Replies : flight' = flight \cup reply
  BY DEF PutOnWire
<1>2. reply \subseteq Datagram
  BY WireDatagrams
<1>3. QED  BY <1>1, <1>2 DEF TypeOK

(* Every step keeps the variables in their types; the deadline and the     *)
(* quarantine never run below zero (rtu_over_udp.py:100-115).              *)
THEOREM TypeCorrect == Spec => []TypeOK
<1>1. Init => TypeOK
  <2> SUFFICES ASSUME Init PROVE TypeOK
    OBVIOUS
  <2>1. bound \in BOOLEAN /\ tainted \in BOOLEAN /\ closed \in BOOLEAN /\ ignored \in BOOLEAN
    BY DEF Init
  <2>2. /\ epoch \in Nat /\ seq \in Nat /\ pc \in Phases /\ shape \in Shapes
        /\ remaining \in 0..Quarantine /\ deadline \in 0..Timeout
    BY UdpAssumption DEF Init, Phases
  <2>3. /\ frame \in Seq(Datagram) /\ queue \in Seq(Datagram) /\ flight \subseteq Datagram
        /\ accepted \in Nat \cup {Unanswered}
    BY NoDatagrams DEF Init
  <2>4. QED  BY <2>1, <2>2, <2>3 DEF TypeOK
<1>2. TypeOK /\ [Next]_vars => TypeOK'
  <2> SUFFICES ASSUME TypeOK, [Next]_vars PROVE TypeOK'
    OBVIOUS
  <2>1. CASE Connect
    <3>1. pc' \in Phases
      BY <2>1 DEF Connect, Phases
    <3>2. Bind /\ UNCHANGED <<closed, seq, shape, deadline, frame, ignored, queue, flight, accepted>>
      BY <2>1 DEF Connect
    <3>3. QED  BY <3>1, <3>2, BindTyped DEF TypeOK
  <2>2. CASE Close
    <3>1. queue' \in Seq(Datagram)
      <4>1. <<>> \in Seq(Datagram)
        BY NoDatagrams
      <4>2. queue # <<>> => <<Head(queue)>> \in Seq(Datagram)
        BY TakenDatagrams DEF TypeOK
      <4>3. QED  BY <2>2, <4>1, <4>2 DEF Close
    <3>2. closed' \in BOOLEAN /\ bound' \in BOOLEAN /\ tainted' \in BOOLEAN
      BY <2>2 DEF Close
    <3>3. /\ remaining' \in 0..Quarantine
          /\ UNCHANGED <<epoch, pc, seq, shape, deadline, frame, ignored, flight, accepted>>
      BY <2>2, UdpAssumption DEF Close
    <3>4. QED  BY <3>1, <3>2, <3>3 DEF TypeOK
  <2>3. ASSUME NEW s \in Shapes, Request(s) PROVE TypeOK'
    <3>1. UNCHANGED <<bound, epoch, tainted, remaining, closed, deadline, frame, ignored, flight>>
      BY <2>3 DEF Request, transport
    <3>2. CASE BeginSend(s, queue)
      <4>1. queue \in Seq(Datagram)
        BY DEF TypeOK
      <4>2. QED  BY <3>1, <3>2, <4>1, BeginTyped DEF TypeOK
    <3>3. CASE pc' = "recovering" /\ shape' = s /\ UNCHANGED <<seq, queue, accepted>>
      BY <3>1, <3>3 DEF TypeOK, Phases
    <3>4. QED  BY <2>3, <3>2, <3>3 DEF Request
  <2>4. CASE Recover
    <3>1. Bind /\ BeginSend(shape, <<>>) /\ UNCHANGED <<closed, deadline, frame, ignored, flight>>
      BY <2>4 DEF Recover
    <3>2. <<>> \in Seq(Datagram) /\ shape \in Shapes
      BY NoDatagrams DEF TypeOK
    <3>3. QED  BY <3>1, <3>2, BindTyped, BeginTyped DEF TypeOK
  <2>5. CASE RecoverFails
    <3>1. pc' \in Phases /\ remaining' \in 0..Quarantine
      BY <2>5, UdpAssumption DEF RecoverFails, Phases, TypeOK
    <3>2. UNCHANGED <<bound, epoch, tainted, closed, seq, shape, deadline, frame, ignored,
                      queue, flight, accepted>>
      BY <2>5 DEF RecoverFails
    <3>3. QED  BY <3>1, <3>2 DEF TypeOK
  <2>6. CASE Send
    <3>1. pc' \in Phases /\ deadline' \in 0..Timeout
      BY <2>6, UdpAssumption DEF Send, Phases
    <3>2. /\ PutOnWire
          /\ UNCHANGED <<bound, epoch, tainted, remaining, closed, seq, shape, frame, ignored,
                         queue, accepted>>
      BY <2>6 DEF Send, transport
    <3>3. QED  BY <3>1, <3>2, WireTyped DEF TypeOK
  <2>7. CASE SendError
    BY <2>7, EndTyped DEF SendError, TypeOK, transport
  <2>8. CASE Receive
    <3> DEFINE f == Append(frame, Head(queue))
    <3>1. f \in Seq(Datagram) /\ f[1] \in Datagram /\ Tail(queue) \in Seq(Datagram)
      <4>1. Head(queue) \in Datagram /\ Tail(queue) \in Seq(Datagram)
        BY <2>8, TakenDatagrams DEF Receive, TypeOK
      <4>2. frame \in Seq(Datagram)
        BY DEF TypeOK
      <4>3. QED  BY <4>1, <4>2
    <3> HIDE DEF f
    <3>2. CASE Accept(f)
      <4>1. accepted' \in Nat \cup {Unanswered}
        BY <3>1, <3>2 DEF Accept, Datagram
      <4>2. /\ End /\ queue' = Tail(queue)
            /\ UNCHANGED <<bound, epoch, tainted, remaining, closed, flight>>
        BY <2>8, <3>2 DEF Accept, Receive, transport
      <4>3. QED  BY <3>1, <4>1, <4>2, EndTyped DEF TypeOK
    <3>3. CASE KeepWaiting(f)
      BY <2>8, <3>1, <3>3 DEF KeepWaiting, Receive, TypeOK, transport
    <3>4. CASE Refuse(f)
      <4>1. End /\ Taint /\ UNCHANGED <<epoch, closed, flight, accepted>>
        BY <2>8, <3>4 DEF Refuse, Receive
      <4>2. QED  BY <4>1, EndTyped, TaintTyped DEF TypeOK
    <3>5. QED  BY <2>8, <3>2, <3>3, <3>4 DEF Receive, f
  <2>8a. CASE Ignore
    BY <2>8a DEF Ignore, TypeOK, transport
  <2>9. CASE ResponseTimeout
    BY <2>9, EndTyped, TaintTyped DEF ResponseTimeout, TypeOK
  <2>10. CASE ReceiveClosed
    BY <2>10, EndTyped DEF ReceiveClosed, TypeOK, transport
  <2>11. CASE Cancel
    <3>1. End /\ UNCHANGED <<epoch, closed, accepted>>
      BY <2>11 DEF Cancel
    <3>2. /\ bound' \in BOOLEAN /\ tainted' \in BOOLEAN /\ remaining' \in 0..Quarantine
          /\ queue' \in Seq(Datagram)
      <4>1. CASE Taint
        BY <4>1, TaintTyped
      <4>2. CASE UNCHANGED <<bound, tainted, remaining, queue>>
        BY <4>2 DEF TypeOK
      <4>3. QED  BY <2>11, <4>1, <4>2 DEF Cancel
    <3>3. flight' \subseteq Datagram
      <4>1. CASE PutOnWire
        BY <4>1, WireTyped
      <4>2. CASE UNCHANGED flight
        BY <4>2 DEF TypeOK
      <4>3. QED  BY <2>11, <4>1, <4>2 DEF Cancel
    <3>4. QED  BY <3>1, <3>2, <3>3, EndTyped DEF TypeOK
  <2>12. ASSUME NEW d \in flight, Deliver(d) PROVE TypeOK'
    <3>1. queue' \in Seq(Datagram) /\ flight' \subseteq Datagram
      BY <2>12 DEF Deliver, TypeOK
    <3>2. QED  BY <2>12, <3>1 DEF Deliver, TypeOK, transport
  <2>13. ASSUME NEW d \in flight, Lose(d) PROVE TypeOK'
    BY <2>13 DEF Lose, TypeOK, transport
  <2>14. CASE Tick
    <3>1. deadline' \in 0..Timeout /\ remaining' \in 0..Quarantine
      BY <2>14, UdpAssumption DEF Tick, Sooner, TypeOK
    <3>2. flight' \subseteq Datagram
      BY <2>14, OlderDatagram DEF Tick, TypeOK
    <3>3. UNCHANGED <<bound, epoch, tainted, closed, pc, seq, shape, frame, ignored, queue,
                      accepted>>
      BY <2>14 DEF Tick
    <3>4. QED  BY <3>1, <3>2, <3>3 DEF TypeOK
  <2>15. CASE UNCHANGED vars
    BY <2>15 DEF vars, TypeOK
  <2>16. QED
    BY <2>1, <2>2, <2>3, <2>4, <2>5, <2>6, <2>7, <2>8, <2>8a, <2>9, <2>10, <2>11, <2>12,
       <2>13, <2>14, <2>15 DEF Next, Progress
<1>3. QED  BY <1>1, <1>2, PTL DEF Spec

-----------------------------------------------------------------------------
(* What separates one epoch from the next.  While the port is bound, all   *)
(* there is, also on the wire, belongs to the current epoch.  A client     *)
(* that gave its socket up has no port, and nothing on the wire outlives   *)
(* the quarantine, so that there is nothing left when it binds again.      *)
Of(e) == {d \in Datagram : d.epoch = e}

Epochs ==
    /\ bound => /\ queue \in Seq(Of(epoch))
                /\ frame \in Seq(Of(epoch))
                /\ flight \subseteq Of(epoch)
    /\ \A d \in flight : d.life <= MaxDelay
    /\ tainted => ~bound /\ \A d \in flight : d.life <= remaining
    /\ pc = "new" => ~bound /\ ~tainted /\ ~closed /\ flight = {} /\ queue = <<>>
    /\ pc # "waiting" => frame = <<>>
    /\ pc = "recovering" => tainted \/ closed
    /\ closed => ~bound

(* What a request puts on the wire belongs to the current epoch and lives  *)
(* no longer than the bound.                                               *)
LEMMA WireOfEpoch ==
    ASSUME TypeOK, Epochs, PutOnWire
    PROVE  /\ \A d \in flight' : d.life <= MaxDelay
           /\ bound => flight' \subseteq Of(epoch)
<1>1. PICK reply \in Replies : flight' = flight \cup reply
  BY DEF PutOnWire
<1>2. \A d \in reply : d \in Of(epoch) /\ d.life = MaxDelay
  BY WireDatagrams DEF Of
<1>3. MaxDelay <= MaxDelay
  BY UdpAssumption
<1>4. QED  BY <1>1, <1>2, <1>3 DEF Epochs

(* A socket given up starts a quarantine that everything on the wire ends  *)
(* within (rtu_over_udp.py:207-222).                                       *)
LEMMA TaintSeparates ==
    ASSUME TypeOK, Epochs, Taint, End, UNCHANGED <<epoch, closed>>, pc # "new",
           flight' \subseteq Datagram, \A d \in flight' : d.life <= MaxDelay
    PROVE  Epochs'
<1>1. ~bound' /\ tainted' /\ remaining' = Quarantine
  BY DEF Taint
<1>2. \A d \in flight' : d.life <= remaining'
  BY <1>1, UdpAssumption DEF Datagram
<1>3. pc' = "idle" /\ frame' = <<>> /\ closed' = closed
  BY DEF End
<1>4. QED  BY <1>1, <1>2, <1>3 DEF Epochs

(* The separation is inductive.                                            *)
LEMMA EpochsSeparate == Spec => []Epochs
<1>1. Init => Epochs
  BY NoDatagrams DEF Init, Epochs
<1>2. TypeOK /\ TypeOK' /\ Epochs /\ [Next]_vars => Epochs'
  <2> SUFFICES ASSUME TypeOK, TypeOK', Epochs, [Next]_vars PROVE Epochs'
    OBVIOUS
  <2>1. CASE Connect
    <3>1. /\ bound' /\ ~tainted' /\ pc' = "idle"
          /\ UNCHANGED <<closed, frame, queue, flight>> /\ pc = "new"
      BY <2>1 DEF Connect, Bind
    <3>2. frame = <<>> /\ queue = <<>> /\ flight = {} /\ ~closed
      BY <3>1 DEF Epochs
    <3>3. QED  BY <3>1, <3>2, NoDatagrams DEF Epochs
  <2>2. CASE Close
    <3>1. /\ ~bound' /\ ~tainted' /\ closed' /\ pc # "new"
          /\ UNCHANGED <<pc, frame, flight>>
      BY <2>2 DEF Close
    <3>2. QED  BY <3>1 DEF Epochs
  <2>3. ASSUME NEW s \in Shapes, Request(s) PROVE Epochs'
    <3>1. /\ UNCHANGED <<bound, epoch, tainted, remaining, closed, frame, flight>>
          /\ pc = "idle"
      BY <2>3 DEF Request, transport
    <3>2. CASE BeginSend(s, queue)
      <4>1. bound => queue' \in Seq(Of(epoch))
        BY <3>2, DrainedDatagrams DEF BeginSend, Epochs
      <4>2. pc' = "sending"
        BY <3>2 DEF BeginSend
      <4>3. QED  BY <3>1, <4>1, <4>2 DEF Epochs
    <3>3. CASE tainted /\ pc' = "recovering" /\ UNCHANGED queue
      BY <3>1, <3>3 DEF Epochs
    <3>4. QED  BY <2>3, <3>2, <3>3 DEF Request
  <2>4. CASE Recover
    <3>1. /\ pc = "recovering" /\ remaining = 0 /\ ~closed /\ Bind /\ BeginSend(shape, <<>>)
          /\ UNCHANGED <<closed, frame, flight>>
      BY <2>4 DEF Recover
    <3>2. flight = {}
      <4>1. tainted
        BY <3>1 DEF Epochs
      <4>2. \A d \in flight : d.life <= 0 /\ d.life \in Nat \ {0}
        BY <3>1, <4>1 DEF Epochs, TypeOK, Datagram
      <4>3. QED  BY <4>2
    <3>3. queue' \in Seq(Of(epoch')) /\ frame' \in Seq(Of(epoch'))
      <4>1. queue' \in Drains(<<>>) /\ frame' = <<>>
        BY <3>1 DEF BeginSend, Epochs
      <4>2. QED  BY <4>1, NoDatagrams, DrainedDatagrams
    <3>4. bound' /\ ~tainted' /\ pc' = "sending"
      BY <3>1 DEF Bind, BeginSend
    <3>5. frame' = <<>>
      BY <3>1 DEF Epochs
    <3>6. QED  BY <3>1, <3>2, <3>3, <3>4, <3>5 DEF Epochs
  <2>5. CASE RecoverFails
    <3>1. /\ pc = "recovering" /\ pc' = "idle"
          /\ UNCHANGED <<bound, epoch, tainted, closed, frame, queue, flight>>
      BY <2>5 DEF RecoverFails
    <3>2. tainted => \A d \in flight : d.life <= remaining'
      <4>1. CASE UNCHANGED remaining
        BY <4>1 DEF Epochs
      <4>2. CASE remaining' = Quarantine
        <5>1. \A d \in flight : d.life \in Nat /\ d.life <= MaxDelay
          BY DEF Epochs, TypeOK, Datagram
        <5>2. QED  BY <4>2, <5>1, UdpAssumption
      <4>3. QED  BY <2>5, <4>1, <4>2 DEF RecoverFails
    <3>3. QED  BY <3>1, <3>2 DEF Epochs
  <2>6. CASE Send
    <3>1. /\ pc = "sending" /\ pc' = "waiting" /\ bound /\ PutOnWire
          /\ UNCHANGED <<bound, epoch, tainted, remaining, closed, frame, queue>>
      BY <2>6 DEF Send, transport
    <3>2. QED  BY <3>1, WireOfEpoch DEF Epochs
  <2>7. CASE SendError
    BY <2>7, NoDatagrams DEF SendError, End, Epochs, transport
  <2>8. CASE Receive
    <3> DEFINE f == Append(frame, Head(queue))
    <3>1. bound => f \in Seq(Of(epoch)) /\ Tail(queue) \in Seq(Of(epoch))
      <4>1. bound => Head(queue) \in Of(epoch) /\ Tail(queue) \in Seq(Of(epoch))
        BY <2>8, TakenDatagrams DEF Receive, Epochs
      <4>2. QED  BY <4>1 DEF Epochs
    <3>2. pc = "waiting" /\ UNCHANGED flight
      BY <2>8 DEF Receive
    <3> HIDE DEF f
    <3>3. CASE Accept(f)
      BY <3>1, <3>2, <3>3, NoDatagrams DEF Accept, End, Epochs, transport
    <3>4. CASE KeepWaiting(f)
      BY <3>1, <3>2, <3>4 DEF KeepWaiting, Epochs, transport
    <3>5. CASE Refuse(f)
      <4>1. Taint /\ End /\ UNCHANGED <<epoch, closed>>
        BY <3>5 DEF Refuse
      <4>2. flight' \subseteq Datagram /\ \A d \in flight' : d.life <= MaxDelay
        BY <3>2 DEF Epochs, TypeOK
      <4>3. QED  BY <3>2, <4>1, <4>2, TaintSeparates
    <3>6. QED  BY <2>8, <3>3, <3>4, <3>5 DEF Receive, f
  <2>8a. CASE Ignore
    BY <2>8a DEF Ignore, Epochs, transport
  <2>9. CASE ResponseTimeout
    <3>1. Taint /\ End /\ UNCHANGED <<epoch, closed, flight>> /\ pc = "waiting"
      BY <2>9 DEF ResponseTimeout
    <3>2. flight' \subseteq Datagram /\ \A d \in flight' : d.life <= MaxDelay
      BY <3>1 DEF Epochs, TypeOK
    <3>3. QED  BY <3>1, <3>2, TaintSeparates
  <2>10. CASE ReceiveClosed
    BY <2>10 DEF ReceiveClosed, End, Epochs, transport
  <2>11. CASE Cancel
    <3>1. End /\ UNCHANGED <<epoch, closed>>
      BY <2>11 DEF Cancel
    <3>2. CASE pc = "recovering" /\ UNCHANGED <<bound, tainted, remaining, queue, flight>>
      BY <3>1, <3>2 DEF End, Epochs
    <3>3. CASE pc = "sending" /\ Taint /\ (PutOnWire \/ UNCHANGED flight)
      <4>1. flight' \subseteq Datagram
        BY DEF TypeOK
      <4>2. \A d \in flight' : d.life <= MaxDelay
        BY <3>3, WireOfEpoch DEF Epochs
      <4>3. QED  BY <3>1, <3>3, <4>1, <4>2, TaintSeparates
    <3>4. CASE pc = "waiting" /\ Taint /\ UNCHANGED flight
      <4>1. flight' \subseteq Datagram /\ \A d \in flight' : d.life <= MaxDelay
        BY <3>4 DEF Epochs, TypeOK
      <4>2. QED  BY <3>1, <3>4, <4>1, TaintSeparates
    <3>5. QED  BY <2>11, <3>2, <3>3, <3>4 DEF Cancel
  <2>12. ASSUME NEW d \in flight, Deliver(d) PROVE Epochs'
    <3>1. UNCHANGED <<bound, epoch, tainted, remaining, closed, pc, frame>>
      BY <2>12 DEF Deliver, transport
    <3>2. flight' \subseteq flight
      BY <2>12 DEF Deliver
    <3>3. bound => queue' \in Seq(Of(epoch))
      BY <2>12 DEF Deliver, Epochs
    <3>4. pc # "new"
      BY DEF Epochs
    <3>5. QED  BY <3>1, <3>2, <3>3, <3>4 DEF Epochs
  <2>13. ASSUME NEW d \in flight, Lose(d) PROVE Epochs'
    BY <2>13 DEF Lose, Epochs, transport
  <2>14. CASE Tick
    <3>1. UNCHANGED <<bound, epoch, tainted, closed, pc, frame, queue>>
      BY <2>14 DEF Tick
    <3>2. \A d \in flight' : \E e \in flight :
              /\ e.life > 1 /\ d.life = e.life - 1 /\ d.epoch = e.epoch /\ d \in Datagram
              /\ e.life \in Nat
      <4>1. \A e \in flight : e \in Datagram /\ e.life \in Nat
        BY DEF TypeOK, Datagram
      <4>2. QED  BY <2>14, <4>1, OlderDatagram DEF Tick
    <3>3. \A d \in flight' : d.life <= MaxDelay
      BY <3>2, UdpAssumption DEF Epochs
    <3>4. tainted => \A d \in flight' : d.life <= remaining'
      <4>1. remaining' = Sooner(remaining) /\ remaining \in Nat
        BY <2>14, UdpAssumption DEF Tick, TypeOK
      <4>2. QED  BY <3>2, <4>1 DEF Epochs, Sooner
    <3>5. bound => flight' \subseteq Of(epoch)
      BY <3>2 DEF Epochs, Of
    <3>6. flight = {} => flight' = {}
      BY <3>2
    <3>7. QED  BY <3>1, <3>3, <3>4, <3>5, <3>6 DEF Epochs
  <2>15. CASE UNCHANGED vars
    BY <2>15 DEF vars, Epochs
  <2>16. QED
    BY <2>1, <2>2, <2>3, <2>4, <2>5, <2>6, <2>7, <2>8, <2>8a, <2>9, <2>10, <2>11, <2>12,
       <2>13, <2>14, <2>15 DEF Next, Progress
<1>3. QED  BY <1>1, <1>2, TypeCorrect, PTL DEF Spec

(* Whatever is in the socket or accumulated while the port is bound        *)
(* belongs to the current epoch: the quarantine outlives every datagram of *)
(* an epoch that was given up, however it was delayed or duplicated        *)
(* (rtu_over_udp.py:207-269).                                              *)
THEOREM EpochsKeptApart == Spec => []NothingStale
<1>1. TypeOK /\ Epochs => NothingStale
  <2> SUFFICES ASSUME Epochs, bound
               PROVE  /\ \A i \in DOMAIN queue : queue[i].epoch = epoch
                      /\ \A i \in DOMAIN frame : frame[i].epoch = epoch
    BY DEF NothingStale
  <2>1. queue \in Seq(Of(epoch)) /\ frame \in Seq(Of(epoch))
    BY DEF Epochs
  <2>2. QED  BY <2>1 DEF Of
<1>2. QED  BY <1>1, TypeCorrect, EpochsSeparate, PTL

(* A client that was closed never binds its port again, also not one that  *)
(* was waiting for the end of a quarantine (rtu_over_udp.py:177-183,       *)
(* 236-237).                                                               *)
THEOREM ClosedIsFinal == Spec => []ClosedStaysClosed
<1>1. Epochs => ClosedStaysClosed
  BY DEF Epochs, ClosedStaysClosed
<1>2. QED  BY <1>1, EpochsSeparate, PTL

-----------------------------------------------------------------------------
(* Whose answer a datagram is.  It is sound if it is of a reply; two sound *)
(* ones go together only as a head and a tail.                             *)
Sound(d) == d.part # "bad"
Clash(c, d) == Sound(c) /\ Sound(d) /\ {c.part, d.part} # {"head", "tail"}
Answers(d, open, n) == Sound(d) => open /\ d.of = n
Noise == {d \in Datagram : ~Sound(d)}

(* The strengthening: all a bound socket can be given, and all the request *)
(* in progress was given, is noise and one reply to this request.          *)
OwnReply ==
    /\ bound \/ pc = "waiting" =>
          /\ \A i \in DOMAIN queue : Answers(queue[i], pc = "waiting", seq)
          /\ \A i \in DOMAIN frame : Answers(frame[i], pc = "waiting", seq)
          /\ \A i, j \in DOMAIN queue : i # j => ~Clash(queue[i], queue[j])
          /\ \A i \in DOMAIN frame, j \in DOMAIN queue : ~Clash(frame[i], queue[j])
    /\ bound =>
          /\ \A d \in flight : Answers(d, pc = "waiting", seq)
          /\ \A c, d \in flight : c # d => ~Clash(c, d)
          /\ \A i \in DOMAIN queue, d \in flight : ~Clash(queue[i], d)
          /\ \A i \in DOMAIN frame, d \in flight : ~Clash(frame[i], d)

(* A network that duplicates nothing makes one reply of a request.         *)
LEMMA OneReply ==
    ASSUME ~Duplicates, NEW reply \in Replies
    PROVE  /\ \A d \in reply : d.of = seq
           /\ \A c, d \in reply : c # d => ~Clash(c, d)
<1> DEFINE W == Reply("whole", 0)
           H == Reply("head", 0)
           T == Reply("tail", 0)
           B == Reply("bad", 0)
<1>1. reply \in {{}, {W}, {H, T}, {B, W}}
  BY DEF Replies
<1>2. /\ W.of = seq /\ H.of = seq /\ T.of = seq /\ B.of = seq
      /\ H.part = "head" /\ T.part = "tail" /\ B.part = "bad"
  BY DEF Reply
<1> HIDE DEF W, H, T, B
<1>3. ~Clash(H, T) /\ ~Clash(T, H) /\ ~Clash(B, W) /\ ~Clash(W, B)
  BY <1>2 DEF Clash, Sound
<1>4. QED  BY <1>1, <1>2, <1>3

(* Only noise is left behind the answer that completes a request.          *)
LEMMA CompleteIsAll ==
    ASSUME TypeOK, Epochs, OwnReply, pc = "waiting", queue # <<>>,
           NEW f, f = Append(frame, Head(queue)), Complete(f)
    PROVE  /\ f[1].of = seq
           /\ \A j \in DOMAIN queue : j # 1 => ~Sound(queue[j])
           /\ bound => \A d \in flight : ~Sound(d)
<1>1. /\ frame \in Seq(Datagram) /\ queue \in Seq(Datagram)
      /\ 1 \in DOMAIN queue /\ Head(queue) = queue[1]
  BY DEF TypeOK
<1>2. CASE Len(f) = 1 /\ f[1].part = "whole"
  <2>1. f[1] = queue[1]
    BY <1>1, <1>2
  <2>2. Sound(queue[1]) /\ queue[1].part \notin {"head", "tail"}
    BY <1>2, <2>1 DEF Sound
  <2>3. \A d : ~Clash(queue[1], d) => ~Sound(d)
    BY <2>2 DEF Clash
  <2>4. f[1].of = seq
    BY <1>1, <2>1, <2>2 DEF OwnReply, Answers
  <2>5. \A j \in DOMAIN queue : j # 1 => ~Sound(queue[j])
    BY <1>1, <2>3 DEF OwnReply
  <2>6. bound => \A d \in flight : ~Sound(d)
    BY <1>1, <2>3 DEF OwnReply
  <2>7. QED  BY <2>4, <2>5, <2>6
<1>3. CASE Len(f) = 2 /\ f[1].part = "head" /\ f[2].part = "tail"
  <2>1. 1 \in DOMAIN frame /\ f[1] = frame[1] /\ f[2] = queue[1]
    BY <1>1, <1>3
  <2>2. Sound(frame[1]) /\ Sound(queue[1])
    BY <1>3, <2>1 DEF Sound
  <2>3. ASSUME NEW d, ~Clash(frame[1], d), ~Clash(queue[1], d), Sound(d) PROVE FALSE
    <3>1. {"head", d.part} = {"head", "tail"} /\ {"tail", d.part} = {"head", "tail"}
      BY <1>3, <2>1, <2>2, <2>3 DEF Clash
    <3>2. "tail" \in {"head", d.part} /\ "head" \in {"tail", d.part}
      BY <3>1
    <3>3. d.part = "tail" /\ d.part = "head"
      BY <3>2
    <3>4. QED  BY <3>3
  <2>4. f[1].of = seq
    BY <1>1, <2>1, <2>2 DEF OwnReply, Answers
  <2>5. \A j \in DOMAIN queue : j # 1 => ~Sound(queue[j])
    BY <1>1, <2>1, <2>3 DEF OwnReply
  <2>6. bound => \A d \in flight : ~Sound(d)
    BY <1>1, <2>1, <2>3 DEF OwnReply
  <2>7. QED  BY <2>4, <2>5, <2>6
<1>4. QED  BY <1>2, <1>3 DEF Complete

(* Appending and taking a datagram leave the others where they are.        *)
LEMMA Appended ==
    ASSUME NEW S, NEW q \in Seq(S), NEW d \in S, NEW i \in DOMAIN Append(q, d)
    PROVE  \/ i \in DOMAIN q /\ Append(q, d)[i] = q[i]
           \/ i \notin DOMAIN q /\ i = Len(q) + 1 /\ Append(q, d)[i] = d
  OBVIOUS

LEMMA Taken ==
    ASSUME NEW S, NEW q \in Seq(S), q # <<>>, NEW j \in DOMAIN Tail(q)
    PROVE  j + 1 \in DOMAIN q /\ Tail(q)[j] = q[j + 1] /\ j + 1 # 1
  OBVIOUS

(* Where there is only noise there is nothing to take for an answer.       *)
LEMMA NoiseIsOwn ==
    ASSUME \A i \in DOMAIN queue' : ~Sound(queue'[i]), frame' = <<>>,
           bound' => \A d \in flight' : ~Sound(d)
    PROVE  OwnReply'
<1>1. DOMAIN frame' = {}
  OBVIOUS
<1>2. QED  BY <1>1 DEF OwnReply, Answers, Clash

(* A call that gives the socket up leaves nothing it could be given.       *)
LEMMA NothingBound ==
    ASSUME ~bound', pc' # "waiting"
    PROVE  OwnReply'
  BY DEF OwnReply

(* The strengthening is inductive while nothing is duplicated.             *)
LEMMA OwnReplyHolds ==
    ASSUME ~Duplicates
    PROVE  Spec => []OwnReply
<1>1. Init => OwnReply
  BY DEF Init, OwnReply, Answers, Clash
<1>2. TypeOK /\ Epochs /\ OwnReply /\ [Next]_vars => OwnReply'
  <2> SUFFICES ASSUME TypeOK, Epochs, OwnReply, [Next]_vars PROVE OwnReply'
    OBVIOUS
  <2>a. queue \in Seq(Datagram) /\ frame \in Seq(Datagram)
    BY DEF TypeOK
  <2>b. pc # "waiting" => frame = <<>>
    BY DEF Epochs
  <2>c. bound /\ pc # "waiting" => /\ \A i \in DOMAIN queue : ~Sound(queue[i])
                                   /\ \A d \in flight : ~Sound(d)
    BY DEF OwnReply, Answers
  <2>1. CASE Connect
    <3>1. /\ queue' = <<>> /\ frame' = <<>> /\ flight' = {}
      BY <2>1 DEF Connect, Epochs
    <3>2. QED  BY <3>1, NoiseIsOwn
  <2>2. CASE Close
    <3>1. ~bound' /\ UNCHANGED <<pc, seq, frame>>
      BY <2>2 DEF Close
    <3>2. CASE pc # "waiting"
      BY <3>1, <3>2, NothingBound
    <3>3. ASSUME pc = "waiting", NEW i \in DOMAIN queue'
          PROVE  i = 1 /\ i \in DOMAIN queue /\ queue'[i] = queue[i]
      BY <2>2, <2>a, <3>3 DEF Close
    <3>4. CASE pc = "waiting"
      BY <3>1, <3>3, <3>4 DEF OwnReply
    <3>5. QED  BY <3>2, <3>4
  <2>3. ASSUME NEW s \in Shapes, Request(s) PROVE OwnReply'
    <3>1. UNCHANGED <<bound, frame, flight>> /\ pc = "idle"
      BY <2>3 DEF Request, transport
    <3>2. CASE bound /\ BeginSend(s, queue)
      <4>1. queue \in Seq(Noise)
        BY <2>a, <2>c, <3>1, <3>2 DEF Noise
      <4>2. queue' \in Seq(Noise)
        BY <3>2, <4>1, DrainedDatagrams DEF BeginSend
      <4>3. \A i \in DOMAIN queue' : ~Sound(queue'[i])
        BY <4>2 DEF Noise
      <4>4. QED  BY <2>b, <2>c, <3>1, <3>2, <4>3, NoiseIsOwn
    <3>3. CASE tainted /\ pc' = "recovering"
      BY <3>1, <3>3, NothingBound DEF Epochs
    <3>4. QED  BY <2>3, <3>2, <3>3 DEF Request
  <2>4. CASE Recover
    <3>1. /\ pc = "recovering" /\ remaining = 0 /\ ~closed /\ BeginSend(shape, <<>>)
          /\ UNCHANGED <<frame, flight>>
      BY <2>4 DEF Recover
    <3>2. \A d \in flight : d.life <= 0 /\ d.life \in Nat \ {0}
      BY <3>1 DEF Epochs, TypeOK, Datagram
    <3>3. flight' = {}
      BY <3>1, <3>2
    <3>4. queue' \in Seq({})
      BY <3>1, NoDatagrams, DrainedDatagrams DEF BeginSend
    <3>5. \A i \in DOMAIN queue' : FALSE
      BY <3>4
    <3>6. QED  BY <2>b, <3>1, <3>3, <3>5, NoiseIsOwn
  <2>5. CASE RecoverFails
    <3>1. ~bound' /\ pc' = "idle"
      BY <2>5 DEF RecoverFails, Epochs
    <3>2. QED  BY <3>1, NothingBound
  <2>6. CASE Send
    <3>1. PICK reply \in Replies : flight' = flight \cup reply
      BY <2>6 DEF Send, PutOnWire
    <3>2. /\ pc = "sending" /\ bound /\ pc' = "waiting"
          /\ UNCHANGED <<bound, seq, frame, queue>>
      BY <2>6 DEF Send, transport
    <3>3. /\ \A i \in DOMAIN queue : ~Sound(queue[i])
          /\ \A d \in flight : ~Sound(d)
          /\ DOMAIN frame = {}
      BY <2>b, <2>c, <3>2
    <3>4. \A d \in flight' : Answers(d, TRUE, seq)
      BY <3>1, <3>3, OneReply DEF Answers
    <3>5. \A c, d \in flight' : c # d => ~Clash(c, d)
      BY <3>1, <3>3, OneReply DEF Clash
    <3>6. QED  BY <3>2, <3>3, <3>4, <3>5 DEF OwnReply, Answers, Clash
  <2>7. CASE SendError
    <3>1. /\ pc = "sending" /\ pc' = "idle" /\ frame' = <<>>
          /\ UNCHANGED <<bound, queue, flight>>
      BY <2>7 DEF SendError, End, transport
    <3>2. CASE bound
      BY <2>c, <3>1, <3>2, NoiseIsOwn
    <3>3. CASE ~bound
      BY <3>1, <3>3, NothingBound
    <3>4. QED  BY <3>2, <3>3
  <2>8. CASE Receive
    <3> DEFINE f == Append(frame, Head(queue))
    <3>1. pc = "waiting" /\ queue # <<>> /\ UNCHANGED flight
      BY <2>8 DEF Receive
    <3>2. 1 \in DOMAIN queue /\ Head(queue) = queue[1]
      BY <2>a, <3>1
    <3>3. \A i \in DOMAIN f : \/ i \in DOMAIN frame /\ f[i] = frame[i]
                              \/ f[i] = queue[1]
      BY <2>a, <3>2, Appended
    <3>4. \A j \in DOMAIN Tail(queue) :
             j + 1 \in DOMAIN queue /\ Tail(queue)[j] = queue[j + 1] /\ j + 1 # 1
      BY <2>a, <3>1, Taken
    <3>5. f = Append(frame, Head(queue))
      OBVIOUS
    <3> HIDE DEF f
    <3>6. CASE Accept(f)
      <4>1. /\ Complete(f) /\ frame' = <<>> /\ queue' = Tail(queue) /\ UNCHANGED bound
        BY <3>6 DEF Accept, End, transport
      <4>2. /\ \A j \in DOMAIN queue : j # 1 => ~Sound(queue[j])
            /\ bound => \A d \in flight : ~Sound(d)
        BY <3>1, <3>5, <4>1, CompleteIsAll
      <4>3. \A i \in DOMAIN queue' : ~Sound(queue'[i])
        BY <3>4, <4>1, <4>2
      <4>4. QED  BY <3>1, <4>1, <4>2, <4>3, NoiseIsOwn
    <3>7. CASE KeepWaiting(f)
      <4>1. /\ frame' = f /\ queue' = Tail(queue) /\ UNCHANGED <<bound, pc, seq>>
        BY <3>7 DEF KeepWaiting, transport
      <4>2. /\ \A i \in DOMAIN queue' : Answers(queue'[i], pc' = "waiting", seq')
            /\ \A i, j \in DOMAIN queue' : i # j => ~Clash(queue'[i], queue'[j])
        BY <2>a, <3>1, <3>4, <4>1 DEF OwnReply
      <4>3. /\ \A i \in DOMAIN frame' : Answers(frame'[i], pc' = "waiting", seq')
            /\ \A i \in DOMAIN frame', j \in DOMAIN queue' : ~Clash(frame'[i], queue'[j])
        BY <3>1, <3>2, <3>3, <3>4, <4>1 DEF OwnReply
      <4>4. bound => /\ \A d \in flight : Answers(d, pc' = "waiting", seq')
                     /\ \A c, d \in flight : c # d => ~Clash(c, d)
                     /\ \A i \in DOMAIN queue', d \in flight : ~Clash(queue'[i], d)
                     /\ \A i \in DOMAIN frame', d \in flight : ~Clash(frame'[i], d)
        BY <3>2, <3>3, <3>4, <4>1 DEF OwnReply
      <4>5. QED  BY <3>1, <4>1, <4>2, <4>3, <4>4 DEF OwnReply
    <3>8. CASE Refuse(f)
      BY <3>8, NothingBound DEF Refuse, Taint, End
    <3>9. QED  BY <2>8, <3>5, <3>6, <3>7, <3>8 DEF Receive
  <2>8a. CASE Ignore
    BY <2>8a DEF Ignore, OwnReply, transport
  <2>9. CASE ResponseTimeout
    BY <2>9, NothingBound DEF ResponseTimeout, Taint, End
  <2>10. CASE ReceiveClosed
    BY <2>10, NothingBound DEF ReceiveClosed, End, transport
  <2>11. CASE Cancel
    <3>1. ~bound' /\ pc' = "idle"
      BY <2>11 DEF Cancel, End, Taint, Epochs
    <3>2. QED  BY <3>1, NothingBound
  <2>12. ASSUME NEW d \in flight, Deliver(d) PROVE OwnReply'
    <3>1. UNCHANGED <<bound, pc, seq, frame>> /\ flight' = flight \ {d}
      BY <2>12 DEF Deliver, transport
    <3>2. CASE ~bound
      BY <2>12, <3>1, <3>2 DEF Deliver, OwnReply
    <3>3. CASE bound
      <4>1. queue' = Append(queue, d) /\ d \in Datagram
        BY <2>12, <3>3 DEF Deliver, TypeOK
      <4>2. \A i \in DOMAIN queue' : \/ i \in DOMAIN queue /\ queue'[i] = queue[i]
                                     \/ i = Len(queue) + 1 /\ queue'[i] = d
        BY <2>a, <4>1, Appended
      <4>3. \A b, c : Clash(b, c) <=> Clash(c, b)
        BY DEF Clash
      <4>4. \A i \in DOMAIN queue' : Answers(queue'[i], pc' = "waiting", seq')
        BY <3>1, <3>3, <4>2 DEF OwnReply
      <4>5. \A i, j \in DOMAIN queue' : i # j => ~Clash(queue'[i], queue'[j])
        BY <3>3, <4>2, <4>3 DEF OwnReply
      <4>6. \A i \in DOMAIN frame', j \in DOMAIN queue' : ~Clash(frame'[i], queue'[j])
        BY <3>1, <3>3, <4>2 DEF OwnReply
      <4>7. \A i \in DOMAIN queue', e \in flight' : ~Clash(queue'[i], e)
        BY <3>1, <3>3, <4>2 DEF OwnReply
      <4>8. QED  BY <3>1, <3>3, <4>4, <4>5, <4>6, <4>7 DEF OwnReply
    <3>4. QED  BY <3>2, <3>3
  <2>13. ASSUME NEW d \in flight, Lose(d) PROVE OwnReply'
    BY <2>13 DEF Lose, OwnReply, transport
  <2>14. CASE Tick
    <3>1. UNCHANGED <<bound, pc, seq, frame, queue>>
      BY <2>14 DEF Tick
    <3>2. \A d \in flight' : \E e \in flight : d = [e EXCEPT !.life = @ - 1]
      BY <2>14 DEF Tick
    <3>3. \A e \in flight : LET d == [e EXCEPT !.life = @ - 1]
                            IN  d.of = e.of /\ d.part = e.part
      BY DEF TypeOK, Datagram
    <3>4. \A d \in flight' : \E e \in flight :
             d = [e EXCEPT !.life = @ - 1] /\ d.of = e.of /\ d.part = e.part
      BY <3>2, <3>3
    <3>5. \A b, c, d, e : b.part = c.part /\ d.part = e.part => (Clash(b, d) <=> Clash(c, e))
      BY DEF Clash, Sound
    <3>6. \A d, e : d.of = e.of /\ d.part = e.part
                       => (Answers(d, pc = "waiting", seq) <=> Answers(e, pc = "waiting", seq))
      BY DEF Answers, Sound
    <3>7. bound => \A d \in flight' : Answers(d, pc = "waiting", seq)
      BY <3>4, <3>6 DEF OwnReply
    <3>8. bound => \A c, d \in flight' : c # d => ~Clash(c, d)
      BY <3>4, <3>5 DEF OwnReply
    <3>9. bound => /\ \A i \in DOMAIN queue, d \in flight' : ~Clash(queue[i], d)
                   /\ \A i \in DOMAIN frame, d \in flight' : ~Clash(frame[i], d)
      BY <3>4, <3>5 DEF OwnReply
    <3>10. QED  BY <3>1, <3>7, <3>8, <3>9 DEF OwnReply
  <2>15. CASE UNCHANGED vars
    BY <2>15 DEF vars, OwnReply
  <2>16. QED
    BY <2>1, <2>2, <2>3, <2>4, <2>5, <2>6, <2>7, <2>8, <2>8a, <2>9, <2>10, <2>11, <2>12,
       <2>13, <2>14, <2>15 DEF Next, Progress
<1>3. QED  BY <1>1, <1>2, TypeCorrect, EpochsSeparate, PTL DEF Spec

(* As long as nothing is duplicated, the client implements the exchange    *)
(* service: one transmission per call, which ends, and the answer is its   *)
(* own (rtu_over_udp.py:224-428).                                          *)
THEOREM ClientImplementsExchange ==
    ASSUME ~Duplicates
    PROVE  Spec => ImplementsExchange
<1>1. Init => Exchange!ExchangeInit
  BY DEF Init, Exchange!ExchangeInit
<1>2. TypeOK /\ Epochs /\ OwnReply /\ [Next]_vars
         => [Exchange!ExchangeNext]_<<seq, pc \in {"sending", "waiting"}, accepted>>
  <2> SUFFICES ASSUME TypeOK, Epochs, OwnReply, [Next]_vars
               PROVE  [Exchange!ExchangeNext]_<<seq, pc \in {"sending", "waiting"}, accepted>>
    OBVIOUS
  <2>1. ASSUME NEW s, NEW q, BeginSend(s, q), pc \notin {"sending", "waiting"}
        PROVE  Exchange!Begin
    BY <2>1 DEF BeginSend, Exchange!Begin
  <2>2. ASSUME End, pc \in {"sending", "waiting"}, UNCHANGED accepted PROVE Exchange!Fail
    BY <2>2 DEF End, Exchange!Fail
  <2>3. ASSUME UNCHANGED <<seq, accepted>>,
               pc' \in {"sending", "waiting"} <=> pc \in {"sending", "waiting"}
        PROVE  UNCHANGED <<seq, pc \in {"sending", "waiting"}, accepted>>
    BY <2>3
  <2>4. CASE Connect \/ Close \/ RecoverFails \/ Send \/ Ignore \/ Tick
    BY <2>3, <2>4 DEF Connect, Close, RecoverFails, Send, Ignore, Tick
  <2>5. ASSUME NEW s \in Shapes, Request(s)
        PROVE  Exchange!Begin \/ UNCHANGED <<seq, pc \in {"sending", "waiting"}, accepted>>
    BY <2>1, <2>3, <2>5 DEF Request
  <2>6. CASE Recover
    BY <2>1, <2>6 DEF Recover, Exchange!ExchangeNext
  <2>7. CASE SendError \/ ResponseTimeout \/ ReceiveClosed
    BY <2>2, <2>7 DEF SendError, ResponseTimeout, ReceiveClosed, Exchange!ExchangeNext
  <2>8. CASE Receive
    <3> DEFINE f == Append(frame, Head(queue))
    <3>1. pc = "waiting" /\ queue # <<>> /\ f = Append(frame, Head(queue))
      BY <2>8 DEF Receive
    <3>2. Accept(f) \/ KeepWaiting(f) \/ Refuse(f)
      BY <2>8 DEF Receive
    <3> HIDE DEF f
    <3>3. CASE Accept(f)
      <4>1. f[1].of = seq
        BY <3>1, <3>3, CompleteIsAll DEF Accept
      <4>2. Exchange!Succeed
        BY <3>1, <3>3, <4>1 DEF Accept, End, Exchange!Succeed
      <4>3. QED  BY <4>2 DEF Exchange!ExchangeNext
    <3>4. CASE KeepWaiting(f)
      BY <2>3, <3>4 DEF KeepWaiting
    <3>5. CASE Refuse(f)
      BY <2>2, <3>1, <3>5 DEF Refuse, Exchange!ExchangeNext
    <3>6. QED  BY <3>2, <3>3, <3>4, <3>5
  <2>9. CASE Cancel
    <3>1. CASE pc \in {"sending", "waiting"}
      BY <2>2, <2>9, <3>1 DEF Cancel, Exchange!ExchangeNext
    <3>2. CASE pc = "recovering"
      BY <2>3, <2>9, <3>2 DEF Cancel, End
    <3>3. QED  BY <2>9, <3>1, <3>2 DEF Cancel
  <2>10. ASSUME NEW d \in flight, Deliver(d) \/ Lose(d)
         PROVE  UNCHANGED <<seq, pc \in {"sending", "waiting"}, accepted>>
    BY <2>3, <2>10 DEF Deliver, Lose
  <2>11. CASE UNCHANGED vars
    BY <2>3, <2>11 DEF vars
  <2>12. QED
    BY <2>4, <2>5, <2>6, <2>7, <2>8, <2>9, <2>10, <2>11
       DEF Next, Progress, Exchange!ExchangeNext
<1>3. QED
  BY <1>1, <1>2, TypeCorrect, EpochsSeparate, OwnReplyHolds, PTL
     DEF Spec, ImplementsExchange, Exchange!ExchangeSpec, Exchange!exchangeVars
=============================================================================
