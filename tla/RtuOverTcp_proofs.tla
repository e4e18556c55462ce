------------------------- MODULE RtuOverTcp_proofs -------------------------
(* Proofs about the RTU-over-TCP client, for any bounds.                   *)
EXTENDS RtuOverTcp, TLAPS

(* A step that only moves pieces keeps them pieces.                        *)
LEMMA MovedPieces ==
    ASSUME NEW s \in Seq(Piece), s # <<>>
    PROVE  /\ Tail(s) \in Seq(Piece)
           /\ Head(s) \in Piece
  OBVIOUS

(* An empty stream or buffer is a short sequence of pieces.                *)
LEMMA EmptyStreams ==
    /\ <<>> \in Seq(Piece)
    /\ <<>> \in Seq(Nat)
    /\ Len(<<>>) <= MaxBuffer
<1>1. <<>> \in Seq(Piece) /\ <<>> \in Seq(Nat)
  OBVIOUS
<1>2. Len(<<>>) <= MaxBuffer
  BY TcpAssumption
<1>3. QED  BY <1>1, <1>2

(* Joined streams of pieces are a stream of pieces.                        *)
LEMMA JoinedPieces ==
    ASSUME NEW s \in Seq(Piece), NEW t \in Seq(Piece)
    PROVE  s \o t \in Seq(Piece)
  OBVIOUS

(* Dropping the stream (rtu_over_tcp.py:118-125) keeps it well typed.      *)
LEMMA DisconnectTyped ==
    ASSUME TypeOK, Disconnect
    PROVE  /\ conn' \in Nat
           /\ opened' \subseteq Nat
           /\ lost' \in BOOLEAN
           /\ wire' \in Seq(Piece)
           /\ owed' \in Seq(Nat)
<1>1. conn' = 0 /\ opened' = opened \ {conn} /\ lost' = TRUE /\ wire' = <<>> /\ owed' = <<>>
  BY DEF Disconnect
<1>2. conn' \in Nat /\ opened' \subseteq Nat
  BY <1>1 DEF TypeOK
<1>3. lost' \in BOOLEAN
  BY <1>1
<1>4. wire' \in Seq(Piece) /\ owed' \in Seq(Nat)
  BY <1>1, EmptyStreams
<1>5. QED  BY <1>2, <1>3, <1>4

(* Every step keeps the variables in their types, and the buffer within    *)
(* its cap (rtu_over_tcp.py:53-68).                                        *)
THEOREM TypeCorrect == Spec => []TypeOK
<1> USE TcpAssumption
<1>1. Init => TypeOK
  <2> SUFFICES ASSUME Init PROVE TypeOK
    OBVIOUS
  <2>1. conn \in Nat /\ fresh \in Nat /\ made \in Nat /\ seq \in Nat /\ opened \subseteq Nat
    BY DEF Init
  <2>2. lost \in BOOLEAN /\ closed \in BOOLEAN
    BY DEF Init
  <2>3. /\ buffer \in Seq(Piece) /\ Len(buffer) <= MaxBuffer
        /\ wire \in Seq(Piece) /\ owed \in Seq(Nat)
    BY EmptyStreams DEF Init
  <2>4. /\ pc \in {"new", "idle", "connecting", "established", "waiting"}
        /\ accepted \in Nat \cup {Unanswered}
    BY DEF Init
  <2>5. QED  BY <2>1, <2>2, <2>3, <2>4 DEF TypeOK
<1>2. TypeOK /\ [Next]_vars => TypeOK'
  <2> SUFFICES ASSUME TypeOK, [Next]_vars PROVE TypeOK'
    OBVIOUS
  <2>1. CASE Connect
    BY <2>1 DEF Connect, TypeOK, peer
  <2>2. CASE Close
    <3>1. CASE conn # 0
      <4>1. Disconnect /\ closed' \in BOOLEAN
        BY <2>2, <3>1 DEF Close
      <4>2. UNCHANGED <<fresh, made, buffer, pc, seq, accepted>>
        BY <2>2 DEF Close
      <4>3. QED  BY <4>1, <4>2, DisconnectTyped DEF TypeOK
    <3>2. CASE conn = 0
      BY <2>2, <3>2 DEF Close, TypeOK, peer
    <3>3. QED  BY <3>1, <3>2
  <2>3. CASE Request
    <3>1. CASE FailCall
      BY <3>1, DisconnectTyped DEF FailCall, TypeOK
    <3>2. CASE Write /\ UNCHANGED <<stream, buffer, closed, wire>>
      <4>1. owed' \in Seq(Nat)
        BY <3>2 DEF Write, TypeOK
      <4>2. QED  BY <3>2, <4>1 DEF Write, TypeOK, stream
    <3>3. CASE /\ pc' = "connecting" /\ Disconnect
               /\ UNCHANGED <<fresh, made, buffer, closed, seq, accepted>>
      BY <3>3, DisconnectTyped DEF TypeOK
    <3>4. QED  BY <2>3, <3>1, <3>2, <3>3 DEF Request
  <2>4. CASE Established
    <3>1. fresh' \in Nat /\ made' \in Nat /\ opened' \subseteq Nat
      BY <2>4 DEF Established, Make, TypeOK
    <3>2. /\ buffer' \in Seq(Piece) /\ Len(buffer') <= MaxBuffer
          /\ wire' \in Seq(Piece) /\ owed' \in Seq(Nat)
      BY <2>4, EmptyStreams DEF Established, Make
    <3>3. lost' \in BOOLEAN
      BY <2>4 DEF Established, Make
    <3>4. /\ pc' \in {"new", "idle", "connecting", "established", "waiting"}
          /\ UNCHANGED <<conn, closed, seq, accepted>>
      BY <2>4 DEF Established
    <3>5. QED  BY <3>1, <3>2, <3>3, <3>4 DEF TypeOK
  <2>5. CASE Resume
    <3>1. CASE Discard /\ UNCHANGED <<conn, seq, accepted>>
      BY <2>5, <3>1 DEF Resume, Discard, TypeOK
    <3>2. CASE conn' = fresh /\ Write /\ UNCHANGED <<lost, opened, wire>>
      <4>1. owed' \in Seq(Nat)
        BY <3>2 DEF Write, TypeOK
      <4>2. QED  BY <2>5, <3>2, <4>1 DEF Resume, Write, TypeOK
    <3>3. QED  BY <2>5, <3>1, <3>2 DEF Resume
  <2>6. CASE Accept
    <3>1. buffer[1] \in Piece
      BY <2>6 DEF Accept, Complete, TypeOK
    <3>2. accepted' \in Nat
      BY <2>6, <3>1 DEF Accept, Piece
    <3>3. QED  BY <2>6, <3>2 DEF Accept, TypeOK, stream, peer
  <2>7. CASE Refuse
    BY <2>7, DisconnectTyped DEF Refuse, FailCall, TypeOK
  <2>8. CASE Abort
    <3>1. CASE FailCall
      BY <3>1, DisconnectTyped DEF FailCall, TypeOK
    <3>2. CASE /\ Discard
               /\ fresh' = 0
               /\ UNCHANGED <<conn, made, buffer, closed, seq, accepted>>
      BY <3>2, EmptyStreams DEF Discard, TypeOK
    <3>3. QED  BY <2>8, <3>1, <3>2 DEF Abort
  <2>9. CASE PeerReply
    <3>1. Head(owed) \in Nat /\ Tail(owed) \in Seq(Nat)
      BY <2>9 DEF PeerReply, TypeOK
    <3>2. /\ <<[of |-> Head(owed), part |-> "whole"]>> \in Seq(Piece)
          /\ <<[of |-> Head(owed), part |-> "head"], [of |-> Head(owed), part |-> "tail"]>>
                \in Seq(Piece)
      BY <3>1 DEF Piece
    <3>3. wire' \in Seq(Piece) /\ UNCHANGED <<stream, buffer, closed, pc, seq, accepted>>
      <4>1. wire \in Seq(Piece)
        BY DEF TypeOK
      <4>2. PICK pieces \in Seq(Piece) : Put(pieces)
        BY <2>9, <3>2 DEF PeerReply
      <4>3. wire \o pieces \in Seq(Piece)
        BY <4>1, JoinedPieces
      <4>4. QED  BY <4>2, <4>3 DEF Put
    <3>4. QED  BY <2>9, <3>1, <3>3 DEF PeerReply, TypeOK, stream
  <2>10. CASE PeerNoise
    <3>1. <<[of |-> 0, part |-> "bad"]>> \in Seq(Piece)
      BY DEF Piece
    <3>2. wire' \in Seq(Piece)
      BY <2>10, <3>1 DEF PeerNoise, Put, TypeOK
    <3>3. QED  BY <2>10, <3>2 DEF PeerNoise, Put, TypeOK, stream
  <2>11. CASE DataReceived
    <3>1. Head(wire) \in Piece /\ Tail(wire) \in Seq(Piece)
      BY <2>11, MovedPieces DEF DataReceived, TypeOK
    <3>2. buffer' \in Seq(Piece) /\ Len(buffer') <= MaxBuffer
      BY <2>11, <3>1 DEF DataReceived, TypeOK
    <3>3. QED  BY <2>11, <3>1, <3>2 DEF DataReceived, TypeOK, stream
  <2>12. CASE ConnectionLost
    BY <2>12 DEF ConnectionLost, TypeOK
  <2>13. CASE UNCHANGED vars
    BY <2>13 DEF vars, TypeOK
  <2>14. QED
    BY <2>1, <2>2, <2>3, <2>4, <2>5, <2>6, <2>7, <2>8, <2>9, <2>10, <2>11, <2>12, <2>13
       DEF Next
<1>3. QED  BY <1>1, <1>2, PTL DEF Spec

(* Which connection exists where a call is: only a call that was just      *)
(* given one has a fresh connection, and it has no other; a client that    *)
(* was not handed out has none and is not closed.                          *)
Holding ==
    /\ fresh # 0 <=> pc = "established"
    /\ pc \in {"new", "connecting", "established"} => conn = 0
    /\ opened \subseteq {conn, fresh} \ {0}
    /\ closed => conn = 0 /\ pc # "new"

(* The strengthening is inductive.                                         *)
LEMMA HoldingHolds == Spec => []Holding
<1> USE TcpAssumption
<1>1. Init => Holding
  BY DEF Init, Holding
<1>2. TypeOK /\ Holding /\ [Next]_vars => Holding'
  <2> SUFFICES ASSUME TypeOK, Holding, [Next]_vars PROVE Holding'
    OBVIOUS
  <2> USE DEF Holding
  <2>0. made + 1 # 0 /\ made \in Nat
    BY DEF TypeOK
  <2>1. CASE Connect
    BY <2>0, <2>1 DEF Connect
  <2>2. CASE Close
    BY <2>2 DEF Close, Disconnect
  <2>3. CASE Request
    BY <2>3 DEF Request, FailCall, Write, Disconnect, stream
  <2>4. CASE Established
    BY <2>0, <2>4 DEF Established, Make
  <2>5. CASE Resume
    BY <2>5 DEF Resume, Discard, Write
  <2>6. CASE Accept
    BY <2>6 DEF Accept, stream
  <2>7. CASE Refuse
    BY <2>7 DEF Refuse, FailCall, Disconnect
  <2>8. CASE Abort
    BY <2>8 DEF Abort, FailCall, Discard, Disconnect
  <2>9. CASE PeerReply \/ PeerNoise \/ DataReceived
    BY <2>9 DEF PeerReply, PeerNoise, Put, DataReceived, stream
  <2>10. CASE ConnectionLost
    BY <2>10 DEF ConnectionLost
  <2>11. CASE UNCHANGED vars
    BY <2>11 DEF vars
  <2>12. QED
    BY <2>1, <2>2, <2>3, <2>4, <2>5, <2>6, <2>7, <2>8, <2>9, <2>10, <2>11 DEF Next
<1>3. QED  BY <1>1, <1>2, TypeCorrect, PTL DEF Spec

(* A closed client holds no stream, also when it was closed while a        *)
(* connection was being made (rtu_over_tcp.py:97-129).                     *)
THEOREM ClosedIsFinal == Spec => []ClosedStaysClosed
<1>1. Holding => ClosedStaysClosed
  BY DEF Holding, ClosedStaysClosed
<1>2. QED  BY <1>1, HoldingHolds, PTL

(* Every connection that is open is the one the client holds or the one a  *)
(* call is about to hold.                                                  *)
THEOREM NoLeaks == Spec => []NothingLeaks
<1>1. Holding => NothingLeaks
  BY DEF Holding, NothingLeaks
<1>2. QED  BY <1>1, HoldingHolds, PTL

-----------------------------------------------------------------------------
(* Whose answer is on the stream.  A piece is sound if it is of a reply;   *)
(* two sound pieces go together only as a head and a tail.                 *)
Sound(p) == p.part # "bad"
Clash(p, q) == Sound(p) /\ Sound(q) /\ {p.part, q.part} # {"head", "tail"}
Apart(s) == \A i, j \in DOMAIN s : i # j => ~Clash(s[i], s[j])
Across(s, t) == \A i \in DOMAIN s, j \in DOMAIN t : ~Clash(s[i], t[j])

(* A sound piece answers the request in progress, which is not owed then.  *)
Asked(p) == Sound(p) => pc = "waiting" /\ owed = <<>> /\ p.of = seq
AllAsked(s) == \A i \in DOMAIN s : Asked(s[i])

(* The same of a piece as it is, after the step.                           *)
Answers(p) == Sound(p) => pc' = "waiting" /\ owed' = <<>> /\ p.of = seq'

(* The strengthening: only the request in progress is owed, and all the    *)
(* stream and the buffer of a connection in use hold is one reply to it.   *)
OwnReply ==
    /\ owed # <<>> => pc = "waiting" /\ owed = <<seq>>
    /\ AllAsked(wire)
    /\ (conn # 0 \/ fresh # 0 \/ pc = "waiting") => AllAsked(buffer)
    /\ Apart(buffer) /\ Apart(wire) /\ Across(buffer, wire)
    /\ pc = "new" => buffer = <<>> /\ wire = <<>>

LEMMA NothingApart ==
    /\ Apart(<<>>) /\ AllAsked(<<>>)
    /\ \A s : Across(<<>>, s) /\ Across(s, <<>>)
  BY DEF Apart, AllAsked, Across

(* Once a call has taken its answer there is nothing sound left behind it. *)
LEMMA CompleteIsAll ==
    ASSUME TypeOK, OwnReply, pc = "waiting", Complete
    PROVE  /\ buffer[1].of = seq
           /\ \A j \in DOMAIN wire : ~Sound(wire[j])
           /\ owed = <<>>
<1>1. CASE Len(buffer) = 1 /\ buffer[1].part = "whole"
  <2>1. 1 \in DOMAIN buffer /\ Sound(buffer[1]) /\ "whole" \notin {"head", "tail"}
    BY <1>1 DEF TypeOK, Sound
  <2>2. \A j \in DOMAIN wire : ~Clash(buffer[1], wire[j])
    BY <2>1 DEF OwnReply, Across
  <2>3. \A j \in DOMAIN wire : ~Sound(wire[j])
    BY <1>1, <2>1, <2>2 DEF Clash
  <2>4. QED  BY <2>1, <2>3 DEF OwnReply, AllAsked, Asked
<1>2. CASE /\ Len(buffer) = 2
           /\ buffer[1].part = "head" /\ buffer[2].part = "tail"
  <2>1. /\ 1 \in DOMAIN buffer /\ 2 \in DOMAIN buffer
        /\ Sound(buffer[1]) /\ Sound(buffer[2])
    BY <1>2 DEF TypeOK, Sound
  <2>2. ASSUME NEW j \in DOMAIN wire, Sound(wire[j]) PROVE FALSE
    <3>1. {"head", wire[j].part} = {"head", "tail"} /\ {"tail", wire[j].part} = {"head", "tail"}
      BY <1>2, <2>1, <2>2 DEF OwnReply, Across, Clash
    <3>2. QED  BY <3>1
  <2>3. QED  BY <2>1, <2>2 DEF OwnReply, AllAsked, Asked
<1>3. QED  BY <1>1, <1>2 DEF Complete

(* What the peer puts on the stream comes behind what is there.            *)
LEMMA PutPieces ==
    ASSUME TypeOK, NEW pieces \in Seq(Piece), Put(pieces), NEW i \in DOMAIN wire'
    PROVE  \/ i \in DOMAIN wire /\ wire'[i] = wire[i]
           \/ i - Len(wire) \in DOMAIN pieces /\ wire'[i] = pieces[i - Len(wire)]
<1>1. wire' = wire \o pieces /\ wire \in Seq(Piece)
  BY DEF Put, TypeOK
<1>2. QED  BY <1>1

(* The one reply, or noise, keeps replies apart.                           *)
LEMMA PutKeeps ==
    ASSUME TypeOK, OwnReply, NEW pieces \in Seq(Piece), Put(pieces),
           Apart(pieces), Across(wire, pieces), Across(buffer, pieces)
    PROVE  Apart(wire') /\ Across(buffer', wire')
<1>1. /\ wire' = wire \o pieces /\ buffer' = buffer
      /\ wire \in Seq(Piece)
  BY DEF Put, TypeOK
<1>2. DOMAIN wire' \subseteq Nat /\ Len(wire) \in Nat
  BY <1>1
<1>3. \A p, q : Clash(p, q) <=> Clash(q, p)
  BY DEF Clash
<1>4. Apart(wire')
  BY <1>2, <1>3, PutPieces DEF OwnReply, Apart, Across
<1>5. Across(buffer', wire')
  BY <1>1, PutPieces DEF OwnReply, Across
<1>6. QED  BY <1>4, <1>5

(* What is put on the stream of a connection answers the request.          *)
LEMMA PutAsked ==
    ASSUME TypeOK, NEW pieces \in Seq(Piece), Put(pieces),
           \A i \in DOMAIN wire : Answers(wire[i]),
           \A i \in DOMAIN pieces : Answers(pieces[i])
    PROVE  AllAsked(wire)'
  BY PutPieces DEF AllAsked, Asked, Answers

(* A piece taken from the stream leaves the others where they are.         *)
LEMMA TakePieces ==
    ASSUME TypeOK, wire # <<>>, wire' = Tail(wire), NEW j \in DOMAIN wire'
    PROVE  j + 1 \in DOMAIN wire /\ wire'[j] = wire[j + 1] /\ j + 1 # 1
<1>1. wire \in Seq(Piece)
  BY DEF TypeOK
<1>2. QED  BY <1>1

LEMMA OwnReplyHolds == Spec => []OwnReply
<1>1. Init => OwnReply
  BY NothingApart DEF Init, OwnReply
<1>2. TypeOK /\ Holding /\ OwnReply /\ [Next]_vars => OwnReply'
  <2> SUFFICES ASSUME TypeOK, Holding, OwnReply, [Next]_vars PROVE OwnReply'
    OBVIOUS
  <2>0. /\ made + 1 # 0
        /\ \A s : Across(s, <<>>)
    BY NothingApart DEF TypeOK
  <2>1. CASE Connect
    BY <2>1, NothingApart DEF Connect, OwnReply, AllAsked, Asked, peer
  <2>2. ASSUME wire' = <<>>, owed' = <<>>, UNCHANGED buffer,
               pc' # "new" \/ UNCHANGED pc,
               \/ conn' = 0 /\ fresh' = 0 /\ pc' # "waiting"
               \/ AllAsked(buffer)'
        PROVE  OwnReply'
    <3>1. AllAsked(wire)'
      BY <2>2 DEF AllAsked
    <3>2. Apart(wire') /\ Across(buffer', wire') /\ Apart(buffer')
      BY <2>2, NothingApart DEF OwnReply
    <3>3. QED  BY <2>2, <3>1, <3>2 DEF OwnReply
  <2>3. CASE Close
    <3>1. CASE conn # 0
      <4>1. Disconnect /\ UNCHANGED <<fresh, buffer, pc, seq>>
        BY <2>3, <3>1 DEF Close
      <4>2. AllAsked(buffer)'
        BY <3>1, <4>1 DEF Disconnect, OwnReply, AllAsked, Asked
      <4>3. QED  BY <2>2, <4>1, <4>2 DEF Disconnect
    <3>2. CASE conn = 0
      BY <2>3, <3>2 DEF Close, peer, OwnReply, AllAsked, Asked
    <3>3. QED  BY <3>1, <3>2
  <2>4. ASSUME FailCall, pc # "established" PROVE OwnReply'
    BY <2>2, <2>4 DEF FailCall, Disconnect, Holding
  <2>5. ASSUME Write, buffer = <<>>, pc \in {"idle", "established"}, UNCHANGED <<buffer, wire>>
        PROVE  OwnReply'
    <3>1. owed = <<>> /\ \A i \in DOMAIN wire : ~Sound(wire[i])
      BY <2>5 DEF OwnReply, AllAsked, Asked
    <3>2. owed' = <<>> \/ owed' = <<seq'>>
      BY <2>5, <3>1 DEF Write
    <3>3. AllAsked(wire)' /\ AllAsked(buffer)'
      BY <2>5, <3>1, NothingApart DEF AllAsked, Asked
    <3>4. QED  BY <2>5, <3>2, <3>3 DEF Write, OwnReply
  <2>6. CASE Request
    <3>1. CASE /\ pc' = "connecting" /\ Disconnect
               /\ UNCHANGED <<fresh, made, buffer, closed, seq, accepted>>
      BY <2>2, <2>6, <3>1 DEF Request, Disconnect, Holding
    <3>2. QED  BY <2>4, <2>5, <2>6, <3>1 DEF Request
  <2>7. CASE Established
    BY <2>7, NothingApart DEF Established, Make, OwnReply, Apart, AllAsked
  <2>8. ASSUME Discard, fresh' = 0, UNCHANGED <<conn, buffer>>, pc \in {"connecting", "established"}
        PROVE  OwnReply'
    BY <2>2, <2>8 DEF Discard, Holding
  <2>9. CASE Resume
    BY <2>5, <2>8, <2>9 DEF Resume
  <2>10. CASE Accept
    <3>1. \A j \in DOMAIN wire : ~Sound(wire[j])
      BY <2>10, CompleteIsAll DEF Accept
    <3>2. owed' = <<>> /\ buffer' = <<>> /\ wire' = wire /\ pc' # "new"
      BY <2>10, CompleteIsAll DEF Accept, peer
    <3>3. AllAsked(wire)' /\ AllAsked(buffer)'
      BY <3>1, <3>2, NothingApart DEF AllAsked, Asked
    <3>4. QED  BY <3>2, <3>3, NothingApart DEF OwnReply
  <2>11. CASE Refuse
    BY <2>4, <2>11 DEF Refuse
  <2>12. CASE Abort
    BY <2>4, <2>8, <2>12 DEF Abort
  <2>13. CASE PeerReply
    <3>1. /\ owed = <<seq>> /\ pc = "waiting" /\ owed' = <<>>
          /\ Head(owed) = seq
      <4>1. owed = <<seq>> /\ pc = "waiting" /\ owed' = Tail(owed)
        BY <2>13 DEF PeerReply, OwnReply
      <4>2. QED  BY <4>1
    <3>2. owed # <<>>
      BY <2>13 DEF PeerReply
    <3>3. /\ \A i \in DOMAIN wire : ~Sound(wire[i])
          /\ \A i \in DOMAIN buffer : ~Sound(buffer[i])
      BY <3>1, <3>2 DEF OwnReply, AllAsked, Asked
    <3>4. PICK pieces \in Seq(Piece) :
              /\ Put(pieces) /\ Apart(pieces)
              /\ \A i \in DOMAIN pieces : pieces[i].of = seq
      <4> DEFINE whole == <<[of |-> seq, part |-> "whole"]>>
                 split == <<[of |-> seq, part |-> "head"], [of |-> seq, part |-> "tail"]>>
      <4>1. Put(whole) \/ Put(split)
        BY <2>13, <3>1 DEF PeerReply
      <4>2. whole \in Seq(Piece) /\ split \in Seq(Piece)
        BY DEF TypeOK, Piece
      <4>3. Apart(whole) /\ Apart(split)
        BY DEF Apart, Clash
      <4>4. /\ \A i \in DOMAIN whole : whole[i].of = seq
            /\ \A i \in DOMAIN split : split[i].of = seq
        OBVIOUS
      <4>5. QED  BY <4>1, <4>2, <4>3, <4>4
    <3>5. Across(wire, pieces) /\ Across(buffer, pieces)
      BY <3>3 DEF Across, Clash
    <3>6. Apart(wire') /\ Across(buffer', wire')
      BY <3>4, <3>5, PutKeeps
    <3>7. UNCHANGED <<conn, fresh, buffer, pc, seq>>
      BY <3>4 DEF Put, stream
    <3>8. AllAsked(wire)' /\ AllAsked(buffer)'
      <4>1. \A i \in DOMAIN wire : Answers(wire[i])
        BY <3>3 DEF Answers
      <4>2. \A i \in DOMAIN pieces : Answers(pieces[i])
        BY <3>1, <3>4, <3>7 DEF Answers
      <4>3. AllAsked(buffer)'
        BY <3>3, <3>7 DEF AllAsked, Asked
      <4>4. QED  BY <3>4, <4>1, <4>2, <4>3, PutAsked
    <3>9. QED  BY <3>1, <3>6, <3>7, <3>8 DEF OwnReply
  <2>14. CASE PeerNoise
    <3> DEFINE noise == <<[of |-> 0, part |-> "bad"]>>
    <3>1. /\ Put(noise) /\ noise \in Seq(Piece) /\ UNCHANGED owed
          /\ \A i \in DOMAIN noise : ~Sound(noise[i])
      BY <2>14 DEF PeerNoise, Piece, Sound
    <3> HIDE DEF noise
    <3>2. Apart(noise) /\ Across(wire, noise) /\ Across(buffer, noise)
      BY <3>1 DEF Apart, Across, Clash
    <3>3. Apart(wire') /\ Across(buffer', wire')
      BY <3>1, <3>2, PutKeeps
    <3>4. UNCHANGED <<conn, fresh, buffer, pc, seq>>
      BY <3>1 DEF Put, stream
    <3>5. AllAsked(wire)'
      <4>1. \A i \in DOMAIN wire : Answers(wire[i])
        BY <3>1, <3>4 DEF OwnReply, AllAsked, Asked, Answers
      <4>2. \A i \in DOMAIN noise : Answers(noise[i])
        BY <3>1 DEF Answers
      <4>3. QED  BY <3>1, <4>1, <4>2, PutAsked
    <3>6. pc # "new"
      BY <2>14 DEF PeerNoise, Holding
    <3>7. QED  BY <3>1, <3>3, <3>4, <3>5, <3>6 DEF OwnReply, AllAsked, Asked
  <2>15. CASE DataReceived
    <3>1. /\ wire # <<>> /\ wire' = Tail(wire) /\ wire \in Seq(Piece) /\ buffer \in Seq(Piece)
          /\ UNCHANGED <<conn, fresh, pc, seq, owed>>
          /\ buffer' = buffer \/ buffer' = Append(buffer, Head(wire))
      BY <2>15 DEF DataReceived, stream, TypeOK
    <3>2. 1 \in DOMAIN wire /\ Head(wire) = wire[1]
      BY <3>1
    <3>3. ASSUME NEW i \in DOMAIN buffer'
          PROVE  \/ i \in DOMAIN buffer /\ buffer'[i] = buffer[i]
                 \/ i = Len(buffer) + 1 /\ i \notin DOMAIN buffer /\ buffer'[i] = wire[1]
      BY <3>1, <3>2, <3>3
    <3>4. Apart(wire') /\ AllAsked(wire)'
      BY <3>1, TakePieces DEF OwnReply, Apart, AllAsked, Asked
    <3>5. Apart(buffer')
      <4>1. \A p, q : Clash(p, q) <=> Clash(q, p)
        BY DEF Clash
      <4>2. QED  BY <3>2, <3>3, <4>1 DEF OwnReply, Apart, Across
    <3>6. Across(buffer', wire')
      BY <3>1, <3>2, <3>3, TakePieces DEF OwnReply, Across, Apart
    <3>7. ASSUME conn # 0 \/ fresh # 0 \/ pc = "waiting" PROVE AllAsked(buffer)'
      BY <3>1, <3>2, <3>3, <3>7 DEF OwnReply, AllAsked, Asked
    <3>8. QED  BY <3>1, <3>4, <3>5, <3>6, <3>7 DEF OwnReply
  <2>16. CASE ConnectionLost
    <3>1. pc # "new" /\ (conn # 0 \/ fresh # 0)
      BY <2>16 DEF ConnectionLost, Holding
    <3>2. AllAsked(buffer)'
      BY <2>16, <3>1 DEF ConnectionLost, OwnReply, AllAsked, Asked
    <3>3. QED  BY <2>2, <2>16, <3>2 DEF ConnectionLost
  <2>17. CASE UNCHANGED vars
    BY <2>17 DEF vars, OwnReply, AllAsked, Asked
  <2>18. QED
    BY <2>1, <2>3, <2>6, <2>7, <2>9, <2>10, <2>11, <2>12, <2>13, <2>14, <2>15, <2>16, <2>17
       DEF Next
<1>3. QED  BY <1>1, <1>2, TypeCorrect, HoldingHolds, PTL DEF Spec

(* The client implements the exchange service: a request is written at     *)
(* most once and ends, and its answer is its own (rtu_over_tcp.py:131-236).*)
THEOREM ClientImplementsExchange == Spec => ImplementsExchange
<1>1. Init => Exchange!ExchangeInit
  BY DEF Init, Exchange!ExchangeInit
<1>2. TypeOK /\ OwnReply /\ [Next]_vars
         => [Exchange!ExchangeNext]_<<seq, pc = "waiting", accepted>>
  <2> SUFFICES ASSUME TypeOK, OwnReply, [Next]_vars
               PROVE  [Exchange!ExchangeNext]_<<seq, pc = "waiting", accepted>>
    OBVIOUS
  <2>1. ASSUME Write, pc # "waiting" PROVE Exchange!Begin
    BY <2>1 DEF Write, Exchange!Begin
  <2>2. ASSUME pc' = "idle", pc = "waiting", UNCHANGED <<seq, accepted>> PROVE Exchange!Fail
    BY <2>2 DEF Exchange!Fail
  <2>3. ASSUME UNCHANGED <<seq, accepted>>, pc' = "waiting" <=> pc = "waiting"
        PROVE  UNCHANGED <<seq, pc = "waiting", accepted>>
    BY <2>3
  <2>4. CASE Connect \/ Close \/ Established
    BY <2>3, <2>4 DEF Connect, Close, Established
  <2>5. CASE Request
    BY <2>1, <2>3, <2>5 DEF Request, FailCall, Exchange!ExchangeNext
  <2>6. CASE Resume
    BY <2>1, <2>3, <2>6 DEF Resume, Discard, Exchange!ExchangeNext
  <2>7. CASE Accept
    BY <2>7, CompleteIsAll DEF Accept, Exchange!Succeed, Exchange!ExchangeNext
  <2>8. CASE Refuse
    BY <2>2, <2>8 DEF Refuse, FailCall, Exchange!ExchangeNext
  <2>9. CASE Abort
    BY <2>2, <2>3, <2>9 DEF Abort, FailCall, Discard, Exchange!ExchangeNext
  <2>10. CASE PeerReply \/ PeerNoise \/ DataReceived \/ ConnectionLost
    BY <2>3, <2>10 DEF PeerReply, PeerNoise, Put, DataReceived, ConnectionLost
  <2>11. CASE UNCHANGED vars
    BY <2>3, <2>11 DEF vars
  <2>12. QED
    BY <2>4, <2>5, <2>6, <2>7, <2>8, <2>9, <2>10, <2>11 DEF Next
<1>3. QED
  BY <1>1, <1>2, TypeCorrect, OwnReplyHolds, PTL
     DEF Spec, ImplementsExchange, Exchange!ExchangeSpec, Exchange!exchangeVars
=============================================================================
