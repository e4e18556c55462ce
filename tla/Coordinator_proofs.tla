------------------------- MODULE Coordinator_proofs -------------------------
(* Proofs about the coordinator, for any paths, commands and bounds.       *)
EXTENDS Coordinator, TLAPS

(* A path that the next write exchange writes is one of the device's.      *)
LEMMA NextPathType ==
    ASSUME TypeOK, NEW w \in Writers, step[w] < Len(Plan[w])
    PROVE  /\ NextPath(w) \in Paths
           /\ step[w] + 1 \in DOMAIN Plan[w]
<1>1. Plan[w] \in Seq(Paths)
  BY CoordinatorAssumption
<1>2. step[w] \in Nat /\ Len(Plan[w]) \in Nat
  BY <1>1 DEF TypeOK
<1>3. step[w] + 1 \in 1..Len(Plan[w])
  BY <1>2
<1>4. QED  BY <1>1, <1>3 DEF NextPath

(* The generations of a command's patches follow the old generation.       *)
LEMMA PatchGeneration ==
    ASSUME TypeOK, NEW w \in Writers, NEW p \in Written(w)
    PROVE  LET i == CHOOSE j \in DOMAIN Plan[w] : Plan[w][j] = p
           IN  /\ i \in 1..Len(Plan[w])
               /\ Plan[w][i] = p
               /\ generation + i \in Nat
               /\ generation < generation + i
               /\ generation + i <= generation + Len(Plan[w])
<1> DEFINE i == CHOOSE j \in DOMAIN Plan[w] : Plan[w][j] = p
<1>1. Plan[w] \in Seq(Paths)
  BY CoordinatorAssumption
<1>2. \E j \in DOMAIN Plan[w] : Plan[w][j] = p
  BY DEF Written
<1>3. i \in DOMAIN Plan[w] /\ Plan[w][i] = p
  BY <1>2
<1>4. i \in 1..Len(Plan[w]) /\ Len(Plan[w]) \in Nat
  BY <1>1, <1>3
<1>5. QED  BY <1>3, <1>4 DEF TypeOK

(* What a command shows: its paths take the values it wrote, with patches  *)
(* newer than every older generation; the others keep theirs.              *)
LEMMA ApplyEffect ==
    ASSUME TypeOK, NEW w \in Writers, ApplyWrites(w)
    PROVE  /\ generation' \in Nat /\ generation <= generation'
           /\ Written(w) \subseteq Paths
           /\ DOMAIN patches' = DOMAIN patches \cup Written(w)
           /\ \A p \in Written(w) :
                 /\ patches'[p] \in Patch
                 /\ patches'[p].value = written[w][p]
                 /\ patches'[p].generation > generation
                 /\ patches'[p].generation <= generation'
                 /\ data'[p] = written[w][p]
           /\ \A p \in DOMAIN patches \ Written(w) : patches'[p] = patches[p]
           /\ \A p \in Paths \ Written(w) : data'[p] = data[p]
           /\ data' \in [Paths -> Nat]
<1>1. Plan[w] \in Seq(Paths)
  BY CoordinatorAssumption
<1>2. Written(w) \subseteq Paths
  BY <1>1 DEF Written
<1>3. generation' \in Nat /\ generation <= generation'
  BY <1>1 DEF ApplyWrites, TypeOK
<1>4. ASSUME NEW p \in Written(w)
      PROVE  /\ patches'[p] \in Patch
             /\ patches'[p].value = written[w][p]
             /\ patches'[p].generation > generation
             /\ patches'[p].generation <= generation'
             /\ data'[p] = written[w][p]
  <2> DEFINE i == CHOOSE j \in DOMAIN Plan[w] : Plan[w][j] = p
  <2>1. patches'[p] = [generation |-> generation + i, value |-> written[w][p]]
    BY <1>4 DEF ApplyWrites
  <2>2. written[w][p] \in Nat
    BY <1>2 DEF TypeOK
  <2>3. generation + i \in Nat /\ generation < generation + i
        /\ generation + i <= generation + Len(Plan[w])
    BY PatchGeneration
  <2> HIDE DEF i
  <2>4. QED  BY <1>2, <2>1, <2>2, <2>3 DEF ApplyWrites, Patch
<1>5. data' \in [Paths -> Nat]
  BY <1>2 DEF ApplyWrites, TypeOK
<1>6. QED  BY <1>2, <1>3, <1>4, <1>5 DEF ApplyWrites

(* Every step keeps the variables in their types (coordinator.py:53-69).   *)
THEOREM TypeCorrect == Spec => []TypeOK
<1>1. Init => TypeOK
  <2> SUFFICES ASSUME Init PROVE TypeOK
    OBVIOUS
  <2>1. DOMAIN patches = {}
    BY DEF Init
  <2>2. written \in [Writers -> [Paths -> Nat]] /\ snapshot \in [Paths -> Nat \cup {Unread}]
    BY DEF Init
  <2>3. dev \in [Paths -> Nat] /\ data \in [Paths -> Nat] /\ step \in [Writers -> Nat]
    BY DEF Init
  <2>4. QED  BY <2>1, <2>2, <2>3 DEF Init, TypeOK
<1>2. TypeOK /\ [Next]_vars => TypeOK'
  <2> SUFFICES ASSUME TypeOK, [Next]_vars PROVE TypeOK'
    OBVIOUS
  <2>1. CASE PollStart
    BY <2>1 DEF PollStart, TypeOK, writeVars
  <2>2. ASSUME NEW p \in Paths, PollRead(p) PROVE TypeOK'
    BY <2>2 DEF PollRead, TypeOK, writeVars
  <2>3. CASE PollPublish
    <3>1. DOMAIN patches' \subseteq Paths /\ \A p \in DOMAIN patches' : patches'[p] \in Patch
      BY <2>3 DEF PollPublish, Kept, Newer, TypeOK
    <3>2. data' \in [Paths -> Nat]
      <4>1. ASSUME NEW p \in Paths PROVE Reconciled[p] \in Nat
        BY <2>3 DEF PollPublish, Reconciled, Newer, TypeOK, Patch
      <4>2. QED  BY <2>3, <4>1 DEF PollPublish, Reconciled
    <3>3. QED  BY <2>3, <3>1, <3>2 DEF PollPublish, TypeOK, writeVars
  <2>4. CASE PollFail
    BY <2>4 DEF PollFail, TypeOK, writeVars
  <2>5. ASSUME NEW w \in Writers, WriteStart(w) PROVE TypeOK'
    BY <2>5 DEF WriteStart, TypeOK, pollVars
  <2>6. ASSUME NEW w \in Writers, WriteExchange(w) PROVE TypeOK'
    <3>1. NextPath(w) \in Paths
      BY <2>6, NextPathType DEF WriteExchange
    <3>2. dev' \in [Paths -> Nat]
      BY <2>6, <3>1 DEF WriteExchange, TypeOK
    <3>3. written' \in [Writers -> [Paths -> Nat]]
      BY <2>6, <3>1, <3>2 DEF WriteExchange, TypeOK
    <3>4. step' \in [Writers -> Nat]
      BY <2>6 DEF WriteExchange, TypeOK
    <3>5. QED  BY <2>6, <3>2, <3>3, <3>4 DEF WriteExchange, TypeOK, pollVars
  <2>7. ASSUME NEW w \in Writers, WriteFail(w) PROVE TypeOK'
    <3>1. dev' \in [Paths -> Nat]
      BY <2>7, NextPathType DEF WriteFail, TypeOK
    <3>2. QED  BY <2>7, <3>1 DEF WriteFail, TypeOK, pollVars
  <2>8. ASSUME NEW w \in Writers, ApplyOptimistic(w) \/ ApplyConfirmed(w) PROVE TypeOK'
    <3>1. ApplyWrites(w) /\ lock' = NoOne /\ UNCHANGED <<dev, pollVars, step, written>>
      BY <2>8 DEF ApplyOptimistic, ApplyConfirmed
    <3>2. DOMAIN patches' \subseteq Paths /\ \A p \in DOMAIN patches' : patches'[p] \in Patch
      BY <3>1, ApplyEffect DEF TypeOK
    <3>3. generation' \in Nat /\ data' \in [Paths -> Nat]
      BY <3>1, ApplyEffect
    <3>4. QED  BY <3>1, <3>2, <3>3 DEF TypeOK, pollVars
  <2>9. ASSUME NEW p \in Paths, DeviceChange(p) PROVE TypeOK'
    BY <2>9 DEF DeviceChange, TypeOK, pollVars, writeVars
  <2>10. CASE UNCHANGED vars
    BY <2>10 DEF vars, TypeOK
  <2>11. QED
    BY <2>1, <2>2, <2>3, <2>4, <2>5, <2>6, <2>7, <2>8, <2>9, <2>10 DEF Next, Poll, Command
<1>3. QED
  BY <1>1, <1>2, PTL DEF Spec

(* A step that leaves the view, the patches and the poll alone, and only   *)
(* moves the device forward, keeps what the barrier says of them.          *)
LEMMA ViewUntouched ==
    ASSUME TypeOK, Barrier, UNCHANGED <<data, generation, patches, pollVars>>,
           \A p \in Paths : dev'[p] \in Nat /\ dev[p] <= dev'[p]
    PROVE  PatchIsShown' /\ ReadIsNotOlder' /\ NothingInvented' /\ GenerationBound'
<1>1. PatchIsShown' /\ ReadIsNotOlder' /\ GenerationBound'
  BY DEF Barrier, PatchIsShown, ReadIsNotOlder, GenerationBound, Newer, pollVars
<1>2. NothingInvented'
  <2> SUFFICES ASSUME NEW p \in Paths
               PROVE  /\ data[p] <= dev'[p]
                      /\ snapshot[p] # Unread => snapshot[p] <= dev'[p]
    BY DEF NothingInvented, pollVars
  <2>1. data[p] <= dev[p] /\ (snapshot[p] # Unread => snapshot[p] <= dev[p])
    BY DEF Barrier, NothingInvented
  <2>2. data[p] \in Nat /\ dev[p] \in Nat /\ dev'[p] \in Nat /\ dev[p] <= dev'[p]
        /\ (snapshot[p] # Unread => snapshot[p] \in Nat)
    BY DEF TypeOK
  <2>3. QED  BY <2>1, <2>2
<1>3. QED  BY <1>1, <1>2

(* A path a running command has written, in plain terms.                   *)
LEMMA PlanPath ==
    ASSUME NEW w \in Writers, NEW i \in 1..Len(Plan[w])
    PROVE  Plan[w][i] \in Paths
<1>1. Plan[w] \in Seq(Paths)
  BY CoordinatorAssumption
<1>2. QED  BY <1>1

(* The same for what the barrier says of a running command.                *)
LEMMA WritesUntouched ==
    ASSUME TypeOK, Barrier, UNCHANGED <<data, snapshot, lock, step, written>>,
           \A p \in Paths : dev'[p] \in Nat /\ dev[p] <= dev'[p]
    PROVE  WriteIsNewest'
<1> SUFFICES ASSUME NEW w \in Writers, lock = w
             PROVE  /\ step[w] <= Len(Plan[w])
                    /\ \A i \in 1..step[w] :
                          /\ data[Plan[w][i]] <= written[w][Plan[w][i]]
                          /\ written[w][Plan[w][i]] <= dev'[Plan[w][i]]
                          /\ snapshot[Plan[w][i]] # Unread
                                => snapshot[Plan[w][i]] <= written[w][Plan[w][i]]
  BY DEF WriteIsNewest
<1>1. step[w] <= Len(Plan[w]) /\ step[w] \in Nat /\ Len(Plan[w]) \in Nat
  BY CoordinatorAssumption DEF Barrier, WriteIsNewest, TypeOK
<1>2. ASSUME NEW i \in 1..step[w]
      PROVE  /\ data[Plan[w][i]] <= written[w][Plan[w][i]]
             /\ written[w][Plan[w][i]] <= dev'[Plan[w][i]]
             /\ snapshot[Plan[w][i]] # Unread
                   => snapshot[Plan[w][i]] <= written[w][Plan[w][i]]
  <2> DEFINE p == Plan[w][i]
  <2>1. i \in 1..Len(Plan[w])
    BY <1>1
  <2>2. p \in Paths
    BY <2>1, PlanPath
  <2>3. /\ data[p] <= written[w][p]
        /\ written[w][p] <= dev[p]
        /\ snapshot[p] # Unread => snapshot[p] <= written[w][p]
    BY <1>2 DEF Barrier, WriteIsNewest
  <2>4. written[w][p] \in Nat /\ dev[p] \in Nat /\ dev'[p] \in Nat /\ dev[p] <= dev'[p]
    BY <2>2 DEF TypeOK
  <2> HIDE DEF p
  <2>5. written[w][p] <= dev'[p]
    BY <2>3, <2>4
  <2>6. QED  BY <2>3, <2>5 DEF p
<1>3. QED  BY <1>1, <1>2

(* The barrier is an invariant: a pending patch is shown, a poll never     *)
(* holds an older value than the one shown unless a newer patch replaces   *)
(* it, and nothing is newer than the device (coordinator.py:71-162).       *)
THEOREM BarrierHolds == Spec => []Barrier
<1>1. Init => Barrier
  <2> SUFFICES ASSUME Init PROVE Barrier
    OBVIOUS
  <2>1. DOMAIN patches = {} /\ ~polling /\ lock \notin Writers
    BY CoordinatorAssumption DEF Init
  <2>2. \A p \in Paths : data[p] = 0 /\ dev[p] = 0 /\ snapshot[p] = Unread
    BY DEF Init
  <2>3. QED
    BY <2>1, <2>2 DEF Barrier, PatchIsShown, ReadIsNotOlder, NothingInvented,
                      WriteIsNewest, GenerationBound
<1>2. TypeOK /\ TypeOK' /\ Barrier /\ [Next]_vars => Barrier'
  <2> SUFFICES ASSUME TypeOK, TypeOK', Barrier, [Next]_vars PROVE Barrier'
    OBVIOUS
  <2> USE DEF Barrier
  <2>0. \A p \in Paths : dev[p] \in Nat /\ dev'[p] \in Nat /\ data[p] \in Nat
    BY DEF TypeOK
  <2>1. CASE PollStart
    <3>1. \A p \in Paths : snapshot'[p] = Unread
      BY <2>1 DEF PollStart
    <3>2. PatchIsShown' /\ ReadIsNotOlder' /\ NothingInvented' /\ GenerationBound'
      BY <2>1, <3>1 DEF PollStart, PatchIsShown, ReadIsNotOlder, NothingInvented,
                        GenerationBound, TypeOK
    <3>3. \A w \in Writers : \A i \in 1..Len(Plan[w]) : snapshot'[Plan[w][i]] = Unread
      BY <3>1, PlanPath
    <3>4. WriteIsNewest'
      <4> SUFFICES ASSUME NEW w \in Writers, lock = w
                   PROVE  /\ step[w] <= Len(Plan[w])
                          /\ \A i \in 1..step[w] :
                                /\ data[Plan[w][i]] <= written[w][Plan[w][i]]
                                /\ written[w][Plan[w][i]] <= dev[Plan[w][i]]
                                /\ snapshot'[Plan[w][i]] = Unread
        BY <2>1 DEF PollStart, WriteIsNewest, writeVars
      <4>1. step[w] <= Len(Plan[w]) /\ step[w] \in Nat /\ Len(Plan[w]) \in Nat
        BY CoordinatorAssumption DEF WriteIsNewest, TypeOK
      <4>2. QED  BY <3>3, <4>1 DEF WriteIsNewest
    <3>5. QED  BY <3>2, <3>4
  <2>2. ASSUME NEW p \in Paths, PollRead(p) PROVE Barrier'
    <3>1. snapshot'[p] = dev[p] /\ \A q \in Paths : q # p => snapshot'[q] = snapshot[q]
      BY <2>2 DEF PollRead, TypeOK
    <3>2. lock \notin Writers
      BY <2>2, CoordinatorAssumption DEF PollRead
    <3>3. UNCHANGED <<dev, data, generation, patches, polling, pollGen, lock, step, written>>
      BY <2>2 DEF PollRead, writeVars
    <3>4. data[p] <= snapshot'[p] /\ snapshot'[p] <= dev[p]
      BY <2>0, <3>1 DEF NothingInvented
    <3>5. ReadIsNotOlder' /\ NothingInvented'
      BY <3>1, <3>3, <3>4 DEF ReadIsNotOlder, NothingInvented, Newer
    <3>6. QED
      BY <3>2, <3>3, <3>5 DEF PatchIsShown, GenerationBound, WriteIsNewest
  <2>3. CASE PollPublish
    <3>1. UNCHANGED <<dev, generation, pollGen, snapshot, lock, step, written>> /\ ~polling'
      BY <2>3 DEF PollPublish, writeVars
    <3>2. ASSUME NEW p \in Paths
          PROVE  \/ Newer(p) /\ data'[p] = data[p]
                 \/ ~Newer(p) /\ data'[p] = snapshot[p] /\ snapshot[p] # Unread
      BY <2>3 DEF PollPublish, Reconciled, PatchIsShown, Newer
    <3>3. /\ DOMAIN patches' \subseteq DOMAIN patches
          /\ \A p \in DOMAIN patches' : patches'[p] = patches[p] /\ Newer(p) /\ p \in Paths
      BY <2>3 DEF PollPublish, Kept, Newer
    <3>4. PatchIsShown'
      BY <3>2, <3>3 DEF PatchIsShown
    <3>5. NothingInvented'
      BY <3>1, <3>2 DEF NothingInvented
    <3>6. GenerationBound'
      BY <3>1, <3>3 DEF GenerationBound
    <3>7. WriteIsNewest'
      <4> SUFFICES ASSUME NEW w \in Writers, lock = w
                   PROVE  /\ step[w] <= Len(Plan[w])
                          /\ \A i \in 1..step[w] :
                                /\ data'[Plan[w][i]] <= written[w][Plan[w][i]]
                                /\ written[w][Plan[w][i]] <= dev[Plan[w][i]]
                                /\ snapshot[Plan[w][i]] # Unread
                                      => snapshot[Plan[w][i]] <= written[w][Plan[w][i]]
        BY <3>1 DEF WriteIsNewest
      <4>1. step[w] <= Len(Plan[w]) /\ step[w] \in Nat /\ Len(Plan[w]) \in Nat
        BY CoordinatorAssumption DEF WriteIsNewest, TypeOK
      <4>2. \A i \in 1..step[w] : Plan[w][i] \in Paths
        BY <4>1, PlanPath
      <4>3. QED  BY <3>2, <4>1, <4>2 DEF WriteIsNewest
    <3>8. QED  BY <3>1, <3>4, <3>5, <3>6, <3>7 DEF ReadIsNotOlder
  <2>4. CASE PollFail
    <3>1. UNCHANGED <<dev, data, generation, patches, pollGen, snapshot, lock, step, written>>
          /\ ~polling'
      BY <2>4 DEF PollFail, writeVars
    <3>2. WriteIsNewest'
      BY <2>0, <3>1, WritesUntouched
    <3>3. QED  BY <3>1, <3>2 DEF PatchIsShown, ReadIsNotOlder, NothingInvented, GenerationBound
  <2>5. ASSUME NEW w \in Writers, WriteStart(w) PROVE Barrier'
    <3>1. UNCHANGED <<dev, data, generation, patches, pollVars>>
      BY <2>5 DEF WriteStart
    <3>2. PatchIsShown' /\ ReadIsNotOlder' /\ NothingInvented' /\ GenerationBound'
      BY <2>0, <3>1, ViewUntouched
    <3>3. lock' = w /\ step'[w] = 0 /\ Len(Plan[w]) \in Nat
      BY <2>5, CoordinatorAssumption DEF WriteStart, TypeOK
    <3>4. WriteIsNewest'
      BY <3>3 DEF WriteIsNewest
    <3>5. QED  BY <3>2, <3>4
  <2>6. ASSUME NEW w \in Writers, WriteExchange(w) PROVE Barrier'
    <3> DEFINE p == NextPath(w)
    <3>1. /\ p \in Paths /\ step[w] + 1 \in DOMAIN Plan[w]
          /\ p = Plan[w][step[w] + 1]
      BY <2>6, NextPathType DEF WriteExchange, NextPath
    <3>2. /\ UNCHANGED <<data, generation, patches, pollVars, lock>>
          /\ lock = w
          /\ dev'[p] = dev[p] + 1
          /\ \A q \in Paths : q # p => dev'[q] = dev[q]
          /\ written'[w][p] = dev[p] + 1
          /\ \A q \in Paths : q # p => written'[w][q] = written[w][q]
          /\ step'[w] = step[w] + 1
          /\ step[w] < Len(Plan[w])
      BY <2>6, <3>1 DEF WriteExchange, TypeOK
    <3> HIDE DEF p
    <3>3. \A q \in Paths : dev[q] <= dev'[q]
      BY <2>0, <3>2
    <3>4. PatchIsShown' /\ ReadIsNotOlder' /\ NothingInvented' /\ GenerationBound'
      BY <2>0, <3>2, <3>3, ViewUntouched
    <3>5. step[w] \in Nat /\ Len(Plan[w]) \in Nat
      BY CoordinatorAssumption DEF TypeOK
    <3>6. ASSUME NEW i \in 1..(step[w] + 1)
          PROVE  /\ data[Plan[w][i]] <= written'[w][Plan[w][i]]
                 /\ written'[w][Plan[w][i]] <= dev'[Plan[w][i]]
                 /\ snapshot[Plan[w][i]] # Unread
                       => snapshot[Plan[w][i]] <= written'[w][Plan[w][i]]
      <4> DEFINE q == Plan[w][i]
      <4>1. i \in 1..Len(Plan[w])
        BY <3>2, <3>5
      <4>2. q \in Paths
        BY <4>1, PlanPath
      <4>3. CASE q = p
        <5>1. data[p] <= dev[p] /\ (snapshot[p] # Unread => snapshot[p] <= dev[p])
          BY <3>1 DEF NothingInvented
        <5>2. dev[p] \in Nat /\ data[p] \in Nat /\ (snapshot[p] # Unread => snapshot[p] \in Nat)
          BY <3>1 DEF TypeOK
        <5> HIDE DEF q
        <5>3. QED  BY <3>2, <4>3, <5>1, <5>2 DEF q
      <4>4. CASE q # p
        <5>1. i \in 1..step[w]
          BY <3>1, <3>5, <4>4
        <5>2. /\ data[q] <= written[w][q]
              /\ written[w][q] <= dev[q]
              /\ snapshot[q] # Unread => snapshot[q] <= written[w][q]
          BY <3>2, <5>1 DEF WriteIsNewest
        <5>3. written'[w][q] = written[w][q] /\ dev'[q] = dev[q]
          BY <3>2, <4>2, <4>4
        <5> HIDE DEF q
        <5>4. QED  BY <5>2, <5>3 DEF q
      <4>5. QED  BY <4>3, <4>4
    <3>7. ASSUME NEW v \in Writers, lock' = v PROVE v = w
      BY <3>2, <3>7
    <3>8. WriteIsNewest'
      BY <3>2, <3>5, <3>6, <3>7 DEF WriteIsNewest, pollVars
    <3>9. QED  BY <3>4, <3>8
  <2>7. ASSUME NEW w \in Writers, WriteFail(w) PROVE Barrier'
    <3>1. UNCHANGED <<data, generation, patches, pollVars>> /\ lock' \notin Writers
      BY <2>7, CoordinatorAssumption DEF WriteFail
    <3>2. \A q \in Paths : dev[q] <= dev'[q]
      BY <2>0, <2>7, NextPathType DEF WriteFail, TypeOK
    <3>3. QED  BY <2>0, <3>1, <3>2, ViewUntouched DEF WriteIsNewest
  <2>8. ASSUME NEW w \in Writers, ApplyOptimistic(w) \/ ApplyConfirmed(w) PROVE Barrier'
    <3>1. /\ ApplyWrites(w) /\ lock' \notin Writers /\ lock = w /\ step[w] = Len(Plan[w])
          /\ UNCHANGED <<dev, polling, pollGen, snapshot, step, written>>
      BY <2>8, CoordinatorAssumption DEF ApplyOptimistic, ApplyConfirmed, pollVars
    <3>2. ASSUME NEW p \in Written(w)
          PROVE  written[w][p] <= dev[p]
      <4>1. PICK i \in DOMAIN Plan[w] : Plan[w][i] = p
        BY <3>2 DEF Written
      <4>2. i \in 1..step[w]
        BY <3>1, <4>1, CoordinatorAssumption
      <4>3. QED  BY <3>1, <4>1, <4>2 DEF WriteIsNewest
    <3>3. PatchIsShown'
      BY <3>1, ApplyEffect DEF PatchIsShown, TypeOK
    <3>4. GenerationBound'
      <4>1. polling' => pollGen' <= generation'
        <5>1. polling => pollGen <= generation
          BY DEF GenerationBound
        <5>2. generation' \in Nat /\ generation <= generation'
          BY <3>1, ApplyEffect
        <5>3. pollGen \in Nat /\ generation \in Nat
          BY DEF TypeOK
        <5>4. pollGen' = pollGen /\ polling' = polling
          BY <3>1
        <5>5. pollGen <= generation => pollGen <= generation'
          BY <5>2, <5>3
        <5>6. QED  BY <5>1, <5>4, <5>5
      <4>2. ASSUME NEW p \in DOMAIN patches' PROVE patches'[p].generation <= generation'
        <5>1. CASE p \in Written(w)
          BY <3>1, <5>1, ApplyEffect
        <5>2. CASE p \notin Written(w)
          <6>1. p \in DOMAIN patches /\ patches'[p] = patches[p]
            BY <3>1, <4>2, <5>2, ApplyEffect
          <6>2. patches[p].generation <= generation /\ patches[p].generation \in Nat
            BY <6>1 DEF GenerationBound, TypeOK, Patch
          <6>3. generation' \in Nat /\ generation <= generation' /\ generation \in Nat
            BY <3>1, ApplyEffect DEF TypeOK
          <6>4. QED  BY <6>1, <6>2, <6>3
        <5>3. QED  BY <5>1, <5>2
      <4>3. QED  BY <4>1, <4>2 DEF GenerationBound
    <3>5. NothingInvented'
      <4> SUFFICES ASSUME NEW p \in Paths PROVE data'[p] <= dev[p]
        BY <3>1 DEF NothingInvented
      <4>1. CASE p \in Written(w)
        BY <3>1, <3>2, <4>1, ApplyEffect
      <4>2. CASE p \notin Written(w)
        BY <3>1, <4>2, ApplyEffect DEF NothingInvented
      <4>3. QED  BY <4>1, <4>2
    <3>6. ReadIsNotOlder'
      <4> SUFFICES ASSUME polling, NEW p \in Paths
                   PROVE  snapshot[p] = Unread \/ Newer(p)' \/ data'[p] <= snapshot[p]
        BY <3>1 DEF ReadIsNotOlder
      <4>1. CASE p \in Written(w)
        <5>1. p \in DOMAIN patches' /\ patches'[p].generation > generation
              /\ patches'[p] \in Patch
          BY <3>1, <4>1, ApplyEffect
        <5>2. pollGen <= generation /\ pollGen \in Nat /\ generation \in Nat
          BY DEF GenerationBound, TypeOK
        <5>3. patches'[p].generation > pollGen
          BY <5>1, <5>2 DEF Patch
        <5>4. QED  BY <3>1, <5>1, <5>3 DEF Newer
      <4>2. CASE p \notin Written(w)
        <5>1. data'[p] = data[p]
          BY <3>1, <4>2, ApplyEffect
        <5>2. p \in DOMAIN patches => p \in DOMAIN patches' /\ patches'[p] = patches[p]
          BY <3>1, <4>2, ApplyEffect
        <5>3. QED  BY <3>1, <5>1, <5>2 DEF ReadIsNotOlder, Newer
      <4>3. QED  BY <4>1, <4>2
    <3>7. QED  BY <3>1, <3>3, <3>4, <3>5, <3>6 DEF WriteIsNewest
  <2>9. ASSUME NEW p \in Paths, DeviceChange(p) PROVE Barrier'
    <3>1. UNCHANGED <<data, generation, patches, pollVars, writeVars>>
      BY <2>9 DEF DeviceChange
    <3>2. \A q \in Paths : dev[q] <= dev'[q]
      BY <2>0, <2>9 DEF DeviceChange, TypeOK
    <3>3. QED  BY <2>0, <3>1, <3>2, ViewUntouched, WritesUntouched DEF pollVars, writeVars
  <2>10. CASE UNCHANGED vars
    <3>1. UNCHANGED <<dev, data, generation, patches, pollVars, writeVars>>
      BY <2>10 DEF vars, pollVars, writeVars
    <3>2. QED  BY <2>0, <3>1, ViewUntouched, WritesUntouched DEF pollVars, writeVars
  <2>11. QED
    BY <2>1, <2>2, <2>3, <2>4, <2>5, <2>6, <2>7, <2>8, <2>9, <2>10 DEF Next, Poll, Command
<1>3. QED
  BY <1>1, <1>2, TypeCorrect, PTL DEF Spec

(* One step cannot take a path back: a publication keeps what a newer      *)
(* patch shows or shows a value the barrier says is not older, a command   *)
(* shows what it wrote last.                                               *)
LEMMA StepShowsNewer ==
    ASSUME TypeOK, Barrier, Next
    PROVE  \/ UNCHANGED data
           \/ /\ UNCHANGED dev
              /\ \A p \in Paths : data'[p] >= data[p]
<1>1. CASE PollPublish
  <2> SUFFICES ASSUME NEW p \in Paths PROVE data'[p] >= data[p]
    BY <1>1 DEF PollPublish
  <2>1. data[p] \in Nat
    BY DEF TypeOK
  <2>2. CASE Newer(p)
    <3>1. data'[p] = patches[p].value
      BY <1>1, <2>2 DEF PollPublish, Reconciled
    <3>2. patches[p].value = data[p]
      BY <2>2 DEF Newer, Barrier, PatchIsShown
    <3>3. QED  BY <2>1, <3>1, <3>2
  <2>3. CASE ~Newer(p)
    <3>1. data'[p] = snapshot[p] /\ snapshot[p] # Unread
      BY <1>1, <2>3 DEF PollPublish, Reconciled
    <3>2. data[p] <= snapshot[p]
      BY <1>1, <2>3, <3>1 DEF PollPublish, Barrier, ReadIsNotOlder
    <3>3. snapshot[p] \in Nat
      BY <3>1 DEF TypeOK
    <3>4. QED  BY <2>1, <3>1, <3>2, <3>3
  <2>4. QED  BY <2>2, <2>3
<1>2. ASSUME NEW w \in Writers, ApplyOptimistic(w) \/ ApplyConfirmed(w)
      PROVE  UNCHANGED dev /\ \A p \in Paths : data'[p] >= data[p]
  <2>1. ApplyWrites(w) /\ lock = w /\ step[w] = Len(Plan[w]) /\ UNCHANGED dev
    BY <1>2 DEF ApplyOptimistic, ApplyConfirmed
  <2> SUFFICES ASSUME NEW p \in Paths PROVE data'[p] >= data[p]
    BY <2>1
  <2>2. data[p] \in Nat /\ written[w][p] \in Nat
    BY DEF TypeOK
  <2>3. CASE p \in Written(w)
    <3>1. PICK i \in DOMAIN Plan[w] : Plan[w][i] = p
      BY <2>3 DEF Written
    <3>2. i \in 1..step[w]
      BY <2>1, <3>1, CoordinatorAssumption
    <3>3. data[p] <= written[w][p]
      BY <2>1, <3>1, <3>2 DEF Barrier, WriteIsNewest
    <3>4. data'[p] = written[w][p]
      BY <2>1, <2>3, ApplyEffect
    <3>5. QED  BY <2>2, <3>3, <3>4
  <2>4. CASE p \notin Written(w)
    <3>1. data'[p] = data[p]
      BY <2>1, <2>4, ApplyEffect
    <3>2. QED  BY <2>2, <3>1
  <2>5. QED  BY <2>3, <2>4
<1>3. CASE \/ PollStart
           \/ \E p \in Paths : PollRead(p)
           \/ PollFail
           \/ \E w \in Writers : WriteStart(w) \/ WriteExchange(w) \/ WriteFail(w)
           \/ \E p \in Paths : DeviceChange(p)
  BY <1>3 DEF PollStart, PollRead, PollFail, WriteStart, WriteExchange, WriteFail, DeviceChange
<1>4. QED  BY <1>1, <1>2, <1>3 DEF Next, Poll, Command, PollPublish

(* What an entity shows never goes back to an older value of the device    *)
(* (coordinator.py:152-189).                                               *)
THEOREM NeverBack == Spec => NeverBackwards
<1>1. TypeOK /\ Barrier /\ [Next]_vars => [\A p \in Paths : data'[p] >= data[p]]_vars
  <2> SUFFICES ASSUME TypeOK, Barrier, Next PROVE \A p \in Paths : data'[p] >= data[p]
    OBVIOUS
  <2>1. \A p \in Paths : data[p] \in Nat
    BY DEF TypeOK
  <2>2. QED  BY <2>1, StepShowsNewer
<1>2. QED  BY <1>1, TypeCorrect, BarrierHolds, PTL DEF Spec, NeverBackwards

(* The device changes one path at a time, by one version.                  *)
LEMMA DeviceStep ==
    ASSUME TypeOK, Next
    PROVE  \/ UNCHANGED dev
           \/ UNCHANGED data /\ \E p \in Paths : dev' = [dev EXCEPT ![p] = @ + 1]
<1>1. ASSUME NEW w \in Writers, WriteExchange(w) \/ WriteFail(w)
      PROVE  \/ UNCHANGED dev
             \/ UNCHANGED data /\ \E p \in Paths : dev' = [dev EXCEPT ![p] = @ + 1]
  BY <1>1, NextPathType DEF WriteExchange, WriteFail
<1>2. ASSUME NEW p \in Paths, DeviceChange(p)
      PROVE  UNCHANGED data /\ dev' = [dev EXCEPT ![p] = @ + 1]
  BY <1>2 DEF DeviceChange
<1>3. CASE \/ Poll
           \/ \E w \in Writers : WriteStart(w) \/ ApplyOptimistic(w) \/ ApplyConfirmed(w)
  BY <1>3 DEF Poll, PollStart, PollRead, PollFail, PollPublish, WriteStart,
              ApplyOptimistic, ApplyConfirmed
<1>4. QED  BY <1>1, <1>2, <1>3 DEF Next, Command

(* The coordinator implements the monotone view: whatever polls, commands  *)
(* and failures do, the entities see a view that only lags.                *)
THEOREM CoordinatorImplementsView == Spec => ImplementsView
<1>1. Init => View!ViewInit
  BY DEF Init, View!ViewInit
<1>2. TypeOK /\ TypeOK' /\ Barrier /\ Barrier' /\ [Next]_vars
         => [View!ViewNext]_<<dev, data>>
  <2>1. CASE UNCHANGED vars
    BY <2>1 DEF vars
  <2>2. ASSUME TypeOK, TypeOK', Barrier, Barrier', Next
        PROVE  [View!ViewNext]_<<dev, data>>
    <3>1. CASE UNCHANGED data
      BY <2>2, <3>1, DeviceStep DEF View!ViewNext, View!Change
    <3>2. CASE UNCHANGED dev /\ \A p \in Paths : data'[p] >= data[p]
      <4>1. data' \in [Paths -> Nat] /\ data \in [Paths -> Nat]
        BY <2>2 DEF TypeOK
      <4>2. \A p \in Paths : data'[p] <= dev[p]
        BY <2>2, <3>2 DEF Barrier, NothingInvented
      <4>3. \A p \in Paths : data[p] <= data'[p]
        BY <3>2, <4>1
      <4>4. View!Show
        BY <3>2, <4>1, <4>2, <4>3 DEF View!Show
      <4>5. QED  BY <4>4 DEF View!ViewNext
    <3>3. QED  BY <2>2, <3>1, <3>2, StepShowsNewer
  <2>3. QED  BY <2>1, <2>2
<1>3. QED
  BY <1>1, <1>2, TypeCorrect, BarrierHolds, PTL
     DEF Spec, ImplementsView, View!ViewSpec, View!viewVars
=============================================================================
