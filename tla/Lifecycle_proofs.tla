-------------------------- MODULE Lifecycle_proofs --------------------------
(***************************************************************************)
(* Proofs about Lifecycle: the types, that every open client has exactly   *)
(* one owner, and that owners hold their clients as ExclusiveHolding says, *)
(* for any entries, gateways and number of clients.                        *)
(***************************************************************************)
EXTENDS Lifecycle, TLAPS

USE LifecycleAssumption DEF Entries, NoClient, Idle, Goes

(* The clients held, as a function, and what ClientsOwned says of it.      *)
HeldBy == [e \in Owners |-> Held(e)]

OwnedBy(o, H) ==
    /\ o = UNION {H[e] : e \in Owners}
    /\ \A e, f \in Owners : e # f => H[e] \cap H[f] = {}

(* The inductive invariant: clients are numbered as they are made, a       *)
(* client in runtime_data before the platforms are there is the one the    *)
(* setup works with, and children connect to nothing.                      *)
Ownership ==
    /\ TypeOK
    /\ open \subseteq 1..made
    /\ OwnedBy(open, HeldBy)
    /\ \A e \in Entries : phase[e] = "forwarding" => runtime[e] = using[e]
    /\ \A e \in Children : phase[e] # "connecting"

-----------------------------------------------------------------------------
(* An owner that holds nothing gets a client nobody has.                   *)
LEMMA Gains ==
    ASSUME NEW o, NEW H \in [Owners -> SUBSET Nat], NEW e \in Owners, NEW c \in Nat,
           OwnedBy(o, H), H[e] = {}, c \notin o
    PROVE  OwnedBy(o \cup {c}, [H EXCEPT ![e] = {c}])
<1> DEFINE G == [H EXCEPT ![e] = {c}]
<1>1. G[e] = {c} /\ \A f \in Owners : f # e => G[f] = H[f]
  OBVIOUS
<1>2. \A f \in Owners : c \notin H[f]
  BY DEF OwnedBy
<1>3. o \cup {c} = UNION {G[f] : f \in Owners}
  <2>1. ASSUME NEW x \in o PROVE \E f \in Owners : x \in G[f]
    <3>1. PICK f \in Owners : x \in H[f]
      BY <2>1 DEF OwnedBy
    <3> QED
      BY <3>1, <1>1
  <2>2. ASSUME NEW f \in Owners, NEW x \in G[f] PROVE x \in o \cup {c}
    BY <1>1 DEF OwnedBy
  <2> HIDE DEF G
  <2> QED
    BY <2>1, <2>2, <1>1
<1>4. \A f, g \in Owners : f # g => G[f] \cap G[g] = {}
  <2> HIDE DEF G
  <2> QED
    BY <1>1, <1>2 DEF OwnedBy
<1> QED
  BY <1>3, <1>4 DEF OwnedBy

(* An owner closes the client it holds.                                    *)
LEMMA Loses ==
    ASSUME NEW o, NEW H \in [Owners -> SUBSET Nat], NEW e \in Owners, NEW c \in Nat,
           OwnedBy(o, H), H[e] = {c}
    PROVE  OwnedBy(o \ {c}, [H EXCEPT ![e] = {}])
<1> DEFINE G == [H EXCEPT ![e] = {}]
<1>1. G[e] = {} /\ \A f \in Owners : f # e => G[f] = H[f]
  OBVIOUS
<1>2. \A f \in Owners : f # e => c \notin H[f]
  BY DEF OwnedBy
<1>3. o \ {c} = UNION {G[f] : f \in Owners}
  <2>1. ASSUME NEW x \in o \ {c} PROVE \E f \in Owners : x \in G[f]
    <3>1. PICK f \in Owners : x \in H[f]
      BY <2>1 DEF OwnedBy
    <3> QED
      BY <3>1, <1>1
  <2>2. ASSUME NEW f \in Owners, NEW x \in G[f] PROVE x \in o \ {c}
    BY <1>1, <1>2 DEF OwnedBy
  <2> HIDE DEF G
  <2> QED
    BY <2>1, <2>2
<1>4. \A f, g \in Owners : f # g => G[f] \cap G[g] = {}
  <2> HIDE DEF G
  <2> QED
    BY <1>1 DEF OwnedBy
<1> QED
  BY <1>3, <1>4 DEF OwnedBy

LEMMA HeldType == TypeOK => HeldBy \in [Owners -> SUBSET Nat]
<1> SUFFICES ASSUME TypeOK, NEW e \in Owners PROVE Held(e) \in SUBSET Nat
  BY DEF HeldBy
<1>1. using[e] \in Nat /\ runtime[e] \in Nat
  BY DEF TypeOK
<1> QED
  BY <1>1 DEF Held

(* The step of one entry leaves what the others hold alone.                *)
LEMMA OthersKeep ==
    ASSUME TypeOK, NEW e \in Entries,
           NEW p \in Phases, phase' = [phase EXCEPT ![e] = p],
           \A f \in Entries : f # e => using'[f] = using[f] /\ runtime'[f] = runtime[f]
    PROVE  \A f \in Owners : f # e => Held(f)' = Held(f)
<1> SUFFICES ASSUME NEW f \in Owners, f # e PROVE Held(f)' = Held(f)
  OBVIOUS
<1>1. phase'[f] = phase[f] /\ using'[f] = using[f] /\ runtime'[f] = runtime[f]
  BY DEF TypeOK
<1> QED
  BY <1>1 DEF Held

-----------------------------------------------------------------------------
(* The types, action by action.                                            *)
LEMMA TypeStep == TypeOK /\ open \subseteq 1..made /\ [Next]_vars => TypeOK'
<1> SUFFICES ASSUME TypeOK, open \subseteq 1..made, [Next]_vars PROVE TypeOK'
  OBVIOUS
<1> USE DEF TypeOK, Phases
<1>1. CASE UNCHANGED vars
  BY <1>1 DEF vars
<1>2. CASE Restart
  BY <1>2 DEF Restart
<1>3. ASSUME NEW e \in Entries, Setup(e) PROVE TypeOK'
  <2>1. CASE BeginOwner(e)
    BY <2>1 DEF BeginOwner
  <2>2. CASE Connected(e)
    BY <2>2 DEF Connected
  <2>3. CASE ConnectFails(e)
    BY <2>3 DEF ConnectFails
  <2>4. CASE BeginChild(e)
    BY <2>4 DEF BeginChild
  <2>5. CASE ChildNotReady(e)
    BY <2>5 DEF ChildNotReady
  <2>6. CASE ReadSucceeds(e)
    BY <2>6 DEF ReadSucceeds
  <2>7. CASE Forwarded(e)
    BY <2>7 DEF Forwarded
  <2>8. CASE SetupFails(e)
    <3>1. open' \subseteq open
      BY <2>8 DEF SetupFails
    <3>2. phase' \in [Entries -> Phases]
      BY <2>8 DEF SetupFails
    <3>3. using' \in [Entries -> 0..MaxClients] /\ runtime' \in [Entries -> 0..MaxClients]
      BY <2>8 DEF SetupFails
    <3> QED
      BY <2>8, <3>1, <3>2, <3>3 DEF SetupFails
  <2> QED
    BY <1>3, <2>1, <2>2, <2>3, <2>4, <2>5, <2>6, <2>7, <2>8 DEF Setup
<1>4. ASSUME NEW e \in Entries, Unload(e) PROVE TypeOK'
  <2>1. CASE BeginUnload(e)
    BY <2>1 DEF BeginUnload
  <2>2. CASE Unloaded(e)
    <3>1. open' \subseteq open
      BY <2>2 DEF Unloaded
    <3>2. phase' \in [Entries -> Phases]
      BY <2>2 DEF Unloaded
    <3>3. using' \in [Entries -> 0..MaxClients] /\ runtime' \in [Entries -> 0..MaxClients]
      BY <2>2 DEF Unloaded
    <3> QED
      BY <2>2, <3>1, <3>2, <3>3 DEF Unloaded
  <2>3. CASE UnloadFails(e)
    BY <2>3 DEF UnloadFails
  <2>4. CASE UnloadFailed(e)
    BY <2>4 DEF UnloadFailed
  <2> QED
    BY <1>4, <2>1, <2>2, <2>3, <2>4 DEF Unload
<1> QED
  BY <1>1, <1>2, <1>3, <1>4 DEF Next

(* What a step does to the clients: nothing; an owner that has none makes  *)
(* one, or closes the one it has; or all are forgotten.                    *)
Alone == UNCHANGED <<open, made>> /\ \A f \in Owners : Held(f)' = Held(f)

Makes(e) ==
    /\ Held(e) = {} /\ Held(e)' = {made + 1}
    /\ \A f \in Owners : f # e => Held(f)' = Held(f)
    /\ made' = made + 1 /\ open' = open \cup {made + 1}

Closes(e, c) ==
    /\ Held(e) = {c} /\ Held(e)' = {}
    /\ \A f \in Owners : f # e => Held(f)' = Held(f)
    /\ made' = made /\ open' = open \ {c}

Forgets == open' = {} /\ made' = made /\ \A f \in Owners : Held(f)' = {}

LEMMA ClientSteps ==
    ASSUME Ownership, [Next]_vars
    PROVE  \/ Alone
           \/ \E e \in Owners : Makes(e)
           \/ \E e \in Owners, c \in Nat : Closes(e, c)
           \/ Forgets
<1> DEFINE Kinds == \/ Alone
                    \/ \E e \in Owners : Makes(e)
                    \/ \E e \in Owners, c \in Nat : Closes(e, c)
                    \/ Forgets
<1> HIDE DEF Kinds
<1> USE DEF Ownership
<1>1. CASE UNCHANGED vars
  <2>1. Alone
    BY <1>1 DEF vars, Alone, Held
  <2> QED
    BY <2>1 DEF Kinds
<1>2. CASE Restart
  <2>1. Forgets
    BY <1>2 DEF Restart, Forgets, Held
  <2> QED
    BY <2>1 DEF Kinds
<1>3. ASSUME NEW e \in Entries, NEW p \in Phases, phase' = [phase EXCEPT ![e] = p],
             \A f \in Entries : f # e => using'[f] = using[f] /\ runtime'[f] = runtime[f],
             UNCHANGED <<open, made>>, e \in Owners => Held(e)' = Held(e)
      PROVE  Kinds
  <2>1. \A f \in Owners : Held(f)' = Held(f)
    BY <1>3, OthersKeep
  <2>2. Alone
    BY <1>3, <2>1 DEF Alone
  <2> QED
    BY <2>2 DEF Kinds
<1>4. ASSUME NEW e \in Owners, NEW c \in Nat, NEW p \in Phases,
             phase' = [phase EXCEPT ![e] = p],
             \A f \in Entries : f # e => using'[f] = using[f] /\ runtime'[f] = runtime[f],
             Held(e) = {c}, Held(e)' = {}, open' = open \ {c}, made' = made
      PROVE  Kinds
  <2>1. \A f \in Owners : f # e => Held(f)' = Held(f)
    BY <1>4, OthersKeep
  <2>2. Closes(e, c)
    BY <1>4, <2>1 DEF Closes
  <2> QED
    BY <2>2 DEF Kinds
<1>5. ASSUME NEW e \in Entries, Setup(e) PROVE Kinds
  <2>0. phase[e] \in Phases /\ using[e] \in Nat /\ runtime[e] \in Nat
    BY DEF TypeOK
  <2>1. CASE BeginOwner(e)
    <3>1. Held(e)' = Held(e)
      BY <2>1 DEF BeginOwner, Held, TypeOK
    <3> QED
      BY <1>3, <2>1, <3>1 DEF BeginOwner, Phases
  <2>2. CASE Connected(e)
    <3>1. e \in Owners
      BY <2>2 DEF Connected
    <3>2. Held(e) = {} /\ Held(e)' = {made + 1}
      BY <2>2 DEF Connected, Held, TypeOK
    <3>3. \A f \in Owners : f # e => Held(f)' = Held(f)
      <4>1. phase' = [phase EXCEPT ![e] = "reading"]
        BY <2>2 DEF Connected
      <4>2. \A f \in Entries : f # e => using'[f] = using[f] /\ runtime'[f] = runtime[f]
        BY <2>2 DEF Connected, TypeOK
      <4> QED
        BY <4>1, <4>2, OthersKeep DEF Phases
    <3>4. Makes(e)
      BY <2>2, <3>2, <3>3 DEF Makes, Connected
    <3> QED
      BY <3>1, <3>4 DEF Kinds
  <2>3. CASE ConnectFails(e)
    <3>1. Held(e)' = Held(e)
      BY <2>3 DEF ConnectFails, Held, TypeOK
    <3> QED
      BY <1>3, <2>3, <3>1 DEF ConnectFails, Phases
  <2>4. CASE BeginChild(e)
    <3>1. \A f \in Entries : f # e => using'[f] = using[f] /\ runtime'[f] = runtime[f]
      BY <2>4 DEF BeginChild, TypeOK
    <3> QED
      BY <1>3, <2>4, <3>1 DEF BeginChild, Phases
  <2>5. CASE ChildNotReady(e)
    BY <1>3, <2>5 DEF ChildNotReady, Phases
  <2>6. CASE ReadSucceeds(e)
    <3>1. \A f \in Entries : f # e => using'[f] = using[f] /\ runtime'[f] = runtime[f]
      BY <2>6 DEF ReadSucceeds, TypeOK
    <3>2. Held(e)' = Held(e)
      BY <2>6 DEF ReadSucceeds, Held, TypeOK
    <3> QED
      BY <1>3, <2>6, <3>1, <3>2 DEF ReadSucceeds, Phases
  <2>7. CASE Forwarded(e)
    <3>1. \A f \in Entries : f # e => using'[f] = using[f] /\ runtime'[f] = runtime[f]
      BY <2>7 DEF Forwarded, TypeOK
    <3>2. Held(e)' = Held(e)
      BY <2>7 DEF Forwarded, Held, TypeOK
    <3> QED
      BY <1>3, <2>7, <3>1, <3>2 DEF Forwarded, Phases
  <2>8. CASE SetupFails(e)
    <3>1. \A f \in Entries : f # e => using'[f] = using[f] /\ runtime'[f] = runtime[f]
      BY <2>8 DEF SetupFails, TypeOK
    <3>2. PICK p \in {"retry", "error"} : phase' = [phase EXCEPT ![e] = p]
      BY <2>8 DEF SetupFails
    <3>3. p \in Phases
      BY <3>2 DEF Phases
    <3>4. CASE e \in Owners
      <4>1. Held(e) = {using[e]} /\ Held(e)' = {}
        BY <2>8, <3>2 DEF SetupFails, Held, TypeOK
      <4>2. open' = open \ {using[e]} /\ made' = made
        BY <2>8, <3>4 DEF SetupFails
      <4> QED
        BY <1>4, <2>0, <3>1, <3>2, <3>3, <3>4, <4>1, <4>2
    <3>5. CASE e \notin Owners
      <4>1. UNCHANGED <<open, made>>
        BY <2>8, <3>5 DEF SetupFails
      <4> QED
        BY <1>3, <3>1, <3>2, <3>3, <3>5, <4>1
    <3> QED
      BY <3>4, <3>5
  <2> QED
    BY <1>5, <2>1, <2>2, <2>3, <2>4, <2>5, <2>6, <2>7, <2>8 DEF Setup
<1>6. ASSUME NEW e \in Entries, Unload(e) PROVE Kinds
  <2>0. phase[e] \in Phases /\ using[e] \in Nat /\ runtime[e] \in Nat
    BY DEF TypeOK
  <2>1. CASE BeginUnload(e)
    <3>1. Held(e)' = Held(e)
      BY <2>1 DEF BeginUnload, Held, TypeOK
    <3> QED
      BY <1>3, <2>1, <3>1 DEF BeginUnload, Phases
  <2>2. CASE Unloaded(e)
    <3>1. \A f \in Entries : f # e => using'[f] = using[f] /\ runtime'[f] = runtime[f]
      BY <2>2 DEF Unloaded, TypeOK
    <3>2. phase' = [phase EXCEPT ![e] = "unloaded"] /\ "unloaded" \in Phases
      BY <2>2 DEF Unloaded, Phases
    <3>3. CASE e \in Owners
      <4>1. Held(e) = {runtime[e]} /\ Held(e)' = {}
        BY <2>2 DEF Unloaded, Held, TypeOK
      <4>2. open' = open \ {runtime[e]} /\ made' = made
        BY <2>2, <3>3 DEF Unloaded
      <4> QED
        BY <1>4, <2>0, <3>1, <3>2, <3>3, <4>1, <4>2
    <3>4. CASE e \notin Owners
      <4>1. UNCHANGED <<open, made>>
        BY <2>2, <3>4 DEF Unloaded
      <4> QED
        BY <1>3, <3>1, <3>2, <3>4, <4>1
    <3> QED
      BY <3>3, <3>4
  <2>3. CASE UnloadFails(e)
    <3>1. Held(e)' = Held(e)
      BY <2>3 DEF UnloadFails, Held, TypeOK
    <3> QED
      BY <1>3, <2>3, <3>1 DEF UnloadFails, Phases
  <2>4. CASE UnloadFailed(e)
    <3>1. Held(e)' = Held(e)
      BY <2>4 DEF UnloadFailed, Held, TypeOK
    <3> QED
      BY <1>3, <2>4, <3>1 DEF UnloadFailed, Phases
  <2> QED
    BY <1>6, <2>1, <2>2, <2>3, <2>4 DEF Unload
<1> QED
  BY <1>1, <1>2, <1>5, <1>6 DEF Next, Kinds

(* Steps that leave the clients alone.                                     *)
LEMMA Unmoved ==
    ASSUME OwnedBy(open, HeldBy), open' = open, \A f \in Owners : Held(f)' = Held(f)
    PROVE  OwnedBy(open, HeldBy)'
<1>1. HeldBy' = HeldBy
  BY DEF HeldBy
<1> QED
  BY <1>1 DEF OwnedBy

LEMMA OwnedStep == Ownership /\ [Next]_vars => OwnedBy(open, HeldBy)'
<1> SUFFICES ASSUME Ownership, [Next]_vars PROVE OwnedBy(open, HeldBy)'
  OBVIOUS
<1>0. TypeOK /\ HeldBy \in [Owners -> SUBSET Nat] /\ OwnedBy(open, HeldBy)
  BY HeldType DEF Ownership
<1>1. CASE Alone
  BY <1>0, <1>1, Unmoved DEF Alone
<1>2. CASE Forgets
  <2>1. \A f \in Owners : HeldBy'[f] = {}
    BY <1>2 DEF Forgets, HeldBy
  <2> QED
    BY <1>2, <2>1 DEF Forgets, OwnedBy
<1>3. ASSUME NEW e \in Owners, Makes(e) PROVE OwnedBy(open, HeldBy)'
  <2>1. HeldBy' = [HeldBy EXCEPT ![e] = {made + 1}] /\ HeldBy[e] = {}
    BY <1>3 DEF Makes, HeldBy
  <2>2. made + 1 \in Nat /\ made + 1 \notin open
    BY DEF Ownership, TypeOK
  <2>3. OwnedBy(open \cup {made + 1}, [HeldBy EXCEPT ![e] = {made + 1}])
    BY <1>0, <2>1, <2>2, Gains
  <2> QED
    BY <1>3, <2>1, <2>3 DEF Makes, OwnedBy
<1>4. ASSUME NEW e \in Owners, NEW c \in Nat, Closes(e, c) PROVE OwnedBy(open, HeldBy)'
  <2>1. HeldBy' = [HeldBy EXCEPT ![e] = {}] /\ HeldBy[e] = {c}
    BY <1>4 DEF Closes, HeldBy
  <2>2. OwnedBy(open \ {c}, [HeldBy EXCEPT ![e] = {}])
    BY <1>0, <2>1, Loses
  <2> QED
    BY <1>4, <2>1, <2>2 DEF Closes, OwnedBy
<1> QED
  BY <1>0, <1>1, <1>2, <1>3, <1>4, ClientSteps

(* Numbers of clients, and the setup of an entry whose platforms are made. *)
LEMMA RestStep ==
    Ownership /\ [Next]_vars =>
        /\ open' \subseteq 1..made'
        /\ \A e \in Entries : phase'[e] = "forwarding" => runtime'[e] = using'[e]
        /\ \A e \in Children : phase'[e] # "connecting"
<1> SUFFICES ASSUME Ownership, [Next]_vars
             PROVE  /\ open' \subseteq 1..made'
                    /\ \A e \in Entries : phase'[e] = "forwarding" => runtime'[e] = using'[e]
                    /\ \A e \in Children : phase'[e] # "connecting"
  OBVIOUS
<1> USE DEF Ownership, TypeOK
<1>1. CASE UNCHANGED vars
  BY <1>1 DEF vars
<1>2. CASE Restart
  BY <1>2 DEF Restart
<1>3. ASSUME NEW e \in Entries, Setup(e)
      PROVE  /\ open' \subseteq 1..made'
             /\ \A f \in Entries : phase'[f] = "forwarding" => runtime'[f] = using'[f]
             /\ \A f \in Children : phase'[f] # "connecting"
  <2>1. CASE BeginOwner(e)
    BY <2>1 DEF BeginOwner
  <2>2. CASE Connected(e)
    BY <2>2 DEF Connected
  <2>3. CASE ConnectFails(e)
    BY <2>3 DEF ConnectFails
  <2>4. CASE BeginChild(e)
    BY <2>4 DEF BeginChild
  <2>5. CASE ChildNotReady(e)
    BY <2>5 DEF ChildNotReady
  <2>6. CASE ReadSucceeds(e)
    BY <2>6 DEF ReadSucceeds
  <2>7. CASE Forwarded(e)
    BY <2>7 DEF Forwarded
  <2>8. CASE SetupFails(e)
    <3>1. open' \subseteq open /\ made' = made
      BY <2>8 DEF SetupFails
    <3>2. \A f \in Entries : phase'[f] = phase[f] \/ phase'[f] \in {"retry", "error"}
      BY <2>8 DEF SetupFails
    <3>3. \A f \in Entries : phase'[f] = "forwarding" => f # e
      BY <2>8 DEF SetupFails
    <3>4. \A f \in Entries : f # e => using'[f] = using[f] /\ runtime'[f] = runtime[f]
      BY <2>8 DEF SetupFails
    <3> QED
      BY <3>1, <3>2, <3>3, <3>4
  <2> QED
    BY <1>3, <2>1, <2>2, <2>3, <2>4, <2>5, <2>6, <2>7, <2>8 DEF Setup
<1>4. ASSUME NEW e \in Entries, Unload(e)
      PROVE  /\ open' \subseteq 1..made'
             /\ \A f \in Entries : phase'[f] = "forwarding" => runtime'[f] = using'[f]
             /\ \A f \in Children : phase'[f] # "connecting"
  <2>1. CASE BeginUnload(e)
    BY <2>1 DEF BeginUnload
  <2>2. CASE Unloaded(e)
    <3>1. open' \subseteq open /\ made' = made
      BY <2>2 DEF Unloaded
    <3>2. \A f \in Entries : phase'[f] = phase[f] \/ phase'[f] = "unloaded"
      BY <2>2 DEF Unloaded
    <3>3. \A f \in Entries : phase'[f] = "forwarding" => f # e
      BY <2>2 DEF Unloaded
    <3>4. \A f \in Entries : f # e => using'[f] = using[f] /\ runtime'[f] = runtime[f]
      BY <2>2 DEF Unloaded
    <3> QED
      BY <3>1, <3>2, <3>3, <3>4
  <2>3. CASE UnloadFails(e)
    BY <2>3 DEF UnloadFails
  <2>4. CASE UnloadFailed(e)
    BY <2>4 DEF UnloadFailed
  <2> QED
    BY <1>4, <2>1, <2>2, <2>3, <2>4 DEF Unload
<1> QED
  BY <1>1, <1>2, <1>3, <1>4 DEF Next

-----------------------------------------------------------------------------
LEMMA OwnershipHolds == Spec => []Ownership
<1>1. Init => Ownership
  <2> SUFFICES ASSUME Init PROVE Ownership
    OBVIOUS
  <2>1. TypeOK
    BY DEF Init, TypeOK, Phases
  <2>2. \A e \in Owners : HeldBy[e] = {}
    BY DEF Init, HeldBy, Held
  <2>3. OwnedBy(open, HeldBy)
    BY <2>2 DEF Init, OwnedBy
  <2> QED
    BY <2>1, <2>3 DEF Init, Ownership
<1>2. Ownership /\ [Next]_vars => Ownership'
  BY TypeStep, OwnedStep, RestStep DEF Ownership
<1> QED
  BY <1>1, <1>2, PTL DEF Spec

(* The variables of the lifecycle keep their types (__init__.py:191-470).  *)
THEOREM TypeCorrect == Spec => []TypeOK
<1>1. Ownership => TypeOK
  BY DEF Ownership
<1> QED
  BY <1>1, OwnershipHolds, PTL

(* Every open client is held by exactly one owner, which will close it,    *)
(* and a held client is open: no setup leaks its client however it ends,   *)
(* and no child closes one (__init__.py:238, :433-438, :465).              *)
THEOREM OwnersHoldClients == Spec => []ClientsOwned
<1>1. Ownership => ClientsOwned
  <2> SUFFICES ASSUME Ownership PROVE ClientsOwned
    OBVIOUS
  <2>1. \A e \in Owners : HeldBy[e] = Held(e)
    BY DEF HeldBy
  <2>2. OwnedBy(open, HeldBy)
    BY DEF Ownership
  <2> QED
    BY <2>1, <2>2 DEF OwnedBy, ClientsOwned
<1> QED
  BY <1>1, OwnershipHolds, PTL
(* An owner makes a client only when it has none, holds it until it closes *)
(* it, and never holds one that was closed (__init__.py:238, :433-438,     *)
(* :465).                                                                  *)
THEOREM LifecycleImplementsHolding == Spec => ImplementsHolding
<1> DEFINE H == [e \in Owners |-> Held(e)]
           G == (1..made) \ open
<1>1. Init => Holding!HoldingInit
  BY DEF Init, Held, Holding!HoldingInit
<1>2. Ownership /\ [Next]_vars => [Holding!HoldingNext]_<<H, G>>
  <2> SUFFICES ASSUME Ownership, [Next]_vars
               PROVE  Holding!HoldingNext \/ UNCHANGED <<H, G>>
    OBVIOUS
  <2>0. /\ TypeOK /\ open \subseteq 1..made /\ made \in Nat
        /\ open = UNION {Held(e) : e \in Owners}
        /\ Holding!Taken = open
    <3>1. TypeOK /\ open \subseteq 1..made /\ made \in Nat /\ OwnedBy(open, HeldBy)
      BY DEF Ownership, TypeOK
    <3>2. open = UNION {Held(e) : e \in Owners}
      BY <3>1 DEF OwnedBy, HeldBy
    <3>3. Holding!Taken = UNION {Held(e) : e \in Owners}
      BY DEF Holding!Taken
    <3> QED
      BY <3>1, <3>2, <3>3
  <2>1. Holding!Taken' = open'
    <3>1. OwnedBy(open, HeldBy)'
      BY OwnedStep
    <3>2. open' = UNION {Held(e)' : e \in Owners}
      BY <3>1 DEF OwnedBy, HeldBy
    <3> QED
      BY <3>2 DEF Holding!Taken
  <2>2. CASE Alone
    <3>1. H' = H
      BY <2>2 DEF Alone
    <3> QED
      BY <2>2, <3>1 DEF Alone
  <2>3. ASSUME NEW e \in Owners, Makes(e) PROVE Holding!Take(e)
    <3>1. H[e] = {} /\ H' = [H EXCEPT ![e] = {made + 1}] /\ H'[e] = {made + 1}
      BY <2>3 DEF Makes
    <3>2. G' = G
      BY <2>0, <2>3 DEF Makes
    <3>3. {made + 1} \cap (open \cup G) = {}
      BY <2>0
    <3> HIDE DEF H, G
    <3> QED
      BY <2>0, <3>1, <3>2, <3>3 DEF Holding!Take, H, G
  <2>4. ASSUME NEW e \in Owners, NEW c \in Nat, Closes(e, c) PROVE Holding!GiveUp
    <3>1. \A f \in Owners : H'[f] \in {H[f], {}}
      BY <2>4 DEF Closes
    <3>2. G' = G \cup (open \ open')
      BY <2>0, <2>4 DEF Closes
    <3> QED
      BY <2>0, <2>1, <3>1, <3>2 DEF Holding!GiveUp
  <2>5. ASSUME Forgets PROVE Holding!GiveUp
    <3>1. \A f \in Owners : H'[f] \in {H[f], {}}
      BY <2>5 DEF Forgets
    <3>2. G' = G \cup (open \ open')
      BY <2>0, <2>5 DEF Forgets
    <3> QED
      BY <2>0, <2>1, <3>1, <3>2 DEF Holding!GiveUp
  <2> QED
    BY <2>0, <2>2, <2>3, <2>4, <2>5, ClientSteps DEF Holding!HoldingNext
<1> QED
  BY <1>1, <1>2, OwnershipHolds, PTL
     DEF Spec, ImplementsHolding, Holding!HoldingSpec, Holding!holdingVars
=============================================================================
