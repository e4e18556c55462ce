---------------------- MODULE ConfigurationCache_proofs ----------------------
(***************************************************************************)
(* Proofs about ConfigurationCache: a refusal rests on a table that was    *)
(* read whole after a first one did not fit, and a quiet reload sees every *)
(* edit, for any entries, any number of chunks and any versions that can   *)
(* be read.                                                                *)
(***************************************************************************)
EXTENDS ConfigurationCache, TLAPS

(* k has no chunk older than the table t.                                  *)
NotOlder(k, t) == \A c \in Chunks : k[c] # Unread => k[c] >= t[c]

(* The inductive invariant, in three parts.  The table only grows.         *)
Past ==
    \A e \in Entries : \A c \in Chunks : began[e][c] =< table[c] /\ since[e][c] =< table[c]

(* What a setup reads itself, it reads after it began to read; and a setup *)
(* that is refused holds what it has read itself, the second time.         *)
Own == \A e \in Entries : phase[e] \in {"loading", "refused"} => NotOlder(config[e], began[e])

(* After an unload that nobody's read overlaps, everything that was cached *)
(* or read is later than it.                                               *)
Later ==
    \A e \in Entries : quiet[e] =>
        /\ cache # Empty => NotOlder(cache, since[e])
        /\ \A f \in Entries : Reading(f) => NotOlder(config[f], since[e])
        /\ phase[e] = "loaded" => NotOlder(config[e], since[e])

Order == Past /\ Own /\ Later

-----------------------------------------------------------------------------
(* A reconciliation of a table k gives a table, or starts a new read.      *)
LEMMA ReconcileTypes ==
    ASSUME TypeOK, NEW e \in Entries, NEW k \in Configuration, NEW n \in {1, 2},
           Reconcile(e, k, n, k)
    PROVE  /\ cache' \in Configuration \cup {Empty}
           /\ phase' \in [Entries -> {"unloaded", "loading", "loaded", "refused", "failed"}]
           /\ attempt' \in [Entries -> {1, 2}]
           /\ config' \in [Entries -> [Chunks -> Nat \cup {Unread}]]
<1>1. k \in [Chunks -> Nat \cup {Unread}] /\ Nothing \in [Chunks -> Nat \cup {Unread}]
  BY DEF Configuration, Nothing
<1>2. CASE Decide(e, k, n, "loaded") /\ cache' = k
  BY <1>1, <1>2 DEF Decide, TypeOK
<1>3. CASE BeginLoad(e, 2) /\ cache' = Empty
  BY <1>1, <1>3 DEF BeginLoad, TypeOK
<1>4. CASE Decide(e, k, n, "refused") /\ cache' = k
  BY <1>1, <1>4 DEF Decide, TypeOK
<1> QED
  BY <1>2, <1>3, <1>4 DEF Reconcile

(* What a loader that has read every chunk returns is a table.             *)
LEMMA ReadIsTable ==
    ASSUME TypeOK, NEW e \in Entries, \A c \in Chunks : config[e][c] # Unread
    PROVE  config[e] \in Configuration
<1>1. config[e] \in [Chunks -> Nat \cup {Unread}]
  BY DEF TypeOK
<1> QED
  BY <1>1 DEF Configuration

(* The variables keep their types, for any entries and chunks              *)
(* (s2000_pp.py:1059, __init__.py:39).                                     *)
THEOREM TypeCorrect == Spec => []TypeOK
<1>1. Init => TypeOK
  BY CacheAssumption DEF Init, TypeOK, Configuration, Nothing
<1>2. TypeOK /\ [Next]_vars => TypeOK'
  <2> SUFFICES ASSUME TypeOK, [Next]_vars PROVE TypeOK'
    OBVIOUS
  <2>1. ASSUME NEW e \in Entries, Setup(e) PROVE TypeOK'
    <3>1. UNCHANGED <<table, since, quiet>> /\ began' \in [Entries -> Configuration]
      BY <2>1 DEF Setup, TypeOK
    <3>2. CASE cache # Empty /\ Reconcile(e, cache, 1, cache)
      <4>1. cache \in Configuration
        BY <3>2 DEF TypeOK
      <4> QED
        BY <3>1, <3>2, <4>1, ReconcileTypes DEF TypeOK
    <3>3. CASE cache = Empty /\ BeginLoad(e, 1) /\ UNCHANGED cache
      BY <3>1, <3>3 DEF BeginLoad, Nothing, TypeOK
    <3> QED
      BY <2>1, <3>2, <3>3 DEF Setup
  <2>2. ASSUME NEW e \in Entries, ReadChunk(e) PROVE TypeOK'
    <3>1. PICK c \in Chunks : config' = [config EXCEPT ![e][c] = table[c]]
      BY <2>2 DEF ReadChunk
    <3>2. table[c] \in Nat
      BY DEF TypeOK, Configuration
    <3>3. config' \in [Entries -> [Chunks -> Nat \cup {Unread}]]
      BY <3>1, <3>2 DEF TypeOK
    <3> QED
      BY <2>2, <3>3 DEF ReadChunk, TypeOK
  <2>3. ASSUME NEW e \in Entries, FinishLoad(e) PROVE TypeOK'
    <3>1. config[e] \in Configuration /\ attempt[e] \in {1, 2}
      BY <2>3, ReadIsTable DEF FinishLoad, TypeOK
    <3>2. began' \in [Entries -> Configuration]
      BY <2>3 DEF FinishLoad, TypeOK
    <3> QED
      BY <2>3, <3>1, <3>2, ReconcileTypes DEF FinishLoad, TypeOK
  <2>4. ASSUME NEW e \in Entries, FailLoad(e) \/ Retry(e) PROVE TypeOK'
    <3>1. Nothing \in [Chunks -> Nat \cup {Unread}]
      BY DEF Nothing
    <3>2. CASE FailLoad(e)
      BY <3>1, <3>2 DEF FailLoad, TypeOK
    <3>3. CASE Retry(e)
      BY <3>3 DEF Retry, TypeOK
    <3> QED
      BY <2>4, <3>2, <3>3
  <2>5. ASSUME NEW e \in Entries, Unload(e) PROVE TypeOK'
    BY <2>5 DEF Unload, TypeOK, Nothing
  <2>6. CASE Refresh
    BY <2>6 DEF Refresh, TypeOK
  <2>7. ASSUME NEW c \in Chunks, Edit(c) PROVE TypeOK'
    BY <2>7 DEF Edit, TypeOK, Configuration
  <2>8. CASE UNCHANGED vars
    BY <2>8 DEF vars, TypeOK
  <2> QED
    BY <2>1, <2>2, <2>3, <2>4, <2>5, <2>6, <2>7, <2>8 DEF Next
<1> QED
  BY <1>1, <1>2, PTL DEF Spec

-----------------------------------------------------------------------------
(* A reconciliation of a table k that is not older than any quiet unload   *)
(* keeps the order, if a second one is about what the entry read itself.   *)
LEMMA ReconcileOrders ==
    ASSUME TypeOK, Order, NEW e \in Entries, NEW k \in Configuration, NEW n \in {1, 2},
           Reconcile(e, k, n, k), UNCHANGED <<table, since, quiet>>,
           began' \in {began, [began EXCEPT ![e] = table]},
           n = 2 => NotOlder(k, began[e]) /\ began' = began,
           \A f \in Entries : quiet[f] => NotOlder(k, since[f])
    PROVE  Order'
<1>1. ASSUME NEW t PROVE NotOlder(Nothing, t)
  BY DEF NotOlder, Nothing
<1>2. Past'
  <2>1. \A c \in Chunks : table[c] \in Nat
    BY DEF TypeOK, Configuration
  <2> QED
    BY <2>1 DEF Order, Past, TypeOK
<1>3. CASE k[RowOf[e]] \in Readable
  <2>1. /\ phase' = [phase EXCEPT ![e] = "loaded"] /\ config' = [config EXCEPT ![e] = k]
        /\ cache' = k
    BY <1>3 DEF Reconcile, Decide
  <2>2. Own'
    BY <2>1 DEF Order, Own, TypeOK
  <2>3. Later'
    BY <2>1 DEF Order, Later, Reading, TypeOK
  <2> QED
    BY <1>2, <2>2, <2>3 DEF Order
<1>4. CASE k[RowOf[e]] \notin Readable /\ n = 1
  <2>1. /\ phase' = [phase EXCEPT ![e] = "loading"] /\ config' = [config EXCEPT ![e] = Nothing]
        /\ cache' = Empty
    BY <1>4 DEF Reconcile, BeginLoad
  <2>2. Own'
    BY <1>1, <2>1 DEF Order, Own, TypeOK
  <2>3. Later'
    BY <1>1, <2>1 DEF Order, Later, Reading, TypeOK
  <2> QED
    BY <1>2, <2>2, <2>3 DEF Order
<1>5. CASE k[RowOf[e]] \notin Readable /\ n = 2
  <2>1. /\ phase' = [phase EXCEPT ![e] = "refused"] /\ config' = [config EXCEPT ![e] = k]
        /\ cache' = k
    BY <1>5 DEF Reconcile, Decide
  <2>2. Own'
    BY <1>5, <2>1 DEF Order, Own, TypeOK
  <2>3. Later'
    BY <2>1 DEF Order, Later, Reading, TypeOK
  <2> QED
    BY <1>2, <2>2, <2>3 DEF Order
<1> QED
  BY <1>3, <1>4, <1>5

LEMMA OrderHolds == Spec => []Order
<1>1. Init => Order
  BY DEF Init, Order, Past, Own, Later, Reading, NotOlder, Nothing
<1>2. TypeOK /\ TypeOK' /\ Order /\ [Next]_vars => Order'
  <2> SUFFICES ASSUME TypeOK, TypeOK', Order, [Next]_vars PROVE Order'
    OBVIOUS
  <2>1. ASSUME NEW e \in Entries, Setup(e) PROVE Order'
    <3>1. UNCHANGED <<table, since, quiet>> /\ began' = [began EXCEPT ![e] = table]
      BY <2>1 DEF Setup
    <3>2. CASE cache # Empty /\ Reconcile(e, cache, 1, cache)
      <4>1. cache \in Configuration
        BY <3>2 DEF TypeOK
      <4>2. \A f \in Entries : quiet[f] => NotOlder(cache, since[f])
        BY <3>2 DEF Order, Later
      <4> QED
        BY <3>1, <3>2, <4>1, <4>2, 1 \in {1, 2}, 1 # 2, ReconcileOrders
    <3>3. CASE cache = Empty /\ BeginLoad(e, 1) /\ UNCHANGED cache
      <4>1. /\ phase' = [phase EXCEPT ![e] = "loading"]
            /\ config' = [config EXCEPT ![e] = Nothing]
        BY <3>3 DEF BeginLoad
      <4>2. ASSUME NEW t PROVE NotOlder(Nothing, t)
        BY DEF NotOlder, Nothing
      <4>3. Past' /\ Own'
        <5>1. \A c \in Chunks : table[c] \in Nat
          BY DEF TypeOK, Configuration
        <5> QED
          BY <3>1, <4>1, <4>2, <5>1 DEF Order, Past, Own, TypeOK
      <4>4. Later'
        BY <3>1, <3>3, <4>1, <4>2 DEF Order, Later, Reading, TypeOK
      <4> QED
        BY <4>3, <4>4 DEF Order
    <3> QED
      BY <2>1, <3>2, <3>3 DEF Setup
  <2>2. ASSUME NEW e \in Entries, ReadChunk(e) PROVE Order'
    <3>1. PICK c \in Chunks : config' = [config EXCEPT ![e][c] = table[c]]
      BY <2>2 DEF ReadChunk
    <3>2. UNCHANGED <<table, cache, phase, began, since, quiet>> /\ phase[e] = "loading"
      BY <2>2 DEF ReadChunk
    <3>3. ASSUME NEW then \in Configuration, then[c] =< table[c], NotOlder(config[e], then)
          PROVE  NotOlder(config[e]', then)
      <4>1. table[c] \in Nat /\ then[c] \in Nat
        BY DEF TypeOK, Configuration
      <4>2. /\ config[e]'[c] = table[c]
            /\ \A d \in Chunks : d # c => config[e]'[d] = config[e][d]
        BY <3>1 DEF TypeOK
      <4> QED
        BY <3>3, <4>1, <4>2 DEF NotOlder
    <3>3a. \A g \in Entries : /\ began[g] \in Configuration /\ began[g][c] =< table[c]
                              /\ since[g] \in Configuration /\ since[g][c] =< table[c]
      BY DEF Order, Past, TypeOK
    <3>4. \A f \in Entries : f # e => config[f]' = config[f]
      BY <3>1 DEF TypeOK
    <3>5. Past'
      BY <3>2 DEF Order, Past
    <3>6. Own'
      BY <3>2, <3>3, <3>3a, <3>4 DEF Order, Own
    <3>7. Later'
      BY <3>2, <3>3, <3>3a, <3>4 DEF Order, Later, Reading
    <3> QED
      BY <3>5, <3>6, <3>7 DEF Order
  <2>3. ASSUME NEW e \in Entries, FinishLoad(e) PROVE Order'
    <3>1. config[e] \in Configuration /\ attempt[e] \in {1, 2}
      BY <2>3, ReadIsTable DEF FinishLoad, TypeOK
    <3>2. NotOlder(config[e], began[e])
      BY <2>3 DEF FinishLoad, Order, Own
    <3>4. began' \in {began, [began EXCEPT ![e] = table]}
      BY <2>3 DEF FinishLoad
    <3>5. attempt[e] = 2 => began' = began
      BY <2>3 DEF FinishLoad, Reconcile, Decide, TypeOK
    <3>3. \A f \in Entries : quiet[f] => NotOlder(config[e], since[f])
      BY <2>3 DEF FinishLoad, Order, Later, Reading
    <3> QED
      BY <2>3, <3>1, <3>2, <3>3, <3>4, <3>5, ReconcileOrders DEF FinishLoad
  <2>4. ASSUME NEW e \in Entries, FailLoad(e) \/ Retry(e) PROVE Order'
    <3>1. /\ UNCHANGED <<table, cache, began, since, quiet>>
          /\ config' \in {config, [config EXCEPT ![e] = Nothing]}
          /\ \/ phase' = [phase EXCEPT ![e] = "failed"]
             \/ phase' = [phase EXCEPT ![e] = "unloaded"]
      BY <2>4 DEF FailLoad, Retry
    <3>2. Past' /\ Own'
      BY <3>1 DEF Order, Past, Own, TypeOK
    <3>3. Later'
      BY <3>1 DEF Order, Later, Reading, TypeOK
    <3> QED
      BY <3>2, <3>3 DEF Order
  <2>5. ASSUME NEW e \in Entries, Unload(e) PROVE Order'
    <3>1. /\ phase' = [phase EXCEPT ![e] = "unloaded"] /\ cache' = Empty
          /\ since' = [since EXCEPT ![e] = table]
          /\ quiet' = [quiet EXCEPT ![e] = \A f \in Entries : ~Reading(f)]
          /\ config' = [config EXCEPT ![e] = Nothing]
          /\ UNCHANGED <<table, began>>
      BY <2>5 DEF Unload
    <3>2. \A c \in Chunks : table[c] \in Nat
      BY DEF TypeOK, Configuration
    <3>3. Past'
      BY <3>1, <3>2 DEF Order, Past, TypeOK
    <3>4. Own'
      BY <3>1 DEF Order, Own, TypeOK
    <3>5. ASSUME NEW f \in Entries, Reading(f)'
          PROVE  f # e /\ Reading(f)
      BY <3>1, <3>5 DEF Reading, TypeOK
    <3>6. ASSUME NEW g \in Entries, quiet'[g]
          PROVE  /\ \A f \in Entries : Reading(f)' => NotOlder(config[f]', since[g]')
                 /\ phase[g]' = "loaded" => NotOlder(config[g]', since[g]')
      <4>1. CASE g = e
        <5>1. quiet'[e] = \A f \in Entries : ~Reading(f)
          BY <3>1 DEF TypeOK
        <5>2. phase[e]' = "unloaded"
          BY <3>1 DEF TypeOK
        <5> QED
          BY <3>5, <3>6, <4>1, <5>1, <5>2
      <4>2. CASE g # e
        BY <3>1, <3>5, <3>6, <4>2 DEF Order, Later, TypeOK
      <4> QED
        BY <4>1, <4>2
    <3>7. Later'
      BY <3>1, <3>6 DEF Later
    <3> QED
      BY <3>3, <3>4, <3>7 DEF Order
  <2>6. CASE Refresh
    BY <2>6 DEF Refresh, Order, Past, Own, Later, Reading
  <2>7. ASSUME NEW c \in Chunks, Edit(c) PROVE Order'
    <3>1. \A d \in Chunks : table[d] \in Nat /\ table'[d] >= table[d]
      BY <2>7 DEF Edit, TypeOK, Configuration
    <3>2. Past'
      <4>1. \A e \in Entries : \A d \in Chunks :
               /\ began[e][d] \in Nat /\ since[e][d] \in Nat /\ table'[d] \in Nat
               /\ began[e][d] =< table[d] /\ since[e][d] =< table[d]
        BY DEF Order, Past, TypeOK, Configuration
      <4> QED
        BY <2>7, <3>1, <4>1 DEF Edit, Past
    <3> QED
      BY <2>7, <3>2 DEF Edit, Order, Own, Later, Reading
  <2>8. CASE UNCHANGED vars
    BY <2>8 DEF vars, Order, Past, Own, Later, Reading
  <2> QED
    BY <2>1, <2>2, <2>3, <2>4, <2>5, <2>6, <2>7, <2>8 DEF Next
<1> QED
  BY <1>1, <1>2, TypeCorrect, PTL DEF Spec

(* The user is asked to reconfigure only because of a table of which this  *)
(* setup has read every part after a first one did not fit                 *)
(* (__init__.py:66-79).                                                    *)
THEOREM RefusalFresh == Spec => []RefusalIsFresh
<1>1. Order => RefusalIsFresh
  BY DEF Order, Own, NotOlder, RefusalIsFresh, Fresh
<1> QED
  BY <1>1, OrderHolds, PTL

(* An entry that was unloaded while nobody read the table sees every edit  *)
(* made before, from the cache or by its own read (__init__.py:447-448).   *)
THEOREM QuietReload == Spec => []QuietReloadSeesEdits
<1>1. Order => QuietReloadSeesEdits
  BY DEF Order, Later, NotOlder, QuietReloadSeesEdits, Fresh
<1> QED
  BY <1>1, OrderHolds, PTL
=============================================================================
