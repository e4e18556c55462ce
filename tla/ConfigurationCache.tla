------------------------- MODULE ConfigurationCache -------------------------
(***************************************************************************)
(* The S2000-PP configuration cache shared by the child entries of one     *)
(* gateway (s2000_pp.py), and the mapping reconciliation that uses it when *)
(* an entry is set up (__init__.py).  The table is read in chunks, each a  *)
(* request of its own, so other setups, unloads and edits of the table     *)
(* come in between.  An entry that is unloaded invalidates the cache, so   *)
(* that its next setup reads the table again.                              *)
(*                                                                         *)
(* A chunk's content is its version: how often it was edited.              *)
(***************************************************************************)
EXTENDS Naturals

CONSTANTS
    Entries,     \* child entries of the gateway
    ChunkCount,  \* read requests per table
    RowOf,       \* RowOf[e]: the chunk with the rows of entry e
    Readable,    \* versions in which the rows of an entry are unambiguous
    MaxEdits,    \* MaxEdits[c]: bound for TLC on the edits of chunk c
    Empty,       \* nothing is cached
    Unread       \* a chunk that was not read

Chunks == 1..ChunkCount

ASSUME CacheAssumption ==
    /\ ChunkCount \in Nat \ {0}
    /\ RowOf \in [Entries -> Chunks]
    /\ MaxEdits \in [Chunks -> Nat]
    /\ Unread \notin Nat
    /\ Empty \notin [Chunks -> Nat]

VARIABLES
    table,    \* the gateway's table
    cache,    \* the cached configuration, or Empty
    phase,    \* phase[e]: where the entry is
    attempt,  \* attempt[e]: 2 once the table was reloaded in this setup
    config,   \* config[e]: what the setup has read or was given
    began,    \* history: the table when e's setup began, or began to read again
    since,    \* history: the table when e was last unloaded
    quiet     \* history: no setup was reading when e was unloaded

vars == <<table, cache, phase, attempt, config, began, since, quiet>>

Configuration == [Chunks -> Nat]
Nothing == [c \in Chunks |-> Unread]

TypeOK ==
    /\ table \in Configuration
    /\ cache \in Configuration \cup {Empty}
    /\ phase \in [Entries -> {"unloaded", "loading", "loaded", "refused", "failed"}]
    /\ attempt \in [Entries -> {1, 2}]
    /\ config \in [Entries -> [Chunks -> Nat \cup {Unread}]]
    /\ began \in [Entries -> Configuration]
    /\ since \in [Entries -> Configuration]
    /\ quiet \in [Entries -> BOOLEAN]

Init ==
    /\ table = [c \in Chunks |-> 0]
    /\ cache = Empty
    /\ phase = [e \in Entries |-> "unloaded"]
    /\ attempt = [e \in Entries |-> 1]
    /\ config = [e \in Entries |-> Nothing]
    /\ began = [e \in Entries |-> table]
    /\ since = [e \in Entries |-> table]
    /\ quiet = [e \in Entries |-> TRUE]

-----------------------------------------------------------------------------
(* async_get_or_load without a cached configuration: the loader starts.    *)
BeginLoad(e, n) ==
    /\ phase' = [phase EXCEPT ![e] = "loading"]
    /\ attempt' = [attempt EXCEPT ![e] = n]
    /\ config' = [config EXCEPT ![e] = Nothing]

Decide(e, k, n, outcome) ==
    /\ phase' = [phase EXCEPT ![e] = outcome]
    /\ attempt' = [attempt EXCEPT ![e] = n]
    /\ config' = [config EXCEPT ![e] = k]

(* Mutants: the cached table is trusted for a refusal; a table that does   *)
(* not fit is read again and again.                                        *)
ReconcileOnce(e, k, n, stored) ==
    /\ Decide(e, k, n, IF k[RowOf[e]] \in Readable THEN "loaded" ELSE "refused")
    /\ cache' = stored

ReconcileForever(e, k, n, stored) ==
    \/ /\ k[RowOf[e]] \in Readable
       /\ Decide(e, k, n, "loaded")
       /\ cache' = stored
    \/ /\ k[RowOf[e]] \notin Readable
       /\ BeginLoad(e, 2)
       /\ cache' = Empty

(* The rows of e are found in configuration k, or ValueError is raised: a  *)
(* second time the setup is refused, the first time the cache is           *)
(* invalidated and the table read again.                                   *)
Reconcile(e, k, n, stored) ==
    \/ /\ k[RowOf[e]] \in Readable
       /\ Decide(e, k, n, "loaded")
       /\ cache' = stored
    \/ /\ k[RowOf[e]] \notin Readable
       /\ n = 1
       /\ BeginLoad(e, 2)
       /\ cache' = Empty
    \/ /\ k[RowOf[e]] \notin Readable
       /\ n = 2
       /\ Decide(e, k, n, "refused")
       /\ cache' = stored

(* A setup begins.                                                         *)
Setup(e) ==
    /\ phase[e] = "unloaded"
    /\ \/ cache # Empty /\ Reconcile(e, cache, 1, cache)
       \/ cache = Empty /\ BeginLoad(e, 1) /\ UNCHANGED cache
    /\ began' = [began EXCEPT ![e] = table]
    /\ UNCHANGED <<table, since, quiet>>

(* One chunk, under the request lock of the client.                        *)
ReadChunk(e) ==
    /\ phase[e] = "loading"
    /\ \E c \in Chunks :
          /\ config[e][c] = Unread
          /\ \A d \in 1..(c - 1) : config[e][d] # Unread
          /\ config' = [config EXCEPT ![e][c] = table[c]]
    /\ UNCHANGED <<table, cache, phase, attempt, began, since, quiet>>

(* The loader returns: its result is cached, whatever happened meanwhile.  *)
FinishLoad(e) ==
    /\ phase[e] = "loading"
    /\ \A c \in Chunks : config[e][c] # Unread
    /\ Reconcile(e, config[e], attempt[e], config[e])
    /\ began' = IF attempt'[e] = attempt[e] THEN began ELSE [began EXCEPT ![e] = table]
    /\ UNCHANGED <<table, since, quiet>>

(* A read fails: ConfigEntryNotReady.                                      *)
FailLoad(e) ==
    /\ phase[e] = "loading"
    /\ phase' = [phase EXCEPT ![e] = "failed"]
    /\ config' = [config EXCEPT ![e] = Nothing]
    /\ UNCHANGED <<table, cache, attempt, began, since, quiet>>

Reading(e) == phase[e] = "loading"

(* Home Assistant tries a setup that was not ready again.                  *)
Retry(e) ==
    /\ phase[e] = "failed"
    /\ phase' = [phase EXCEPT ![e] = "unloaded"]
    /\ UNCHANGED <<table, cache, attempt, config, began, since, quiet>>

(* Mutant: the cache outlives the entry.                                   *)
UnloadKeepsCache(e) ==
    /\ phase[e] \in {"loaded", "refused", "failed"}
    /\ phase' = [phase EXCEPT ![e] = "unloaded"]
    /\ since' = [since EXCEPT ![e] = table]
    /\ quiet' = [quiet EXCEPT ![e] = \A f \in Entries : ~Reading(f)]
    /\ config' = [config EXCEPT ![e] = Nothing]
    /\ UNCHANGED <<table, cache, attempt, began>>

(* An unload, also before a failed setup is tried again, invalidates the   *)
(* cache.                                                                  *)
Unload(e) ==
    /\ phase[e] \in {"loaded", "refused", "failed"}
    /\ phase' = [phase EXCEPT ![e] = "unloaded"]
    /\ cache' = Empty
    /\ since' = [since EXCEPT ![e] = table]
    /\ quiet' = [quiet EXCEPT ![e] = \A f \in Entries : ~Reading(f)]
    /\ config' = [config EXCEPT ![e] = Nothing]
    /\ UNCHANGED <<table, attempt, began>>

(* A config flow invalidates the cache too.                                *)
Refresh ==
    /\ cache' = Empty
    /\ UNCHANGED <<table, phase, attempt, config, began, since, quiet>>

(* Somebody edits the table.                                               *)
Edit(c) ==
    /\ table[c] < MaxEdits[c]
    /\ table' = [table EXCEPT ![c] = @ + 1]
    /\ UNCHANGED <<cache, phase, attempt, config, began, since, quiet>>

Next ==
    \/ \E e \in Entries :
          Setup(e) \/ ReadChunk(e) \/ FinishLoad(e) \/ FailLoad(e) \/ Retry(e) \/ Unload(e)
    \/ Refresh
    \/ \E c \in Chunks : Edit(c)

Spec == Init /\ [][Next]_vars

(* Fairness: a read that was started ends.                                 *)
LiveSpec == Spec /\ \A e \in Entries : WF_vars(ReadChunk(e) \/ FinishLoad(e))

-----------------------------------------------------------------------------
(* What e holds is no older than the table it is compared with.            *)
Fresh(e, then) == \A c \in Chunks : config[e][c] # Unread => config[e][c] >= then[c]

(* The user is asked to reconfigure a mapping only because of a table of   *)
(* which this setup has read every part after a first one did not fit: a   *)
(* table that another entry cached, or that this setup read before an      *)
(* edit, refuses nobody (__init__.py:66-79).                               *)
RefusalIsFresh == \A e \in Entries : phase[e] = "refused" => Fresh(e, began[e])

(* An entry that is unloaded while no other setup reads the table sees     *)
(* every edit made before in its next setup.                               *)
QuietReloadSeesEdits == \A e \in Entries : phase[e] = "loaded" /\ quiet[e] => Fresh(e, since[e])

(* "Invalidate first so reload always sees table edits" (__init__.py:448). *)
ReloadSeesEdits == \A e \in Entries : phase[e] = "loaded" => Fresh(e, since[e])

(* A setup reads the table at most twice and then ends, whatever is edited *)
(* meanwhile.                                                              *)
SetupEnds == \A e \in Entries : Reading(e) ~> ~Reading(e)
=============================================================================
