---------------------------- MODULE Coordinator ----------------------------
(***************************************************************************)
(* One device coordinator (coordinator.py) between the polls that refresh  *)
(* its data, the write commands of the entities (switch.py, climate.py,    *)
(* number.py, ...) and a device that also changes by itself.  Polls read   *)
(* the device piece by piece through the shared client; a write command is *)
(* one section of the client's request lock.  A successful write is shown  *)
(* at once, and a write generation keeps a poll that started before it     *)
(* from putting the older value back.                                      *)
(*                                                                         *)
(* A value is its version: dev[p] counts how often path p of the device    *)
(* changed.  MaxVersion bounds it for TLC.                                 *)
(***************************************************************************)
EXTENDS Naturals, Sequences, FiniteSets

CONSTANTS
    Paths,       \* places in the coordinator's data an entity shows
    Writers,     \* write commands in flight at the same time
    Plan,        \* Plan[w]: the paths w writes, in order
    Confirmed,   \* writers whose device reads back what it wrote
    MaxVersion,
    NoOne,       \* the client's request lock is free
    Unread       \* a path the running poll has not read

ASSUME CoordinatorAssumption ==
    /\ Plan \in [Writers -> Seq(Paths) \ {<<>>}]
    /\ \A w \in Writers : \A i, j \in DOMAIN Plan[w] : Plan[w][i] = Plan[w][j] => i = j
    /\ Confirmed \subseteq Writers
    /\ MaxVersion \in Nat
    /\ NoOne \notin Writers
    /\ Unread \notin Nat

VARIABLES
    dev,        \* device: the version of each path
    data,       \* coordinator.data: the version each path shows
    generation, \* _write_generation
    patches,    \* _pending_write_patches: path -> generation and value
    polling,    \* a refresh is running
    pollGen,    \* its update_generation
    snapshot,   \* what it has read
    lock,       \* holder of the client's request lock
    step,       \* step[w]: number of paths w has written, while it holds the lock
    written     \* written[w]: the versions w's writes produced

pollVars == <<polling, pollGen, snapshot>>
writeVars == <<lock, step, written>>
vars == <<dev, data, generation, patches, polling, pollGen, snapshot, lock, step, written>>

Patch == [generation : Nat, value : Nat]

TypeOK ==
    /\ dev \in [Paths -> Nat]
    /\ data \in [Paths -> Nat]
    /\ generation \in Nat
    /\ DOMAIN patches \subseteq Paths
    /\ \A p \in DOMAIN patches : patches[p] \in Patch
    /\ polling \in BOOLEAN
    /\ pollGen \in Nat
    /\ snapshot \in [Paths -> Nat \cup {Unread}]
    /\ lock \in Writers \cup {NoOne}
    /\ step \in [Writers -> Nat]
    /\ written \in [Writers -> [Paths -> Nat]]

Init ==
    /\ dev = [p \in Paths |-> 0]
    /\ data = [p \in Paths |-> 0]
    /\ generation = 0
    /\ patches = [p \in {} |-> [generation |-> 0, value |-> 0]]
    /\ polling = FALSE
    /\ pollGen = 0
    /\ snapshot = [p \in Paths |-> Unread]
    /\ lock = NoOne
    /\ step = [w \in Writers |-> 0]
    /\ written = [w \in Writers |-> [p \in Paths |-> 0]]

-----------------------------------------------------------------------------
(* The refresh.  Home Assistant runs one at a time.                        *)

PollStart ==
    /\ ~polling
    /\ polling' = TRUE
    /\ pollGen' = generation
    /\ snapshot' = [p \in Paths |-> Unread]
    /\ UNCHANGED <<dev, data, generation, patches, writeVars>>

(* One read request of the snapshot, under the request lock.               *)
PollRead(p) ==
    /\ polling
    /\ lock = NoOne
    /\ snapshot[p] = Unread
    /\ snapshot' = [snapshot EXCEPT ![p] = dev[p]]
    /\ UNCHANGED <<dev, data, generation, patches, polling, pollGen, writeVars>>

(* Mutant: any pending patch replaces what a poll read.                    *)
NewerAlways(p) == p \in DOMAIN patches

(* A patch newer than the poll replaces what the poll read; the others are *)
(* retired.                                                                *)
Newer(p) == p \in DOMAIN patches /\ patches[p].generation > pollGen

(* Mutant: what was read is always shown.                                  *)
ReconciledUnpatched == snapshot

Reconciled == [p \in Paths |-> IF Newer(p) THEN patches[p].value ELSE snapshot[p]]

Kept == [p \in {q \in Paths : Newer(q)} |-> patches[p]]

PollPublish ==
    /\ polling
    /\ \A p \in Paths : snapshot[p] # Unread
    /\ data' = Reconciled
    /\ patches' = Kept
    /\ polling' = FALSE
    /\ UNCHANGED <<dev, generation, pollGen, snapshot, writeVars>>

(* UpdateFailed: the old data stay, and so do the patches.                 *)
PollFail ==
    /\ polling
    /\ polling' = FALSE
    /\ UNCHANGED <<dev, data, generation, patches, pollGen, snapshot, writeVars>>

-----------------------------------------------------------------------------
(* Write commands.                                                         *)

WriteStart(w) ==
    /\ lock = NoOne
    /\ lock' = w
    /\ step' = [step EXCEPT ![w] = 0]
    /\ UNCHANGED <<dev, data, generation, patches, pollVars, written>>

NextPath(w) == Plan[w][step[w] + 1]

(* One write exchange that the device executed and acknowledged.           *)
WriteExchange(w) ==
    /\ lock = w
    /\ step[w] < Len(Plan[w])
    /\ dev[NextPath(w)] < MaxVersion
    /\ dev' = [dev EXCEPT ![NextPath(w)] = @ + 1]
    /\ written' = [written EXCEPT ![w][NextPath(w)] = dev'[NextPath(w)]]
    /\ step' = [step EXCEPT ![w] = @ + 1]
    /\ UNCHANGED <<data, generation, patches, pollVars, lock>>

(* An exchange fails, a readback does not match or the command is          *)
(* cancelled: nothing is shown, although the device may have executed the  *)
(* write it did not acknowledge, and did execute the earlier ones.         *)
WriteFail(w) ==
    /\ lock = w
    /\ lock' = NoOne
    /\ \/ UNCHANGED dev
       \/ /\ step[w] < Len(Plan[w])
          /\ dev[NextPath(w)] < MaxVersion
          /\ dev' = [dev EXCEPT ![NextPath(w)] = @ + 1]
    /\ UNCHANGED <<data, generation, patches, pollVars, step, written>>

Written(w) == {Plan[w][i] : i \in DOMAIN Plan[w]}

(* Mutant: the patches keep the generation of before the command.          *)
ApplyWritesLate(w) ==
    /\ generation' = generation + Len(Plan[w])
    /\ patches' = [p \in DOMAIN patches \cup Written(w) |->
          IF p \in Written(w)
          THEN [generation |-> generation, value |-> written[w][p]]
          ELSE patches[p]]
    /\ data' = [p \in Paths |-> IF p \in Written(w) THEN written[w][p] ELSE data[p]]

(* Each path of a command gets a generation of its own, in order, and is   *)
(* shown in a copy of the data.                                            *)
ApplyWrites(w) ==
    /\ generation' = generation + Len(Plan[w])
    /\ patches' = [p \in DOMAIN patches \cup Written(w) |->
          IF p \in Written(w)
          THEN [generation |-> generation + (CHOOSE i \in DOMAIN Plan[w] : Plan[w][i] = p),
                value |-> written[w][p]]
          ELSE patches[p]]
    /\ data' = [p \in Paths |-> IF p \in Written(w) THEN written[w][p] ELSE data[p]]

(* Mutant: a command that stopped half-way is shown as a whole.            *)
ApplyOptimisticEarly(w) ==
    /\ lock = w
    /\ w \notin Confirmed
    /\ step[w] > 0
    /\ ApplyWrites(w)
    /\ lock' = NoOne
    /\ UNCHANGED <<dev, pollVars, step, written>>

(* The command returns: the lock is released and the writes are shown      *)
(* without another await in between.                                       *)
ApplyOptimistic(w) ==
    /\ lock = w
    /\ w \notin Confirmed
    /\ step[w] = Len(Plan[w])
    /\ ApplyWrites(w)
    /\ lock' = NoOne
    /\ UNCHANGED <<dev, pollVars, step, written>>

(* The device was read back inside the same section and still has what was *)
(* written.                                                                *)
ApplyConfirmed(w) ==
    /\ lock = w
    /\ w \in Confirmed
    /\ step[w] = Len(Plan[w])
    /\ \A p \in Written(w) : dev[p] = written[w][p]
    /\ ApplyWrites(w)
    /\ lock' = NoOne
    /\ UNCHANGED <<dev, pollVars, step, written>>

(* The device changes by itself (front panel, another master).             *)
DeviceChange(p) ==
    /\ dev[p] < MaxVersion
    /\ dev' = [dev EXCEPT ![p] = @ + 1]
    /\ UNCHANGED <<data, generation, patches, pollVars, writeVars>>

-----------------------------------------------------------------------------
Poll ==
    \/ PollStart
    \/ \E p \in Paths : PollRead(p)
    \/ PollPublish
    \/ PollFail

Command(w) ==
    \/ WriteStart(w)
    \/ WriteExchange(w)
    \/ WriteFail(w)
    \/ ApplyOptimistic(w)
    \/ ApplyConfirmed(w)

Next ==
    \/ Poll
    \/ \E w \in Writers : Command(w)
    \/ \E p \in Paths : DeviceChange(p)

Spec == Init /\ [][Next]_vars

(* Fairness.  The coordinator polls at its interval and a device that can  *)
(* be reached lets a poll succeed again and again; nothing is assumed of   *)
(* the commands.                                                           *)
Fairness == []<><<PollPublish>>_vars

LiveSpec == Spec /\ Fairness

-----------------------------------------------------------------------------
(* The barrier.  A pending patch is what is shown; what the running poll   *)
(* read is not older than what is shown, unless a patch newer than the     *)
(* poll will replace it; and nothing shown, read, patched or written is    *)
(* newer than the device.                                                  *)
PatchIsShown == \A p \in DOMAIN patches : data[p] = patches[p].value

ReadIsNotOlder ==
    polling => \A p \in Paths : snapshot[p] = Unread \/ Newer(p) \/ data[p] <= snapshot[p]

NothingInvented ==
    \A p \in Paths :
        /\ data[p] <= dev[p]
        /\ snapshot[p] # Unread => snapshot[p] <= dev[p]

(* What a running write command has written is at least as new as what is  *)
(* shown and what the poll has read.                                       *)
WriteIsNewest ==
    \A w \in Writers :
        lock = w => /\ step[w] <= Len(Plan[w])
                    /\ \A i \in 1..step[w] :
                          LET p == Plan[w][i] IN
                          /\ data[p] <= written[w][p]
                          /\ written[w][p] <= dev[p]
                          /\ snapshot[p] # Unread => snapshot[p] <= written[w][p]

GenerationBound ==
    /\ polling => pollGen <= generation
    /\ \A p \in DOMAIN patches : patches[p].generation <= generation

Barrier ==
    PatchIsShown /\ ReadIsNotOlder /\ NothingInvented /\ WriteIsNewest /\ GenerationBound

(* What an entity shows never goes back to an older value of the device,   *)
(* however polls, writes, failures and changes of the device interleave.   *)
NeverBackwards == [][\A p \in Paths : data'[p] >= data[p]]_vars

(* The coordinator implements the monotone view.                           *)
View == INSTANCE MonotoneView
ImplementsView == View!ViewSpec

(* Once the device stops changing (MaxVersion bounds its changes), all     *)
(* that is shown becomes what the device has: patches do not hide the      *)
(* device for ever.                                                        *)
Converges == \A p \in Paths : <>[](data[p] = dev[p])
=============================================================================
