----------------------------- MODULE Lifecycle -----------------------------
(***************************************************************************)
(* Config entries between setup and unload (__init__.py) and the clients   *)
(* they talk through.  An owner (a gateway, or a device with a connection  *)
(* of its own) makes its client and closes it; a child behind a gateway    *)
(* borrows the client in the gateway's runtime_data.  Setups of several    *)
(* entries interleave at every await, and each step may fail or be         *)
(* cancelled.                                                              *)
(*                                                                         *)
(* Clients are numbered in the order they are made.  A closed client stays *)
(* closed (see RtuOverTcp and RtuOverUdp); one that is open may still lose *)
(* its connection and find it again, so any exchange may fail.             *)
(***************************************************************************)
EXTENDS Naturals

CONSTANTS
    Owners,     \* entries that make their client
    Children,   \* entries behind a gateway
    GatewayOf,  \* the owner a child borrows from
    MaxClients  \* bound for TLC: clients made

ASSUME LifecycleAssumption ==
    /\ Owners \cap Children = {}
    /\ GatewayOf \in [Children -> Owners]
    /\ MaxClients \in Nat

Entries == Owners \cup Children
NoClient == 0

VARIABLES
    phase,   \* phase[e]: what Home Assistant and async_setup_entry have come to
    using,   \* using[e]: the client of the running setup
    runtime, \* runtime[e]: the client in entry.runtime_data
    open,    \* the clients that are not closed
    made     \* how many clients were made

vars == <<phase, using, runtime, open, made>>

Phases == {"unloaded", "retry", "error", "connecting", "reading",
           "forwarding", "loaded", "unloading", "stuck"}

Init ==
    /\ phase = [e \in Entries |-> "unloaded"]
    /\ using = [e \in Entries |-> NoClient]
    /\ runtime = [e \in Entries |-> NoClient]
    /\ open = {}
    /\ made = 0

Goes(e, p) == phase' = [phase EXCEPT ![e] = p]

-----------------------------------------------------------------------------
(* async_setup_entry, called for an unloaded entry and again by the retry. *)
Idle(e) == phase[e] \in {"unloaded", "retry"}

BeginOwner(e) ==
    /\ e \in Owners /\ Idle(e)
    /\ Goes(e, "connecting")
    /\ UNCHANGED <<using, runtime, open, made>>

(* connect_modbus *)
Connected(e) ==
    /\ phase[e] = "connecting"
    /\ made < MaxClients
    /\ made' = made + 1
    /\ open' = open \cup {made + 1}
    /\ using' = [using EXCEPT ![e] = made + 1]
    /\ Goes(e, "reading")
    /\ UNCHANGED runtime

ConnectFails(e) ==
    /\ phase[e] = "connecting"
    /\ Goes(e, "retry")
    /\ UNCHANGED <<using, runtime, open, made>>

(* A child takes the client of a gateway that has runtime_data, whatever   *)
(* the gateway is doing, and only if the client is connected.              *)
BeginChild(e) ==
    /\ e \in Children /\ Idle(e)
    /\ LET c == runtime[GatewayOf[e]]
       IN  /\ c \in open
           /\ using' = [using EXCEPT ![e] = c]
    /\ Goes(e, "reading")
    /\ UNCHANGED <<runtime, open, made>>

ChildNotReady(e) ==
    /\ e \in Children /\ Idle(e)
    /\ Goes(e, "retry")
    /\ UNCHANGED <<using, runtime, open, made>>

(* The mapping is reconciled, data_init and the first refresh of the       *)
(* coordinator succeed; runtime_data is there before the platforms are.    *)
ReadSucceeds(e) ==
    /\ phase[e] = "reading"
    /\ using[e] \in open
    /\ runtime' = [runtime EXCEPT ![e] = using[e]]
    /\ Goes(e, "forwarding")
    /\ UNCHANGED <<using, open, made>>

Forwarded(e) ==
    /\ phase[e] = "forwarding"
    /\ using' = [using EXCEPT ![e] = NoClient]
    /\ Goes(e, "loaded")
    /\ UNCHANGED <<runtime, open, made>>

(* Mutants: the client is not closed; closed whoever owns it.              *)
SetupFailsOpen(e) ==
    /\ phase[e] \in {"reading", "forwarding"}
    /\ runtime' = [runtime EXCEPT ![e] = NoClient]
    /\ using' = [using EXCEPT ![e] = NoClient]
    /\ \E p \in {"retry", "error"} : Goes(e, p)
    /\ UNCHANGED <<open, made>>

SetupFailsClosing(e) ==
    /\ phase[e] \in {"reading", "forwarding"}
    /\ runtime' = [runtime EXCEPT ![e] = NoClient]
    /\ open' = open \ {using[e]}
    /\ using' = [using EXCEPT ![e] = NoClient]
    /\ \E p \in {"retry", "error"} : Goes(e, p)
    /\ UNCHANGED made

(* An exchange fails, the configuration is refused, or the setup is        *)
(* cancelled: runtime_data goes, and the client with it if it is owned.    *)
SetupFails(e) ==
    /\ phase[e] \in {"reading", "forwarding"}
    /\ runtime' = [runtime EXCEPT ![e] = NoClient]
    /\ open' = IF e \in Owners THEN open \ {using[e]} ELSE open
    /\ using' = [using EXCEPT ![e] = NoClient]
    /\ \E p \in {"retry", "error"} : Goes(e, p)
    /\ UNCHANGED made

-----------------------------------------------------------------------------
(* async_unload_entry of a loaded entry: its platforms are unloaded first. *)
BeginUnload(e) ==
    /\ phase[e] = "loaded"
    /\ Goes(e, "unloading")
    /\ UNCHANGED <<using, runtime, open, made>>

(* Mutant: the client is not closed.                                       *)
UnloadedOpen(e) ==
    /\ phase[e] = "unloading"
    /\ runtime' = [runtime EXCEPT ![e] = NoClient]
    /\ Goes(e, "unloaded")
    /\ UNCHANGED <<using, open, made>>

Unloaded(e) ==
    /\ phase[e] = "unloading"
    /\ open' = IF e \in Owners THEN open \ {runtime[e]} ELSE open
    /\ runtime' = [runtime EXCEPT ![e] = NoClient]
    /\ Goes(e, "unloaded")
    /\ UNCHANGED <<using, made>>

(* A platform refuses: everything stays, until Home Assistant restarts.    *)
UnloadFails(e) ==
    /\ phase[e] = "unloading"
    /\ Goes(e, "stuck")
    /\ UNCHANGED <<using, runtime, open, made>>

(* Of an entry without runtime_data: nothing is left to do.                *)
UnloadFailed(e) ==
    /\ phase[e] \in {"retry", "error"}
    /\ Goes(e, "unloaded")
    /\ UNCHANGED <<using, runtime, open, made>>

(* Home Assistant stops, orderly or not, and starts again.                 *)
Restart ==
    /\ phase' = [e \in Entries |-> "unloaded"]
    /\ using' = [e \in Entries |-> NoClient]
    /\ runtime' = [e \in Entries |-> NoClient]
    /\ open' = {}
    /\ UNCHANGED made

Setup(e) ==
    \/ BeginOwner(e)
    \/ Connected(e)
    \/ ConnectFails(e)
    \/ BeginChild(e)
    \/ ChildNotReady(e)
    \/ ReadSucceeds(e)
    \/ Forwarded(e)
    \/ SetupFails(e)

Unload(e) ==
    \/ BeginUnload(e)
    \/ Unloaded(e)
    \/ UnloadFails(e)
    \/ UnloadFailed(e)

Next == Restart \/ \E e \in Entries : Setup(e) \/ Unload(e)

Spec == Init /\ [][Next]_vars

(* A setup ends, since every exchange does; a failed one is retried for    *)
(* ever; and one whose gateway answers again and again gets through.       *)
LiveSpec ==
    /\ Spec
    /\ \A e \in Children : /\ WF_vars(ReadSucceeds(e) \/ SetupFails(e))
                           /\ SF_vars(BeginChild(e))
                           /\ SF_vars(ReadSucceeds(e))
                           /\ SF_vars(Forwarded(e))

-----------------------------------------------------------------------------
TypeOK ==
    /\ phase \in [Entries -> Phases]
    /\ using \in [Entries -> 0..MaxClients]
    /\ runtime \in [Entries -> 0..MaxClients]
    /\ open \subseteq 1..MaxClients
    /\ made \in 0..MaxClients

(* The client an owner must have open: the one its setup works with or its *)
(* runtime_data holds.                                                     *)
Held(e) ==
    CASE phase[e] \in {"reading", "forwarding"} -> {using[e]}
      [] phase[e] \in {"loaded", "unloading", "stuck"} -> {runtime[e]}
      [] OTHER -> {}

(* Every open client is held by exactly the owner that will close it, and  *)
(* no held client is closed: a failed or cancelled setup leaks none, and a *)
(* child that fails or is unloaded takes none away from its gateway        *)
(* (__init__.py:238, :433-438, :465).                                      *)
ClientsOwned ==
    /\ open = UNION {Held(e) : e \in Owners}
    /\ \A e, f \in Owners : e # f => Held(e) \cap Held(f) = {}

(* A client is held by the owner that made it until that closes it, and by *)
(* nobody ever after; an owner makes a client only when it holds none      *)
(* (__init__.py:238, :433-438, :465).                                      *)
Holding == INSTANCE ExclusiveHolding
    WITH Holders <- Owners, Reusable <- FALSE,
         held <- [e \in Owners |-> Held(e)], gone <- (1..made) \ open
ImplementsHolding == Holding!HoldingSpec

Waiting(e) == phase[e] \in {"retry", "reading", "forwarding"}

(* A child whose gateway stays loaded does not wait for ever, whichever    *)
(* client of the gateway its earlier attempts failed with                  *)
(* (__init__.py:247-266).                                                  *)
ChildrenComeBack ==
    \A e \in Children :
        []<>(phase[GatewayOf[e]] # "loaded" \/ ~Waiting(e))
=============================================================================
