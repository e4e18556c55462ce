-------------------------- MODULE SelectorService --------------------------
(***************************************************************************)
(* What the S2000-PP selector protocol promises to the child devices that  *)
(* share one gateway, without locks, exchanges or the gateway itself: at   *)
(* most one request is parked, only the parked request is answered, and a  *)
(* READY answer carries the value of the channel that was asked for.       *)
(***************************************************************************)
CONSTANTS
    Readers,     \* child devices
    Channels,    \* the values that can be asked for
    NoChannel,   \* "no value"
    NoRequest    \* "nothing parked"

VARIABLES
    parked,      \* the request the gateway works on, or NoRequest
    want,        \* want[r]: the channel of r's current or last call
    outcome      \* outcome[r]: the answer to that call

serviceVars == <<parked, want, outcome>>

Request(c) == <<c.family, c.zone>>

Statuses == {"none", "ready", "pending", "retryable", "error", "raised"}

Answer(status, value) == [status |-> status, value |-> value]

Reply(r, status, value) == outcome' = [outcome EXCEPT ![r] = Answer(status, value)]

ServiceInit ==
    /\ parked = NoRequest
    /\ want \in [Readers -> Channels]
    /\ outcome = [r \in Readers |-> Answer("none", NoChannel)]

(* A call for the value of c begins.                                       *)
Ask(r, c) ==
    /\ want' = [want EXCEPT ![r] = c]
    /\ Reply(r, "none", NoChannel)
    /\ UNCHANGED parked

(* The request of r becomes the one the gateway works on.                  *)
Park(r) ==
    /\ outcome[r].status = "none"
    /\ parked = NoRequest
    /\ parked' = Request(want[r])
    /\ UNCHANGED <<want, outcome>>

(* The parked request is answered with its own value and nothing stays     *)
(* parked.                                                                 *)
Deliver(r) ==
    /\ outcome[r].status = "none"
    /\ parked = Request(want[r])
    /\ parked' = NoRequest
    /\ Reply(r, "ready", want[r])
    /\ UNCHANGED want

(* The call ends without a value and leaves what is parked alone.          *)
Defer(r) ==
    /\ outcome[r].status = "none"
    /\ \E s \in {"pending", "retryable", "error", "raised"} : Reply(r, s, NoChannel)
    /\ UNCHANGED <<parked, want>>

(* The parked request is given up: the next call selects again.            *)
Abandon(r) ==
    /\ outcome[r].status = "none"
    /\ parked = Request(want[r])
    /\ parked' = NoRequest
    /\ \E s \in {"error", "raised"} : Reply(r, s, NoChannel)
    /\ UNCHANGED want

ServiceNext ==
    \E r \in Readers :
        \/ \E c \in Channels : Ask(r, c)
        \/ Park(r)
        \/ Deliver(r)
        \/ Defer(r)
        \/ Abandon(r)

ServiceSpec == ServiceInit /\ [][ServiceNext]_serviceVars
=============================================================================
