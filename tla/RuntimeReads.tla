---------------------------- MODULE RuntimeReads ----------------------------
(***************************************************************************)
(* How S2000PPRuntimeReader (s2000_pp.py) turns the addresses it wants     *)
(* into requests: runs of consecutive coils or registers, and of blocks of *)
(* expanded zone states, no longer than a request may be.  The runs of     *)
(* single registers are all formed first (_consecutive_ranges), a run of   *)
(* blocks is read as soon as it is formed (_read_expanded_blocks).         *)
(*                                                                         *)
(* A register's content is its own address.  The zone states themselves    *)
(* change between two requests (see DevicePolling).                        *)
(***************************************************************************)
EXTENDS Naturals, Sequences

CONSTANTS
    Widths,     \* registers per address: 1, and S2000_PP_EXPANDED_ZONE_SIZE
    Addresses,  \* Addresses[w]: what may be asked for, as sets of addresses
    Chunk       \* S2000_PP_RUNTIME_READ_CHUNK_SIZE

(* One block fits in a request, blocks do not overlap, and a device does   *)
(* not map an object twice (gateway.py:355).                               *)
ASSUME ReadsAssumption ==
    /\ Chunk \in Nat
    /\ Widths \subseteq 1..Chunk
    /\ \A w \in Widths : \A s \in Addresses[w] :
           /\ s \subseteq Nat
           /\ \A a, b \in s : a < b => a + w <= b

VARIABLES
    width,      \* of this read
    addresses,  \* what it is asked for
    ordered,    \* the addresses not looked at yet
    group,      \* the run being formed
    ranges,     \* runs formed and not read yet, in order
    requests,   \* history: runs read
    found,      \* the result: pairs of an address and the first register kept for it
    stage       \* where the read is

readVars == <<width, addresses, ordered, group, ranges, requests, found, stage>>

ReadInit ==
    /\ width \in Widths
    /\ addresses \in Addresses[width]
    /\ ordered = addresses
    /\ group = <<>>
    /\ ranges = <<>>
    /\ requests = {}
    /\ found = {}
    /\ stage = "begin"

Start    == group[1]
Previous == group[Len(group)]

(* The next address in order.                                              *)
Smallest(a) == a \in ordered /\ \A b \in ordered : a <= b

(* Mutants: a run may be one too long, or one too short.                   *)
TooLongLate(a) ==
    IF width = 1 THEN a - Start > Chunk ELSE Len(group) * width > Chunk

TooLongEarly(a) ==
    IF width = 1 THEN a - Start + 1 >= Chunk ELSE (Len(group) + 2) * width > Chunk

TooLong(a) ==
    IF width = 1 THEN a - Start + 1 > Chunk ELSE (Len(group) + 1) * width > Chunk

(* Mutant: gaps are read over.                                             *)
BreaksWhenLong(a) == TooLong(a)

Breaks(a) == a # Previous + width \/ TooLong(a)

Count == IF width = 1 THEN Previous - Start + 1 ELSE Len(group) * width

Formed == [start |-> Start, count |-> Count, group |-> group]

-----------------------------------------------------------------------------
First(a) ==
    /\ stage = "begin"
    /\ Smallest(a)
    /\ group' = <<a>>
    /\ ordered' = ordered \ {a}
    /\ stage' = "grouping"
    /\ UNCHANGED <<width, addresses, ranges, requests, found>>

(* A run of blocks is read before the next one grows.                      *)
Grows == stage = "grouping" /\ (width = 1 \/ ranges = <<>>)

Extend(a) ==
    /\ Grows
    /\ Smallest(a) /\ ~Breaks(a)
    /\ group' = Append(group, a)
    /\ ordered' = ordered \ {a}
    /\ UNCHANGED <<width, addresses, ranges, requests, found, stage>>

Break(a) ==
    /\ Grows
    /\ Smallest(a) /\ Breaks(a)
    /\ ranges' = Append(ranges, Formed)
    /\ group' = <<a>>
    /\ ordered' = ordered \ {a}
    /\ UNCHANGED <<width, addresses, requests, found, stage>>

Last ==
    /\ Grows
    /\ ordered = {}
    /\ ranges' = Append(ranges, Formed)
    /\ stage' = "last"
    /\ UNCHANGED <<width, addresses, ordered, group, requests, found>>

(* Nothing was asked for.                                                  *)
Nothing ==
    /\ stage = "begin"
    /\ ordered = {}
    /\ stage' = "done"
    /\ UNCHANGED <<width, addresses, ordered, group, ranges, requests, found>>

Reads == ranges # <<>> /\ (width = 1 => stage = "last")

(* The registers of a response, and the addresses they are kept under.     *)
Kept(r) ==
    IF width = 1
    THEN {<<r.start + o, r.start + o>> : o \in 0..(r.count - 1)}
    ELSE {<<r.group[i], r.start + (i - 1) * width>> : i \in DOMAIN r.group}

Request ==
    /\ Reads
    /\ requests' = requests \cup {Head(ranges)}
    /\ found' = found \cup Kept(Head(ranges))
    /\ ranges' = Tail(ranges)
    /\ stage' = IF stage = "last" /\ Len(ranges) = 1 THEN "done" ELSE stage
    /\ UNCHANGED <<width, addresses, ordered, group>>

(* An exchange fails, or its response has another length.                  *)
RequestFails ==
    /\ Reads
    /\ stage' = "failed"
    /\ ranges' = <<>>
    /\ UNCHANGED <<width, addresses, ordered, group, requests, found>>

ReadNext ==
    \/ \E a \in ordered : First(a) \/ Extend(a) \/ Break(a)
    \/ Last
    \/ Nothing
    \/ Request
    \/ RequestFails

ReadSpec == ReadInit /\ [][ReadNext]_readVars

-----------------------------------------------------------------------------
(* A read that ends well has, for each address asked for and for no other, *)
(* the registers of that address, wherever its run was broken              *)
(* (s2000_pp.py:1141-1184, :1209-1225).                                    *)
EachHasItsOwn == stage = "done" => found = {<<a, a>> : a \in addresses}

Within(r) == r.start..(r.start + r.count - 1)

(* "Bounded ranges containing only consecutive requested addresses": no    *)
(* request is longer than the gateway takes, or asks for a register that   *)
(* nobody asked for and the gateway may refuse (s2000_pp.py:1210).         *)
RequestsFit ==
    \A r \in requests :
        /\ r.count <= Chunk
        /\ \A x \in Within(r) : \E a \in addresses : a <= x /\ x < a + width

(* Two runs that meet could not have been one request.                     *)
NoneTooMany ==
    \A r, q \in requests :
        q.start = r.start + r.count => r.count + width > Chunk
=============================================================================
