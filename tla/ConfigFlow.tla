----------------------------- MODULE ConfigFlow -----------------------------
(***************************************************************************)
(* The config flows of the integration (config_flow.py): several users (or *)
(* browser tabs) add devices at the same time, while the gateway's entry   *)
(* is loaded and unloaded, entries are removed and the gateway's table is  *)
(* edited.  A flow shows one form after the other.  The step behind a form *)
(* may open a client, read the table through a cache that all flows share, *)
(* and check a mapping in a worker thread; other flows run while it waits. *)
(*                                                                         *)
(* One S2000-PP is known: as the context "gateway" through its entry, and  *)
(* as the context "direct" through a transport of the flow; the code takes *)
(* them for two gateways.  The table's content is its version: how often   *)
(* it was edited.                                                          *)
(***************************************************************************)
EXTENDS Naturals

CONSTANTS
    Flows,
    Equipment,     \* equipment models
    Mapped,        \* the ones behind an S2000-PP
    ByDpls,        \* of these, the ones with DPLS addresses
    Unsupported,   \* of these, the ones this gateway cannot transport
    WithLayout,    \* models with an I/O layout to be entered
    WithUnit,      \* models with a unit address to be entered
    Capabilities,  \* Capabilities[e]: what can be mapped
    Required,      \* capabilities that must be mapped
    Exclusive,     \* pairs of capabilities that exclude each other
    SameArea,      \* pairs of capabilities in the same data area
    Counts,        \* Counts[e]: DPLS addresses taken, by variant
    Addresses,     \* Orion addresses, and unit addresses
    Bases,         \* DPLS base addresses that are entered
    LastAddress,   \* the last DPLS address
    Rows,          \* rows of the table
    Found,         \* Found[v][e]: what version v has for a device e
    Unread         \* no table

Versions == DOMAIN Found
Routes == {"direct", "gateway"}
AllCapabilities == UNION {Capabilities[e] : e \in Mapped}

ASSUME FlowAssumption ==
    /\ Mapped \cup WithLayout \cup WithUnit \subseteq Equipment
    /\ ByDpls \cup Unsupported \subseteq Mapped
    /\ Mapped \cap (WithLayout \cup WithUnit) = {}
    /\ WithLayout \cap WithUnit = {}
    /\ \A e \in Mapped : Capabilities[e] # {}
    /\ Required \subseteq AllCapabilities
    /\ \A e \in ByDpls : Counts[e] \subseteq Nat \ {0}
    /\ Bases \subseteq Nat \ {0}
    /\ Addresses \subseteq Nat \ {0}
    /\ LastAddress \in Nat
    /\ Versions \subseteq Nat
    /\ \A v \in Versions : 0..v \subseteq Versions
    /\ 0 \in Versions
    /\ \A v \in Versions, e \in Mapped \ Unsupported :
          Found[v][e] \in {"exact", "incomplete", "ambiguous", "none"}
    /\ Unread \notin Nat

VARIABLES
    flow,     \* flow[f]: the flow, or the entry it has created
    gateway,  \* the gateway's entry
    table,    \* the gateway's table
    cache     \* cache[r]: the table cached for the context of route r

vars == <<flow, gateway, table, cache>>

Pages ==
    {"closed", "user", "category", "existing_gateway", "gateway_child_model",
     "manufacturer", "device", "io_mapping", "subdevice_address", "connection",
     "gateway_context", "gateway_new", "gateway_device", "mapping_source",
     "discovered_device", "manual_device", "manual_capability", "automatic_device",
     "crashed", "entry"}

Errors ==
    {"none", "cannot_connect", "invalid_io_mapping", "invalid_gateway",
     "unsupported_gateway_transport", "unsupported_variant", "invalid_mapping",
     "invalid_equipment_mapping",
     "ambiguous_device_mapping", "downstream_device_not_found",
     "cannot_read_gateway_configuration", "gateway_unavailable",
     "invalid_dynamic_address", "no_discovered_devices"}

NoClaim == [base |-> 0, count |-> 0]
NoObjects == [c \in {} |-> 0]

(* A new flow.  dropped and refused are history: the table when the flow   *)
(* dropped the cached one, or 0 if another flow was reading it then;       *)
(* whether the mapping by hand was refused.                                *)
Blank ==
    [page |-> "closed", error |-> "none", busy |-> "no", offered |-> {},
     route |-> "direct", model |-> "none", address |-> 0, claim |-> NoClaim,
     objects |-> NoObjects, fresh |-> FALSE, config |-> Unread,
     dropped |-> 0, refused |-> FALSE]

IsFlow(x) ==
    /\ DOMAIN x = DOMAIN Blank
    /\ x.page \in Pages
    /\ x.error \in Errors
    /\ x.busy \in {"no", "connect", "list", "select", "resolve", "check"}
    /\ x.offered \subseteq (IF x.page = "user" THEN Routes ELSE Addresses)
    /\ x.route \in Routes
    /\ x.model \in Equipment \cup {"none"}
    /\ x.address \in Addresses \cup {0}
    /\ x.claim \in [base : Nat, count : Nat]
    /\ \E S \in SUBSET AllCapabilities : x.objects \in [S -> Rows]
    /\ x.config \in Versions \cup {Unread}
    /\ x.dropped \in Versions
    /\ {x.fresh, x.refused} \subseteq BOOLEAN

(* The types, and that a claim fits into the DPLS address space.           *)
TypeOK ==
    /\ \A f \in Flows : IsFlow(flow[f])
    /\ \A f \in Flows : flow[f].claim.base + flow[f].claim.count <= LastAddress + 1
    /\ gateway \in {"loaded", "unloading", "unloaded"}
    /\ table \in Versions
    /\ cache \in [Routes -> Versions \cup {Unread}]

Init ==
    /\ flow = [f \in Flows |-> Blank]
    /\ gateway \in {"loaded", "unloaded"}
    /\ table = 0
    /\ cache = [r \in Routes |-> Unread]

-----------------------------------------------------------------------------
(* Forms and waits.                                                        *)

(* The gateway's entry has a connected client (_existing_s2000_pp_entries, *)
(* _selected_gateway_runtime).                                             *)
Usable == gateway # "unloaded"

At(f, p) == flow[f].page = p /\ flow[f].busy = "no"
Shown(x, p, e) == [x EXCEPT !.page = p, !.error = e, !.busy = "no"]
Waiting(x, p, b) == [x EXCEPT !.page = p, !.error = "none", !.busy = b]

Becomes(f, x) ==
    /\ flow' = [flow EXCEPT ![f] = x]
    /\ UNCHANGED <<gateway, table, cache>>

(* The user opens a flow: the route through the gateway's entry is offered *)
(* if that is loaded.                                                      *)
Open(f) ==
    /\ At(f, "closed")
    /\ LET routes == {"direct"} \cup (IF Usable THEN {"gateway"} ELSE {})
       IN  Becomes(f, Shown([Blank EXCEPT !.offered = routes], "user", "none"))

User(f) ==
    /\ At(f, "user")
    /\ \E r \in flow[f].offered :
          Becomes(f, Shown([flow[f] EXCEPT !.route = r, !.offered = {}], "category", "none"))

(* The step "existing_gateway" has nothing to offer without a loaded       *)
(* gateway and aborts (no_loaded_gateways).                                *)
ExistingGatewayForm(x) == IF Usable THEN Shown(x, "existing_gateway", "none") ELSE Blank

Category(f) ==
    /\ At(f, "category")
    /\ Becomes(f, IF flow[f].route = "gateway"
                  THEN ExistingGatewayForm(flow[f])
                  ELSE Shown(flow[f], "manufacturer", "none"))

(* With a gateway that was unloaded meanwhile there is none left to offer. *)
ExistingGateway(f) ==
    /\ At(f, "existing_gateway")
    /\ Becomes(f, IF Usable THEN Shown(flow[f], "gateway_child_model", "none") ELSE Blank)

Manufacturer(f) ==
    /\ At(f, "manufacturer")
    /\ Becomes(f, Shown(flow[f], "device", "none"))

(* A model with a layout, a unit address or neither.                       *)
Device(f) ==
    /\ At(f, "device")
    /\ \E e \in Equipment :
          LET x == [flow[f] EXCEPT !.model = e] IN
          \/ e \in WithLayout /\ Becomes(f, Shown(x, "io_mapping", "none"))
          \/ e \in WithUnit /\ Becomes(f, Shown(x, "subdevice_address", "none"))
          \/ e \notin WithLayout \cup WithUnit /\ Becomes(f, Shown(x, "connection", "none"))

IoMapping(f) ==
    /\ At(f, "io_mapping")
    /\ \/ Becomes(f, Shown(flow[f], "connection", "none"))
       \/ Becomes(f, Shown(flow[f], "io_mapping", "invalid_io_mapping"))

SubdeviceAddress(f) ==
    /\ At(f, "subdevice_address")
    /\ \E a \in Addresses :
          Becomes(f, Shown([flow[f] EXCEPT !.address = a], "connection", "none"))

(* The five connection forms (network, RTU over TCP and UDP, serial) try   *)
(* to connect.                                                             *)
Connection(f) ==
    /\ At(f, "connection")
    /\ Becomes(f, Waiting(flow[f], "connection", "connect"))

-----------------------------------------------------------------------------
(* Entries and their identities.                                           *)

IsEntry(f) == flow[f].page = "entry"

(* What identifies an entry: the address behind its gateway, with the DPLS *)
(* base address; or transport, model and unit address.                     *)
Identity(x) ==
    IF x.model \in Mapped
    THEN <<"mapped", x.route, x.address, x.claim.base>>
    ELSE <<"direct", x.model, x.address>>

(* Mutant: ranges that share one address only.                             *)
OverlapProper(x, y) ==
    /\ x.model \in ByDpls /\ y.model \in ByDpls
    /\ x.route = y.route /\ x.address = y.address
    /\ x.claim.base < y.claim.base + y.claim.count - 1
    /\ y.claim.base < x.claim.base + x.claim.count - 1

(* Both claim a DPLS address behind the same KDL of the same gateway.      *)
Overlap(x, y) ==
    /\ x.model \in ByDpls /\ y.model \in ByDpls
    /\ x.route = y.route /\ x.address = y.address
    /\ x.claim.base <= y.claim.base + y.claim.count - 1
    /\ y.claim.base <= x.claim.base + x.claim.count - 1

Overlapping(x) == \E g \in Flows : IsEntry(g) /\ Overlap(x, flow[g])

(* Mutant: the unique id is not compared.                                  *)
CreatedAnyway(x) ==
    [Blank EXCEPT !.page = "entry", !.route = x.route, !.model = x.model,
                  !.address = x.address, !.claim = x.claim]

(* The entry is created, or the flow aborts (already_configured).          *)
Created(x) ==
    IF \E g \in Flows : IsEntry(g) /\ Identity(flow[g]) = Identity(x)
    THEN Blank
    ELSE [Blank EXCEPT !.page = "entry", !.route = x.route, !.model = x.model,
                       !.address = x.address, !.claim = x.claim]

(* The first connection is closed at once.  A device behind a gateway goes *)
(* on with the gateway, any other becomes an entry.                        *)
Connected(f) ==
    /\ flow[f].page = "connection" /\ flow[f].busy = "connect"
    /\ Becomes(f, IF flow[f].model \in Mapped
                  THEN Shown(flow[f], "gateway_context", "none")
                  ELSE Created(flow[f]))

ConnectFails(f) ==
    /\ flow[f].busy = "connect"
    /\ Becomes(f, Shown(flow[f], flow[f].page, "cannot_connect"))

-----------------------------------------------------------------------------
(* The gateway and the device behind it.                                   *)

(* "gateway_device" asks for DPLS addresses, or is passed.                 *)
GatewayDeviceForm(x) ==
    CASE x.model \in Unsupported -> Shown(x, "gateway_device", "unsupported_gateway_transport")
      [] x.model \in ByDpls \ Unsupported -> Shown(x, "gateway_device", "none")
      [] OTHER -> Shown(x, "mapping_source", "none")

GatewayChildModel(f) ==
    /\ At(f, "gateway_child_model")
    /\ \E e \in Mapped \ Unsupported :
          Becomes(f, GatewayDeviceForm([flow[f] EXCEPT !.model = e]))

(* A context that other entries have on this transport, or a new one.      *)
GatewayContext(f) ==
    /\ At(f, "gateway_context")
    /\ \/ /\ \E g \in Flows : IsEntry(g) /\ flow[g].route = "direct" /\ flow[g].model \in Mapped
          /\ Becomes(f, GatewayDeviceForm(flow[f]))
       \/ Becomes(f, Shown(flow[f], "gateway_new", "none"))

GatewayNew(f) ==
    /\ At(f, "gateway_new")
    /\ \/ Becomes(f, GatewayDeviceForm(flow[f]))
       \/ Becomes(f, Shown(flow[f], "gateway_new", "invalid_gateway"))

Claims(e) == [base : Bases, count : Counts[e]]

(* Mutant: the range may end one address too late.                         *)
FitsLoosely(claim) == claim.base + claim.count - 1 <= LastAddress + 1
(* DPLSSubIdentity accepts the range.                                      *)
Fits(claim) == claim.base + claim.count - 1 <= LastAddress

GatewayDevice(f) ==
    /\ At(f, "gateway_device")
    /\ flow[f].model \in ByDpls \ Unsupported
    /\ \/ Becomes(f, Shown(flow[f], "gateway_device", "unsupported_variant"))
       \/ \E a \in Addresses, claim \in Claims(flow[f].model) :
             LET x == [flow[f] EXCEPT !.address = a] IN
             \/ /\ Fits(claim)
                /\ Becomes(f, Shown([x EXCEPT !.claim = claim], "mapping_source", "none"))
             \/ /\ ~Fits(claim)
                /\ Becomes(f, Shown(x, "gateway_device", "invalid_mapping"))

-----------------------------------------------------------------------------
(* Mapping by hand.                                                        *)

(* Capabilities that are neither mapped nor excluded by one that is.       *)
Available(x) ==
    {c \in Capabilities[x.model] \ DOMAIN x.objects :
        \A d \in DOMAIN x.objects : <<c, d>> \notin Exclusive}

Duplicate(x) ==
    \E c, d \in DOMAIN x.objects :
        c # d /\ <<c, d>> \in SameArea /\ x.objects[c] = x.objects[d]

(* A refused mapping: the form for further capabilities is shown, without  *)
(* the error (manual_capability ignores _manual_mapping_error) and with    *)
(* the refused rows kept.  With no capability left, the two steps call     *)
(* each other until Python's recursion limit; the form cannot be sent      *)
(* successfully any more.                                                  *)
Refused(x) ==
    IF Available(x) # {}
    THEN Shown([x EXCEPT !.refused = TRUE], "manual_capability", "none")
    ELSE [Blank EXCEPT !.page = "crashed", !.refused = TRUE]

Finished(x) == IF Duplicate(x) THEN Refused(x) ELSE Waiting(x, "manual_capability", "check")

ManualDevice(f) ==
    /\ At(f, "manual_device")
    /\ \E a \in Addresses :
          Becomes(f, Shown([flow[f] EXCEPT !.address = a], "manual_capability", "none"))

(* A capability and its row, with the wish to add another; or a row that   *)
(* does not exist.                                                         *)
ManualCapability(f) ==
    /\ At(f, "manual_capability")
    /\ LET x == [flow[f] EXCEPT !.refused = FALSE] IN
       \/ Becomes(f, Shown(x, "manual_capability", "invalid_mapping"))
       \/ \E c \in Available(x), row \in Rows, more \in BOOLEAN :
             LET objects == [d \in DOMAIN x.objects \cup {c} |->
                                 IF d = c THEN row ELSE x.objects[d]]
                 y == [x EXCEPT !.objects = objects]
                 another == Available(y) \cap Required # {} \/ more
             IN  Becomes(f, IF another /\ Available(y) # {}
                            THEN Shown(y, "manual_capability", "none")
                            ELSE Finished(y))

-----------------------------------------------------------------------------
(* Mapping by the table.                                                   *)

Reading(x) == x.busy \in {"list", "select", "resolve"}
Listed(v) ==
    IF \E e \in Mapped \ Unsupported : Found[v][e] # "none" THEN Addresses ELSE {}

(* Addresses behind the gateway that some entry has.                       *)
Added(r) == {flow[g].address : g \in {h \in Flows :
                IsEntry(h) /\ flow[h].model \in Mapped /\ flow[h].route = r}}

(* The rows of the device are found in version v, or the form is shown     *)
(* again.                                                                  *)
Resolved(x, v) ==
    LET y == [x EXCEPT !.config = v] IN
    CASE Found[v][x.model] = "ambiguous" -> Shown(y, "automatic_device", "ambiguous_device_mapping")
      [] Found[v][x.model] = "none" -> Shown(y, "automatic_device", "downstream_device_not_found")
      [] OTHER -> Waiting(y, "automatic_device", "check")

(* The addresses of version v that are not added yet are offered.  The one *)
(* that was selected is taken if it is still among them, and if the        *)
(* gateway is still loaded.                                                *)
Offering(x, v) ==
    LET new == Listed(v) \ Added(x.route)
        y == [x EXCEPT !.offered = new, !.config = v]
    IN  CASE x.busy = "list" ->
                Shown(y, "discovered_device",
                      IF new = {} THEN "no_discovered_devices" ELSE "none")
          [] x.busy = "select" /\ x.address \notin new ->
                Shown(y, "discovered_device", "invalid_dynamic_address")
          [] x.busy = "select" /\ x.address \in new /\ ~Usable ->
                Shown(y, "automatic_device", "gateway_unavailable")
          [] OTHER -> Resolved([y EXCEPT !.offered = {}], v)

Continued(x, v) == IF x.busy = "resolve" THEN Resolved(x, v) ELSE Offering(x, v)

(* Mutant: the cached table is kept.                                       *)
InvalidatedNever(x) == cache

(* _refresh_selected_gateway_configuration_once: a flow drops the cached   *)
(* table the first time it needs it.                                       *)
Invalidated(x) == IF x.fresh THEN cache ELSE [cache EXCEPT ![x.route] = Unread]

Refreshed(f, x) ==
    IF x.fresh
    THEN x
    ELSE [x EXCEPT !.fresh = TRUE,
                   !.dropped = IF \E g \in Flows \ {f} :
                                     Reading(flow[g]) /\ flow[g].route = x.route
                               THEN 0 ELSE table]

(* async_get_or_load: the cached table, or the loader starts to read it.   *)
Load(f, x) ==
    LET known == Invalidated(x)[x.route]
        y == Refreshed(f, x)
    IN  /\ cache' = Invalidated(x)
        /\ flow' = [flow EXCEPT ![f] =
                       IF known = Unread THEN [y EXCEPT !.config = table]
                                         ELSE Continued(y, known)]
        /\ UNCHANGED <<gateway, table>>

(* "discovered_device" without (a = 0) or with a selected address.         *)
Discover(f, b, a) ==
    LET x == [flow[f] EXCEPT !.address = a] IN
    \/ Usable /\ Load(f, Waiting(x, "discovered_device", b))
    \/ ~Usable /\ Becomes(f, Shown(x, "discovered_device", "gateway_unavailable"))

DiscoveredDevice(f) ==
    /\ At(f, "discovered_device")
    /\ \E a \in flow[f].offered : Discover(f, "select", a)

(* "automatic_device": an own connection, or the client of the gateway's   *)
(* entry.                                                                  *)
Automatic(f, x) ==
    \/ /\ x.route = "direct"
       /\ Becomes(f, Waiting(x, "automatic_device", "connect"))
    \/ /\ x.route = "gateway" /\ Usable
       /\ Load(f, Waiting(x, "automatic_device", "resolve"))
    \/ /\ x.route = "gateway" /\ ~Usable
       /\ Becomes(f, Shown(x, "automatic_device", "gateway_unavailable"))

(* The form of an unavailable gateway is empty: sending it fails.          *)
AutomaticDevice(f) ==
    /\ At(f, "automatic_device")
    /\ flow[f].error # "gateway_unavailable"
    /\ \E a \in Addresses : Automatic(f, [flow[f] EXCEPT !.address = a])

AutomaticConnected(f) ==
    /\ flow[f].page = "automatic_device" /\ flow[f].busy = "connect"
    /\ Load(f, Waiting(flow[f], "automatic_device", "resolve"))

(* By hand or by the table.  A device with DPLS addresses has its Orion    *)
(* address already.                                                        *)
MappingSource(f) ==
    /\ At(f, "mapping_source")
    /\ LET x == flow[f]
           known == x.model \in ByDpls
       IN  \/ Becomes(f, Shown(x, IF known THEN "manual_capability" ELSE "manual_device", "none"))
           \/ x.route = "gateway" /\ Discover(f, "list", x.address)
           \/ x.route = "direct" /\ known /\ Automatic(f, x)
           \/ x.route = "direct" /\ ~known /\ Becomes(f, Shown(x, "automatic_device", "none"))

(* The loader returns a version of while it was reading; it is cached,     *)
(* whatever happened meanwhile.                                            *)
ReadEnds(f) ==
    /\ Reading(flow[f])
    /\ \E v \in flow[f].config..table :
          /\ cache' = [cache EXCEPT ![flow[f].route] = v]
          /\ flow' = [flow EXCEPT ![f] = Continued(flow[f], v)]
    /\ UNCHANGED <<gateway, table>>

ReadFails(f) ==
    /\ Reading(flow[f])
    /\ Becomes(f, Shown([flow[f] EXCEPT !.config = Unread], flow[f].page,
                        "cannot_read_gateway_configuration"))

-----------------------------------------------------------------------------
(* The equipment's own validation, in a worker thread.                     *)
Valid(x) ==
    \/ x.page = "automatic_device" /\ Found[x.config][x.model] = "exact"
    \/ x.page = "manual_capability" /\ Available(x) \cap Required = {}

Rejected(x) ==
    IF x.page = "manual_capability"
    THEN Refused(x)
    ELSE Shown(x, "automatic_device", "invalid_equipment_mapping")

(* The rest of _async_validate_and_store_mapping, in one go with the new   *)
(* entry: the cached table is dropped, overlapping claims are refused.     *)
Check(f) ==
    /\ flow[f].busy = "check"
    /\ \/ ~Valid(flow[f]) /\ Becomes(f, Rejected(flow[f]))
       \/ /\ Valid(flow[f])
          /\ cache' = [cache EXCEPT ![flow[f].route] = Unread]
          /\ flow' = [flow EXCEPT ![f] = IF Overlapping(@) THEN Rejected(@) ELSE Created(@)]
          /\ UNCHANGED <<gateway, table>>

-----------------------------------------------------------------------------
(* The user closes the dialog.                                             *)
Close(f) ==
    /\ flow[f].busy = "no" /\ ~IsEntry(f) /\ flow[f].page # "closed"
    /\ Becomes(f, Blank)

(* An entry behind a gateway is unloaded: the cached table is dropped.     *)
Unload(f) ==
    /\ IsEntry(f)
    /\ flow[f].model \in Mapped
    /\ cache' = [cache EXCEPT ![flow[f].route] = Unread]
    /\ UNCHANGED <<flow, gateway, table>>

Remove(f) ==
    /\ IsEntry(f)
    /\ Becomes(f, Blank)

LoadGateway ==
    /\ gateway = "unloaded"
    /\ gateway' = "loaded"
    /\ UNCHANGED <<flow, table, cache>>

(* The gateway's entry is unloaded: the cached table is dropped at first,  *)
(* the client closed at last.                                              *)
UnloadGateway ==
    /\ gateway = "loaded"
    /\ gateway' = "unloading"
    /\ cache' = [cache EXCEPT !["gateway"] = Unread]
    /\ UNCHANGED <<flow, table>>

CloseGateway ==
    /\ gateway = "unloading"
    /\ gateway' = "unloaded"
    /\ UNCHANGED <<flow, table, cache>>

Edit ==
    /\ table + 1 \in Versions
    /\ table' = table + 1
    /\ UNCHANGED <<flow, gateway, cache>>

Next ==
    \/ \E f \in Flows :
          \/ Open(f) \/ User(f) \/ Category(f) \/ ExistingGateway(f) \/ Manufacturer(f)
          \/ Device(f) \/ IoMapping(f) \/ SubdeviceAddress(f) \/ Connection(f)
          \/ Connected(f) \/ ConnectFails(f)
          \/ GatewayChildModel(f) \/ GatewayContext(f) \/ GatewayNew(f) \/ GatewayDevice(f)
          \/ MappingSource(f) \/ ManualDevice(f) \/ ManualCapability(f)
          \/ DiscoveredDevice(f) \/ AutomaticDevice(f) \/ AutomaticConnected(f)
          \/ ReadEnds(f) \/ ReadFails(f) \/ Check(f)
          \/ Close(f) \/ Unload(f) \/ Remove(f)
    \/ LoadGateway \/ UnloadGateway \/ CloseGateway \/ Edit

Spec == Init /\ [][Next]_vars

-----------------------------------------------------------------------------
(* No two entries are the same device, or claim the same DPLS address      *)
(* behind the same gateway, although both may have been checked at the     *)
(* same time (config_flow.py:1482-1516).                                   *)
Segment(x) == x.claim.base..(x.claim.base + x.claim.count - 1)
EntriesDisjoint ==
    \A f, g \in Flows :
        f # g /\ IsEntry(f) /\ IsEntry(g) =>
            /\ Identity(flow[f]) # Identity(flow[g])
            /\ /\ {flow[f].model, flow[g].model} \subseteq ByDpls
               /\ flow[f].route = flow[g].route
               /\ flow[f].address = flow[g].address
               => Segment(flow[f]) \cap Segment(flow[g]) = {}

(* What an entry keeps other entries from being: its identity, and the     *)
(* DPLS addresses it claims behind its gateway.                            *)
Claimed(x) ==
    {Identity(x)} \cup
    IF x.model \in ByDpls
    THEN {<<"dpls", x.route, x.address, a>> : a \in Segment(x)}
    ELSE {}

(* An entry takes its identity and its addresses in one step, none of them *)
(* another's, keeps them as they are, and gives them up when it is         *)
(* removed, whatever the flows do meanwhile (config_flow.py:1482-1516).    *)
Holding == INSTANCE ExclusiveHolding
    WITH Holders <- Flows, Reusable <- TRUE, gone <- {},
         held <- [f \in Flows |-> IF IsEntry(f) THEN Claimed(flow[f]) ELSE {}]
ImplementsHolding == Holding!HoldingSpec

(* A flow that first needs the table while no other reads it maps by a     *)
(* table at least as new as then (config_flow.py:102-111).                 *)
QuietFlowIsLive ==
    \A f \in Flows : flow[f].config # Unread => flow[f].config >= flow[f].dropped

(* A mapping by hand that is refused is reported: "The gateway mapping is  *)
(* invalid." or "The mapping does not match the selected equipment         *)
(* capabilities." (strings.json:34-35).                                    *)
RefusalIsShown == \A f \in Flows : flow[f].refused => flow[f].error # "none"
=============================================================================
