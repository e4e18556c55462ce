-------------------------- MODULE ConfigFlow_proofs --------------------------
(***************************************************************************)
(* Proofs about ConfigFlow: entries are disjoint although flows are        *)
(* checked at the same time, and a flow maps by a live table, for any      *)
(* flows, models, addresses and versions of the table.                     *)
(*                                                                         *)
(* Every step is of one of five kinds: Moved, Loaded, Ended, Entered, or   *)
(* Elsewhere.  The invariants are proved kind by kind.                     *)
(***************************************************************************)
EXTENDS ConfigFlow, TLAPS

(* Forms about a device behind a gateway.                                  *)
GatewayPages ==
    {"gateway_context", "gateway_new", "gateway_device", "mapping_source",
     "discovered_device", "manual_device", "manual_capability", "automatic_device"}

FittingClaims == {c \in [base : Nat, count : Nat] : c.base + c.count =< LastAddress + 1}

Fields ==
    [page : Pages, error : Errors,
     busy : {"no", "connect", "list", "select", "resolve", "check"},
     offered : SUBSET (Routes \cup Addresses), route : Routes,
     model : Equipment \cup {"none"}, address : Addresses \cup {0},
     claim : FittingClaims, objects : UNION {[S -> Rows] : S \in SUBSET AllCapabilities},
     fresh : BOOLEAN, config : Versions \cup {Unread}, dropped : Versions,
     refused : BOOLEAN]

(* The strengthening of the types: which form goes with which model, offer *)
(* and wait.                                                               *)
WellFormed(x) ==
    /\ x.page = "user" => x.offered \subseteq Routes /\ x.dropped = 0 /\ x.config = Unread
    /\ x.page # "user" => x.offered \subseteq Addresses
    /\ x.page \in GatewayPages => x.model \in Mapped
    /\ x.busy = "connect" => x.page \in {"connection", "automatic_device"}
    /\ x.busy = "check" => x.page \in {"manual_capability", "automatic_device"}
    /\ Reading(x) => x.page \in {"discovered_device", "automatic_device"} /\ x.config \in Versions

Typed(x) == x \in Fields /\ WellFormed(x)

Types ==
    /\ flow = [f \in Flows |-> flow[f]]
    /\ \A f \in Flows : Typed(flow[f])
    /\ gateway \in {"loaded", "unloading", "unloaded"}
    /\ table \in Versions
    /\ cache \in [Routes -> Versions \cup {Unread}]

-----------------------------------------------------------------------------
(* The kinds of steps.                                                     *)
Changes(f, y) ==
    /\ Typed(y)
    /\ flow' = [flow EXCEPT ![f] = y]
    /\ UNCHANGED <<table, gateway>>

(* The cache is as it was, or loses a table.                               *)
Dropping == cache' = cache \/ \E r \in Routes : cache' = [cache EXCEPT ![r] = Unread]

(* A form follows another, without the table.                              *)
Moved(f) ==
    \E y : /\ Changes(f, y)
           /\ Dropping
           /\ y.page # "entry"
           /\ ~Reading(y)
           /\ \/ /\ y.route = flow[f].route
                 /\ y.dropped = flow[f].dropped
                 /\ y.config \in {flow[f].config, Unread}
              \/ y.dropped = 0 /\ y.config = Unread

(* The table is taken from the cache or a read starts.                     *)
Loaded(f) ==
    \E y : /\ Changes(f, y)
           /\ y.page # "entry"
           /\ y.route = flow[f].route
           /\ \/ /\ cache' = [cache EXCEPT ![y.route] = Unread]
                 /\ y.config = table
                 /\ \/ y.dropped = 0
                    \/ /\ y.dropped = table
                       /\ \A g \in Flows \ {f} : Reading(flow[g]) => flow[g].route # y.route
              \/ /\ UNCHANGED cache
                 /\ y.config \in {table, cache[y.route]} \ {Unread}
                 /\ y.dropped = flow[f].dropped

(* A read ends.                                                            *)
Ended(f) ==
    /\ Reading(flow[f])
    /\ \E y : /\ Changes(f, y)
              /\ y.page # "entry"
              /\ ~Reading(y)
              /\ y.route = flow[f].route
              /\ y.dropped = flow[f].dropped
              /\ y.config \in Versions
              /\ y.config >= flow[f].config
              /\ cache' = [cache EXCEPT ![y.route] = y.config]

(* The flow becomes an entry, or is aborted since there is one.            *)
Entered(f) ==
    /\ Changes(f, Created(flow[f]))
    /\ flow[f].model \in ByDpls => ~Overlapping(flow[f])
    /\ Dropping

(* Something else happens: a cached table may be dropped, the table edited.*)
Elsewhere ==
    /\ UNCHANGED flow
    /\ gateway' \in {"loaded", "unloading", "unloaded"}
    /\ table' \in Versions /\ table' >= table
    /\ Dropping

-----------------------------------------------------------------------------
(* Forms and waits.                                                        *)
LEMMA Numbers == /\ Versions \subseteq Nat /\ 0 \in Versions /\ Unread \notin Versions
                 /\ LastAddress \in Nat /\ Addresses \subseteq Nat \ {0}
                 /\ ByDpls \subseteq Mapped /\ Mapped \subseteq Equipment
  BY FlowAssumption

LEMMA BlankTyped == Typed(Blank) /\ Blank.page # "entry" /\ ~Reading(Blank)
<1>1. NoObjects \in UNION {[S -> Rows] : S \in SUBSET AllCapabilities}
  <2>1. {} \in SUBSET AllCapabilities /\ NoObjects \in [{} -> Rows]
    BY DEF NoObjects
  <2> QED
    BY <2>1
<1>2. NoClaim \in FittingClaims
  BY Numbers DEF NoClaim, FittingClaims
<1>3. Blank \in Fields
  BY <1>1, <1>2, Numbers DEF Blank, Fields, Pages, Errors, Routes
<1>4. WellFormed(Blank)
  BY DEF WellFormed, Blank, Reading, GatewayPages
<1> QED
  BY <1>3, <1>4 DEF Typed, Blank, Reading

LEMMA ShownTyped ==
    ASSUME NEW x \in Fields, NEW p \in Pages \ {"user", "entry"}, NEW e \in Errors,
           x.offered \subseteq Addresses, p \in GatewayPages => x.model \in Mapped
    PROVE  LET y == Shown(x, p, e)
           IN  /\ Typed(y) /\ y.page = p /\ ~Reading(y)
               /\ y.route = x.route /\ y.dropped = x.dropped /\ y.config = x.config
<1> DEFINE y == Shown(x, p, e)
<1>1. y \in Fields
  BY DEF Shown, Fields
<1>2. /\ y.page = p /\ y.busy = "no" /\ y.offered = x.offered /\ y.model = x.model
      /\ y.route = x.route /\ y.dropped = x.dropped /\ y.config = x.config
  BY DEF Shown, Fields
<1> HIDE DEF y
<1>3. ~Reading(y) /\ WellFormed(y)
  BY <1>2 DEF WellFormed, Reading
<1> QED
  BY <1>1, <1>2, <1>3 DEF Typed, y

LEMMA WaitingFields ==
    ASSUME NEW x \in Fields, NEW p \in Pages,
           NEW b \in {"connect", "list", "select", "resolve", "check"}
    PROVE  LET y == Waiting(x, p, b)
           IN  /\ y \in Fields /\ y.page = p /\ y.busy = b
               /\ y.offered = x.offered /\ y.model = x.model /\ y.fresh = x.fresh
               /\ y.route = x.route /\ y.dropped = x.dropped /\ y.config = x.config
  BY DEF Waiting, Fields, Errors

LEMMA WaitingTyped ==
    ASSUME NEW x \in Fields, NEW p, NEW b,
           \/ b = "connect" /\ p \in {"connection", "automatic_device"}
           \/ b = "check" /\ p \in {"manual_capability", "automatic_device"},
           x.offered \subseteq Addresses, p \in GatewayPages => x.model \in Mapped
    PROVE  LET y == Waiting(x, p, b)
           IN  /\ Typed(y) /\ y.page # "entry" /\ ~Reading(y)
               /\ y.route = x.route /\ y.dropped = x.dropped /\ y.config = x.config
<1> DEFINE y == Waiting(x, p, b)
<1>1. /\ y \in Fields /\ y.page = p /\ y.busy = b
      /\ y.offered = x.offered /\ y.model = x.model
      /\ y.route = x.route /\ y.dropped = x.dropped /\ y.config = x.config
  BY WaitingFields DEF Pages
<1> HIDE DEF y
<1>2. ~Reading(y) /\ WellFormed(y) /\ y.page # "entry"
  BY <1>1 DEF WellFormed, Reading
<1> QED
  BY <1>1, <1>2 DEF Typed, y

-----------------------------------------------------------------------------
(* The types of forms that depend on the table.                            *)
LEMMA ResolvedTyped ==
    ASSUME NEW x \in Fields, x.offered \subseteq Addresses, x.model \in Mapped, NEW v \in Versions
    PROVE  LET y == Resolved(x, v)
           IN  /\ Typed(y) /\ y.page # "entry" /\ ~Reading(y)
               /\ y.route = x.route /\ y.dropped = x.dropped /\ y.config = v
<1> DEFINE z == [x EXCEPT !.config = v]
<1>1. /\ z \in Fields /\ z.offered = x.offered /\ z.model = x.model
      /\ z.route = x.route /\ z.dropped = x.dropped /\ z.config = v
  BY DEF Fields
<1> HIDE DEF z
<1>2. {"ambiguous_device_mapping", "downstream_device_not_found"} \subseteq Errors
      /\ "automatic_device" \in Pages \ {"user", "entry"}
  BY DEF Errors, Pages
<1>3. \/ Resolved(x, v) = Shown(z, "automatic_device", "ambiguous_device_mapping")
      \/ Resolved(x, v) = Shown(z, "automatic_device", "downstream_device_not_found")
      \/ Resolved(x, v) = Waiting(z, "automatic_device", "check")
  BY DEF Resolved, z
<1>4. CASE Resolved(x, v) = Waiting(z, "automatic_device", "check")
  BY <1>1, <1>4, WaitingTyped
<1> QED
  BY <1>1, <1>2, <1>3, <1>4, ShownTyped

LEMMA OfferingTyped ==
    ASSUME NEW x \in Fields, x.model \in Mapped, NEW v \in Versions
    PROVE  LET y == Offering(x, v)
           IN  /\ Typed(y) /\ y.page # "entry" /\ ~Reading(y)
               /\ y.route = x.route /\ y.dropped = x.dropped /\ y.config = v
<1> DEFINE new == Listed(v) \ Added(x.route)
           z == [x EXCEPT !.offered = new, !.config = v]
           w == [z EXCEPT !.offered = {}]
<1>1. new \subseteq Addresses
  BY DEF Listed
<1> HIDE DEF new
<1>2. /\ z \in Fields /\ z.offered = new /\ z.model = x.model
      /\ z.route = x.route /\ z.dropped = x.dropped /\ z.config = v
  BY <1>1 DEF Fields
<1> HIDE DEF z
<1>3. /\ w \in Fields /\ w.offered = {} /\ w.model = x.model
      /\ w.route = x.route /\ w.dropped = x.dropped
  BY <1>2 DEF Fields
<1> HIDE DEF w
<1>4. /\ {"none", "no_discovered_devices", "invalid_dynamic_address",
          "gateway_unavailable"} \subseteq Errors
      /\ {"automatic_device", "discovered_device"} \subseteq Pages \ {"user", "entry"}
  BY DEF Errors, Pages
<1>5. \/ \E p \in {"automatic_device", "discovered_device"},
            e \in {"none", "no_discovered_devices", "invalid_dynamic_address",
                   "gateway_unavailable"} : Offering(x, v) = Shown(z, p, e)
      \/ Offering(x, v) = Resolved(w, v)
  BY DEF Offering, z, w, new
<1>6. CASE Offering(x, v) = Resolved(w, v)
  BY <1>3, <1>6, ResolvedTyped
<1>7. ASSUME NEW p \in {"automatic_device", "discovered_device"},
             NEW e \in {"none", "no_discovered_devices", "invalid_dynamic_address",
                        "gateway_unavailable"}, Offering(x, v) = Shown(z, p, e)
      PROVE  LET y == Offering(x, v)
             IN  /\ Typed(y) /\ y.page # "entry" /\ ~Reading(y)
                 /\ y.route = x.route /\ y.dropped = x.dropped /\ y.config = v
  BY <1>1, <1>2, <1>4, <1>7, ShownTyped
<1> QED
  BY <1>5, <1>6, <1>7

LEMMA ContinuedTyped ==
    ASSUME NEW x \in Fields, x.offered \subseteq Addresses, x.model \in Mapped, NEW v \in Versions
    PROVE  LET y == Continued(x, v)
           IN  /\ Typed(y) /\ y.page # "entry" /\ ~Reading(y)
               /\ y.route = x.route /\ y.dropped = x.dropped /\ y.config = v
  BY ResolvedTyped, OfferingTyped DEF Continued

(* A flow that needs the table.                                            *)
LEMMA LoadLoads ==
    ASSUME Types, NEW f \in Flows, NEW x \in Fields, Load(f, x),
           Reading(x), x.page \in {"discovered_device", "automatic_device"},
           x.offered \subseteq Addresses, x.model \in Mapped,
           x.route = flow[f].route, x.dropped = flow[f].dropped
    PROVE  Loaded(f)
<1> DEFINE known == Invalidated(x)[x.route]
           y == Refreshed(f, x)
           begun == [y EXCEPT !.config = table]
<1>1. /\ cache' = Invalidated(x) /\ UNCHANGED <<gateway, table>>
      /\ flow' = [flow EXCEPT ![f] = IF known = Unread THEN begun ELSE Continued(y, known)]
  BY DEF Load
<1>2. /\ y \in Fields /\ y.offered = x.offered /\ y.model = x.model
      /\ y.route = x.route /\ y.page = x.page /\ y.busy = x.busy
      /\ x.fresh => y.dropped = x.dropped
      /\ ~x.fresh => \/ y.dropped = 0
                     \/ /\ y.dropped = table
                        /\ \A g \in Flows \ {f} : Reading(flow[g]) => flow[g].route # x.route
  <2>1. CASE x.fresh
    BY <2>1 DEF Refreshed
  <2>2. CASE ~x.fresh
    <3>1. PICK d \in {0, table} :
              /\ y = [x EXCEPT !.fresh = TRUE, !.dropped = d]
              /\ \/ d = 0
                 \/ /\ d = table
                    /\ \A g \in Flows \ {f} : Reading(flow[g]) => flow[g].route # x.route
      BY <2>2 DEF Refreshed
    <3>2. d \in Versions
      BY <3>1, Numbers DEF Types
    <3>3. /\ y \in Fields /\ y.offered = x.offered /\ y.model = x.model
          /\ y.route = x.route /\ y.page = x.page /\ y.busy = x.busy /\ y.dropped = d
      BY <3>1, <3>2 DEF Fields
    <3> HIDE DEF y
    <3> QED
      BY <2>2, <3>1, <3>3
  <2> QED
    BY <2>1, <2>2
<1>3. /\ x.fresh => cache' = cache /\ known = cache[x.route]
      /\ ~x.fresh => cache' = [cache EXCEPT ![x.route] = Unread] /\ known = Unread
  BY <1>1 DEF Invalidated, Types, Fields
<1> HIDE DEF y, known
<1>4. /\ begun \in Fields /\ begun.offered = y.offered /\ begun.model = y.model
      /\ begun.route = y.route /\ begun.page = y.page /\ begun.busy = y.busy
      /\ begun.dropped = y.dropped /\ begun.config = table
  BY <1>2 DEF Fields, Types
<1> HIDE DEF begun
<1>5. CASE known = Unread
  <2>1. Typed(begun) /\ begun.page # "entry"
    <3>1. table \in Versions /\ Reading(begun)
      BY <1>2, <1>4 DEF Reading, Types
    <3>2. begun.busy # "connect" /\ begun.busy # "check"
      BY <3>1 DEF Reading
    <3>3. /\ begun.page \in {"discovered_device", "automatic_device"}
          /\ begun.offered \subseteq Addresses /\ begun.model \in Mapped
      BY <1>2, <1>4
    <3> QED
      BY <1>4, <3>1, <3>2, <3>3 DEF Typed, WellFormed
  <2>2. Changes(f, begun)
    BY <1>1, <1>5, <2>1 DEF Changes
  <2>3. table # Unread
    BY Numbers DEF Types
  <2> QED
    BY <1>2, <1>3, <1>4, <2>1, <2>2, <2>3 DEF Loaded
<1>6. CASE known # Unread
  <2>1. known \in Versions /\ x.fresh
    BY <1>3, <1>6 DEF Types, Fields
  <2> DEFINE z == Continued(y, known)
  <2>2. /\ Typed(z) /\ z.page # "entry"
        /\ z.route = y.route /\ z.dropped = y.dropped /\ z.config = known
    BY <1>2, <2>1, ContinuedTyped
  <2> HIDE DEF z
  <2>3. Changes(f, z)
    BY <1>1, <1>6, <2>2 DEF Changes, z
  <2> QED
    BY <1>2, <1>3, <1>6, <2>1, <2>2, <2>3 DEF Loaded
<1> QED
  BY <1>5, <1>6


-----------------------------------------------------------------------------
(* The forms, each shown after the other.                                  *)
LEMMA ShownMoves ==
    ASSUME Types, NEW f \in Flows, NEW x \in Fields,
           NEW p \in Pages \ {"user", "entry"}, NEW e \in Errors,
           Becomes(f, Shown(x, p, e)),
           x.offered \subseteq Addresses, p \in GatewayPages => x.model \in Mapped,
           \/ x.route = flow[f].route /\ x.dropped = flow[f].dropped
              /\ x.config \in {flow[f].config, Unread}
           \/ x.dropped = 0 /\ x.config = Unread
    PROVE  Moved(f)
<1> DEFINE y == Shown(x, p, e)
<1>1. /\ Typed(y) /\ y.page = p /\ ~Reading(y)
      /\ y.route = x.route /\ y.dropped = x.dropped /\ y.config = x.config
  BY ShownTyped
<1>2. Changes(f, y) /\ Dropping
  BY <1>1 DEF Becomes, Changes, Dropping
<1> HIDE DEF y
<1> QED
  BY <1>1, <1>2 DEF Moved

LEMMA WaitingMoves ==
    ASSUME Types, NEW f \in Flows, NEW x \in Fields, NEW p, NEW b,
           Becomes(f, Waiting(x, p, b)),
           \/ b = "connect" /\ p \in {"connection", "automatic_device"}
           \/ b = "check" /\ p \in {"manual_capability", "automatic_device"},
           x.offered \subseteq Addresses, p \in GatewayPages => x.model \in Mapped,
           x.route = flow[f].route, x.dropped = flow[f].dropped, x.config = flow[f].config
    PROVE  Moved(f)
<1> DEFINE y == Waiting(x, p, b)
<1>1. /\ Typed(y) /\ y.page # "entry" /\ ~Reading(y)
      /\ y.route = x.route /\ y.dropped = x.dropped /\ y.config = x.config
  BY WaitingTyped
<1>2. Changes(f, y) /\ Dropping
  BY <1>1 DEF Becomes, Changes, Dropping
<1> HIDE DEF y
<1> QED
  BY <1>1, <1>2 DEF Moved

LEMMA BlankMoves ==
    ASSUME Types, NEW f \in Flows, Becomes(f, Blank)
    PROVE  Moved(f)
<1>1. Blank.dropped = 0 /\ Blank.config = Unread
  BY DEF Blank
<1>2. Changes(f, Blank) /\ Dropping
  BY BlankTyped DEF Becomes, Changes, Dropping
<1> HIDE DEF Blank
<1> QED
  BY <1>1, <1>2, BlankTyped DEF Moved

(* The forms up to the connection, and those about the gateway.            *)
LEMMA FirstFormsMove ==
    ASSUME Types, NEW f \in Flows,
           \/ Open(f) \/ User(f) \/ Category(f) \/ ExistingGateway(f) \/ Manufacturer(f)
           \/ Device(f) \/ IoMapping(f) \/ SubdeviceAddress(f) \/ Connection(f)
           \/ ConnectFails(f)
    PROVE  Moved(f)
<1> DEFINE x == flow[f]
<1>1. x \in Fields /\ WellFormed(x)
  BY DEF Types, Typed
<1>2. {"none", "invalid_io_mapping", "cannot_connect"} \subseteq Errors
  BY DEF Errors
<1>3. {"category", "existing_gateway", "gateway_child_model", "manufacturer", "device",
       "io_mapping", "subdevice_address", "connection"} \subseteq Pages \ {"user", "entry"}
  BY DEF Pages
<1>4. {"category", "existing_gateway", "gateway_child_model", "manufacturer", "device",
       "io_mapping", "subdevice_address", "connection"} \cap GatewayPages = {}
  BY DEF GatewayPages
<1>5. ASSUME NEW p \in {"category", "existing_gateway", "gateway_child_model", "manufacturer",
                        "device", "io_mapping", "subdevice_address", "connection"},
             NEW e \in {"none", "invalid_io_mapping", "cannot_connect"},
             NEW z \in Fields, z.offered \subseteq Addresses,
             z.route = x.route, z.dropped = x.dropped, z.config = x.config,
             Becomes(f, Shown(z, p, e))
      PROVE  Moved(f)
  BY <1>2, <1>3, <1>4, <1>5, ShownMoves
<1>6. x.page # "user" => x.offered \subseteq Addresses
  BY <1>1 DEF WellFormed
<1>7. CASE Open(f)
  <2> DEFINE routes == {"direct"} \cup (IF Usable THEN {"gateway"} ELSE {})
             z == [Blank EXCEPT !.offered = routes]
             y == Shown(z, "user", "none")
  <2>1. Blank \in Fields
    BY BlankTyped DEF Typed
  <2>2. /\ y \in Fields /\ y.page = "user" /\ y.busy = "no" /\ y.offered = routes
        /\ y.dropped = 0 /\ y.config = Unread
    BY <2>1, <1>2 DEF Shown, Blank, Fields, Pages, Routes
  <2>3. routes \subseteq Routes
    BY DEF Routes
  <2> HIDE DEF y, routes
  <2>4. Typed(y) /\ ~Reading(y)
    BY <2>2, <2>3 DEF Typed, WellFormed, Reading, GatewayPages
  <2>5. Becomes(f, y)
    BY <1>7 DEF Open, y, routes
  <2> QED
    BY <2>2, <2>4, <2>5 DEF Moved, Changes, Becomes, Dropping
<1>8. CASE User(f)
  <2>1. PICK r \in x.offered :
            Becomes(f, Shown([x EXCEPT !.route = r, !.offered = {}], "category", "none"))
    BY <1>8 DEF User
  <2>2. x.page = "user"
    BY <1>8 DEF User, At
  <2>3. r \in Routes /\ x.dropped = 0 /\ x.config = Unread
    BY <1>1, <2>1, <2>2 DEF WellFormed
  <2> DEFINE z == [x EXCEPT !.route = r, !.offered = {}]
  <2>4. z \in Fields /\ z.offered = {} /\ z.dropped = 0 /\ z.config = Unread
    BY <1>1, <2>3 DEF Fields
  <2> HIDE DEF z, x
  <2> QED
    BY <1>2, <1>3, <1>4, <2>1, <2>4, ShownMoves DEF z
<1>9. CASE Category(f) \/ ExistingGateway(f)
  <2>1. /\ x.page # "user"
        /\ \/ Becomes(f, Blank)
           \/ Becomes(f, Shown(x, "existing_gateway", "none"))
           \/ Becomes(f, Shown(x, "manufacturer", "none"))
           \/ Becomes(f, Shown(x, "gateway_child_model", "none"))
    BY <1>9 DEF Category, ExistingGateway, ExistingGatewayForm, At
  <2> QED
    BY <1>1, <1>5, <1>6, <2>1, BlankMoves
<1>10. CASE Manufacturer(f) \/ IoMapping(f)
  <2>1. /\ x.page # "user"
        /\ \/ Becomes(f, Shown(x, "device", "none"))
           \/ Becomes(f, Shown(x, "connection", "none"))
           \/ Becomes(f, Shown(x, "io_mapping", "invalid_io_mapping"))
    BY <1>10 DEF Manufacturer, IoMapping, At
  <2> QED
    BY <1>1, <1>5, <1>6, <2>1
<1>11. CASE Device(f)
  <2>1. x.page = "device"
    BY <1>11 DEF Device, At
  <2>2. PICK e \in Equipment, p \in {"io_mapping", "subdevice_address", "connection"} :
            Becomes(f, Shown([x EXCEPT !.model = e], p, "none"))
    BY <1>11 DEF Device
  <2> DEFINE z == [x EXCEPT !.model = e]
  <2>3. /\ z \in Fields /\ z.offered = x.offered
        /\ z.route = x.route /\ z.dropped = x.dropped /\ z.config = x.config
    BY <1>1 DEF Fields
  <2>4. Becomes(f, Shown(z, p, "none"))
    BY <2>2
  <2> HIDE DEF z
  <2> QED
    BY <1>5, <1>6, <2>1, <2>3, <2>4
<1>12. CASE SubdeviceAddress(f)
  <2>1. x.page = "subdevice_address"
    BY <1>12 DEF SubdeviceAddress, At
  <2>2. PICK a \in Addresses : Becomes(f, Shown([x EXCEPT !.address = a], "connection", "none"))
    BY <1>12 DEF SubdeviceAddress
  <2> DEFINE z == [x EXCEPT !.address = a]
  <2>3. /\ z \in Fields /\ z.offered = x.offered
        /\ z.route = x.route /\ z.dropped = x.dropped /\ z.config = x.config
    BY <1>1 DEF Fields
  <2>4. Becomes(f, Shown(z, "connection", "none"))
    BY <2>2
  <2> HIDE DEF z
  <2> QED
    BY <1>5, <1>6, <2>1, <2>3, <2>4
<1>13. CASE Connection(f)
  <2>1. x.page = "connection" /\ Becomes(f, Waiting(x, "connection", "connect"))
    BY <1>13 DEF Connection, At
  <2> QED
    BY <1>1, <1>4, <1>6, <2>1, WaitingMoves
<1>14. CASE ConnectFails(f)
  <2>1. x.page \in {"connection", "automatic_device"}
        /\ Becomes(f, Shown(x, x.page, "cannot_connect"))
    BY <1>1, <1>14 DEF ConnectFails, WellFormed
  <2>2. x.page \in GatewayPages => x.model \in Mapped
    BY <1>1 DEF WellFormed
  <2>3. x.page \in Pages \ {"user", "entry"}
    BY <2>1 DEF Pages
  <2> QED
    BY <1>1, <1>2, <1>6, <2>1, <2>2, <2>3, ShownMoves
<1> QED
  BY <1>7, <1>8, <1>9, <1>10, <1>11, <1>12, <1>13, <1>14


LEMMA GatewayFormMoves ==
    ASSUME Types, NEW f \in Flows, NEW x \in Fields, NEW p \in GatewayPages, NEW e \in Errors,
           Becomes(f, Shown(x, p, e)), x.offered \subseteq Addresses, x.model \in Mapped,
           x.route = flow[f].route, x.dropped = flow[f].dropped,
           x.config \in {flow[f].config, Unread}
    PROVE  Moved(f)
<1>1. p \in Pages \ {"user", "entry"}
  BY DEF GatewayPages, Pages
<1> QED
  BY <1>1, ShownMoves

LEMMA GatewayDeviceFormMoves ==
    ASSUME Types, NEW f \in Flows, NEW x \in Fields, Becomes(f, GatewayDeviceForm(x)),
           x.offered \subseteq Addresses, x.model \in Mapped,
           x.route = flow[f].route, x.dropped = flow[f].dropped, x.config = flow[f].config
    PROVE  Moved(f)
<1>1. {"none", "unsupported_gateway_transport"} \subseteq Errors
      /\ {"gateway_device", "mapping_source"} \subseteq GatewayPages
  BY DEF Errors, GatewayPages
<1>2. \/ GatewayDeviceForm(x) = Shown(x, "gateway_device", "unsupported_gateway_transport")
      \/ GatewayDeviceForm(x) = Shown(x, "gateway_device", "none")
      \/ GatewayDeviceForm(x) = Shown(x, "mapping_source", "none")
  BY DEF GatewayDeviceForm
<1> QED
  BY <1>1, <1>2, GatewayFormMoves

LEMMA RefusedTyped ==
    ASSUME NEW x \in Fields, x.offered \subseteq Addresses, x.model \in Mapped
    PROVE  LET y == Refused(x)
           IN  /\ Typed(y) /\ y.page # "entry" /\ ~Reading(y)
               /\ \/ y.route = x.route /\ y.dropped = x.dropped /\ y.config = x.config
                  \/ y.dropped = 0 /\ y.config = Unread
<1>1. CASE Refused(x) = Shown([x EXCEPT !.refused = TRUE], "manual_capability", "none")
  <2> DEFINE z == [x EXCEPT !.refused = TRUE]
  <2>1. /\ z \in Fields /\ z.offered = x.offered /\ z.model = x.model
        /\ z.route = x.route /\ z.dropped = x.dropped /\ z.config = x.config
    BY DEF Fields
  <2>2. Refused(x) = Shown(z, "manual_capability", "none")
    BY <1>1
  <2>3. "manual_capability" \in Pages \ {"user", "entry"} /\ "none" \in Errors
    BY DEF Pages, Errors
  <2> HIDE DEF z
  <2> QED
    BY <2>1, <2>2, <2>3, ShownTyped
<1>2. CASE Refused(x) = [Blank EXCEPT !.page = "crashed", !.refused = TRUE]
  <2> DEFINE z == [Blank EXCEPT !.page = "crashed", !.refused = TRUE]
  <2>1. Blank \in Fields
    BY BlankTyped DEF Typed
  <2>2. /\ z \in Fields /\ z.offered = {} /\ z.dropped = 0 /\ z.config = Unread
        /\ z.page = "crashed" /\ z.busy = "no"
    BY <2>1 DEF Fields, Blank, Pages
  <2>3. Refused(x) = z
    BY <1>2
  <2> HIDE DEF z
  <2>4. Typed(z) /\ ~Reading(z)
    BY <2>2 DEF Typed, WellFormed, Reading, GatewayPages
  <2> QED
    BY <2>2, <2>3, <2>4
<1> QED
  BY <1>1, <1>2 DEF Refused

LEMMA RejectedMoves ==
    ASSUME Types, NEW f \in Flows, NEW x \in Fields,
           x.offered \subseteq Addresses, x.model \in Mapped,
           x.route = flow[f].route, x.dropped = flow[f].dropped, x.config = flow[f].config,
           NEW y \in {Refused(x), Rejected(x)}, flow' = [flow EXCEPT ![f] = y],
           UNCHANGED <<gateway, table>>, Dropping
    PROVE  Moved(f)
<1>1. /\ Typed(y) /\ y.page # "entry" /\ ~Reading(y)
      /\ \/ y.route = x.route /\ y.dropped = x.dropped /\ y.config = x.config
         \/ y.dropped = 0 /\ y.config = Unread
  <2>1. {"automatic_device"} \subseteq Pages \ {"user", "entry"}
        /\ "invalid_equipment_mapping" \in Errors
    BY DEF Pages, Errors
  <2>2. CASE y = Refused(x)
    BY <2>2, RefusedTyped
  <2>3. CASE y = Shown(x, "automatic_device", "invalid_equipment_mapping")
    BY <2>1, <2>3, ShownTyped
  <2> QED
    BY <2>2, <2>3 DEF Rejected
<1>2. Changes(f, y)
  BY <1>1 DEF Changes
<1> QED
  BY <1>1, <1>2 DEF Moved

LEMMA GatewayFormsMove ==
    ASSUME Types, NEW f \in Flows,
           \/ GatewayChildModel(f) \/ GatewayContext(f) \/ GatewayNew(f) \/ GatewayDevice(f)
           \/ ManualDevice(f) \/ ReadFails(f) \/ Close(f) \/ Remove(f)
    PROVE  Moved(f)
<1> DEFINE x == flow[f]
<1>1. x \in Fields /\ WellFormed(x)
  BY DEF Types, Typed
<1>2. x.page # "user" => x.offered \subseteq Addresses
  BY <1>1 DEF WellFormed
<1>3. x.page \in GatewayPages => x.page # "user" /\ x.model \in Mapped
  BY <1>1 DEF WellFormed, GatewayPages
<1>4. {"none", "invalid_gateway", "unsupported_variant", "invalid_mapping",
       "cannot_read_gateway_configuration"} \subseteq Errors
  BY DEF Errors
<1>5. CASE GatewayChildModel(f)
  <2>1. x.page = "gateway_child_model"
    BY <1>5 DEF GatewayChildModel, At
  <2>2. PICK e \in Mapped : Becomes(f, GatewayDeviceForm([x EXCEPT !.model = e]))
    BY <1>5 DEF GatewayChildModel
  <2> DEFINE z == [x EXCEPT !.model = e]
  <2>3. /\ z \in Fields /\ z.offered = x.offered /\ z.model = e
        /\ z.route = x.route /\ z.dropped = x.dropped /\ z.config = x.config
    BY <1>1, Numbers DEF Fields
  <2>4. Becomes(f, GatewayDeviceForm(z))
    BY <2>2
  <2> HIDE DEF z
  <2> QED
    BY <1>2, <2>1, <2>3, <2>4, GatewayDeviceFormMoves
<1>6. CASE GatewayContext(f) \/ GatewayNew(f)
  <2>1. x.page \in GatewayPages
    BY <1>6 DEF GatewayContext, GatewayNew, At, GatewayPages
  <2>2. \/ Becomes(f, GatewayDeviceForm(x))
        \/ Becomes(f, Shown(x, "gateway_new", "none"))
        \/ Becomes(f, Shown(x, "gateway_new", "invalid_gateway"))
    BY <1>6 DEF GatewayContext, GatewayNew
  <2>3. "gateway_new" \in GatewayPages
    BY DEF GatewayPages
  <2> QED
    BY <1>1, <1>2, <1>3, <1>4, <2>1, <2>2, <2>3, GatewayDeviceFormMoves, GatewayFormMoves
<1>7. CASE GatewayDevice(f)
  <2>1. x.page \in GatewayPages /\ x.model \in ByDpls
    BY <1>7 DEF GatewayDevice, At, GatewayPages
  <2>2. {"gateway_device", "mapping_source"} \subseteq GatewayPages
    BY DEF GatewayPages
  <2>3. CASE Becomes(f, Shown(x, "gateway_device", "unsupported_variant"))
    BY <1>1, <1>2, <1>3, <1>4, <2>1, <2>2, <2>3, GatewayFormMoves
  <2>4. ASSUME NEW a \in Addresses, NEW claim \in Claims(x.model), Fits(claim),
               Becomes(f, Shown([[x EXCEPT !.address = a] EXCEPT !.claim = claim],
                                "mapping_source", "none"))
        PROVE  Moved(f)
    <3>1. claim \in FittingClaims
      <4>1. Counts[x.model] \subseteq Nat \ {0} /\ Bases \subseteq Nat \ {0}
        BY <2>1, FlowAssumption
      <4> QED
        BY <2>4, <4>1, Numbers DEF FittingClaims, Claims, Fits
    <3> DEFINE z == [[x EXCEPT !.address = a] EXCEPT !.claim = claim]
    <3>2. /\ z \in Fields /\ z.offered = x.offered /\ z.model = x.model
          /\ z.route = x.route /\ z.dropped = x.dropped /\ z.config = x.config
      BY <1>1, <3>1 DEF Fields
    <3>3. Becomes(f, Shown(z, "mapping_source", "none"))
      BY <2>4
    <3> HIDE DEF z
    <3> QED
      BY <1>2, <1>3, <1>4, <2>1, <2>2, <3>2, <3>3, GatewayFormMoves
  <2>5. ASSUME NEW a \in Addresses,
               Becomes(f, Shown([x EXCEPT !.address = a], "gateway_device", "invalid_mapping"))
        PROVE  Moved(f)
    <3> DEFINE z == [x EXCEPT !.address = a]
    <3>1. /\ z \in Fields /\ z.offered = x.offered /\ z.model = x.model
          /\ z.route = x.route /\ z.dropped = x.dropped /\ z.config = x.config
      BY <1>1 DEF Fields
    <3>2. Becomes(f, Shown(z, "gateway_device", "invalid_mapping"))
      BY <2>5
    <3> HIDE DEF z
    <3> QED
      BY <1>2, <1>3, <1>4, <2>1, <2>2, <3>1, <3>2, GatewayFormMoves
  <2> QED
    BY <1>7, <2>3, <2>4, <2>5 DEF GatewayDevice
<1>8. CASE ManualDevice(f)
  <2>1. x.page \in GatewayPages
    BY <1>8 DEF ManualDevice, At, GatewayPages
  <2>2. PICK a \in Addresses :
            Becomes(f, Shown([x EXCEPT !.address = a], "manual_capability", "none"))
    BY <1>8 DEF ManualDevice
  <2> DEFINE z == [x EXCEPT !.address = a]
  <2>3. /\ z \in Fields /\ z.offered = x.offered /\ z.model = x.model
        /\ z.route = x.route /\ z.dropped = x.dropped /\ z.config = x.config
    BY <1>1 DEF Fields
  <2>4. Becomes(f, Shown(z, "manual_capability", "none")) /\ "manual_capability" \in GatewayPages
    BY <2>2 DEF GatewayPages
  <2> HIDE DEF z
  <2> QED
    BY <1>2, <1>3, <1>4, <2>1, <2>3, <2>4, GatewayFormMoves
<1>9. CASE ReadFails(f)
  <2>1. x.page \in GatewayPages
    BY <1>1, <1>9 DEF ReadFails, WellFormed, GatewayPages
  <2> DEFINE z == [x EXCEPT !.config = Unread]
  <2>2. /\ z \in Fields /\ z.offered = x.offered /\ z.model = x.model
        /\ z.route = x.route /\ z.dropped = x.dropped /\ z.config = Unread
    BY <1>1 DEF Fields
  <2>3. Becomes(f, Shown(z, x.page, "cannot_read_gateway_configuration"))
    BY <1>9 DEF ReadFails
  <2> HIDE DEF z
  <2> QED
    BY <1>2, <1>3, <1>4, <2>1, <2>2, <2>3, GatewayFormMoves
<1>10. CASE Close(f) \/ Remove(f)
  BY <1>10, BlankMoves DEF Close, Remove
<1> QED
  BY <1>5, <1>6, <1>7, <1>8, <1>9, <1>10

LEMMA ManualCapabilityMoves ==
    ASSUME Types, NEW f \in Flows, ManualCapability(f)
    PROVE  Moved(f)
<1> DEFINE x == [flow[f] EXCEPT !.refused = FALSE]
<1>1. flow[f] \in Fields /\ WellFormed(flow[f])
  BY DEF Types, Typed
<1>2. flow[f].page = "manual_capability"
  BY DEF ManualCapability, At
<1>3. /\ x \in Fields /\ x.offered = flow[f].offered /\ x.model = flow[f].model
      /\ x.route = flow[f].route /\ x.dropped = flow[f].dropped /\ x.config = flow[f].config
      /\ x.objects = flow[f].objects
  BY <1>1 DEF Fields
<1>4. flow[f].offered \subseteq Addresses /\ flow[f].model \in Mapped
  BY <1>1, <1>2 DEF WellFormed, GatewayPages
<1>5. "manual_capability" \in GatewayPages /\ {"none", "invalid_mapping"} \subseteq Errors
  BY DEF GatewayPages, Errors
<1>6. \/ Becomes(f, Shown(x, "manual_capability", "invalid_mapping"))
      \/ \E c \in Available(x), row \in Rows, more \in BOOLEAN :
            LET objects == [d \in DOMAIN x.objects \cup {c} |->
                                IF d = c THEN row ELSE x.objects[d]]
                y == [x EXCEPT !.objects = objects]
                another == Available(y) \cap Required # {} \/ more
            IN  Becomes(f, IF another /\ Available(y) # {}
                           THEN Shown(y, "manual_capability", "none")
                           ELSE Finished(y))
  BY DEF ManualCapability
<1> HIDE DEF x
<1>7. CASE Becomes(f, Shown(x, "manual_capability", "invalid_mapping"))
  BY <1>3, <1>4, <1>5, <1>7, GatewayFormMoves
<1>8. ASSUME NEW c \in Available(x), NEW row \in Rows, NEW more \in BOOLEAN,
             LET objects == [d \in DOMAIN x.objects \cup {c} |->
                                 IF d = c THEN row ELSE x.objects[d]]
                 y == [x EXCEPT !.objects = objects]
                 another == Available(y) \cap Required # {} \/ more
             IN  Becomes(f, IF another /\ Available(y) # {}
                            THEN Shown(y, "manual_capability", "none")
                            ELSE Finished(y))
      PROVE  Moved(f)
  <2> DEFINE objects == [d \in DOMAIN x.objects \cup {c} |->
                             IF d = c THEN row ELSE x.objects[d]]
             y == [x EXCEPT !.objects = objects]
  <2>1. objects \in UNION {[S -> Rows] : S \in SUBSET AllCapabilities}
    <3>1. PICK S \in SUBSET AllCapabilities : x.objects \in [S -> Rows]
      BY <1>3 DEF Fields
    <3>2. c \in AllCapabilities
      BY <1>3, <1>4 DEF Available, AllCapabilities
    <3>3. objects \in [S \cup {c} -> Rows]
      BY <3>1
    <3>4. S \cup {c} \in SUBSET AllCapabilities
      BY <3>1, <3>2
    <3> HIDE DEF objects
    <3> QED
      BY <3>3, <3>4
  <2> HIDE DEF objects
  <2>2. /\ y \in Fields /\ y.offered = x.offered /\ y.model = x.model
        /\ y.route = x.route /\ y.dropped = x.dropped /\ y.config = x.config
    BY <1>3, <2>1 DEF Fields
  <2>3. \/ Becomes(f, Shown(y, "manual_capability", "none"))
        \/ Becomes(f, Finished(y))
    BY <1>8 DEF objects
  <2> HIDE DEF y
  <2>4. \/ Becomes(f, Shown(y, "manual_capability", "none"))
        \/ Becomes(f, Refused(y))
        \/ Becomes(f, Waiting(y, "manual_capability", "check"))
    BY <2>3 DEF Finished
  <2>5. CASE Becomes(f, Shown(y, "manual_capability", "none"))
    BY <1>3, <1>4, <1>5, <2>2, <2>5, GatewayFormMoves
  <2>6. CASE Becomes(f, Refused(y))
    BY <1>3, <1>4, <2>2, <2>6, RejectedMoves DEF Becomes, Dropping
  <2>7. CASE Becomes(f, Waiting(y, "manual_capability", "check"))
    BY <1>3, <1>4, <2>2, <2>7, WaitingMoves
  <2> QED
    BY <2>4, <2>5, <2>6, <2>7
<1> QED
  BY <1>6, <1>7, <1>8


-----------------------------------------------------------------------------
(* The table.                                                              *)
LEMMA WaitingLoads ==
    ASSUME Types, NEW f \in Flows, NEW x \in Fields,
           NEW p \in {"discovered_device", "automatic_device"},
           NEW b \in {"list", "select", "resolve"}, Load(f, Waiting(x, p, b)),
           x.offered \subseteq Addresses, x.model \in Mapped,
           x.route = flow[f].route, x.dropped = flow[f].dropped
    PROVE  Loaded(f)
<1> DEFINE y == Waiting(x, p, b)
<1>1. /\ y \in Fields /\ y.page = p /\ y.busy = b
      /\ y.offered = x.offered /\ y.model = x.model
      /\ y.route = x.route /\ y.dropped = x.dropped
  BY WaitingFields DEF Pages
<1>2. Load(f, y)
  OBVIOUS
<1> HIDE DEF y
<1>3. Reading(y)
  BY <1>1 DEF Reading
<1> QED
  BY <1>1, <1>2, <1>3, LoadLoads

LEMMA DiscoverMoves ==
    ASSUME Types, NEW f \in Flows, NEW b \in {"list", "select"}, NEW a \in Addresses \cup {0},
           Discover(f, b, a), flow[f].page \in GatewayPages
    PROVE  Moved(f) \/ Loaded(f)
<1> DEFINE x == [flow[f] EXCEPT !.address = a]
<1>1. flow[f] \in Fields /\ WellFormed(flow[f])
  BY DEF Types, Typed
<1>2. flow[f].offered \subseteq Addresses /\ flow[f].model \in Mapped
  BY <1>1 DEF WellFormed, GatewayPages
<1>3. /\ x \in Fields /\ x.offered = flow[f].offered /\ x.model = flow[f].model
      /\ x.route = flow[f].route /\ x.dropped = flow[f].dropped /\ x.config = flow[f].config
  BY <1>1 DEF Fields
<1>4. \/ Load(f, Waiting(x, "discovered_device", b))
      \/ Becomes(f, Shown(x, "discovered_device", "gateway_unavailable"))
  BY DEF Discover
<1> HIDE DEF x
<1>5. "discovered_device" \in GatewayPages /\ "gateway_unavailable" \in Errors
  BY DEF GatewayPages, Errors
<1> QED
  BY <1>2, <1>3, <1>4, <1>5, WaitingLoads, GatewayFormMoves

LEMMA AutomaticMoves ==
    ASSUME Types, NEW f \in Flows, NEW x \in Fields, Automatic(f, x),
           x.offered \subseteq Addresses, x.model \in Mapped,
           x.route = flow[f].route, x.dropped = flow[f].dropped, x.config = flow[f].config
    PROVE  Moved(f) \/ Loaded(f)
<1>1. \/ Becomes(f, Waiting(x, "automatic_device", "connect"))
      \/ Load(f, Waiting(x, "automatic_device", "resolve"))
      \/ Becomes(f, Shown(x, "automatic_device", "gateway_unavailable"))
  BY DEF Automatic
<1>2. "automatic_device" \in GatewayPages /\ "gateway_unavailable" \in Errors
  BY DEF GatewayPages, Errors
<1> QED
  BY <1>1, <1>2, WaitingMoves, WaitingLoads, GatewayFormMoves

LEMMA TableFormsMove ==
    ASSUME Types, NEW f \in Flows,
           \/ MappingSource(f) \/ DiscoveredDevice(f) \/ AutomaticDevice(f)
           \/ AutomaticConnected(f)
    PROVE  Moved(f) \/ Loaded(f)
<1> DEFINE x == flow[f]
<1>1. x \in Fields /\ WellFormed(x)
  BY DEF Types, Typed
<1>2. x.page \in GatewayPages
  BY DEF MappingSource, DiscoveredDevice, AutomaticDevice, AutomaticConnected, At, GatewayPages
<1>3. x.offered \subseteq Addresses /\ x.model \in Mapped
  BY <1>1, <1>2 DEF WellFormed, GatewayPages
<1>4. CASE MappingSource(f)
  <2>1. \/ Becomes(f, Shown(x, "manual_capability", "none"))
        \/ Becomes(f, Shown(x, "manual_device", "none"))
        \/ Discover(f, "list", x.address)
        \/ Automatic(f, x)
        \/ Becomes(f, Shown(x, "automatic_device", "none"))
    BY <1>4 DEF MappingSource
  <2>2. {"manual_capability", "manual_device", "automatic_device"} \subseteq GatewayPages
        /\ "none" \in Errors /\ x.address \in Addresses \cup {0}
    BY <1>1 DEF GatewayPages, Errors, Fields
  <2> QED
    BY <1>1, <1>2, <1>3, <2>1, <2>2, GatewayFormMoves, DiscoverMoves, AutomaticMoves
<1>5. CASE DiscoveredDevice(f)
  BY <1>2, <1>3, <1>5, DiscoverMoves DEF DiscoveredDevice
<1>6. CASE AutomaticDevice(f)
  <2>1. PICK a \in Addresses : Automatic(f, [x EXCEPT !.address = a])
    BY <1>6 DEF AutomaticDevice
  <2> DEFINE z == [x EXCEPT !.address = a]
  <2>2. /\ z \in Fields /\ z.offered = x.offered /\ z.model = x.model
        /\ z.route = x.route /\ z.dropped = x.dropped /\ z.config = x.config
    BY <1>1 DEF Fields
  <2>3. Automatic(f, z)
    BY <2>1
  <2> HIDE DEF z
  <2> QED
    BY <1>3, <2>2, <2>3, AutomaticMoves
<1>7. CASE AutomaticConnected(f)
  BY <1>1, <1>3, <1>7, WaitingLoads DEF AutomaticConnected
<1> QED
  BY <1>4, <1>5, <1>6, <1>7

LEMMA ReadEndsEnds ==
    ASSUME Types, NEW f \in Flows, ReadEnds(f)
    PROVE  Ended(f)
<1>1. flow[f] \in Fields /\ WellFormed(flow[f]) /\ Reading(flow[f])
  BY DEF Types, Typed, ReadEnds
<1>2. flow[f].config \in Versions /\ flow[f].model \in Mapped /\ flow[f].offered \subseteq Addresses
  BY <1>1 DEF WellFormed, GatewayPages
<1>3. PICK v \in flow[f].config..table :
          /\ cache' = [cache EXCEPT ![flow[f].route] = v]
          /\ flow' = [flow EXCEPT ![f] = Continued(flow[f], v)]
          /\ UNCHANGED <<gateway, table>>
  BY DEF ReadEnds
<1>4. v \in Versions /\ v >= flow[f].config
  <2>1. table \in Versions /\ 0..table \subseteq Versions /\ table \in Nat
    BY FlowAssumption DEF Types
  <2>2. flow[f].config \in Nat
    BY <1>2, Numbers
  <2> QED
    BY <1>3, <2>1, <2>2
<1> DEFINE y == Continued(flow[f], v)
<1>5. /\ Typed(y) /\ y.page # "entry" /\ ~Reading(y)
      /\ y.route = flow[f].route /\ y.dropped = flow[f].dropped /\ y.config = v
  BY <1>1, <1>2, <1>4, ContinuedTyped
<1>6. Changes(f, y)
  BY <1>3, <1>5 DEF Changes
<1> HIDE DEF y
<1> QED
  BY <1>1, <1>3, <1>4, <1>5, <1>6 DEF Ended

-----------------------------------------------------------------------------
(* Entries.                                                                *)
LEMMA CreatedTyped ==
    ASSUME NEW x \in Fields
    PROVE  LET y == Created(x)
           IN  /\ Typed(y) /\ ~Reading(y) /\ y.dropped = 0 /\ y.config = Unread
               /\ \/ y.page # "entry"
                  \/ /\ y.page = "entry"
                     /\ \A g \in Flows : IsEntry(g) => Identity(flow[g]) # Identity(x)
                     /\ y.route = x.route /\ y.model = x.model
                     /\ y.address = x.address /\ y.claim = x.claim
<1>1. Blank.dropped = 0 /\ Blank.config = Unread
  BY DEF Blank
<1>2. CASE Created(x) = Blank
  <2> HIDE DEF Blank
  <2> QED
    BY <1>1, <1>2, BlankTyped
<1>3. CASE Created(x) # Blank
  <2> DEFINE y == [Blank EXCEPT !.page = "entry", !.route = x.route, !.model = x.model,
                                !.address = x.address, !.claim = x.claim]
  <2>1. Created(x) = y /\ \A g \in Flows : IsEntry(g) => Identity(flow[g]) # Identity(x)
    BY <1>3 DEF Created
  <2>2. /\ Blank \in Fields /\ Blank.busy = "no" /\ Blank.offered = {}
        /\ Blank.dropped = 0 /\ Blank.config = Unread
    BY BlankTyped DEF Typed, Blank
  <2> HIDE DEF Blank
  <2>3. /\ y \in Fields /\ y.page = "entry" /\ y.busy = "no" /\ y.offered = {}
        /\ y.dropped = 0 /\ y.config = Unread /\ y.route = x.route
        /\ y.model = x.model /\ y.address = x.address /\ y.claim = x.claim
    <3> DEFINE b == Blank
               p == [b EXCEPT !.page = "entry", !.route = x.route]
               q == [p EXCEPT !.model = x.model, !.address = x.address]
    <3>1. y = [q EXCEPT !.claim = x.claim]
      OBVIOUS
    <3>2. /\ b \in Fields /\ b.busy = "no" /\ b.offered = {}
          /\ b.dropped = 0 /\ b.config = Unread
      BY <2>2
    <3> HIDE DEF b
    <3>3. /\ p \in Fields /\ p.page = "entry" /\ p.route = x.route
          /\ p.busy = "no" /\ p.offered = {} /\ p.dropped = 0 /\ p.config = Unread
      BY <3>2 DEF Fields, Pages
    <3> HIDE DEF p
    <3>4. /\ q \in Fields /\ q.page = "entry" /\ q.route = x.route
          /\ q.model = x.model /\ q.address = x.address
          /\ q.busy = "no" /\ q.offered = {} /\ q.dropped = 0 /\ q.config = Unread
      BY <3>3 DEF Fields
    <3> HIDE DEF q, y
    <3> QED
      BY <3>1, <3>4 DEF Fields
  <2> HIDE DEF y
  <2>4. WellFormed(y) /\ ~Reading(y)
    BY <2>3 DEF WellFormed, Reading, GatewayPages
  <2> QED
    BY <2>1, <2>3, <2>4 DEF Typed
<1> QED
  BY <1>2, <1>3

LEMMA ConnectedEnters ==
    ASSUME Types, NEW f \in Flows, Connected(f)
    PROVE  Moved(f) \/ Entered(f)
<1>1. flow[f] \in Fields /\ WellFormed(flow[f]) /\ flow[f].page = "connection"
  BY DEF Types, Typed, Connected
<1>2. flow[f].offered \subseteq Addresses
  BY <1>1 DEF WellFormed
<1>3. CASE flow[f].model \in Mapped
  <2>1. Becomes(f, Shown(flow[f], "gateway_context", "none"))
    BY <1>3 DEF Connected
  <2>2. "gateway_context" \in GatewayPages /\ "none" \in Errors
    BY DEF GatewayPages, Errors
  <2> QED
    BY <1>1, <1>2, <1>3, <2>1, <2>2, GatewayFormMoves
<1>4. CASE flow[f].model \notin Mapped
  <2>1. Becomes(f, Created(flow[f]))
    BY <1>4 DEF Connected
  <2>2. flow[f].model \notin ByDpls
    BY <1>4, Numbers
  <2> QED
    BY <1>1, <2>1, <2>2, CreatedTyped DEF Entered, Changes, Becomes, Dropping
<1> QED
  BY <1>3, <1>4

LEMMA CheckEnters ==
    ASSUME Types, NEW f \in Flows, Check(f)
    PROVE  Moved(f) \/ Entered(f)
<1> DEFINE x == flow[f]
<1>1. x \in Fields /\ WellFormed(x)
  BY DEF Types, Typed
<1>2. x.offered \subseteq Addresses /\ x.model \in Mapped
  BY <1>1 DEF Check, WellFormed, GatewayPages
<1>3. CASE Becomes(f, Rejected(x))
  BY <1>1, <1>2, <1>3, RejectedMoves DEF Becomes, Dropping
<1>4. CASE /\ cache' = [cache EXCEPT ![x.route] = Unread]
           /\ flow' = [flow EXCEPT ![f] = IF Overlapping(@) THEN Rejected(@) ELSE Created(@)]
           /\ UNCHANGED <<gateway, table>>
  <2>1. Dropping
    BY <1>1, <1>4 DEF Dropping, Fields
  <2>2. CASE Overlapping(x)
    <3>1. flow' = [flow EXCEPT ![f] = Rejected(x)]
      BY <1>4, <2>2
    <3> QED
      BY <1>1, <1>2, <1>4, <2>1, <3>1, RejectedMoves
  <2>3. CASE ~Overlapping(x)
    <3>1. flow' = [flow EXCEPT ![f] = Created(x)]
      BY <1>4, <2>3
    <3>2. Typed(Created(x))
      BY <1>1, CreatedTyped
    <3> QED
      BY <1>4, <2>1, <2>3, <3>1, <3>2 DEF Entered, Changes
  <2> QED
    BY <2>2, <2>3
<1> QED
  BY <1>3, <1>4 DEF Check

-----------------------------------------------------------------------------
LEMMA StepKinds ==
    ASSUME Types, [Next]_vars
    PROVE  \/ \E f \in Flows : Moved(f) \/ Loaded(f) \/ Ended(f) \/ Entered(f)
           \/ Elsewhere
<1>1. ASSUME NEW f \in Flows,
             \/ Open(f) \/ User(f) \/ Category(f) \/ ExistingGateway(f) \/ Manufacturer(f)
             \/ Device(f) \/ IoMapping(f) \/ SubdeviceAddress(f) \/ Connection(f)
             \/ ConnectFails(f)
      PROVE  Moved(f)
  BY <1>1, FirstFormsMove
<1>2. ASSUME NEW f \in Flows,
             \/ GatewayChildModel(f) \/ GatewayContext(f) \/ GatewayNew(f) \/ GatewayDevice(f)
             \/ ManualDevice(f) \/ ReadFails(f) \/ Close(f) \/ Remove(f)
      PROVE  Moved(f)
  BY <1>2, GatewayFormsMove
<1>3. table \in Nat /\ table >= table
  BY Numbers DEF Types
<1>4. ASSUME NEW f \in Flows, Unload(f) PROVE Elsewhere
  <2>1. flow[f].route \in Routes
    BY DEF Types, Typed, Fields
  <2> QED
    BY <1>3, <1>4, <2>1 DEF Unload, Elsewhere, Dropping, Types
<1>5. CASE LoadGateway \/ CloseGateway \/ UNCHANGED vars
  BY <1>3, <1>5 DEF LoadGateway, CloseGateway, vars, Elsewhere, Dropping, Types
<1>6. CASE UnloadGateway
  BY <1>3, <1>6 DEF UnloadGateway, Elsewhere, Dropping, Types, Routes
<1>7. CASE Edit
  BY <1>3, <1>7 DEF Edit, Elsewhere, Dropping, Types
<1>8. ASSUME NEW f \in Flows,
             \/ Open(f) \/ User(f) \/ Category(f) \/ ExistingGateway(f) \/ Manufacturer(f)
             \/ Device(f) \/ IoMapping(f) \/ SubdeviceAddress(f) \/ Connection(f)
             \/ Connected(f) \/ ConnectFails(f)
             \/ GatewayChildModel(f) \/ GatewayContext(f) \/ GatewayNew(f) \/ GatewayDevice(f)
             \/ MappingSource(f) \/ ManualDevice(f) \/ ManualCapability(f)
             \/ DiscoveredDevice(f) \/ AutomaticDevice(f) \/ AutomaticConnected(f)
             \/ ReadEnds(f) \/ ReadFails(f) \/ Check(f)
             \/ Close(f) \/ Unload(f) \/ Remove(f)
      PROVE  Moved(f) \/ Loaded(f) \/ Ended(f) \/ Entered(f) \/ Elsewhere
  BY <1>1, <1>2, <1>4, <1>8, TableFormsMove, ManualCapabilityMoves, ReadEndsEnds,
     ConnectedEnters, CheckEnters
<1> QED
  BY <1>5, <1>6, <1>7, <1>8 DEF Next


LEMMA TypesHold == Spec => []Types
<1>1. Init => Types
  BY BlankTyped, Numbers DEF Init, Types
<1>2. Types /\ [Next]_vars => Types'
  <2> SUFFICES ASSUME Types, [Next]_vars PROVE Types'
    OBVIOUS
  <2>1. ASSUME NEW f \in Flows, NEW y, Changes(f, y),
               cache' \in [Routes -> Versions \cup {Unread}]
        PROVE  Types'
    BY <2>1 DEF Changes, Types
  <2>2. Dropping => cache' \in [Routes -> Versions \cup {Unread}]
    BY DEF Dropping, Types
  <2>3. ASSUME NEW f \in Flows, Moved(f) \/ Entered(f) PROVE Types'
    BY <2>1, <2>2, <2>3 DEF Moved, Entered
  <2>4. ASSUME NEW f \in Flows, Loaded(f) PROVE Types'
    <3>1. PICK y : /\ Changes(f, y)
                   /\ cache' = [cache EXCEPT ![y.route] = Unread] \/ UNCHANGED cache
      BY <2>4 DEF Loaded
    <3>2. cache' \in [Routes -> Versions \cup {Unread}]
      BY <3>1 DEF Types
    <3> QED
      BY <2>1, <3>1, <3>2
  <2>5. ASSUME NEW f \in Flows, Ended(f) PROVE Types'
    <3>1. PICK y : /\ Changes(f, y) /\ y.config \in Versions
                   /\ cache' = [cache EXCEPT ![y.route] = y.config]
      BY <2>5 DEF Ended
    <3>2. cache' \in [Routes -> Versions \cup {Unread}]
      BY <3>1 DEF Types
    <3> QED
      BY <2>1, <3>1, <3>2
  <2>6. CASE Elsewhere
    BY <2>2, <2>6 DEF Elsewhere, Types
  <2> QED
    BY <2>3, <2>4, <2>5, <2>6, StepKinds
<1> QED
  BY <1>1, <1>2, PTL DEF Spec

(* Flows, entries and the cache keep their types, and every claim fits     *)
(* into the DPLS address space (gateway.py:141).                           *)
THEOREM TypeCorrect == Spec => []TypeOK
<1>1. Types => TypeOK
  <2> SUFFICES ASSUME Types PROVE TypeOK
    OBVIOUS
  <2>1. ASSUME NEW f \in Flows
        PROVE  IsFlow(flow[f]) /\ flow[f].claim.base + flow[f].claim.count <= LastAddress + 1
    <3> DEFINE x == flow[f]
    <3>1. x \in Fields /\ WellFormed(x)
      BY DEF Types, Typed
    <3> HIDE DEF x
    <3>2. DOMAIN x = DOMAIN Blank
      BY <3>1 DEF Fields, Blank
    <3>3. x.claim \in FittingClaims
      BY <3>1 DEF Fields
    <3>4. \E S \in SUBSET AllCapabilities : x.objects \in [S -> Rows]
      BY <3>1 DEF Fields
    <3>5. x.offered \subseteq (IF x.page = "user" THEN Routes ELSE Addresses)
      BY <3>1 DEF WellFormed
    <3>6. /\ x.page \in Pages /\ x.error \in Errors
          /\ x.busy \in {"no", "connect", "list", "select", "resolve", "check"}
          /\ x.route \in Routes /\ x.model \in Equipment \cup {"none"}
          /\ x.address \in Addresses \cup {0}
          /\ x.config \in Versions \cup {Unread} /\ x.dropped \in Versions
          /\ x.fresh \in BOOLEAN /\ x.refused \in BOOLEAN
      BY <3>1 DEF Fields
    <3>7. IsFlow(x)
      BY <3>2, <3>3, <3>4, <3>5, <3>6 DEF IsFlow, FittingClaims
    <3> QED
      BY <3>3, <3>7 DEF FittingClaims, x
  <2> QED
    BY <2>1 DEF TypeOK, Types
<1> QED
  BY <1>1, TypesHold, PTL

-----------------------------------------------------------------------------
(* A flow that moves without becoming an entry leaves the entries disjoint.*)
LEMMA NoEntryDisjoint ==
    ASSUME Types, EntriesDisjoint, NEW f \in Flows, NEW y, y.page # "entry",
           flow' = [flow EXCEPT ![f] = y]
    PROVE  EntriesDisjoint'
<1>1. flow'[f].page # "entry" /\ \A g \in Flows \ {f} : flow'[g] = flow[g]
  BY DEF Types
<1> QED
  BY <1>1 DEF EntriesDisjoint, IsEntry

(* Claims that do not overlap have no address in common.                   *)
LEMMA SegmentsDisjoint ==
    ASSUME NEW x \in Fields, NEW y \in Fields, ~Overlap(x, y),
           {x.model, y.model} \subseteq ByDpls, x.route = y.route, x.address = y.address
    PROVE  Segment(x) \cap Segment(y) = {}
<1>1. /\ x.claim.base \in Nat /\ x.claim.count \in Nat
      /\ y.claim.base \in Nat /\ y.claim.count \in Nat
  BY DEF Fields, FittingClaims
<1>2. \/ x.claim.base > y.claim.base + y.claim.count - 1
      \/ y.claim.base > x.claim.base + x.claim.count - 1
  BY <1>1 DEF Overlap
<1> QED
  BY <1>1, <1>2 DEF Segment

LEMMA EnteredDisjoint ==
    ASSUME Types, EntriesDisjoint, NEW f \in Flows, Entered(f)
    PROVE  EntriesDisjoint'
<1> DEFINE x == flow[f]
           y == Created(x)
<1>1. x \in Fields /\ flow' = [flow EXCEPT ![f] = y]
  BY DEF Entered, Changes, Types, Typed
<1>2. CASE y.page # "entry"
  BY <1>1, <1>2, NoEntryDisjoint
<1>3. CASE y.page = "entry"
  <2>1. /\ \A g \in Flows : IsEntry(g) => Identity(flow[g]) # Identity(x)
        /\ y.route = x.route /\ y.model = x.model
        /\ y.address = x.address /\ y.claim = x.claim
    BY <1>1, <1>3, CreatedTyped
  <2>2. flow'[f] = y /\ \A g \in Flows \ {f} : flow'[g] = flow[g]
    BY <1>1 DEF Types
  <2> HIDE DEF y
  <2>3. Identity(y) = Identity(x) /\ Segment(y) = Segment(x)
    BY <2>1 DEF Identity, Segment
  <2>4. ASSUME NEW g \in Flows \ {f}, IsEntry(g)
        PROVE  /\ Identity(flow[g]) # Identity(y)
               /\ /\ {y.model, flow[g].model} \subseteq ByDpls
                  /\ y.route = flow[g].route
                  /\ y.address = flow[g].address
                  => Segment(y) \cap Segment(flow[g]) = {}
    <3>1. x.model \in ByDpls => ~Overlap(x, flow[g])
      BY <2>4 DEF Entered, Overlapping
    <3>2. flow[g] \in Fields
      BY DEF Types, Typed
    <3> QED
      BY <1>1, <2>1, <2>3, <2>4, <3>1, <3>2, SegmentsDisjoint
  <2>5. ASSUME NEW g \in Flows \ {f}, IsEntry(g)'
        PROVE  IsEntry(g)
    BY <2>2, <2>5 DEF IsEntry
  <2>6. ASSUME NEW g \in Flows, NEW h \in Flows, g # h, IsEntry(g)', IsEntry(h)'
        PROVE  /\ Identity(flow'[g]) # Identity(flow'[h])
               /\ /\ {flow'[g].model, flow'[h].model} \subseteq ByDpls
                  /\ flow'[g].route = flow'[h].route
                  /\ flow'[g].address = flow'[h].address
                  => Segment(flow'[g]) \cap Segment(flow'[h]) = {}
    <3>1. CASE g # f /\ h # f
      BY <2>2, <2>5, <2>6, <3>1 DEF EntriesDisjoint
    <3>2. CASE g = f
      BY <2>2, <2>4, <2>5, <2>6, <3>2
    <3>3. CASE h = f
      BY <2>2, <2>4, <2>5, <2>6, <3>3
    <3> QED
      BY <3>1, <3>2, <3>3
  <2> QED
    BY <2>6 DEF EntriesDisjoint, IsEntry, Identity, Segment
<1> QED
  BY <1>2, <1>3

(* No two entries are the same device or claim the same DPLS address,      *)
(* although several flows are checked at the same time                     *)
(* (config_flow.py:1482-1516).                                             *)
THEOREM EntriesStayDisjoint == Spec => []EntriesDisjoint
<1>1. Init => EntriesDisjoint
  <2>1. Blank.page # "entry"
    BY DEF Blank
  <2> HIDE DEF Blank
  <2> QED
    BY <2>1 DEF Init, EntriesDisjoint, IsEntry
<1>2. Types /\ EntriesDisjoint /\ [Next]_vars => EntriesDisjoint'
  <2> SUFFICES ASSUME Types, EntriesDisjoint, [Next]_vars PROVE EntriesDisjoint'
    OBVIOUS
  <2>1. ASSUME NEW f \in Flows, Moved(f) \/ Loaded(f) \/ Ended(f) PROVE EntriesDisjoint'
    <3>1. PICK y : y.page # "entry" /\ flow' = [flow EXCEPT ![f] = y]
      BY <2>1 DEF Moved, Loaded, Ended, Changes
    <3> QED
      BY <3>1, NoEntryDisjoint
  <2>2. CASE Elsewhere
    BY <2>2 DEF Elsewhere, EntriesDisjoint, IsEntry
  <2> QED
    BY <2>1, <2>2, StepKinds, EnteredDisjoint
<1> QED
  BY <1>1, <1>2, TypesHold, PTL DEF Spec

-----------------------------------------------------------------------------
(* Entries hold identities and addresses.                                  *)

LEMMA IdentityIsNoAddress ==
    ASSUME NEW x, NEW r, NEW a, NEW b
    PROVE  Identity(x) # <<"dpls", r, a, b>>
<1>1. <<"dpls", r, a, b>>[1] = "dpls"
  OBVIOUS
<1>2. Identity(x)[1] \in {"mapped", "direct"}
  BY DEF Identity
<1> QED
  BY <1>1, <1>2

LEMMA ClaimsDisjoint ==
    ASSUME NEW x, NEW z, Identity(x) # Identity(z),
           /\ {x.model, z.model} \subseteq ByDpls
           /\ x.route = z.route
           /\ x.address = z.address
           => Segment(x) \cap Segment(z) = {}
    PROVE  Claimed(x) \cap Claimed(z) = {}
<1> SUFFICES ASSUME NEW t, t \in Claimed(x), t \in Claimed(z) PROVE FALSE
  OBVIOUS
<1>1. CASE t = Identity(x)
  <2>1. t # Identity(z) /\ \A r, a, b : t # <<"dpls", r, a, b>>
    BY <1>1, IdentityIsNoAddress
  <2> QED
    BY <2>1 DEF Claimed
<1>2. CASE t # Identity(x)
  <2>1. x.model \in ByDpls /\ \E b \in Segment(x) : t = <<"dpls", x.route, x.address, b>>
    BY <1>2 DEF Claimed
  <2>2. PICK b \in Segment(x) : t = <<"dpls", x.route, x.address, b>>
    BY <2>1
  <2>3. t # Identity(z)
    BY <2>2, IdentityIsNoAddress
  <2>4. z.model \in ByDpls /\ \E c \in Segment(z) : t = <<"dpls", z.route, z.address, c>>
    BY <2>3 DEF Claimed
  <2>5. PICK c \in Segment(z) : t = <<"dpls", z.route, z.address, c>>
    BY <2>4
  <2>6. x.route = z.route /\ x.address = z.address /\ b = c
    BY <2>2, <2>5
  <2> QED
    BY <2>1, <2>2, <2>4, <2>5, <2>6
<1> QED
  BY <1>1, <1>2

(* An entry takes its identity and its addresses in one step, none of them *)
(* another's, keeps them, and gives them up when it is removed             *)
(* (config_flow.py:1482-1516).                                             *)
THEOREM FlowsImplementHolding == Spec => ImplementsHolding
<1> DEFINE H == [f \in Flows |-> IF IsEntry(f) THEN Claimed(flow[f]) ELSE {}]
<1>1. Init => Holding!HoldingInit
  <2>1. Init => \A f \in Flows : ~IsEntry(f)
    BY BlankTyped DEF Init, IsEntry
  <2> QED
    BY <2>1 DEF Holding!HoldingInit
<1>2. Types /\ EntriesDisjoint /\ EntriesDisjoint' /\ [Next]_vars
         => [Holding!HoldingNext]_<<H, {}>>
  <2> SUFFICES ASSUME Types, EntriesDisjoint, EntriesDisjoint', [Next]_vars
               PROVE  Holding!HoldingNext \/ UNCHANGED <<H, {}>>
    OBVIOUS
  <2>1. ASSUME NEW f \in Flows, NEW y, y.page # "entry", flow' = [flow EXCEPT ![f] = y]
        PROVE  Holding!GiveUp
    <3>1. flow'[f] = y /\ \A g \in Flows \ {f} : flow'[g] = flow[g]
      BY <2>1 DEF Types
    <3>2. \A g \in Flows : H'[g] \in {H[g], {}}
      BY <2>1, <3>1 DEF IsEntry
    <3> QED
      BY <3>2 DEF Holding!GiveUp
  <2>2. ASSUME NEW f \in Flows, Moved(f) \/ Loaded(f) \/ Ended(f) PROVE Holding!GiveUp
    <3>1. PICK y : y.page # "entry" /\ flow' = [flow EXCEPT ![f] = y]
      BY <2>2 DEF Moved, Loaded, Ended, Changes
    <3> QED
      BY <2>1, <3>1
  <2>3. ASSUME NEW f \in Flows, Entered(f) PROVE Holding!HoldingNext
    <3> DEFINE y == Created(flow[f])
    <3>1. flow[f] \in Fields /\ flow' = [flow EXCEPT ![f] = y]
      BY <2>3 DEF Entered, Changes, Types, Typed
    <3>2. CASE y.page # "entry"
      BY <2>1, <3>1, <3>2 DEF Holding!HoldingNext
    <3>3. CASE y.page = "entry"
      <4>1. ~IsEntry(f)
        BY <3>1, <3>3, CreatedTyped
      <4>2. flow'[f] = y /\ \A g \in Flows \ {f} : flow'[g] = flow[g]
        BY <3>1 DEF Types
      <4>3. IsEntry(f)' /\ \A g \in Flows \ {f} : IsEntry(g)' <=> IsEntry(g)
        BY <3>3, <4>2 DEF IsEntry
      <4>4. H[f] = {} /\ H' = [H EXCEPT ![f] = H'[f]]
        BY <4>1, <4>2, <4>3
      <4>5. ASSUME NEW g \in Flows PROVE H'[f] \cap H[g] = {}
        <5>1. CASE IsEntry(g)
          <6>1. g # f
            BY <4>1, <5>1
          <6>2. /\ Identity(flow'[f]) # Identity(flow'[g])
                /\ /\ {flow'[f].model, flow'[g].model} \subseteq ByDpls
                   /\ flow'[f].route = flow'[g].route
                   /\ flow'[f].address = flow'[g].address
                   => Segment(flow'[f]) \cap Segment(flow'[g]) = {}
            BY <4>3, <5>1, <6>1 DEF EntriesDisjoint, Identity, Segment
          <6>3. Claimed(flow'[f]) \cap Claimed(flow'[g]) = {}
            BY <6>2, ClaimsDisjoint
          <6>4. H'[f] = Claimed(flow'[f]) /\ H[g] = Claimed(flow'[g])
            BY <4>2, <4>3, <5>1, <6>1 DEF Claimed, Identity, Segment
          <6> QED
            BY <6>3, <6>4
        <5>2. CASE ~IsEntry(g)
          BY <5>2
        <5> QED
          BY <5>1, <5>2
      <4>6. H'[f] \cap UNION {H[g] : g \in Flows} = {}
        BY <4>5
      <4>7. Holding!Take(f)
        BY <4>4, <4>6 DEF Holding!Take, Holding!Taken
      <4> QED
        BY <4>7 DEF Holding!HoldingNext
    <3> QED
      BY <3>2, <3>3
  <2>4. CASE Elsewhere
    <3>1. H' = H
      BY <2>4 DEF Elsewhere, IsEntry, Claimed, Identity, Segment
    <3> QED
      BY <3>1
  <2> QED
    BY <2>2, <2>3, <2>4, StepKinds DEF Holding!HoldingNext
<1> QED
  BY <1>1, <1>2, TypesHold, EntriesStayDisjoint, PTL
     DEF Spec, ImplementsHolding, Holding!HoldingSpec, Holding!holdingVars

-----------------------------------------------------------------------------
(* Nothing that a flow has, or may still be given, is older than the table *)
(* it dropped the cached one for.                                          *)
Live ==
    \A f \in Flows :
        /\ flow[f].dropped =< table
        /\ flow[f].config # Unread => flow[f].config >= flow[f].dropped
        /\ cache[flow[f].route] # Unread => cache[flow[f].route] >= flow[f].dropped
        /\ \A g \in Flows :
              Reading(flow[g]) /\ flow[g].route = flow[f].route
              => flow[g].config >= flow[f].dropped

LEMMA Versioned ==
    ASSUME Types
    PROVE  /\ table \in Nat /\ Unread \notin Nat
           /\ \A r \in Routes : cache[r] # Unread => cache[r] \in Nat
           /\ \A h \in Flows :
                 /\ flow[h].dropped \in Nat
                 /\ flow[h].route \in Routes
                 /\ flow[h].config # Unread => flow[h].config \in Nat
                 /\ Reading(flow[h]) => flow[h].config \in Nat /\ flow[h].config # Unread
<1>1. /\ Versions \subseteq Nat /\ Unread \notin Nat
  BY FlowAssumption
<1> QED
  BY <1>1 DEF Types, Typed, Fields, WellFormed

(* What a flow must be given for a step of it to keep Live.                *)
LEMMA LiveStep ==
    ASSUME Types, Types', Live, NEW f \in Flows, NEW y,
           flow' = [flow EXCEPT ![f] = y], UNCHANGED table,
           y.dropped =< table,
           y.config # Unread => y.config >= y.dropped,
           Reading(y) => y.config >= y.dropped,
           cache'[y.route] # Unread => cache'[y.route] >= y.dropped,
           \A g \in Flows \ {f} :
               /\ Reading(y) /\ flow[g].route = y.route => y.config >= flow[g].dropped
               /\ Reading(flow[g]) /\ flow[g].route = y.route => flow[g].config >= y.dropped
               /\ cache'[flow[g].route] # Unread => cache'[flow[g].route] >= flow[g].dropped
    PROVE  Live'
<1>1. flow'[f] = y /\ \A g \in Flows \ {f} : flow'[g] = flow[g]
  BY DEF Types
<1>2. ASSUME NEW g \in Flows
      PROVE  /\ flow'[g].dropped =< table'
             /\ flow'[g].config # Unread => flow'[g].config >= flow'[g].dropped
             /\ cache'[flow'[g].route] # Unread => cache'[flow'[g].route] >= flow'[g].dropped
  <2>1. CASE g = f
    BY <1>1, <2>1
  <2>2. CASE g # f
    BY <1>1, <2>2 DEF Live
  <2> QED
    BY <2>1, <2>2
<1>3. ASSUME NEW g \in Flows, NEW h \in Flows, Reading(flow'[h]), flow'[h].route = flow'[g].route
      PROVE  flow'[h].config >= flow'[g].dropped
  <2>1. CASE g = f /\ h = f
    BY <1>1, <1>3, <2>1
  <2>2. CASE g = f /\ h # f
    BY <1>1, <1>3, <2>2
  <2>3. CASE g # f /\ h = f
    BY <1>1, <1>3, <2>3
  <2>4. CASE g # f /\ h # f
    BY <1>1, <1>3, <2>4 DEF Live
  <2> QED
    BY <2>1, <2>2, <2>3, <2>4
<1> QED
  BY <1>2, <1>3 DEF Live, Reading

(* A dropped table is nothing that could be older.                         *)
LEMMA DroppingLive ==
    ASSUME Types, Live, Dropping, NEW h \in Flows, cache'[flow[h].route] # Unread
    PROVE  cache'[flow[h].route] >= flow[h].dropped
<1>1. cache'[flow[h].route] = cache[flow[h].route]
  BY Versioned DEF Dropping, Types
<1> QED
  BY <1>1 DEF Live

LEMMA LiveHolds == Spec => []Live
<1>1. Init => Live
  <2>1. Blank.dropped = 0 /\ Blank.config = Unread /\ Blank.route \in Routes
    BY DEF Blank, Routes
  <2> HIDE DEF Blank
  <2> QED
    <3> SUFFICES ASSUME Init PROVE Live
      OBVIOUS
    <3>1. /\ \A f \in Flows : flow[f] = Blank
          /\ table = 0 /\ cache[Blank.route] = Unread
      BY <2>1 DEF Init
    <3>2. 0 >= 0 /\ 0 =< 0
      OBVIOUS
    <3> QED
      BY <2>1, <3>1, <3>2, BlankTyped DEF Live
<1>2. Types /\ Types' /\ Live /\ [Next]_vars => Live'
  <2> SUFFICES ASSUME Types, Types', Live, [Next]_vars PROVE Live'
    OBVIOUS
  <2> USE Versioned
  <2>1. ASSUME NEW f \in Flows, NEW y, Changes(f, y), Dropping, ~Reading(y),
               y.dropped = 0, y.config = Unread
        PROVE  Live'
    <3>1. y.route \in Routes /\ (cache'[y.route] # Unread => cache'[y.route] \in Nat)
      <4>1. y.route \in Routes
        BY <2>1 DEF Changes, Typed, Fields
      <4> QED
        BY <2>1, <4>1 DEF Dropping, Types
    <3> QED
      <4>1. \A g \in Flows \ {f} :
                /\ Reading(flow[g]) /\ flow[g].route = y.route => flow[g].config >= y.dropped
                /\ cache'[flow[g].route] # Unread => cache'[flow[g].route] >= flow[g].dropped
        BY <2>1, DroppingLive
      <4>2. y.dropped =< table /\ (cache'[y.route] # Unread => cache'[y.route] >= y.dropped)
        BY <2>1, <3>1
      <4>3. flow' = [flow EXCEPT ![f] = y] /\ UNCHANGED table
        BY <2>1 DEF Changes
      <4> QED
        BY <2>1, <4>1, <4>2, <4>3, LiveStep
  <2>2. ASSUME NEW f \in Flows, NEW y, Changes(f, y), Dropping, ~Reading(y),
               y.route = flow[f].route, y.dropped = flow[f].dropped,
               y.config \in {flow[f].config, Unread}
        PROVE  Live'
    <3>1. /\ y.dropped =< table
          /\ y.config # Unread => y.config >= y.dropped
          /\ \A g \in Flows \ {f} :
                 Reading(flow[g]) /\ flow[g].route = y.route => flow[g].config >= y.dropped
      BY <2>2 DEF Live
    <3>2. \A g \in Flows : cache'[flow[g].route] # Unread
              => cache'[flow[g].route] >= flow[g].dropped
      BY <2>2, DroppingLive
    <3>3. flow' = [flow EXCEPT ![f] = y] /\ UNCHANGED table
      BY <2>2 DEF Changes
    <3>4. cache'[y.route] # Unread => cache'[y.route] >= y.dropped
      BY <2>2, <3>2
    <3> QED
      BY <2>2, <3>1, <3>2, <3>3, <3>4, LiveStep
  <2>3. ASSUME NEW f \in Flows, Moved(f) PROVE Live'
    BY <2>1, <2>2, <2>3 DEF Moved
  <2>4. ASSUME NEW f \in Flows, Entered(f) PROVE Live'
    <3> DEFINE y == Created(flow[f])
    <3>1. flow[f] \in Fields
      BY DEF Types, Typed
    <3>2. ~Reading(y) /\ y.dropped = 0 /\ y.config = Unread
      BY <3>1, CreatedTyped
    <3>3. Changes(f, y) /\ Dropping
      BY <2>4 DEF Entered
    <3> HIDE DEF y
    <3> QED
      BY <2>1, <3>2, <3>3
  <2>5. ASSUME NEW f \in Flows, Loaded(f) PROVE Live'
    <3>1. PICK y :
              /\ Changes(f, y) /\ y.route = flow[f].route
              /\ \/ /\ cache' = [cache EXCEPT ![y.route] = Unread]
                    /\ y.config = table
                    /\ \/ y.dropped = 0
                       \/ /\ y.dropped = table
                          /\ \A g \in Flows \ {f} : Reading(flow[g]) => flow[g].route # y.route
                 \/ /\ UNCHANGED cache
                    /\ y.config \in {table, cache[y.route]} \ {Unread}
                    /\ y.dropped = flow[f].dropped
      BY <2>5 DEF Loaded
    <3>2. CASE /\ cache' = [cache EXCEPT ![y.route] = Unread]
               /\ y.config = table
               /\ \/ y.dropped = 0
                  \/ /\ y.dropped = table
                     /\ \A g \in Flows \ {f} : Reading(flow[g]) => flow[g].route # y.route
      <4>1. Dropping /\ cache'[y.route] = Unread
        BY <3>1, <3>2 DEF Dropping, Types
      <4>2. \A g \in Flows : flow[g].dropped =< table
        BY DEF Live
      <4>3. \A g \in Flows : cache'[flow[g].route] # Unread
                => cache'[flow[g].route] >= flow[g].dropped
        BY <4>1, DroppingLive
      <4>4. y.dropped =< table /\ y.config >= y.dropped
        BY <3>2
      <4>5. \A g \in Flows \ {f} :
                /\ Reading(y) /\ flow[g].route = y.route => y.config >= flow[g].dropped
                /\ Reading(flow[g]) /\ flow[g].route = y.route => flow[g].config >= y.dropped
        BY <3>2, <4>2
      <4>6. flow' = [flow EXCEPT ![f] = y] /\ UNCHANGED table
        BY <3>1 DEF Changes
      <4> QED
        BY <4>1, <4>3, <4>4, <4>5, <4>6, LiveStep
    <3>3. CASE /\ UNCHANGED cache
               /\ y.config \in {table, cache[y.route]} \ {Unread}
               /\ y.dropped = flow[f].dropped
      <4>1. \A g \in Flows : flow[g].route = y.route => y.config >= flow[g].dropped
        BY <3>1, <3>3 DEF Live
      <4>2. /\ y.dropped =< table /\ y.config >= y.dropped
            /\ cache'[y.route] # Unread => cache'[y.route] >= y.dropped
        BY <3>1, <3>3, <4>1 DEF Live
      <4>3. \A g \in Flows \ {f} :
                /\ Reading(flow[g]) /\ flow[g].route = y.route => flow[g].config >= y.dropped
                /\ cache'[flow[g].route] # Unread => cache'[flow[g].route] >= flow[g].dropped
        BY <3>1, <3>3 DEF Live
      <4> QED
        BY <3>1, <3>3, <4>1, <4>2, <4>3, LiveStep DEF Changes
    <3> QED
      BY <3>1, <3>2, <3>3
  <2>6. ASSUME NEW f \in Flows, Ended(f) PROVE Live'
    <3>1. PICK y :
              /\ Changes(f, y) /\ ~Reading(y) /\ y.route = flow[f].route
              /\ y.dropped = flow[f].dropped /\ y.config \in Versions
              /\ y.config >= flow[f].config
              /\ cache' = [cache EXCEPT ![y.route] = y.config]
      BY <2>6 DEF Ended
    <3>2. Reading(flow[f]) /\ y.config \in Nat
      BY <2>6, <3>1, Numbers DEF Ended
    <3>3. \A g \in Flows : flow[g].route = y.route => y.config >= flow[g].dropped
      BY <3>1, <3>2 DEF Live
    <3>4. cache'[y.route] = y.config /\ \A r \in Routes \ {y.route} : cache'[r] = cache[r]
      BY <3>1 DEF Types
    <3>5. y.dropped =< table /\ y.config >= y.dropped
      BY <3>1, <3>3 DEF Live
    <3>6. \A g \in Flows \ {f} :
              /\ Reading(flow[g]) /\ flow[g].route = y.route => flow[g].config >= y.dropped
              /\ cache'[flow[g].route] # Unread => cache'[flow[g].route] >= flow[g].dropped
      BY <3>1, <3>3, <3>4 DEF Live
    <3> QED
      BY <3>1, <3>3, <3>4, <3>5, <3>6, LiveStep DEF Changes
  <2>7. CASE Elsewhere
    <3>1. UNCHANGED flow /\ Dropping /\ table' \in Nat /\ table' >= table
      BY <2>7, Numbers DEF Elsewhere
    <3>2. \A g \in Flows : flow'[g].dropped =< table'
      BY <3>1 DEF Live
    <3>3. \A g \in Flows :
              cache'[flow'[g].route] # Unread => cache'[flow'[g].route] >= flow'[g].dropped
      BY <3>1, DroppingLive
    <3> QED
      BY <3>1, <3>2, <3>3 DEF Live, Reading
  <2> QED
    BY <2>3, <2>4, <2>5, <2>6, <2>7, StepKinds
<1> QED
  BY <1>1, <1>2, TypesHold, PTL DEF Spec

(* A flow that first needs the table while no other reads it maps by a     *)
(* table at least as new as then (config_flow.py:102-111).                 *)
THEOREM FlowIsLive == Spec => []QuietFlowIsLive
<1>1. Live => QuietFlowIsLive
  BY DEF Live, QuietFlowIsLive
<1> QED
  BY <1>1, LiveHolds, PTL
=============================================================================
