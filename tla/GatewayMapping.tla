--------------------------- MODULE GatewayMapping ---------------------------
(***************************************************************************)
(* The life of one child entry's gateway mapping: resolved automatically   *)
(* from the gateway's table or entered by hand in the flow (mapping.py),   *)
(* validated by the equipment class, stored, reconciled with the current   *)
(* table and applied to a fresh device at every setup (__init__.py), while *)
(* the table is edited in between.                                         *)
(*                                                                         *)
(* The table holds a cell (see BolidModels) per row of the relay and of    *)
(* the zone section, or Nobody for a row of other devices.  Partitions and *)
(* Modbus addresses, both functions of the row, are left out, and so is    *)
(* the cached table a setup may read first (see ConfigurationCache).       *)
(***************************************************************************)
EXTENDS BolidModels, Sequences

CONSTANTS
    Models,    \* equipment classes (records of BolidModels)
    Tables,    \* Tables[m]: tables the gateway of an entry of m may have
    Entered,   \* Entered[m]: mappings a user may type in for m
    MaxEdits,  \* bound for TLC
    Nobody     \* a row of another device, or an unused one

Kinds == {"relay", "zone"}

(* The cells an apply_gateway_mapping goes along with.                     *)
Accepts(m, cells) ==
    /\ cells \subseteq m.accepted
    /\ m.required \subseteq cells
    /\ \A group \in m.oneOf : Cardinality(group \cap cells) = 1

(* A class accepts the footprint its reconcile hook looks for, unless it   *)
(* is a variant that the hook refuses; of what the power supply offers it  *)
(* accepts all or nothing.                                                 *)
ASSUME ModelsAssumption ==
    \A m \in Models :
        /\ m.repair \in {"none", "exact", "mip"}
        /\ m.repair = "exact" /\ m.accepted # {} => Accepts(m, m.required)
        /\ m.repair = "exact" => m.required # {}
        /\ m.repair = "mip" =>
               /\ Accepts(m, m.offered) /\ Accepts(m, LegacyMIPCells)
               /\ m.offered # {}
               /\ \A cells \in SUBSET m.offered : Accepts(m, cells) => cells = m.offered

(* A table lists what it has of a kind in the section of that kind.        *)
Known == UNION {m.offered \cup m.accepted : m \in Models}

Sections == [relay : Seq({c \in Known : c.kind = "relay"} \cup {Nobody}),
             zone  : Seq({c \in Known : c.kind = "zone"} \cup {Nobody})]

ASSUME TablesAssumption ==
    /\ Nobody \notin Known
    /\ \A m \in Models : Tables[m] \subseteq Sections
    /\ MaxEdits \in Nat

VARIABLES
    model,   \* the class of the entry
    table,   \* the gateway's table
    stored,  \* the persisted mapping: a set of objects [cell, row]
    source,  \* how it came to be stored
    phase,   \* where the entry is
    edits,   \* history: edits of the table
    stale    \* history: no setup has read the current table

mappingVars == <<model, table, stored, source, phase, edits, stale>>

-----------------------------------------------------------------------------
Cells(o) == {x.cell : x \in o}
Object(t, k, i) == [cell |-> t[k][i], row |-> i]
Objects(t) == UNION {{Object(t, k, i) : i \in DOMAIN t[k]} : k \in Kinds}

(* ResolvedDeviceMapping.__post_init__: at least one object, no cell and   *)
(* no row of a section twice.                                              *)
Valid(o) ==
    /\ o # {}
    /\ \A x, y \in o : x # y =>
           /\ x.cell # y.cell
           /\ x.cell.kind = y.cell.kind => x.row # y.row

(* apply_gateway_mapping of the class, also called by the flow.            *)
Applies(m, o) == Accepts(m, Cells(o))

(* AutomaticDeviceMappingProvider: the offered rows within the addresses   *)
(* of the device.                                                          *)
Resolve(m, t) ==
    {x \in Objects(t) : /\ x.cell \in m.offered
                        /\ m.span > 0 => x.cell.n < m.span}

Ambiguous(m, o) ==
    \E group \in m.oneOf : Cardinality(group \cap m.offered \cap Cells(o)) > 1

(* The flow stores a mapping.                                              *)
Store(o, by) ==
    /\ phase = "none"
    /\ Valid(o)
    /\ ~Ambiguous(model, o)
    /\ Applies(model, o)
    /\ stored' = o
    /\ source' = by
    /\ phase' = "unloaded"
    /\ stale' = TRUE
    /\ UNCHANGED <<model, table, edits>>

CreateAutomatic == Store(Resolve(model, table), "automatic")

CreateManual ==
    \E o \in Entered[model] :
        Cells(o) \subseteq model.offered /\ Store(o, "manual")

-----------------------------------------------------------------------------
(* The rows of the table that hold one of the given cells.                 *)
RowsOf(t, cells) == {x \in Objects(t) : x.cell \in cells}

EachOnce(t, cells) ==
    \A c \in cells : Cardinality({x \in RowsOf(t, cells) : x.cell = c}) = 1

(* MIP24Isp20._is_exact_legacy_mapping                                     *)
ExactLegacy(o, t) ==
    /\ Cardinality(o) = 6
    /\ o \subseteq Objects(t)
    /\ Cells(o) = LegacyMIPCells

(* Mutants: the footprint is rebuilt from whatever rows are found; a       *)
(* mapping the hook does not recognise is kept.                            *)
ReconcileFound(m, o, t) ==
    IF m.repair = "none" THEN o ELSE RowsOf(t, m.offered)

ReconcileLenient(m, o, t) ==
    IF m.repair # "none" /\ EachOnce(t, m.offered)
    THEN RowsOf(t, m.offered) ELSE o

ReconcileStrict(m, o, t) ==
    IF m.repair = "none" THEN o
    ELSE IF Cells(o) = m.required /\ o \subseteq Objects(t) THEN o ELSE {}

(* reconcile_gateway_mapping of the class; {} stands for ValueError.       *)
Reconcile(m, o, t) ==
    CASE m.repair = "none" -> o
      [] m.repair = "exact" ->
             IF m.accepted # {} /\ EachOnce(t, m.required)
             THEN RowsOf(t, m.required) ELSE {}
      [] m.repair = "mip" ->
             IF EachOnce(t, m.offered) THEN RowsOf(t, m.offered)
             ELSE IF ExactLegacy(o, t) THEN o ELSE {}

(* async_setup_entry: a repaired mapping is stored before it is applied.   *)
Setup ==
    /\ phase = "unloaded"
    /\ LET o == Reconcile(model, stored, table)
       IN  \/ /\ o = {}
              /\ phase' = "refused"
              /\ UNCHANGED stored
           \/ /\ o # {}
              /\ stored' = o
              /\ phase' = IF Applies(model, o) THEN "loaded" ELSE "rejected"
    /\ stale' = FALSE
    /\ UNCHANGED <<model, table, source, edits>>

Unload ==
    /\ phase \in {"loaded", "refused", "rejected"}
    /\ phase' = "unloaded"
    /\ UNCHANGED <<model, table, stored, source, edits, stale>>

-----------------------------------------------------------------------------
(* The table is edited outside Home Assistant: a row is copied over        *)
(* another, or the configuration is written anew.                          *)
Edited(t) ==
    /\ edits < MaxEdits
    /\ table' = t
    /\ t # table
    /\ edits' = edits + 1
    /\ stale' = TRUE
    /\ UNCHANGED <<model, stored, source, phase>>

CopyRow ==
    \E k \in Kinds : \E i, j \in DOMAIN table[k] :
        Edited([table EXCEPT ![k][i] = table[k][j]])

Rewrite == \E t \in Tables[model] : Edited(t)

MappingInit ==
    /\ model \in Models
    /\ table \in Tables[model]
    /\ edits = 0
    /\ stale = TRUE
    /\ \/ /\ stored = {}
          /\ source = "none"
          /\ phase = "none"
       \/ /\ model.repair = "mip"   \* stored by an older version
          /\ stored = RowsOf(table, LegacyMIPCells)
          /\ ExactLegacy(stored, table)
          /\ source = "legacy"
          /\ phase = "unloaded"

MappingNext ==
    \/ CreateAutomatic
    \/ CreateManual
    \/ Setup
    \/ Unload
    \/ CopyRow
    \/ Rewrite

MappingSpec == MappingInit /\ [][MappingNext]_mappingVars

-----------------------------------------------------------------------------
(* The table keeps its two sections, and what is stored satisfies          *)
(* ResolvedDeviceMapping.__post_init__, which nothing here checks after a  *)
(* repair: none of the repairs can raise there (gateway.py:334-361).       *)
TypeOK ==
    /\ model \in Models
    /\ table \in Sections
    /\ phase # "none" => Valid(stored)
    /\ source \in {"none", "automatic", "manual", "legacy"}
    /\ phase \in {"none", "unloaded", "loaded", "refused", "rejected"}
    /\ edits \in 0..MaxEdits
    /\ stale \in BOOLEAN

(* A mapping that the flow validated, and every repair of it whatever the  *)
(* edits of the table, is accepted by the device at setup: what reconcile  *)
(* builds always satisfies apply_gateway_mapping of the same class         *)
(* (__init__.py:317, :365).                                                *)
StoredMappingsApply == phase # "rejected"

(* A loaded entry reads and commands its own rows: when its class has a    *)
(* reconcile hook, in the table its last setup read; and without edits,    *)
(* whenever the mapping was resolved automatically (mapping.py:100-190).   *)
OwnRows ==
    (phase = "loaded" /\ ( \/ ~stale /\ model.repair # "none"
                           \/ edits = 0 /\ source \in {"automatic", "legacy"} ))
    => stored \subseteq Objects(table)

(* A setup is refused only for an edited table or a mapping typed in: what *)
(* the automatic provider resolves from a table, and what an older version *)
(* stored for it, the reconcile hook accepts for the same table.           *)
AutomaticSetsUp == phase = "refused" => edits > 0 \/ source = "manual"
=============================================================================
