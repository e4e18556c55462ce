-------------------------- MODULE Equipment_proofs --------------------------
(***************************************************************************)
(* Proofs about the equipment.  Of GatewayMapping: what is stored is valid *)
(* and applies, a loaded entry uses rows of its own, for any classes that  *)
(* and tables that satisfy the assumptions, any mappings typed in.  Of     *)
(* Devices: a latch follows what the zone showed, a command reported as    *)
(* done took effect, and ER-G keeps its limit.  Of RuntimeReads: the       *)
(* requests fit, are as few as they can be, and each address is given its  *)
(* own registers, for any limit and any addresses.                         *)
(***************************************************************************)
EXTENDS GatewayMapping, Devices, RuntimeReads, FiniteSetTheorems, TLAPS

(* The inductive invariant.  stored applies as soon as there is one.       *)
Fitting ==
    /\ model \in Models
    /\ phase \in {"none", "unloaded", "loaded", "refused"}
    /\ phase # "none" => Applies(model, stored)

(* Every row of what is stored is a row of the current table, unless it    *)
(* was edited, typed in or not read again.                                 *)
Owning ==
    /\ source \in {"automatic", "legacy"} /\ edits = 0 => stored \subseteq Objects(table)
    /\ phase = "loaded" /\ ~stale /\ model.repair # "none" => stored \subseteq Objects(table)

-----------------------------------------------------------------------------
(* Rows that hold each of some cells once hold exactly those cells.        *)
LEMMA RowsHold ==
    ASSUME NEW t, NEW cells, EachOnce(t, cells)
    PROVE  Cells(RowsOf(t, cells)) = cells
<1>1. Cells(RowsOf(t, cells)) \subseteq cells
  BY DEF Cells, RowsOf
<1>2. ASSUME NEW c \in cells PROVE c \in Cells(RowsOf(t, cells))
  <2> DEFINE Rows == {x \in RowsOf(t, cells) : x.cell = c}
  <2>1. Cardinality(Rows) = 1
    BY DEF EachOnce
  <2>2. Rows # {}
    <3>1. Cardinality({}) = 0
      BY FS_EmptySet
    <3> HIDE DEF Rows
    <3> QED
      BY <2>1, <3>1
  <2>3. PICK x \in Rows : TRUE
    BY <2>2
  <2> QED
    BY <2>3 DEF Cells
<1> QED
  BY <1>1, <1>2

(* Whatever a reconcile hook returns is accepted by its class.             *)
LEMMA ReconcileFits ==
    ASSUME NEW m \in Models, NEW o, NEW t, Applies(m, o), Reconcile(m, o, t) # {}
    PROVE  Applies(m, Reconcile(m, o, t))
<1>1. CASE m.repair = "none"
  <2>1. Reconcile(m, o, t) = o
    BY <1>1 DEF Reconcile
  <2> QED
    BY <2>1
<1>2. CASE m.repair = "exact"
  <2>1. /\ m.accepted # {} /\ EachOnce(t, m.required)
        /\ Reconcile(m, o, t) = RowsOf(t, m.required)
    BY <1>2 DEF Reconcile
  <2>2. Cells(RowsOf(t, m.required)) = m.required
    BY <2>1, RowsHold
  <2> QED
    BY <1>2, <2>1, <2>2, ModelsAssumption DEF Applies
<1>3. CASE m.repair = "mip"
  <2>1. CASE EachOnce(t, m.offered)
    <3>1. Reconcile(m, o, t) = RowsOf(t, m.offered)
      BY <1>3, <2>1 DEF Reconcile
    <3>2. Cells(RowsOf(t, m.offered)) = m.offered
      BY <2>1, RowsHold
    <3> QED
      BY <1>3, <3>1, <3>2, ModelsAssumption DEF Applies
  <2>2. CASE ~EachOnce(t, m.offered)
    <3>1. Reconcile(m, o, t) = o
      BY <1>3, <2>2 DEF Reconcile
    <3> QED
      BY <3>1
  <2> QED
    BY <2>1, <2>2
<1> QED
  BY <1>1, <1>2, <1>3, ModelsAssumption

(* A hook returns rows of the table it was given, or nothing.              *)
LEMMA ReconcileOwn ==
    ASSUME NEW m \in Models, NEW o, NEW t, m.repair # "none"
    PROVE  Reconcile(m, o, t) \subseteq Objects(t)
<1>1. \A cells : RowsOf(t, cells) \subseteq Objects(t)
  BY DEF RowsOf
<1>2. CASE m.repair = "exact"
  BY <1>1, <1>2 DEF Reconcile
<1>3. CASE m.repair = "mip"
  <2>1. ExactLegacy(o, t) => o \subseteq Objects(t)
    BY DEF ExactLegacy
  <2> QED
    BY <1>1, <1>3, <2>1 DEF Reconcile
<1> QED
  BY <1>2, <1>3, ModelsAssumption

-----------------------------------------------------------------------------
LEMMA FittingHolds == MappingSpec => []Fitting
<1>1. MappingInit => Fitting
  <2> SUFFICES ASSUME MappingInit PROVE Fitting
    OBVIOUS
  <2>1. CASE phase = "none"
    BY <2>1 DEF MappingInit, Fitting
  <2>2. CASE phase # "none"
    <3>1. model.repair = "mip" /\ ExactLegacy(stored, table) /\ phase = "unloaded"
      BY <2>2 DEF MappingInit
    <3>2. Cells(stored) = LegacyMIPCells
      BY <3>1 DEF ExactLegacy
    <3> QED
      BY <3>1, <3>2, ModelsAssumption DEF MappingInit, Fitting, Applies
  <2> QED
    BY <2>1, <2>2
<1>2. Fitting /\ [MappingNext]_mappingVars => Fitting'
  <2> SUFFICES ASSUME Fitting, [MappingNext]_mappingVars PROVE Fitting'
    OBVIOUS
  <2> USE DEF Fitting
  <2>1. ASSUME NEW o, NEW by, Store(o, by) PROVE Fitting'
    BY <2>1 DEF Store, Applies, Accepts, Cells
  <2>2. CASE CreateAutomatic
    BY <2>1, <2>2 DEF CreateAutomatic
  <2>3. CASE CreateManual
    BY <2>1, <2>3 DEF CreateManual
  <2>4. CASE Setup
    <3> DEFINE o == Reconcile(model, stored, table)
    <3>1. phase = "unloaded" /\ model' = model
      BY <2>4 DEF Setup
    <3>2. CASE o = {} /\ phase' = "refused" /\ stored' = stored
      BY <3>1, <3>2 DEF Applies
    <3>3. CASE o # {} /\ stored' = o
               /\ phase' = IF Applies(model, o) THEN "loaded" ELSE "rejected"
      <4>1. Applies(model, o)
        BY <3>1, <3>3, ReconcileFits
      <4> HIDE DEF o
      <4>2. Applies(model', stored')
        BY <3>1, <3>3, <4>1
      <4> QED
        BY <3>1, <3>3, <4>1, <4>2 DEF Applies
    <3> QED
      BY <2>4, <3>2, <3>3 DEF Setup
  <2>5. CASE Unload
    BY <2>5 DEF Unload, Applies
  <2>6. CASE CopyRow
    BY <2>6 DEF CopyRow, Edited, Applies
  <2>7. CASE Rewrite
    BY <2>7 DEF Rewrite, Edited, Applies
  <2>8. CASE UNCHANGED mappingVars
    BY <2>8 DEF mappingVars, Applies
  <2> QED
    BY <2>2, <2>3, <2>4, <2>5, <2>6, <2>7, <2>8 DEF MappingNext
<1> QED
  BY <1>1, <1>2, PTL DEF MappingSpec

(* Every stored mapping is accepted at setup, whatever edits of the table  *)
(* went before and whatever the hook made of it (__init__.py:317, :365).   *)
THEOREM StoredApply == MappingSpec => []StoredMappingsApply
<1>1. Fitting => StoredMappingsApply
  BY DEF Fitting, StoredMappingsApply
<1> QED
  BY <1>1, FittingHolds, PTL

-----------------------------------------------------------------------------
(* The edits are counted in Nat.                                           *)
Counted == edits \in Nat

LEMMA OwningHolds == MappingSpec => [](Owning /\ Counted)
<1>1. MappingInit => Owning /\ Counted
  BY DEF MappingInit, Owning, Counted, RowsOf
<1>2. Fitting /\ Owning /\ Counted /\ [MappingNext]_mappingVars => Owning' /\ Counted'
  <2> SUFFICES ASSUME Fitting, Owning, Counted, [MappingNext]_mappingVars
               PROVE  Owning' /\ Counted'
    OBVIOUS
  <2> USE DEF Owning, Counted
  <2>1. CASE CreateAutomatic
    <3>1. Resolve(model, table) \subseteq Objects(table)
      BY DEF Resolve
    <3>2. /\ stored' = Resolve(model, table) /\ table' = table
          /\ edits' = edits /\ phase' = "unloaded"
      BY <2>1 DEF CreateAutomatic, Store
    <3> QED
      BY <3>1, <3>2
  <2>2. CASE CreateManual
    <3>1. source' = "manual" /\ phase' = "unloaded" /\ edits' = edits
      BY <2>2 DEF CreateManual, Store
    <3> QED
      BY <3>1
  <2>3. CASE Setup
    <3> DEFINE o == Reconcile(model, stored, table)
    <3>1. model' = model /\ table' = table /\ source' = source /\ edits' = edits
      BY <2>3 DEF Setup
    <3>2. CASE phase' = "refused" /\ stored' = stored
      BY <3>1, <3>2
    <3>3. CASE stored' = o
      <4>1. CASE model.repair = "none"
        <5>1. o = stored
          BY <4>1 DEF Reconcile
        <5> QED
          BY <3>1, <3>3, <4>1, <5>1
      <4>2. CASE model.repair # "none"
        <5>1. o \subseteq Objects(table)
          BY <4>2, ReconcileOwn DEF Fitting
        <5> HIDE DEF o
        <5> QED
          BY <3>1, <3>3, <5>1
      <4> QED
        BY <4>1, <4>2
    <3> QED
      BY <2>3, <3>2, <3>3 DEF Setup
  <2>4. CASE Unload
    BY <2>4 DEF Unload
  <2>5. ASSUME NEW t, Edited(t) PROVE Owning' /\ Counted'
    BY <2>5 DEF Edited
  <2>6. CASE CopyRow
    BY <2>5, <2>6 DEF CopyRow
  <2>7. CASE Rewrite
    BY <2>5, <2>7 DEF Rewrite
  <2>8. CASE UNCHANGED mappingVars
    BY <2>8 DEF mappingVars
  <2> QED
    BY <2>1, <2>2, <2>3, <2>4, <2>6, <2>7, <2>8 DEF MappingNext
<1> QED
  BY <1>1, <1>2, FittingHolds, PTL DEF MappingSpec

(* A loaded entry uses rows of its own: after a setup that read the        *)
(* current table if its class has a hook, and while the table is the one   *)
(* its mapping was resolved from (mapping.py:100-190).                     *)
THEOREM OwnRowsOnly == MappingSpec => []OwnRows
<1>1. Owning => OwnRows
  BY DEF Owning, OwnRows
<1> QED
  BY <1>1, OwningHolds, PTL

-----------------------------------------------------------------------------
(* A valid resolution of a table has each of its cells in one row, and the *)
(* rest of the table has it in none.                                       *)
LEMMA ResolvedOnce ==
    ASSUME NEW m, NEW t, Valid(Resolve(m, t)),
           NEW cells, cells \subseteq Cells(Resolve(m, t))
    PROVE  EachOnce(t, cells)
<1> SUFFICES ASSUME NEW c \in cells
             PROVE  Cardinality({x \in RowsOf(t, cells) : x.cell = c}) = 1
  BY DEF EachOnce
<1>1. PICK x \in Resolve(m, t) : x.cell = c
  BY DEF Cells
<1>2. ASSUME NEW y \in RowsOf(t, cells), y.cell = c PROVE y = x
  <2>1. y \in Resolve(m, t)
    BY <1>1, <1>2 DEF RowsOf, Resolve
  <2> QED
    BY <1>1, <1>2, <2>1 DEF Valid
<1>3. x \in RowsOf(t, cells)
  BY <1>1 DEF RowsOf, Resolve
<1>4. {y \in RowsOf(t, cells) : y.cell = c} = {x}
  BY <1>1, <1>2, <1>3
<1> QED
  BY <1>4, FS_Singleton

LEMMA OnceFound ==
    ASSUME NEW t, NEW cells, cells # {}, EachOnce(t, cells)
    PROVE  RowsOf(t, cells) # {}
<1>1. Cells(RowsOf(t, cells)) = cells
  BY RowsHold
<1> QED
  BY <1>1 DEF Cells

(* What the provider resolves and the class accepts, its hook recognises.  *)
LEMMA ResolvedRecognised ==
    ASSUME NEW m \in Models, NEW t, Valid(Resolve(m, t)), Applies(m, Resolve(m, t))
    PROVE  Reconcile(m, Resolve(m, t), t) # {}
<1> DEFINE o == Resolve(m, t)
<1>1. o # {} /\ Cells(o) # {}
  BY DEF Valid, Cells
<1>2. /\ Cells(o) \subseteq m.offered /\ Cells(o) \subseteq m.accepted
      /\ m.required \subseteq Cells(o)
  BY DEF Applies, Accepts, Cells, Resolve
<1>3. CASE m.repair = "none"
  BY <1>1, <1>3 DEF Reconcile
<1>4. CASE m.repair = "exact"
  <2>1. m.accepted # {} /\ m.required # {}
    BY <1>1, <1>2, <1>4, ModelsAssumption
  <2>2. EachOnce(t, m.required)
    BY <1>2, ResolvedOnce
  <2>3. RowsOf(t, m.required) # {}
    BY <2>1, <2>2, OnceFound
  <2> QED
    BY <1>4, <2>1, <2>2, <2>3 DEF Reconcile
<1>5. CASE m.repair = "mip"
  <2>1. Cells(o) = m.offered
    BY <1>2, <1>5, ModelsAssumption DEF Applies
  <2>2. EachOnce(t, m.offered)
    BY <2>1, ResolvedOnce
  <2>3. RowsOf(t, m.offered) # {}
    BY <1>1, <2>1, <2>2, OnceFound
  <2> QED
    BY <1>5, <2>2, <2>3 DEF Reconcile
<1> QED
  BY <1>3, <1>4, <1>5, ModelsAssumption

(* Reconciling again with the same table changes nothing.                  *)
LEMMA ReconcileTwice ==
    ASSUME NEW m \in Models, NEW o, NEW t, Reconcile(m, o, t) # {}
    PROVE  Reconcile(m, Reconcile(m, o, t), t) = Reconcile(m, o, t)
<1>1. CASE m.repair = "none"
  BY <1>1 DEF Reconcile
<1>2. CASE m.repair = "exact"
  BY <1>2 DEF Reconcile
<1>3. CASE m.repair = "mip"
  <2>1. CASE EachOnce(t, m.offered)
    BY <1>3, <2>1 DEF Reconcile
  <2>2. CASE ~EachOnce(t, m.offered)
    <3>1. Reconcile(m, o, t) = o
      BY <1>3, <2>2 DEF Reconcile
    <3> QED
      BY <3>1
  <2> QED
    BY <2>1, <2>2
<1> QED
  BY <1>1, <1>2, <1>3, ModelsAssumption

(* While the table is not edited, what came from it is recognised.         *)
Recognised ==
    /\ phase = "refused" => edits > 0 \/ source = "manual"
    /\ (edits = 0 /\ source \in {"automatic", "legacy"})
       => Reconcile(model, stored, table) # {}
    /\ phase # "none" => source \in {"automatic", "manual", "legacy"}

LEMMA RecognisedHolds == MappingSpec => []Recognised
<1>1. MappingInit => Recognised
  <2> SUFFICES ASSUME MappingInit PROVE Recognised
    OBVIOUS
  <2>1. CASE source = "none"
    BY <2>1 DEF MappingInit, Recognised
  <2>2. CASE source = "legacy"
    <3>1. model \in Models /\ model.repair = "mip" /\ ExactLegacy(stored, table)
      BY <2>2 DEF MappingInit
    <3>2. stored # {}
      <4>1. Cells(stored) = LegacyMIPCells /\ Zone(0, 3) \in LegacyMIPCells
        BY <3>1 DEF ExactLegacy, LegacyMIPCells
      <4> QED
        BY <4>1 DEF Cells
    <3>3. Reconcile(model, stored, table) # {}
      <4>1. EachOnce(table, model.offered) => RowsOf(table, model.offered) # {}
        BY <3>1, OnceFound, ModelsAssumption
      <4> QED
        BY <3>1, <3>2, <4>1 DEF Reconcile
    <3> QED
      BY <2>2, <3>3 DEF MappingInit, Recognised
  <2> QED
    BY <2>1, <2>2 DEF MappingInit
<1>2. Fitting /\ Counted /\ Recognised /\ [MappingNext]_mappingVars => Recognised'
  <2> SUFFICES ASSUME Fitting, Counted, Recognised, [MappingNext]_mappingVars PROVE Recognised'
    OBVIOUS
  <2> USE DEF Recognised, Counted
  <2>1. CASE CreateAutomatic
    <3> DEFINE o == Resolve(model, table)
    <3>1. /\ stored' = o /\ Valid(o) /\ Applies(model, o) /\ phase' = "unloaded"
          /\ model' = model /\ table' = table /\ source' = "automatic"
      BY <2>1 DEF CreateAutomatic, Store
    <3>2. Reconcile(model, o, table) # {}
      BY <3>1, ResolvedRecognised DEF Fitting
    <3> HIDE DEF o
    <3>3. Reconcile(model', stored', table') # {}
      BY <3>1, <3>2
    <3> QED
      BY <3>1, <3>3
  <2>2. CASE CreateManual
    <3>1. source' = "manual" /\ phase' = "unloaded"
      BY <2>2 DEF CreateManual, Store
    <3> QED
      BY <3>1
  <2>3. CASE Setup
    <3> DEFINE o == Reconcile(model, stored, table)
    <3>1. /\ model' = model /\ table' = table /\ source' = source /\ edits' = edits
          /\ phase = "unloaded"
      BY <2>3 DEF Setup
    <3>2. CASE o = {} /\ phase' = "refused" /\ stored' = stored
      <4>1. edits > 0 \/ source = "manual"
        BY <3>1, <3>2
      <4>2. Reconcile(model', stored', table') = o
        BY <3>1, <3>2
      <4> HIDE DEF o
      <4> QED
        BY <3>1, <3>2, <4>1
    <3>3. CASE o # {} /\ stored' = o /\ phase' \in {"loaded", "rejected"}
      <4>1. Reconcile(model, o, table) = o
        BY <3>3, ReconcileTwice DEF Fitting
      <4> HIDE DEF o
      <4>2. Reconcile(model', stored', table') # {}
        BY <3>1, <3>3, <4>1
      <4> QED
        BY <3>1, <3>3, <4>2
    <3>4. \/ o = {} /\ phase' = "refused" /\ stored' = stored
          \/ o # {} /\ stored' = o /\ phase' \in {"loaded", "rejected"}
      BY <2>3 DEF Setup
    <3> HIDE DEF o
    <3> QED
      BY <3>2, <3>3, <3>4
  <2>4. CASE Unload
    BY <2>4 DEF Unload
  <2>5. ASSUME NEW t, Edited(t) PROVE Recognised'
    BY <2>5 DEF Edited
  <2>6. CASE CopyRow
    BY <2>5, <2>6 DEF CopyRow
  <2>7. CASE Rewrite
    BY <2>5, <2>7 DEF Rewrite
  <2>8. CASE UNCHANGED mappingVars
    BY <2>8 DEF mappingVars
  <2> QED
    BY <2>1, <2>2, <2>3, <2>4, <2>6, <2>7, <2>8 DEF MappingNext
<1> QED
  BY <1>1, <1>2, FittingHolds, OwningHolds, PTL DEF MappingSpec

(* A setup is refused only for an edited table or a mapping typed in: what *)
(* the provider resolves, the hook of the class recognises in the same     *)
(* table (mapping.py:85, bolid.py:2091, :3525, :4376, :4847).              *)
THEOREM AutomaticNeverRefused == MappingSpec => []AutomaticSetsUp
<1>1. Recognised => AutomaticSetsUp
  BY DEF Recognised, AutomaticSetsUp
<1> QED
  BY <1>1, RecognisedHolds, PTL

-----------------------------------------------------------------------------
(* A section is finite, and so are the rows of a table.                    *)
LEMMA RowsFinite ==
    ASSUME NEW t \in Sections
    PROVE  IsFiniteSet(Objects(t))
<1>1. ASSUME NEW k \in Kinds
      PROVE  IsFiniteSet({Object(t, k, i) : i \in DOMAIN t[k]})
  <2> DEFINE f == [i \in DOMAIN t[k] |-> Object(t, k, i)]
  <2>1. DOMAIN t[k] = 1..Len(t[k]) /\ Len(t[k]) \in Nat
    BY <1>1 DEF Sections, Kinds
  <2>2. IsFiniteSet(DOMAIN t[k])
    BY <2>1, FS_Interval
  <2>3. f \in Surjection(DOMAIN t[k], {Object(t, k, i) : i \in DOMAIN t[k]})
    BY DEF Surjection
  <2> QED
    BY <2>2, <2>3, FS_Surjection
<1>2. Objects(t) = {Object(t, "relay", i) : i \in DOMAIN t["relay"]}
                   \cup {Object(t, "zone", i) : i \in DOMAIN t["zone"]}
  BY DEF Objects, Kinds
<1> QED
  BY <1>1, <1>2, FS_Union DEF Kinds

(* A row that holds a known cell is of the section of that cell's kind.    *)
LEMMA RowsOfAKind ==
    ASSUME NEW t \in Sections, NEW x \in Objects(t), x.cell \in Known
    PROVE  x = Object(t, x.cell.kind, x.row)
<1>0. PICK k \in Kinds : \E i \in DOMAIN t[k] : x = Object(t, k, i)
  BY DEF Objects
<1>1. PICK i \in DOMAIN t[k] : x = Object(t, k, i)
  BY <1>0
<1>2. x.cell = t[k][i] /\ x.row = i
  BY <1>1 DEF Object
<1>3. x.cell # Nobody
  BY TablesAssumption
<1>4. t[k] \in Seq({c \in Known : c.kind = k} \cup {Nobody})
  BY <1>1 DEF Sections, Kinds
<1>5. t[k][i] \in {c \in Known : c.kind = k} \cup {Nobody}
  BY <1>1, <1>4
<1>6. x.cell.kind = k
  BY <1>2, <1>3, <1>5
<1> QED
  BY <1>1, <1>2, <1>6

(* Rows of different cells make a mapping: two of a section are two rows.  *)
LEMMA RowsValid ==
    ASSUME NEW t \in Sections, NEW o \in SUBSET Objects(t), o # {},
           Cells(o) \subseteq Known,
           \A x, y \in o : x.cell = y.cell => x = y
    PROVE  Valid(o)
<1> SUFFICES ASSUME NEW x \in o, NEW y \in o, x.cell.kind = y.cell.kind, x.row = y.row
             PROVE  x = y
  BY DEF Valid
<1>1. x.cell \in Known /\ y.cell \in Known
  BY DEF Cells
<1>2. x = Object(t, x.cell.kind, x.row) /\ y = Object(t, y.cell.kind, y.row)
  BY <1>1, RowsOfAKind
<1> QED
  BY <1>2

(* The rows that hold each of some cells once are a mapping.               *)
LEMMA OnceValid ==
    ASSUME NEW t \in Sections, NEW cells \in SUBSET Known, cells # {},
           EachOnce(t, cells)
    PROVE  Valid(RowsOf(t, cells))
<1> DEFINE o == RowsOf(t, cells)
<1>1. o \subseteq Objects(t) /\ Cells(o) \subseteq cells
  BY DEF RowsOf, Cells
<1>2. o # {}
  BY OnceFound
<1>3. ASSUME NEW x \in o, NEW y \in o, x.cell = y.cell PROVE x = y
  <2> DEFINE Same == {z \in RowsOf(t, cells) : z.cell = x.cell}
  <2>1. x.cell \in cells
    BY DEF RowsOf
  <2>2. Cardinality(Same) = 1
    BY <2>1 DEF EachOnce
  <2>3. IsFiniteSet(Same)
    BY <1>1, RowsFinite, FS_Subset
  <2>4. x \in Same /\ y \in Same
    BY <1>3
  <2> HIDE DEF Same
  <2>5. PICK z : Same = {z}
    BY <2>2, <2>3, FS_Singleton
  <2> QED
    BY <2>4, <2>5
<1> HIDE DEF o
<1> QED
  BY <1>1, <1>2, <1>3, RowsValid DEF o

(* There are six cells in a mapping of the older version.                  *)
LEMMA SixLegacyCells ==
    IsFiniteSet(LegacyMIPCells) /\ Cardinality(LegacyMIPCells) = 6
<1> DEFINE Inputs == {Zone(n, 1) : n \in 1..5}
           f == [n \in 1..5 |-> Zone(n, 1)]
<1>1. IsFiniteSet(1..5) /\ Cardinality(1..5) = 5
  <2>1. ASSUME NEW n \in Nat
        PROVE  IsFiniteSet(1..n) /\ Cardinality(1..n) = n
    <3>1. /\ IsFiniteSet(1..n)
          /\ Cardinality(1..n) = IF 1 > n THEN 0 ELSE n - 1 + 1
      BY FS_Interval
    <3> QED
      BY <3>1
  <2>2. 5 \in Nat
    OBVIOUS
  <2> QED
    BY <2>1, <2>2, Zenon
<1>2. f \in Surjection(1..5, Inputs)
  BY DEF Surjection
<1>3. f \in Injection(1..5, Inputs)
  BY DEF Injection, IsInjective, Zone
<1>4. IsFiniteSet(Inputs) /\ Cardinality(Inputs) = 5
  BY <1>1, <1>2, <1>3, FS_Surjection
<1>5. Zone(0, 3) \notin Inputs
  BY DEF Zone
<1>6. LegacyMIPCells = Inputs \cup {Zone(0, 3)}
  BY DEF LegacyMIPCells
<1> QED
  BY <1>4, <1>5, <1>6, FS_AddElement

(* Six rows that hold six cells between them hold one each.                *)
LEMMA LegacyValid ==
    ASSUME NEW m \in Models, m.repair = "mip", NEW t \in Sections, NEW o, ExactLegacy(o, t)
    PROVE  Valid(o)
<1> DEFINE f == [x \in o |-> x.cell]
<1>1. o \subseteq Objects(t) /\ Cardinality(o) = 6 /\ Cells(o) = LegacyMIPCells
  BY DEF ExactLegacy
<1>2. IsFiniteSet(o)
  BY <1>1, RowsFinite, FS_Subset
<1>3. f \in Surjection(o, LegacyMIPCells)
  BY <1>1 DEF Surjection, Cells
<1>4. f \in Injection(o, LegacyMIPCells)
  BY <1>1, <1>2, <1>3, SixLegacyCells, FS_Surjection
<1>5. \A x, y \in o : x.cell = y.cell => x = y
  BY <1>4 DEF Injection, IsInjective
<1>6. o # {}
  BY <1>1, FS_EmptySet
<1>7. LegacyMIPCells \subseteq Known
  BY ModelsAssumption DEF Accepts, Known
<1> QED
  BY <1>1, <1>5, <1>6, <1>7, RowsValid

(* Whatever a hook returns is a mapping.                                   *)
LEMMA ReconcileValid ==
    ASSUME NEW m \in Models, NEW t \in Sections, NEW o, Valid(o), Reconcile(m, o, t) # {}
    PROVE  Valid(Reconcile(m, o, t))
<1>1. CASE m.repair = "none"
  BY <1>1 DEF Reconcile
<1>2. CASE m.repair = "exact"
  <2>1. /\ m.accepted # {} /\ EachOnce(t, m.required)
        /\ Reconcile(m, o, t) = RowsOf(t, m.required)
    BY <1>2 DEF Reconcile
  <2>2. m.required \subseteq Known /\ m.required # {}
    BY <1>2, <2>1, ModelsAssumption DEF Accepts, Known
  <2> QED
    BY <2>1, <2>2, OnceValid
<1>3. CASE m.repair = "mip"
  <2>1. CASE EachOnce(t, m.offered)
    <3>1. m.offered \subseteq Known /\ m.offered # {}
      BY <1>3, ModelsAssumption DEF Known
    <3>2. Reconcile(m, o, t) = RowsOf(t, m.offered)
      BY <1>3, <2>1 DEF Reconcile
    <3> QED
      BY <2>1, <3>1, <3>2, OnceValid
  <2>2. CASE ~EachOnce(t, m.offered)
    <3>1. Reconcile(m, o, t) = o
      BY <1>3, <2>2 DEF Reconcile
    <3> QED
      BY <3>1
  <2> QED
    BY <2>1, <2>2
<1> QED
  BY <1>1, <1>2, <1>3, ModelsAssumption

(* A row copied within its section leaves a table.                         *)
LEMMA CopiedSection ==
    ASSUME NEW t \in Sections, NEW k \in Kinds,
           NEW i \in DOMAIN t[k], NEW j \in DOMAIN t[k]
    PROVE  [t EXCEPT ![k][i] = t[k][j]] \in Sections
<1> DEFINE Cell(of) == {c \in Known : c.kind = of} \cup {Nobody}
           s == [t[k] EXCEPT ![i] = t[k][j]]
<1>1. t \in [relay : Seq(Cell("relay")), zone : Seq(Cell("zone"))]
  BY DEF Sections
<1>2. t[k] \in Seq(Cell(k))
  BY <1>1 DEF Kinds
<1> HIDE DEF Cell
<1>3. t[k][j] \in Cell(k) /\ s \in Seq(Cell(k))
  BY <1>2
<1>4. [t EXCEPT ![k][i] = t[k][j]] = [t EXCEPT ![k] = s]
  OBVIOUS
<1> HIDE DEF s
<1>5. [t EXCEPT ![k] = s] \in [relay : Seq(Cell("relay")), zone : Seq(Cell("zone"))]
  BY <1>1, <1>3 DEF Kinds
<1> QED
  BY <1>4, <1>5 DEF Sections, Cell

(* What an entry has stored is always a mapping: no repair of it raises in *)
(* ResolvedDeviceMapping.__post_init__, whatever was edited.               *)
THEOREM MappingsValid == MappingSpec => []TypeOK
<1>1. MappingInit => TypeOK
  <2> SUFFICES ASSUME MappingInit PROVE TypeOK
    OBVIOUS
  <2>1. table \in Sections /\ model \in Models
    BY TablesAssumption DEF MappingInit
  <2>2. phase # "none" => Valid(stored)
    BY <2>1, LegacyValid DEF MappingInit
  <2> QED
    BY <2>1, <2>2, TablesAssumption DEF MappingInit, TypeOK
<1>2. TypeOK /\ [MappingNext]_mappingVars => TypeOK'
  <2> SUFFICES ASSUME TypeOK, [MappingNext]_mappingVars PROVE TypeOK'
    OBVIOUS
  <2> USE DEF TypeOK
  <2>1. ASSUME NEW o, NEW by \in {"automatic", "manual"}, Store(o, by) PROVE TypeOK'
    BY <2>1 DEF Store, Valid
  <2>2. CASE CreateAutomatic
    BY <2>1, <2>2 DEF CreateAutomatic
  <2>3. CASE CreateManual
    BY <2>1, <2>3 DEF CreateManual
  <2>4. CASE Setup
    <3> DEFINE o == Reconcile(model, stored, table)
    <3>1. phase = "unloaded" /\ Valid(stored)
      BY <2>4 DEF Setup
    <3>2. o # {} => Valid(o)
      BY <3>1, ReconcileValid
    <3>3. UNCHANGED <<model, table, source, edits>> /\ stale' = FALSE
      BY <2>4 DEF Setup
    <3>4. CASE o = {} /\ phase' = "refused" /\ UNCHANGED stored
      BY <3>1, <3>3, <3>4 DEF Valid
    <3>5. CASE /\ o # {}
               /\ stored' = o
               /\ phase' = IF Applies(model, o) THEN "loaded" ELSE "rejected"
      <4>1. Valid(o) /\ phase' \in {"loaded", "rejected"}
        BY <3>2, <3>5
      <4> HIDE DEF o
      <4> QED
        BY <3>3, <3>5, <4>1 DEF Valid
    <3> QED
      BY <2>4, <3>4, <3>5 DEF Setup
  <2>5. CASE Unload
    BY <2>5 DEF Unload, Valid
  <2>6. ASSUME NEW t \in Sections, Edited(t) PROVE TypeOK'
    BY <2>6, TablesAssumption DEF Edited, Valid
  <2>7. CASE CopyRow
    BY <2>6, <2>7, CopiedSection DEF CopyRow
  <2>8. CASE Rewrite
    BY <2>6, <2>8, TablesAssumption DEF Rewrite
  <2>9. CASE UNCHANGED mappingVars
    BY <2>9 DEF mappingVars, Valid
  <2> QED
    BY <2>2, <2>3, <2>4, <2>5, <2>7, <2>8, <2>9 DEF MappingNext
<1> QED
  BY <1>1, <1>2, PTL DEF MappingSpec

-----------------------------------------------------------------------------
(* A poll of a device with a latch reads both states of its zone.          *)
LEMMA LatchProgram ==
    ASSUME NEW k \in DOMAIN Latches
    PROVE  Program(k) = <<"primary", "expanded">>
BY DEF Latches, Program

LEMMA LatchRules ==
    ASSUME NEW k \in DOMAIN Latches
    PROVE  Latches[k].by \in {"expanded", "both", "primary only", "first", "primary first"}
<1>1. k \in {"tamper", "measurement", "glass", "wiredTamper", "fault",
             "opening", "water", "caseTamper"}
  BY DEF Latches
<1>2. /\ Latches["tamper"].by = "expanded" /\ Latches["measurement"].by = "expanded"
      /\ Latches["glass"].by = "primary first" /\ Latches["wiredTamper"].by = "both"
      /\ Latches["fault"].by = "both" /\ Latches["opening"].by = "both"
      /\ Latches["water"].by = "primary only" /\ Latches["caseTamper"].by = "first"
  BY DEF Latches
<1> QED
  BY <1>1, <1>2

(* The codes that a sequence of a primary and expanded states consists of. *)
LEMMA LeadsSeen ==
    ASSUME NEW a, NEW b, NEW p, NEW e, e \in Seq(Active(e)), Leads(a, b, <<p>> \o e)
    PROVE  ({p} \cup Active(e)) \cap a # {}
<1>1. PICK i \in DOMAIN (<<p>> \o e) : (<<p>> \o e)[i] \in a
  BY DEF Leads
<1>2. (<<p>> \o e)[i] = p \/ \E j \in DOMAIN e : (<<p>> \o e)[i] = e[j]
  <2>1. i \in 1..(1 + Len(e))
    BY <1>1
  <2>2. CASE i = 1
    BY <2>2
  <2>3. CASE i # 1
    <3>1. i - 1 \in DOMAIN e /\ (<<p>> \o e)[i] = e[i - 1]
      BY <2>1, <2>3
    <3> QED
      BY <3>1
  <2> QED
    BY <2>2, <2>3
<1> QED
  BY <1>1, <1>2 DEF Active

(* A latch moves only on evidence for its new position, in any of the      *)
(* rules by which a class decides.                                         *)
LEMMA LatchedSeen ==
    ASSUME NEW k \in DOMAIN Latches, NEW p, NEW e, e \in Seq(Active(e)), NEW old,
           Latched(k, p, e, old) # old
    PROVE  \/ /\ Latched(k, p, e, old) = "alarm"
              /\ ({p} \cup Active(e)) \cap Latches[k].alarm # {}
           \/ /\ Latched(k, p, e, old) = "restored"
              /\ ({p} \cup Active(e)) \cap Latches[k].restored # {}
           \/ /\ Latched(k, p, e, old) = "unknown"
              /\ Latches[k].by \in {"primary only", "first"}
<1> DEFINE l == Latches[k]
           codes == {p} \cup Active(e)
<1>1. ASSUME NEW C, C \subseteq codes, NEW o, Decide(C, l, o) # o
      PROVE  \/ Decide(C, l, o) = "alarm" /\ codes \cap l.alarm # {}
             \/ Decide(C, l, o) = "restored" /\ codes \cap l.restored # {}
  <2> HIDE DEF l, codes
  <2> QED
    BY <1>1 DEF Decide
<1>2. {p} \subseteq codes /\ Active(e) \subseteq codes
  OBVIOUS
<1>3. CASE l.by = "expanded"
  <2>1. Latched(k, p, e, old) = Decide(Active(e), l, old)
    BY <1>3 DEF Latched, ExpandedOnly
  <2> HIDE DEF l, codes
  <2> QED
    BY <1>1, <1>2, <2>1 DEF l, codes
<1>4. CASE l.by = "both"
  <2>1. Latched(k, p, e, old) = Decide(codes, l, old)
    <3>1. codes = Active(e) \cup {p}
      OBVIOUS
    <3> QED
      BY <1>4, <3>1 DEF Latched
  <2> HIDE DEF l, codes
  <2> QED
    BY <1>1, <2>1 DEF l, codes
<1>5. CASE l.by = "primary only"
  <2>1. Latched(k, p, e, old) = Decide({p}, l, "unknown")
    BY <1>5 DEF Latched, PrimaryOnly
  <2>2. \/ Latched(k, p, e, old) = "unknown"
        \/ Latched(k, p, e, old) = "alarm" /\ codes \cap l.alarm # {}
        \/ Latched(k, p, e, old) = "restored" /\ codes \cap l.restored # {}
    <3> HIDE DEF l, codes
    <3> QED
      BY <1>1, <1>2, <2>1
  <2> QED
    BY <1>5, <2>2
<1>6. CASE l.by = "first"
  <2>1. Latched(k, p, e, old) = FirstMarked(p, e, l)
    BY <1>6 DEF Latched
  <2>2. Leads(l.alarm, l.restored, <<p>> \o e) => codes \cap l.alarm # {}
    BY LeadsSeen
  <2>3. Leads(l.restored, l.alarm, <<p>> \o e) => codes \cap l.restored # {}
    BY LeadsSeen
  <2>4. \/ Latched(k, p, e, old) = "unknown"
        \/ Latched(k, p, e, old) = "alarm" /\ codes \cap l.alarm # {}
        \/ Latched(k, p, e, old) = "restored" /\ codes \cap l.restored # {}
    <3> HIDE DEF l, codes
    <3> QED
      BY <2>1, <2>2, <2>3 DEF FirstMarked
  <2> QED
    BY <1>6, <2>4
<1>7. CASE l.by = "primary first"
  <2>1. Latched(k, p, e, old) = PrimaryFirst(p, e, l, old)
    BY <1>7 DEF Latched
  <2> DEFINE votes == {Decide({p}, l, "unknown"), Decide(Active(e), l, "unknown")}
  <2>2. \A v \in votes : \/ v = "unknown"
                         \/ v = "alarm" /\ codes \cap l.alarm # {}
                         \/ v = "restored" /\ codes \cap l.restored # {}
    <3> HIDE DEF l, codes
    <3> QED
      BY <1>1, <1>2
  <2>3. Latched(k, p, e, old) =
            CASE "alarm" \in votes -> "alarm"
              [] "alarm" \notin votes /\ "restored" \in votes -> "restored"
              [] OTHER -> old
    <3> HIDE DEF l
    <3> QED
      BY <2>1 DEF PrimaryFirst
  <2> HIDE DEF votes, codes
  <2>4. \/ Latched(k, p, e, old) = "alarm" /\ codes \cap l.alarm # {}
        \/ Latched(k, p, e, old) = "restored" /\ codes \cap l.restored # {}
        \/ Latched(k, p, e, old) = old
    BY <2>2, <2>3
  <2> QED
    BY <2>4 DEF codes
<1> QED
  BY <1>3, <1>4, <1>5, <1>6, <1>7, LatchRules

(* The expanded states of a zone are a sequence.                           *)
LEMMA ZoneShape ==
    ASSUME NEW k \in DOMAIN Latches, NEW z \in Zones(k)
    PROVE  z.expanded \in Seq(Active(z.expanded))
<1> DEFINE a == CHOOSE c \in Latches[k].alarm : TRUE
           r == CHOOSE c \in Latches[k].restored : TRUE
<1>1. z \in [primary : {0, a, r}, expanded : {<<>>, <<a>>, <<r>>, <<a, r>>}]
  BY DEF Zones
<1> HIDE DEF a, r
<1>2. z.expanded \in Seq({a, r})
  <2>1. \/ z.expanded = <<>> \/ z.expanded = <<a>>
        \/ z.expanded = <<r>> \/ z.expanded = <<a, r>>
    BY <1>1
  <2>2. <<>> \in Seq({a, r})
    OBVIOUS
  <2>3. <<a>> \in Seq({a, r}) /\ <<r>> \in Seq({a, r})
    OBVIOUS
  <2>4. <<a, r>> \in Seq({a, r})
    OBVIOUS
  <2> QED
    BY <2>1, <2>2, <2>3, <2>4
<1> QED
  BY <1>2 DEF Active

(* While a device with a latch is polled, what was shown since the poll    *)
(* began covers what its zone is now, and what was read of it.             *)
Showing ==
    /\ zone \in Zones(kind)
    /\ step \in Nat
    /\ DOMAIN read = {"primary", "expanded"}
    /\ kind \in DOMAIN Latches =>
           /\ step \in 0..2
           /\ step > 0 => CodesOf(zone) \subseteq shown
           /\ step = 2 => read.primary \in shown

LEMMA ShowingHolds == Spec => []Showing
<1>1. Init => Showing
  BY DEF Init, PollInit, Showing, Quiet
<1>2. Showing /\ [Next]_vars => Showing'
  <2> SUFFICES ASSUME Showing, [Next]_vars PROVE Showing'
    OBVIOUS
  <2> USE DEF Showing
  <2>1. CASE StartPoll
    BY <2>1 DEF StartPoll
  <2>2. ASSUME Proceed
        PROVE  /\ step' \in Nat
               /\ kind \in DOMAIN Latches => step' \in 0..2 /\ (step = 2 => step' = 0)
    <3> HIDE DEF Showing
    <3>1. kind \in DOMAIN Latches => Len(Program(kind)) = 2
      BY LatchProgram
    <3>0. step \in Nat /\ (kind \in DOMAIN Latches => step \in 0..2)
      BY DEF Showing
    <3>2. \/ step = Len(Program(kind)) /\ step' = 0
          \/ step # Len(Program(kind)) /\ step' = step + 1
      BY <2>2 DEF Proceed
    <3>3. step' \in Nat
      BY <3>0, <3>2
    <3>4. ASSUME kind \in DOMAIN Latches PROVE step' \in 0..2 /\ (step = 2 => step' = 0)
      BY <3>0, <3>1, <3>2, <3>4
    <3> QED
      BY <3>3, <3>4
  <2>3. CASE ReadPrimary
    <3>1. /\ read' = [read EXCEPT !.primary = zone.primary] /\ step > 0
          /\ UNCHANGED <<kind, cursor, latch, zone, shown>>
      BY <2>3 DEF ReadPrimary, At
    <3>2. DOMAIN read' = DOMAIN read /\ read'.primary = zone.primary
      BY <3>1
    <3>3. zone.primary \in CodesOf(zone)
      BY DEF CodesOf
    <3> QED
      BY <2>2, <2>3, <3>1, <3>2, <3>3 DEF ReadPrimary
  <2>4. CASE ReadExpanded
    <3>1. ASSUME kind \in DOMAIN Latches PROVE step = 2
      <4>1. Program(kind) = <<"primary", "expanded">>
        BY <3>1, LatchProgram
      <4> QED
        BY <2>4, <3>1, <4>1 DEF ReadExpanded, At
    <3> QED
      BY <2>2, <2>4, <3>1 DEF ReadExpanded, Quiet
  <2>5. ASSUME At("value") PROVE step > 0 /\ kind \notin DOMAIN Latches
    <3>1. ASSUME kind \in DOMAIN Latches PROVE FALSE
      <4>1. Program(kind) = <<"primary", "expanded">>
        BY <3>1, LatchProgram
      <4> QED
        BY <2>5, <3>1, <4>1 DEF At
    <3> QED
      BY <2>5, <3>1 DEF At
  <2>6. CASE NotReady \/ \E k \in Keys : Ready(k)
    <3>1. /\ At("value") /\ Proceed
          /\ kind' = kind /\ read' = read /\ zone' = zone /\ shown' = shown
      BY <2>6 DEF Ready, NotReady
    <3> QED
      BY <2>2, <2>5, <3>1
  <2>7. CASE PollFails
    BY <2>7 DEF PollFails, Quiet
  <2>8. CASE ZoneChanges
    BY <2>8 DEF ZoneChanges
  <2>9. CASE UNCHANGED pollVars
    BY <2>9 DEF pollVars
  <2> QED
    BY <2>1, <2>3, <2>4, <2>6, <2>7, <2>8, <2>9
       DEF Next, vars, Poll, Command, Exchange
<1> QED
  BY <1>1, <1>2, PTL DEF Spec

(* A latch of a device changes only to a position that its zone had a code *)
(* for while the poll ran: what was read of the primary state may be of a  *)
(* moment before the expanded ones, but of this poll                       *)
(* (bolid.py:3054, :3290, :3370, :3489, :3719, :4495, :2344).              *)
THEOREM LatchFollowsZone == Spec => LatchSeen
<1>1. Showing /\ [Next]_vars =>
        [latch' # latch =>
             \/ latch' = "alarm" /\ shown \cap Latches[kind].alarm # {}
             \/ latch' = "restored" /\ shown \cap Latches[kind].restored # {}
             \/ latch' = "unknown" /\ Latches[kind].by \in {"primary only", "first"}]_latch
  <2> SUFFICES ASSUME Showing, [Next]_vars, latch' # latch
               PROVE  \/ latch' = "alarm" /\ shown \cap Latches[kind].alarm # {}
                      \/ latch' = "restored" /\ shown \cap Latches[kind].restored # {}
                      \/ /\ latch' = "unknown"
                         /\ Latches[kind].by \in {"primary only", "first"}
    OBVIOUS
  <2>1. ReadExpanded
    BY DEF Next, vars, Poll, Command, Exchange, StartPoll, ReadPrimary, Ready,
           NotReady, PollFails, ZoneChanges, pollVars
  <2>2. kind \in DOMAIN Latches /\ latch' = Latched(kind, read.primary, zone.expanded, latch)
    BY <2>1 DEF ReadExpanded
  <2>3. step = 2
    <3>1. Program(kind) = <<"primary", "expanded">>
      BY <2>2, LatchProgram
    <3> QED
      BY <2>1, <2>2, <3>1 DEF ReadExpanded, At, Showing
  <2>4. read.primary \in shown /\ CodesOf(zone) \subseteq shown /\ zone \in Zones(kind)
    BY <2>2, <2>3 DEF Showing
  <2>5. {read.primary} \cup Active(zone.expanded) \subseteq shown
    BY <2>4 DEF Active, CodesOf
  <2>6. zone.expanded \in Seq(Active(zone.expanded))
    BY <2>2, <2>4, ZoneShape
  <2>7. \/ /\ latch' = "alarm"
           /\ ({read.primary} \cup Active(zone.expanded)) \cap Latches[kind].alarm # {}
        \/ /\ latch' = "restored"
           /\ ({read.primary} \cup Active(zone.expanded)) \cap Latches[kind].restored # {}
        \/ latch' = "unknown" /\ Latches[kind].by \in {"primary only", "first"}
    BY <2>2, <2>6, LatchedSeen
  <2> QED
    BY <2>5, <2>7
<1> QED
  BY <1>1, ShowingHolds, PTL DEF Spec, LatchSeen

-----------------------------------------------------------------------------
(* Writes of one or several registers, and what a sequence of them asks of *)
(* a device.                                                               *)
Registered ==
    {"coil", "p101", "p102", "assigned", "output", "mode", "power", "filter", "usage"}

Writes == UNION {[S -> 0..2] : S \in SUBSET Registered}

Open(writes) == UNION {Pairs(writes[i]) : i \in DOMAIN writes}

LEMMA ToWrites ==
    ASSUME NEW r \in Registered, NEW v \in 0..2
    PROVE  /\ To(r, v) \in Writes /\ DOMAIN To(r, v) = {r} /\ To(r, v)[r] = v
<1>1. To(r, v) \in [{r} -> 0..2] /\ {r} \in SUBSET Registered
  BY DEF To
<1>2. To(r, v) \in Writes
  BY <1>1 DEF Writes
<1> QED
  BY <1>1, <1>2 DEF To

LEMMA BothWrites ==
    ASSUME NEW v \in 0..2
    PROVE  Both(v) \in Writes /\ DOMAIN Both(v) = {"mode", "power"}
<1>1. Both(v) \in [{"mode", "power"} -> 0..2] /\ {"mode", "power"} \in SUBSET Registered
  BY DEF Both, Registered
<1> QED
  BY <1>1 DEF Both, Writes

LEMMA OneWrite ==
    ASSUME NEW w \in Writes
    PROVE  /\ <<w>> \in Seq(Writes) /\ <<w>> # <<>> /\ Len(<<w>>) = 1
           /\ \A i \in DOMAIN <<w>> : <<w>>[i] = w
OBVIOUS

(* What the entities ask for: registers of the device if it is confirmed,  *)
(* one write at a time of the devices that check it first.                 *)
LEMMA CommandShape ==
    ASSUME NEW m, NEW c \in Commands(m)
    PROVE  /\ c.writes \in Seq(Writes) /\ c.writes # <<>>
           /\ c.confirm => \A i \in DOMAIN c.writes : DOMAIN c.writes[i] \subseteq Registers(m)
           /\ m \in {"erman", "owen"} => Len(c.writes) = 1 /\ c.confirm
<1>1. ASSUME NEW r \in Registered \cap Registers(m), NEW v \in 0..2, c = Asked(<<To(r, v)>>)
      PROVE  /\ c.writes \in Seq(Writes) /\ c.writes # <<>> /\ c.confirm
             /\ \A i \in DOMAIN c.writes : DOMAIN c.writes[i] \subseteq Registers(m)
             /\ Len(c.writes) = 1
  <2>1. c.writes = <<To(r, v)>> /\ c.confirm
    BY <1>1 DEF Asked
  <2>2. To(r, v) \in Writes /\ DOMAIN To(r, v) \subseteq Registers(m)
    BY ToWrites
  <2> QED
    BY <2>1, <2>2, OneWrite
<1>2. CASE m \in {"relay", "erman", "owen"}
  <2>1. \E r \in Registered \cap Registers(m) : \E v \in 0..2 : c = Asked(<<To(r, v)>>)
    <3>1. CASE m = "relay"
      BY <3>1 DEF Commands, Registers, Registered, Values
    <3>2. CASE m = "erman"
      BY <3>2 DEF Commands, Registers, Registered, Values
    <3>3. CASE m = "owen"
      BY <3>3 DEF Commands, Registers, Registered, Values
    <3> QED
      BY <1>2, <3>1, <3>2, <3>3
  <2> QED
    BY <1>1, <2>1
<1>3. CASE m \notin {"relay", "erman", "owen"}
  <2>1. \/ m \in {"climate", "haier"} /\ c = Asked(<<To("mode", 1), To("power", 1)>>)
        \/ m \in {"climate", "haier", "extended"} /\ c = Asked(<<To("power", 0)>>)
        \/ m = "extended" /\ c = Asked(<<Both(1)>>)
        \/ m = "extended" /\ c = [writes |-> <<To("filter", 1)>>, confirm |-> FALSE]
        \/ m = "counters" /\ c = [writes |-> <<To("usage", 1)>>, confirm |-> FALSE]
    <3>1. CASE m \in {"climate", "haier"}
      BY <3>1 DEF Commands
    <3>2. CASE m = "extended"
      BY <3>2 DEF Commands
    <3>3. CASE m \notin {"climate", "haier", "extended"}
      BY <1>3, <3>3 DEF Commands
    <3> QED
      BY <3>1, <3>2, <3>3
  <2>2. m \in {"climate", "haier", "extended"} => Registers(m) = {"mode", "power"}
    BY DEF Registers
  <2>3. CASE m \in {"climate", "haier"} /\ c = Asked(<<To("mode", 1), To("power", 1)>>)
    <3>1. c.writes = <<To("mode", 1), To("power", 1)>>
      BY <2>3 DEF Asked
    <3>2. To("mode", 1) \in Writes /\ DOMAIN To("mode", 1) \subseteq Registers(m)
      BY <2>2, <2>3, ToWrites DEF Registered
    <3>3. To("power", 1) \in Writes /\ DOMAIN To("power", 1) \subseteq Registers(m)
      BY <2>2, <2>3, ToWrites DEF Registered
    <3> HIDE DEF To
    <3> QED
      BY <1>3, <3>1, <3>2, <3>3
  <2>4. CASE m \in {"climate", "haier", "extended"} /\ c = Asked(<<To("power", 0)>>)
    <3>1. "power" \in Registered \cap Registers(m)
      BY <2>2, <2>4 DEF Registered
    <3>2. 0 \in 0..2 /\ c = Asked(<<To("power", 0)>>)
      BY <2>4
    <3>3. /\ c.writes \in Seq(Writes) /\ c.writes # <<>>
          /\ \A i \in DOMAIN c.writes : DOMAIN c.writes[i] \subseteq Registers(m)
      BY <1>1, <3>1, <3>2
    <3> QED
      BY <1>3, <3>3
  <2>5. CASE m = "extended" /\ c = Asked(<<Both(1)>>)
    <3>1. c.writes = <<Both(1)>>
      BY <2>5 DEF Asked
    <3>2. Both(1) \in Writes /\ DOMAIN Both(1) \subseteq Registers(m)
      BY <2>2, <2>5, BothWrites
    <3> QED
      BY <1>3, <2>5, <3>1, <3>2, OneWrite
  <2>6. CASE \E r \in {"filter", "usage"} :
                 c = [writes |-> <<To(r, 1)>>, confirm |-> FALSE]
    <3>1. PICK r \in {"filter", "usage"} : c = [writes |-> <<To(r, 1)>>, confirm |-> FALSE]
      BY <2>6
    <3>2. c.writes = <<To(r, 1)>> /\ ~c.confirm /\ To(r, 1) \in Writes
      BY <3>1, ToWrites DEF Registered
    <3> QED
      BY <1>3, <3>2, OneWrite
  <2> QED
    BY <2>1, <2>3, <2>4, <2>5, <2>6
<1> QED
  BY <1>2, <1>3

(* The first write and the others.                                         *)
LEMMA OpenSplit ==
    ASSUME NEW s \in Seq(Writes), s # <<>>
    PROVE  /\ Open(s) \subseteq Pairs(Head(s)) \cup Open(Tail(s))
           /\ Head(s) \in Writes /\ Head(s) = s[1] /\ 1 \in DOMAIN s
           /\ Tail(s) \in Seq(Writes) /\ Len(Tail(s)) = Len(s) - 1
           /\ \A i \in DOMAIN Tail(s) : Tail(s)[i] = s[i + 1] /\ i + 1 \in DOMAIN s
<1>1. /\ Head(s) \in Writes /\ Head(s) = s[1] /\ 1 \in DOMAIN s
      /\ Tail(s) \in Seq(Writes) /\ Len(Tail(s)) = Len(s) - 1 /\ Len(s) \in Nat
  OBVIOUS
<1>2. \A i \in DOMAIN Tail(s) : Tail(s)[i] = s[i + 1] /\ i + 1 \in DOMAIN s
  OBVIOUS
<1>3. \A i \in DOMAIN s : i # 1 => i - 1 \in DOMAIN Tail(s) /\ Tail(s)[i - 1] = s[i]
  OBVIOUS
<1>4. ASSUME NEW i \in DOMAIN s PROVE Pairs(s[i]) \subseteq Pairs(Head(s)) \cup Open(Tail(s))
  <2>1. CASE i = 1
    BY <1>1, <2>1
  <2>2. CASE i # 1
    <3>1. i - 1 \in DOMAIN Tail(s) /\ Tail(s)[i - 1] = s[i]
      BY <1>3, <2>2
    <3>2. Pairs(Tail(s)[i - 1]) \subseteq Open(Tail(s))
      BY <3>1 DEF Open
    <3> QED
      BY <3>1, <3>2
  <2> QED
    BY <2>1, <2>2
<1>5. Open(s) \subseteq Pairs(Head(s)) \cup Open(Tail(s))
  BY <1>4 DEF Open
<1> QED
  BY <1>1, <1>2, <1>5

(* A write leaves what it wrote in a device that has the registers.        *)
LEMMA ExecutedHolds ==
    ASSUME NEW w
    PROVE  /\ DOMAIN Executed(w) = DOMAIN device
           /\ DOMAIN w \subseteq DOMAIN device => Pairs(w) \subseteq Pairs(Executed(w))
<1>1. DOMAIN Executed(w) = DOMAIN device
  BY DEF Executed
<1>2. ASSUME DOMAIN w \subseteq DOMAIN device, NEW r \in DOMAIN w
      PROVE  r \in DOMAIN Executed(w) /\ Executed(w)[r] = w[r]
  BY <1>2 DEF Executed
<1> QED
  BY <1>1, <1>2 DEF Pairs

-----------------------------------------------------------------------------
(* What a confirmed command asks for, the device has held or is still to   *)
(* be told; and what the device holds of it now, is in the history.        *)
Holding ==
    /\ DOMAIN device = Registers(target)
    /\ rest \in Seq(Writes)
    /\ current.confirm => \A i \in DOMAIN rest : DOMAIN rest[i] \subseteq Registers(target)
    /\ pc # "idle" => rest # <<>> /\ outcome = "running"
    /\ pc = "check" => Len(rest) = 1 /\ current.confirm
    /\ outcome = "ok" => rest = <<>>
    /\ Pairs(device) \cap Wanted(current) \subseteq held
    /\ current.confirm /\ outcome \in {"running", "ok"} =>
           Wanted(current) \subseteq held \cup Open(rest)

(* The device changes: the history follows.                                *)
LEMMA HoldingBecomes ==
    ASSUME Holding, NEW d, DOMAIN d = DOMAIN device, Becomes(d)
    PROVE  /\ device' = d /\ held \subseteq held'
           /\ Pairs(d) \cap Wanted(current) \subseteq held'
BY DEF Becomes

(* The end of a command that is not reported as done.                      *)
LEMMA HoldingEnds ==
    ASSUME Holding, End("failed"), UNCHANGED <<target, current>>,
           \/ UNCHANGED <<device, held>>
           \/ \E w : Becomes(Executed(w))
    PROVE  Holding'
<1>1. /\ DOMAIN device' = DOMAIN device /\ held \subseteq held'
      /\ Pairs(device') \cap Wanted(current) \subseteq held'
  <2>1. CASE UNCHANGED <<device, held>>
    BY <2>1 DEF Holding
  <2>2. ASSUME NEW w, Becomes(Executed(w))
        PROVE  /\ DOMAIN device' = DOMAIN device /\ held \subseteq held'
               /\ Pairs(device') \cap Wanted(current) \subseteq held'
    BY <2>2, ExecutedHolds, HoldingBecomes
  <2> QED
    BY <2>1, <2>2
<1>2. /\ pc' = "idle" /\ outcome' = "failed" /\ rest' = <<>> /\ rest' \in Seq(Writes)
  BY DEF End
<1>3. Wanted(current') = Wanted(current) /\ target' = target /\ current' = current
  OBVIOUS
<1>4. Pairs(device') \cap Wanted(current') \subseteq held'
  BY <1>1, <1>3
<1> QED
  BY <1>1, <1>2, <1>3, <1>4 DEF Holding

(* A write that the device holds is done with.                             *)
LEMMA HoldingNext ==
    ASSUME Holding, pc # "idle", NextWrite, UNCHANGED <<target, current>>,
           DOMAIN device' = DOMAIN device, held \subseteq held',
           Pairs(device') \cap Wanted(current) \subseteq held',
           current.confirm => Pairs(Head(rest)) \cap Wanted(current) \subseteq held'
    PROVE  Holding'
<1>1. /\ Open(rest) \subseteq Pairs(Head(rest)) \cup Open(Tail(rest))
      /\ Tail(rest) \in Seq(Writes) /\ Len(Tail(rest)) = Len(rest) - 1
      /\ \A i \in DOMAIN Tail(rest) : Tail(rest)[i] = rest[i + 1] /\ i + 1 \in DOMAIN rest
  BY OpenSplit DEF Holding
<1>2. /\ rest' = Tail(rest) /\ target' = target /\ current' = current
      /\ Len(rest) = 1 => pc' = "idle" /\ outcome' = "ok" /\ Tail(rest) = <<>>
      /\ Len(rest) # 1 => pc' = "write" /\ outcome' = "running" /\ Tail(rest) # <<>>
  <2>1. Len(rest) \in Nat /\ outcome = "running"
    BY DEF Holding
  <2>2. (Len(rest) = 1) <=> (Tail(rest) = <<>>)
    BY <1>1, <2>1
  <2> QED
    BY <2>1, <2>2 DEF NextWrite
<1>3. Wanted(current') = Wanted(current) /\ Open(rest') = Open(Tail(rest))
  BY <1>2
<1>4. current'.confirm => \A i \in DOMAIN rest' : DOMAIN rest'[i] \subseteq Registers(target')
  BY <1>1, <1>2 DEF Holding
<1>5. current'.confirm => Wanted(current') \subseteq held' \cup Open(rest')
  BY <1>1, <1>2, <1>3 DEF Holding
<1>6. Pairs(device') \cap Wanted(current') \subseteq held'
  BY <1>3
<1>7. DOMAIN device' = Registers(target')
  BY <1>2 DEF Holding
<1> QED
  BY <1>1, <1>2, <1>4, <1>5, <1>6, <1>7 DEF Holding

(* The device changes while the command stays where it is.                 *)
LEMMA HoldingMoves ==
    ASSUME Holding, UNCHANGED <<target, pc, current, rest, outcome>>,
           NEW d, DOMAIN d = DOMAIN device, Becomes(d)
    PROVE  Holding'
<1>1. /\ device' = d /\ held \subseteq held'
      /\ Pairs(d) \cap Wanted(current) \subseteq held'
  BY HoldingBecomes
<1>2. Wanted(current') = Wanted(current) /\ Open(rest') = Open(rest)
  OBVIOUS
<1> QED
  BY <1>1, <1>2 DEF Holding

(* The writes a check lets through include the one asked for.              *)
LEMMA CheckedShape ==
    ASSUME Holding, NEW w \in Writes, DOMAIN w \subseteq Registers(target), Checked(w) # <<>>
    PROVE  /\ Checked(w) \in Seq(Writes) /\ Pairs(w) \subseteq Open(Checked(w))
           /\ \A i \in DOMAIN Checked(w) : DOMAIN Checked(w)[i] \subseteq Registers(target)
<1>1. <<w>> \in Seq(Writes) /\ Open(<<w>>) = Pairs(w)
      /\ \A i \in DOMAIN <<w>> : DOMAIN <<w>>[i] \subseteq Registers(target)
  BY OneWrite DEF Open
<1>2. CASE Checked(w) = <<w>>
  BY <1>1, <1>2
<1>3. CASE DOMAIN w = {"p102"} /\ Checked(w) = <<To("p101", w.p102), w>>
  <2>1. w.p102 \in 0..2
    BY <1>3 DEF Writes
  <2>2. To("p101", w.p102) \in Writes /\ DOMAIN To("p101", w.p102) = {"p101"}
    BY <2>1, ToWrites DEF Registered
  <2>3. {"p101"} \subseteq Registers(target)
    BY <1>3 DEF Registers
  <2> DEFINE t == To("p101", w.p102)
  <2> HIDE DEF t
  <2>4. <<t, w>> \in Seq(Writes) /\ Pairs(w) \subseteq Open(<<t, w>>)
    BY <2>2 DEF Open, t
  <2>5. \A i \in DOMAIN <<t, w>> : DOMAIN <<t, w>>[i] \subseteq Registers(target)
    BY <2>2, <2>3 DEF t
  <2> QED
    BY <1>3, <2>4, <2>5 DEF t
<1>4. \/ Checked(w) = <<w>>
      \/ DOMAIN w = {"p102"} /\ Checked(w) = <<To("p101", w.p102), w>>
  BY DEF Checked
<1> QED
  BY <1>2, <1>3, <1>4

LEMMA HoldingHolds == Spec => []Holding
<1>1. Init => Holding
  <2> SUFFICES ASSUME Init PROVE Holding
    OBVIOUS
  <2>1. /\ DOMAIN device = Registers(target) /\ rest = <<>> /\ pc = "idle" /\ outcome = "none"
        /\ current.writes = <<>>
    BY DEF Init, CommandInit, Asked
  <2>2. Wanted(current) = {}
    BY <2>1 DEF Wanted
  <2> QED
    BY <2>1, <2>2 DEF Holding
<1>2. Holding /\ [Next]_vars => Holding'
  <2> SUFFICES ASSUME Holding, [Next]_vars PROVE Holding'
    OBVIOUS
  <2>1. CASE StartCommand
    <3>1. /\ current'.writes \in Seq(Writes) /\ current'.writes # <<>>
          /\ current'.confirm => \A i \in DOMAIN current'.writes :
                                     DOMAIN current'.writes[i] \subseteq Registers(target)
          /\ target \in {"erman", "owen"} => Len(current'.writes) = 1 /\ current'.confirm
      BY <2>1, CommandShape DEF StartCommand
    <3>2. /\ target' = target /\ device' = device /\ rest' = current'.writes
          /\ outcome' = "running" /\ held' = Pairs(device) \cap Wanted(current')
          /\ pc' = "check" => target \in {"erman", "owen"}
      BY <2>1 DEF StartCommand
    <3>3. Wanted(current') = Open(rest')
      BY <3>2 DEF Wanted, Open
    <3> QED
      BY <3>1, <3>2, <3>3 DEF Holding
  <2>2. CASE Check
    <3> DEFINE w == Head(rest)
    <3>1. w \in Writes /\ w = rest[1] /\ 1 \in DOMAIN rest /\ pc = "check" /\ Len(rest) = 1
      BY <2>2, OpenSplit DEF Check, Holding
    <3>2. DOMAIN w \subseteq Registers(target) /\ current.confirm
      BY <2>2, <3>1 DEF Check, Holding
    <3>3. CASE Checked(w) = <<>>
      BY <2>2, <3>3, HoldingEnds DEF Check
    <3>4. CASE Checked(w) # <<>>
      <4>1. /\ Checked(w) \in Seq(Writes) /\ Pairs(w) \subseteq Open(Checked(w))
            /\ \A i \in DOMAIN Checked(w) : DOMAIN Checked(w)[i] \subseteq Registers(target)
        BY <3>1, <3>2, <3>4, CheckedShape
      <4>2. /\ rest' = Checked(w) /\ pc' = "write" /\ outcome' = outcome
            /\ target' = target /\ current' = current /\ device' = device /\ held' = held
        BY <2>2, <3>4 DEF Check
      <4>3. Open(rest) = Pairs(w)
        BY <3>1 DEF Open, Holding
      <4> DEFINE checked == Checked(w)
      <4> HIDE DEF w, checked
      <4>4. Wanted(current') = Wanted(current) /\ Open(rest') = Open(checked)
        BY <4>2 DEF checked
      <4>5. Wanted(current') \subseteq held' \cup Open(rest')
        BY <3>1, <3>2, <4>1, <4>2, <4>3, <4>4 DEF Holding, checked
      <4>6. /\ checked # <<>> /\ checked \in Seq(Writes) /\ rest' = checked
            /\ \A i \in DOMAIN checked : DOMAIN checked[i] \subseteq Registers(target)
        BY <3>4, <4>1, <4>2 DEF checked
      <4> QED
        BY <3>1, <4>2, <4>4, <4>5, <4>6 DEF Holding
    <3> QED
      BY <3>3, <3>4
  <2>3. CASE WriteEchoed
    <3> DEFINE w == Head(rest)
    <3>1. pc = "write" /\ Becomes(Executed(w)) /\ UNCHANGED <<target, current>>
      BY <2>3 DEF WriteEchoed
    <3>2. /\ w = rest[1] /\ 1 \in DOMAIN rest
          /\ current.confirm => DOMAIN w \subseteq DOMAIN device
      BY <3>1, OpenSplit DEF Holding
    <3>3. /\ device' = Executed(w) /\ DOMAIN device' = DOMAIN device /\ held \subseteq held'
          /\ Pairs(device') \cap Wanted(current) \subseteq held'
          /\ current.confirm => Pairs(w) \subseteq Pairs(device')
      BY <3>1, <3>2, ExecutedHolds, HoldingBecomes
    <3>4. CASE NextWrite
      <4> HIDE DEF w
      <4>1. current.confirm => Pairs(w) \cap Wanted(current) \subseteq held'
        BY <3>3
      <4> QED
        BY <3>1, <3>3, <3>4, <4>1, HoldingNext DEF w
    <3>5. CASE pc' = "read" /\ UNCHANGED <<rest, loop, outcome>>
      <4> HIDE DEF w
      <4> QED
        BY <3>1, <3>3, <3>5 DEF Holding, Wanted
    <3> QED
      BY <2>3, <3>4, <3>5 DEF WriteEchoed
  <2>4. CASE WriteAccepted
    BY <2>4 DEF WriteAccepted, Holding, Wanted
  <2>5. CASE WritePending
    BY <2>5 DEF WritePending, Holding, Wanted
  <2>6. CASE Wait
    <3>1. UNCHANGED <<target, current, device, held>> /\ pc = "wait"
      BY <2>6 DEF Wait
    <3>2. CASE End("failed")
      BY <3>1, <3>2, HoldingEnds
    <3>3. CASE ~current.confirm /\ NextWrite
      BY <3>1, <3>3, HoldingNext DEF Holding
    <3>4. CASE pc' \in {"read", "wait"} /\ UNCHANGED <<rest, outcome>>
      BY <3>1, <3>4 DEF Holding, Wanted
    <3> QED
      BY <2>6, <3>1, <3>2, <3>3, <3>4 DEF Wait
  <2>7. CASE Deadline
    BY <2>7 DEF Deadline, Holding, Wanted
  <2>8. CASE ReadBack
    <3> DEFINE w == Head(rest)
    <3>1. UNCHANGED <<target, current, device, held>> /\ pc = "read"
      BY <2>8 DEF ReadBack
    <3>2. w = rest[1] /\ 1 \in DOMAIN rest
      BY <3>1, OpenSplit DEF Holding
    <3>3. CASE NextWrite /\ \A r \in DOMAIN w : device[r] = w[r]
      <4>1. current.confirm => DOMAIN w \subseteq DOMAIN device
        BY <3>2 DEF Holding
      <4> HIDE DEF w
      <4>2. current.confirm => Pairs(w) \subseteq Pairs(device)
        BY <3>3, <4>1 DEF Pairs
      <4> QED
        BY <3>1, <3>3, <4>2, HoldingNext DEF Holding, w
    <3>4. CASE End("failed")
      BY <3>1, <3>4, HoldingEnds
    <3> QED
      BY <2>8, <3>3, <3>4 DEF ReadBack
  <2>9. CASE CommandFails
    <3>1. End("failed") /\ UNCHANGED <<target, current>>
      BY <2>9 DEF CommandFails
    <3>2. \/ UNCHANGED <<device, held>>
          \/ \E w : Becomes(Executed(w))
      BY <2>9 DEF CommandFails
    <3> QED
      BY <3>1, <3>2, HoldingEnds
  <2>10. CASE DeviceStep
    <3>1. UNCHANGED <<target, pc, current, rest, outcome>>
      BY <2>10 DEF DeviceStep, Begins, Finishes, FrontPanel
    <3>2. CASE UNCHANGED <<device, held>>
      BY <3>1, <3>2 DEF Holding, Wanted
    <3>3. CASE Becomes(Executed(Head(accepted)))
      BY <3>1, <3>3, ExecutedHolds, HoldingMoves
    <3>4. CASE FrontPanel
      <4>1. PICK r \in DOMAIN device, v \in Values(target) : Becomes([device EXCEPT ![r] = v])
        BY <3>4 DEF FrontPanel
      <4>2. DOMAIN [device EXCEPT ![r] = v] = DOMAIN device
        OBVIOUS
      <4> QED
        BY <3>1, <4>1, <4>2, HoldingMoves
    <3> QED
      BY <2>10, <3>2, <3>3, <3>4 DEF DeviceStep, Begins, Finishes
  <2>11. CASE UNCHANGED commandVars
    BY <2>11 DEF commandVars, Holding, Wanted
  <2> QED
    BY <2>1, <2>2, <2>3, <2>4, <2>5, <2>6, <2>7, <2>8, <2>9, <2>10, <2>11
       DEF Next, vars, Poll, Command, CommandStep
<1> QED
  BY <1>1, <1>2, PTL DEF Spec

(* A command that reads back or is echoed is reported as done only if the  *)
(* device has held every value it asked for at some time since it began:   *)
(* neither the result of an earlier command nor a late execution of one    *)
(* counts for it (s2000_pp.py:231-300, fourvrs.py:457-551, :1230-1293,     *)
(* erman.py:922).                                                          *)
THEOREM DoneTookEffect == Spec => []ConfirmedTookEffect
<1>1. Holding => ConfirmedTookEffect
  <2> SUFFICES ASSUME Holding, outcome = "ok", current.confirm
               PROVE  Wanted(current) \subseteq held
    BY DEF ConfirmedTookEffect
  <2>1. Open(rest) = {}
    BY DEF Holding, Open
  <2> QED
    BY <2>1 DEF Holding
<1> QED
  BY <1>1, HoldingHolds, PTL

-----------------------------------------------------------------------------
(* ER-G: what is still to be written keeps P101 below its limit, in the    *)
(* order in which it is written; a second write follows only when the      *)
(* first was read back.                                                    *)
Limited ==
    target = "erman" =>
        /\ accepted = <<>>
        /\ device \in [{"p101", "p102"} -> 0..2]
        /\ device.p101 <= device.p102
        /\ pc \in {"idle", "check", "write", "read"}
        /\ pc = "check" => \E r \in {"p101", "p102"} : \E v \in 0..2 : rest = <<To(r, v)>>
        /\ pc \in {"write", "read"} => \E v \in 0..2 :
               \/ rest = <<To("p101", v)>> /\ (pc = "write" => v <= device.p102)
               \/ rest = <<To("p102", v)>> /\ (pc = "write" => device.p101 <= v)
               \/ rest = <<To("p101", v), To("p102", v)>> /\ v <= device.p102

LEMMA ToHolds ==
    ASSUME NEW r, NEW v
    PROVE  DOMAIN To(r, v) = {r} /\ To(r, v)[r] = v
BY DEF To

LEMMA ExecutedTo ==
    ASSUME device \in [{"p101", "p102"} -> 0..2], NEW a \in {"p101", "p102"}, NEW v \in 0..2
    PROVE  Executed(To(a, v)) = [r \in {"p101", "p102"} |-> IF r = a THEN v ELSE device[r]]
<1> DEFINE w == To(a, v)
<1>1. DOMAIN w = {a} /\ w[a] = v
  BY ToHolds
<1>2. DOMAIN device = {"p101", "p102"}
  OBVIOUS
<1> HIDE DEF w
<1>3. Executed(w) =
          [r \in {"p101", "p102"} |-> IF r \in DOMAIN w THEN w[r] ELSE device[r]]
  BY <1>2 DEF Executed
<1>4. \A r : (IF r \in DOMAIN w THEN w[r] ELSE device[r]) = IF r = a THEN v ELSE device[r]
  BY <1>1
<1>5. Executed(w) = [r \in {"p101", "p102"} |-> IF r = a THEN v ELSE device[r]]
  BY <1>3, <1>4, Zenon
<1> QED
  BY <1>5 DEF w

(* Where the limit is kept, writing the next value keeps it.               *)
LEMMA LimitedWrite ==
    ASSUME Limited, target = "erman", pc = "write", device' = Executed(Head(rest)),
           accepted' = accepted, target' = target,
           \/ pc' = "read" /\ rest' = rest
           \/ pc' = "idle"
    PROVE  Limited'
<1>1. PICK v \in 0..2 :
           \/ rest = <<To("p101", v)>> /\ v <= device.p102
           \/ rest = <<To("p102", v)>> /\ device.p101 <= v
           \/ rest = <<To("p101", v), To("p102", v)>> /\ v <= device.p102
  BY DEF Limited
<1>2. device \in [{"p101", "p102"} -> 0..2] /\ device.p101 <= device.p102
  BY DEF Limited
<1>3. CASE /\ rest \in {<<To("p101", v)>>, <<To("p101", v), To("p102", v)>>}
           /\ v <= device.p102
  <2>1. Head(rest) = To("p101", v)
    BY <1>3
  <2>2. device' = [r \in {"p101", "p102"} |-> IF r = "p101" THEN v ELSE device[r]]
    BY <1>2, <2>1, ExecutedTo
  <2>3. device'.p101 = v /\ device'.p102 = device.p102
        /\ device' \in [{"p101", "p102"} -> 0..2]
    BY <1>2, <2>2
  <2> QED
    BY <1>3, <2>3 DEF Limited
<1>4. CASE rest = <<To("p102", v)>> /\ device.p101 <= v
  <2>1. Head(rest) = To("p102", v)
    BY <1>4
  <2>2. device' = [r \in {"p101", "p102"} |-> IF r = "p102" THEN v ELSE device[r]]
    BY <1>2, <2>1, ExecutedTo
  <2>3. device'.p102 = v /\ device'.p101 = device.p101
        /\ device' \in [{"p101", "p102"} -> 0..2]
    BY <1>2, <2>2
  <2> QED
    BY <1>4, <2>3 DEF Limited
<1> QED
  BY <1>1, <1>3, <1>4

LEMMA LimitedHolds == Spec => []Limited
<1>1. Init => Limited
  BY DEF Init, CommandInit, Limited, Registers, Values
<1>2. Limited /\ [Next]_vars => Limited'
  <2> SUFFICES ASSUME Limited, [Next]_vars PROVE Limited'
    OBVIOUS
  <2>0. target' = target
    BY DEF Next, vars, Poll, Command, commandVars, StartCommand, CommandStep, Check,
           WriteEchoed, WriteAccepted, WritePending, Wait, ReadBack, CommandFails,
           Deadline, DeviceStep, Begins, Finishes, FrontPanel
  <2> SUFFICES ASSUME target = "erman" PROVE Limited'
    BY <2>0 DEF Limited
  <2>1. CASE StartCommand
    <3>1. PICK r \in {"p101", "p102"}, v \in 0..2 : current' = Asked(<<To(r, v)>>)
      BY <2>1 DEF StartCommand, Commands, Registers, Values
    <3>2. rest' = <<To(r, v)>> /\ pc' = "check" /\ device' = device /\ accepted' = accepted
      BY <2>1, <3>1 DEF StartCommand, Asked
    <3> QED
      BY <2>0, <3>2 DEF Limited
  <2>2. CASE Check
    <3>1. PICK r \in {"p101", "p102"}, v \in 0..2 : rest = <<To(r, v)>>
      BY <2>2 DEF Check, Limited
    <3>2. Head(rest) = To(r, v) /\ DOMAIN To(r, v) = {r} /\ To(r, v)[r] = v
      <4>1. Head(rest) = To(r, v)
        BY <3>1
      <4> QED
        BY <4>1, ToHolds
    <3>3. device' = device /\ accepted' = accepted
      BY <2>2 DEF Check
    <3>4. CASE Checked(To(r, v)) = <<>>
      <4>1. pc' = "idle"
        BY <2>2, <3>2, <3>4 DEF Check, End
      <4> QED
        BY <2>0, <3>3, <4>1 DEF Limited
    <3>5. CASE Checked(To(r, v)) # <<>>
      <4>1. pc' = "write" /\ rest' = Checked(To(r, v))
        BY <2>2, <3>2, <3>5 DEF Check
      <4>2. \/ rest' = <<To("p101", v)>> /\ v <= device.p102
            \/ rest' = <<To("p102", v)>> /\ device.p101 <= v
            \/ rest' = <<To("p101", v), To("p102", v)>> /\ v <= device.p102
        <5>1. device.p101 \in 0..2 /\ device.p102 \in 0..2 /\ device.p101 <= device.p102
          BY DEF Limited
        <5>2. CASE r = "p101"
          <6>1. DOMAIN To(r, v) = {"p101"} /\ To(r, v).p101 = v
            BY <3>2, <5>2
          <6>2. Checked(To(r, v)) = IF v > device.p102 THEN <<>> ELSE <<To(r, v)>>
            BY <6>1 DEF Checked
          <6>3. ~(v > device.p102)
            BY <3>5, <6>2
          <6> QED
            BY <4>1, <5>1, <5>2, <6>2, <6>3
        <5>3. CASE r = "p102"
          <6>1. DOMAIN To(r, v) = {"p102"} /\ To(r, v).p102 = v /\ "p102" # "p101"
            BY <3>2, <5>3
          <6>2. Checked(To(r, v)) = IF device.p101 > v THEN <<To("p101", v), To(r, v)>>
                                                       ELSE <<To(r, v)>>
            BY <6>1 DEF Checked
          <6> QED
            BY <4>1, <5>1, <5>3, <6>2
        <5> QED
          BY <5>2, <5>3
      <4> QED
        BY <2>0, <3>3, <4>1, <4>2 DEF Limited
    <3> QED
      BY <3>4, <3>5
  <2>3. CASE WriteEchoed
    BY <2>3, LimitedWrite DEF WriteEchoed, Becomes
  <2>4. CASE ReadBack
    <3>1. PICK v \in 0..2 : \/ rest = <<To("p101", v)>>
                            \/ rest = <<To("p102", v)>>
                            \/ rest = <<To("p101", v), To("p102", v)>>
      BY <2>4 DEF ReadBack, Limited
    <3>2. device' = device /\ accepted' = accepted
      BY <2>4 DEF ReadBack
    <3>3. CASE pc' = "idle"
      BY <2>0, <3>2, <3>3 DEF Limited
    <3>4. CASE pc' # "idle"
      <4>1. NextWrite /\ Len(rest) # 1 /\ \A r \in DOMAIN Head(rest) : device[r] = Head(rest)[r]
        BY <2>4, <3>4 DEF ReadBack, End, NextWrite
      <4>2. rest = <<To("p101", v), To("p102", v)>>
        BY <3>1, <4>1
      <4>3. rest' = <<To("p102", v)>> /\ Head(rest) = To("p101", v) /\ pc' = "write"
        BY <3>4, <4>1, <4>2 DEF NextWrite
      <4>4. device.p101 = v
        BY <4>1, <4>3, ToHolds
      <4> QED
        BY <2>0, <3>2, <4>3, <4>4 DEF Limited
    <3> QED
      BY <3>3, <3>4
  <2>5. CASE CommandFails
    <3>1. pc' = "idle" /\ accepted' = accepted
      BY <2>5 DEF CommandFails, End, Controllers
    <3>2. CASE device' = device
      BY <2>0, <3>1, <3>2 DEF Limited
    <3>3. CASE pc = "write" /\ device' = Executed(Head(rest))
      BY <2>0, <3>1, <3>3, LimitedWrite
    <3> QED
      BY <2>5, <3>2, <3>3 DEF CommandFails, Becomes, Controllers
  <2>6. CASE WriteAccepted \/ WritePending \/ Wait \/ Deadline \/ DeviceStep
    BY <2>6 DEF WriteAccepted, WritePending, Wait, Deadline, DeviceStep, Begins, Finishes,
                FrontPanel, Controllers, Limited
  <2>7. CASE UNCHANGED commandVars
    BY <2>7 DEF commandVars, Limited
  <2> QED
    BY <2>1, <2>2, <2>3, <2>4, <2>5, <2>6, <2>7 DEF Next, vars, Poll, Command, CommandStep
<1> QED
  BY <1>1, <1>2, PTL DEF Spec

(* Commands for ER-G keep the manual frequency P101 at or below its limit  *)
(* P102, whatever follows on whatever, even if a command that writes both  *)
(* fails between them (erman.py:836-870).                                  *)
THEOREM LimitIsKept == Spec => []LimitKept
<1>1. Limited => LimitKept
  BY DEF Limited, LimitKept
<1> QED
  BY <1>1, LimitedHolds, PTL
-----------------------------------------------------------------------------
(* Of RuntimeReads.                                                        *)
(*                                                                         *)
(* A run of addresses of s, w registers each: no gaps, no longer than a    *)
(* request, and each register of it belongs to an address of s.            *)
Run(w, s, g) ==
    /\ g \in Seq(s) /\ Len(g) >= 1
    /\ \A i \in 1..Len(g) : g[i] = g[1] + (i - 1) * w
    /\ g[Len(g)] + w <= g[1] + Chunk
    /\ \A x \in Nat : g[1] <= x /\ x < g[Len(g)] + w => \E a \in s : a <= x /\ x < a + w

RunRange(w, s, r) ==
    /\ Run(w, s, r.group)
    /\ r.start = r.group[1]
    /\ r.start + r.count = r.group[Len(r.group)] + w

Runs(w, s) ==
    {r \in [start : Nat, count : Nat, group : Seq(s)] : RunRange(w, s, r)}

Elements(g) == {g[i] : i \in DOMAIN g}

(* Blocks that do not overlap.                                             *)
Spaced(w, s) == s \subseteq Nat /\ \A a, b \in s : a < b => a + w <= b

(* The members of a sequence, and what is appended to it.                  *)
LEMMA InSeq ==
    ASSUME NEW s, NEW g \in Seq(s)
    PROVE  /\ Len(g) \in Nat /\ DOMAIN g = 1..Len(g)
           /\ \A i \in 1..Len(g) : g[i] \in s
OBVIOUS

LEMMA Appended ==
    ASSUME NEW s, NEW g \in Seq(s), NEW a \in s
    PROVE  /\ Append(g, a) \in Seq(s)
           /\ Len(Append(g, a)) = Len(g) + 1
           /\ Append(g, a)[Len(g) + 1] = a
           /\ \A i \in 1..Len(g) : Append(g, a)[i] = g[i]
OBVIOUS

LEMMA Times ==
    ASSUME NEW w \in Nat
    PROVE  \A k \in Nat : k * w \in Nat
OBVIOUS

LEMMA OneRun ==
    ASSUME NEW w \in 1..Chunk, Chunk \in Nat, NEW s, s \subseteq Nat, NEW a \in s
    PROVE  Run(w, s, <<a>>)
<1>1. <<a>> \in Seq(s) /\ Len(<<a>>) = 1 /\ <<a>>[1] = a
  OBVIOUS
<1>2. a + (1 - 1) * w = a
  OBVIOUS
<1> QED
  BY <1>1, <1>2 DEF Run

LEMMA LongerRun ==
    ASSUME NEW w \in 1..Chunk, Chunk \in Nat, NEW s, s \subseteq Nat,
           NEW g, Run(w, s, g), NEW a \in s,
           a = g[Len(g)] + w, a + w <= g[1] + Chunk
    PROVE  Run(w, s, Append(g, a))
<1> DEFINE n == Len(g)
           h == Append(g, a)
<1>1. /\ n \in Nat /\ n >= 1 /\ h \in Seq(s) /\ Len(h) = n + 1
      /\ h[n + 1] = a /\ \A i \in 1..n : h[i] = g[i] /\ g[i] \in Nat
  <2>1. g \in Seq(s) /\ n >= 1
    BY DEF Run
  <2>2. n \in Nat /\ \A i \in 1..n : g[i] \in s
    BY <2>1, InSeq
  <2>3. h \in Seq(s) /\ Len(h) = n + 1 /\ h[n + 1] = a /\ \A i \in 1..n : h[i] = g[i]
    BY <2>1, Appended
  <2> HIDE DEF n, h
  <2> QED
    BY <2>1, <2>2, <2>3
<1>2. a = g[1] + n * w
  <2>1. g[n] = g[1] + (n - 1) * w
    BY <1>1 DEF Run
  <2>2. (n - 1) * w + w = n * w
    BY <1>1
  <2> HIDE DEF n
  <2>3. (n - 1) * w \in Nat /\ n * w \in Nat /\ g[1] \in Nat
    <3>1. w \in Nat /\ n - 1 \in Nat /\ g[1] \in Nat
      BY <1>1
    <3> QED
      BY <1>1, <3>1, Times
  <2>4. a = g[n] + w
    BY DEF n
  <2> QED
    BY <2>1, <2>2, <2>3, <2>4
<1> HIDE DEF n, h
<1>3. \A i \in 1..(n + 1) : h[i] = h[1] + (i - 1) * w
  <2> SUFFICES ASSUME NEW i \in 1..(n + 1) PROVE h[i] = h[1] + (i - 1) * w
    OBVIOUS
  <2>1. h[1] = g[1]
    BY <1>1
  <2>2. CASE i \in 1..n
    BY <1>1, <2>1, <2>2 DEF Run, n
  <2>3. CASE i = n + 1
    <3>1. i - 1 = n
      BY <1>1, <2>3
    <3> QED
      BY <1>1, <1>2, <2>1, <2>3, <3>1
  <2> QED
    BY <1>1, <2>2, <2>3
<1>4. \A x \in Nat : h[1] <= x /\ x < h[n + 1] + w => \E b \in s : b <= x /\ x < b + w
  <2> SUFFICES ASSUME NEW x \in Nat, g[1] <= x, x < a + w
               PROVE  \E b \in s : b <= x /\ x < b + w
    BY <1>1
  <2>1. CASE x < a
    BY <2>1, <1>1 DEF Run, n
  <2>2. CASE a <= x
    BY <2>2
  <2> QED
    BY <2>1, <2>2, <1>1
<1> QED
  BY <1>1, <1>3, <1>4 DEF Run, h, n

(* The length of a run is that of its blocks.                              *)
LEMMA RunShape ==
    ASSUME NEW w \in 1..Chunk, Chunk \in Nat, NEW s, s \subseteq Nat, NEW g, Run(w, s, g)
    PROVE  /\ Len(g) \in Nat /\ Len(g) >= 1 /\ DOMAIN g = 1..Len(g)
           /\ \A i \in 1..Len(g) : g[i] \in Nat /\ g[i] \in s
           /\ g[1] \in Nat /\ g[Len(g)] \in Nat
           /\ g[1] + Len(g) * w = g[Len(g)] + w
<1> SUFFICES ASSUME NEW n, n = Len(g)
             PROVE  /\ n \in Nat /\ n >= 1 /\ DOMAIN g = 1..n
                    /\ \A i \in 1..n : g[i] \in Nat /\ g[i] \in s
                    /\ g[1] \in Nat /\ g[n] \in Nat
                    /\ g[1] + n * w = g[n] + w
  OBVIOUS
<1>1. /\ n \in Nat /\ n >= 1 /\ DOMAIN g = 1..n
      /\ \A i \in 1..n : g[i] \in Nat /\ g[i] \in s
  <2>1. g \in Seq(s) /\ n >= 1
    BY DEF Run
  <2>2. n \in Nat /\ DOMAIN g = 1..n /\ \A i \in 1..n : g[i] \in s
    BY <2>1, InSeq
  <2> QED
    BY <2>1, <2>2
<1>2. g[n] = g[1] + (n - 1) * w
  BY <1>1 DEF Run
<1>3. (n - 1) * w + w = n * w
  BY <1>1
<1>4. (n - 1) * w \in Nat /\ n * w \in Nat /\ g[1] \in Nat
  <2>1. w \in Nat /\ n - 1 \in Nat /\ g[1] \in Nat
    BY <1>1
  <2> QED
    BY <1>1, <2>1, Times
<1>5. g[1] + n * w = g[n] + w
  BY <1>2, <1>3, <1>4
<1> QED
  BY <1>1, <1>5

(* The registers of a run are kept each under its own address.             *)
LEMMA KeptOwn ==
    ASSUME width \in 1..Chunk, Chunk \in Nat, addresses \subseteq Nat,
           NEW r, r.count \in Nat, RunRange(width, addresses, r)
    PROVE  Kept(r) = {<<a, a>> : a \in Elements(r.group)}
<1> SUFFICES ASSUME NEW g, g = r.group, NEW n, n = Len(g)
             PROVE  Kept(r) = {<<a, a>> : a \in Elements(g)}
  OBVIOUS
<1>0. /\ Run(width, addresses, g)
      /\ r.start = g[1] /\ r.start + r.count = g[n] + width
  BY DEF RunRange
<1>1. /\ n \in Nat /\ n >= 1 /\ DOMAIN g = 1..n /\ r.start \in Nat
      /\ \A i \in 1..n : g[i] \in Nat
  BY <1>0, RunShape
<1>2. \A i \in 1..n : g[i] = r.start + (i - 1) * width
  BY <1>0 DEF Run
<1>3. CASE width # 1
  <2>1. Kept(r) = {<<g[i], r.start + (i - 1) * width>> : i \in DOMAIN g}
    BY <1>3 DEF Kept
  <2>2. \A i \in DOMAIN g : <<g[i], r.start + (i - 1) * width>> = <<g[i], g[i]>>
    BY <1>1, <1>2
  <2>3. Kept(r) = {<<g[i], g[i]>> : i \in DOMAIN g}
    BY <2>1, <2>2
  <2> QED
    BY <2>3 DEF Elements
<1>4. CASE width = 1
  <2>1. \A i \in 1..n : g[i] = r.start + (i - 1)
    <3>1. \A i \in 1..n : (i - 1) * 1 = i - 1
      BY <1>1
    <3> QED
      BY <1>2, <1>4, <3>1
  <2>2. r.count = n
    <3>1. g[n] = r.start + (n - 1)
      <4>1. n \in 1..n
        BY <1>1
      <4> QED
        BY <2>1, <4>1
    <3> QED
      BY <1>0, <1>1, <1>4, <3>1
  <2>3. Kept(r) = {<<r.start + o, r.start + o>> : o \in 0..(n - 1)}
    BY <1>1, <1>4, <2>2 DEF Kept
  <2>4. Elements(g) = {r.start + o : o \in 0..(n - 1)}
    <3>1. Elements(g) = {g[i] : i \in 1..n}
      BY <1>1 DEF Elements
    <3>2. \A o \in 0..(n - 1) : o + 1 \in 1..n /\ g[o + 1] = r.start + o
      BY <1>1, <2>1
    <3>3. \A i \in 1..n : i - 1 \in 0..(n - 1) /\ g[i] = r.start + (i - 1)
      BY <1>1, <2>1
      <3> QED
      BY <3>1, <3>2, <3>3
  <2> QED
    BY <2>3, <2>4
<1> QED
  BY <1>3, <1>4

(* The runs formed, read or not.                                           *)
FormedRuns == requests \cup Elements(ranges)

(* An address asked for is still to be looked at, in the run being formed, *)
(* in a run to be read, or has been kept; and nothing else is.             *)
Accounted ==
    \A x : x \in addresses <=>
        \/ x \in ordered
        \/ stage = "grouping" /\ x \in Elements(group)
        \/ \E r \in Elements(ranges) : x \in Elements(r.group)
        \/ <<x, x>> \in found

(* The run being formed lies before what is not looked at yet, ...         *)
Growing ==
    stage = "grouping" =>
        /\ Run(width, addresses, group)
        /\ \A b \in ordered : Previous + width <= b

(* ... and after every run formed, which it could not have continued.      *)
Behind ==
    stage = "grouping" =>
        \A r \in FormedRuns :
            /\ r.start + r.count <= Start
            /\ r.start + r.count = Start => r.count + width > Chunk

Apart ==
    \A r, q \in FormedRuns : q.start = r.start + r.count => r.count + width > Chunk

Stages ==
    /\ stage \in {"begin", "grouping", "last", "done", "failed"}
    /\ stage = "begin" =>
           ordered = addresses /\ ranges = <<>> /\ found = {} /\ requests = {}
    /\ stage \in {"last", "done"} => ordered = {}
    /\ stage = "last" => ranges # <<>>
    /\ stage \in {"done", "failed"} => ranges = <<>>

Reading ==
    /\ width \in 1..Chunk /\ Spaced(width, addresses) /\ ordered \subseteq addresses
    /\ ranges \in Seq(Runs(width, addresses))
    /\ requests \subseteq Runs(width, addresses)
    /\ found \subseteq {<<a, a>> : a \in addresses}
    /\ stage # "failed" => Accounted
    /\ Stages /\ Growing /\ Behind /\ Apart

LEMMA NoElements == Elements(<<>>) = {}
BY DEF Elements

LEMMA ElementsAppended ==
    ASSUME NEW s, NEW g \in Seq(s), NEW a \in s
    PROVE  Elements(Append(g, a)) = Elements(g) \cup {a}
<1> SUFFICES ASSUME NEW n, n = Len(g), NEW h, h = Append(g, a)
             PROVE  Elements(h) = Elements(g) \cup {a}
  OBVIOUS
<1>1. n \in Nat /\ DOMAIN g = 1..n
  BY InSeq
<1>2. h \in Seq(s) /\ Len(h) = n + 1 /\ h[n + 1] = a /\ \A i \in 1..n : h[i] = g[i]
  BY Appended
<1>3. DOMAIN h = 1..(n + 1)
  BY <1>2
<1>4. \A i : i \in 1..(n + 1) <=> i \in 1..n \/ i = n + 1
  BY <1>1
<1> QED
  BY <1>1, <1>2, <1>3, <1>4 DEF Elements

LEMMA FirstAndRest ==
    ASSUME NEW s, NEW g \in Seq(s), g # <<>>
    PROVE  /\ Head(g) \in s /\ Tail(g) \in Seq(s)
           /\ Elements(g) = {Head(g)} \cup Elements(Tail(g))
           /\ Tail(g) = <<>> <=> Len(g) = 1
<1> SUFFICES ASSUME NEW n, n = Len(g), NEW h, h = Tail(g)
             PROVE  /\ Head(g) \in s /\ h \in Seq(s)
                    /\ Elements(g) = {Head(g)} \cup Elements(h)
                    /\ h = <<>> <=> n = 1
  OBVIOUS
<1>1. n \in Nat /\ n >= 1 /\ DOMAIN g = 1..n /\ Head(g) = g[1] /\ Head(g) \in s
  OBVIOUS
<1>2. h \in Seq(s) /\ Len(h) = n - 1 /\ \A i \in 1..(n - 1) : h[i] = g[i + 1]
  OBVIOUS
<1>3. DOMAIN h = 1..(n - 1)
  BY <1>2
<1>4. \A i \in 1..n : i = 1 \/ (i - 1 \in 1..(n - 1) /\ h[i - 1] = g[i])
  BY <1>1, <1>2
<1>5. \A i \in 1..(n - 1) : i + 1 \in 1..n
  BY <1>1
<1>6. Elements(g) = {Head(g)} \cup Elements(h)
  <2>1. ASSUME NEW i \in 1..n PROVE g[i] = Head(g) \/ \E j \in 1..(n - 1) : h[j] = g[i]
    BY <1>1, <1>4
  <2>2. ASSUME NEW j \in 1..(n - 1) PROVE \E i \in 1..n : g[i] = h[j]
    BY <1>2, <1>5
  <2>3. \E i \in 1..n : g[i] = Head(g)
    BY <1>1
  <2>4. Elements(g) = {g[i] : i \in 1..n} /\ Elements(h) = {h[j] : j \in 1..(n - 1)}
    BY <1>1, <1>3 DEF Elements
  <2> QED
    BY <2>1, <2>2, <2>3, <2>4
<1>7. h = <<>> <=> n = 1
  BY <1>1, <1>2
<1> QED
  BY <1>1, <1>2, <1>6, <1>7

LEMMA ReadingStarts == ReadInit => Reading
<1> SUFFICES ASSUME ReadInit PROVE Reading
  OBVIOUS
<1>1. width \in 1..Chunk /\ Spaced(width, addresses) /\ ordered \subseteq addresses
  BY ReadsAssumption DEF ReadInit, Spaced
<1>2. /\ ranges \in Seq(Runs(width, addresses))
      /\ requests \subseteq Runs(width, addresses)
      /\ found \subseteq {<<a, a>> : a \in addresses}
  BY DEF ReadInit
<1>3. Accounted
  BY NoElements DEF ReadInit, Accounted
<1>4. Stages /\ Growing /\ Behind
  BY DEF ReadInit, Stages, Growing, Behind
<1>5. Apart
  BY NoElements DEF ReadInit, Apart, FormedRuns
<1> QED
  BY <1>1, <1>2, <1>3, <1>4, <1>5 DEF Reading

(* The run being formed, as a range to read.                               *)
LEMMA FormedIsRun ==
    ASSUME Reading, stage = "grouping"
    PROVE  /\ Formed \in Runs(width, addresses) /\ Formed.group = group
           /\ Formed.start = Start /\ Formed.count \in Nat /\ Formed.count >= 1
           /\ Formed.start + Formed.count = Previous + width
           /\ Start \in Nat /\ Previous \in Nat
           /\ TooLong(Previous + width) => Formed.count + width > Chunk
<1>1. /\ width \in 1..Chunk /\ Chunk \in Nat /\ addresses \subseteq Nat
      /\ Run(width, addresses, group)
  BY ReadsAssumption DEF Reading, Spaced, Growing
<1>2. /\ Len(group) \in Nat /\ Len(group) >= 1
      /\ Start \in Nat /\ Previous \in Nat
      /\ Start + Len(group) * width = Previous + width
  BY <1>1, RunShape DEF Start, Previous
<1>3. /\ Count \in Nat /\ Count >= 1 /\ Start + Count = Previous + width
      /\ TooLong(Previous + width) => Count + width > Chunk
  <2>1. CASE width = 1
    <3>1. Count = Previous - Start + 1
      BY <2>1 DEF Count
    <3>2. Len(group) * width = Len(group)
      BY <1>2, <2>1
    <3>3. Count = Len(group)
      BY <1>2, <2>1, <3>1, <3>2
    <3>4. TooLong(Previous + width) <=> Previous + width - Start + 1 > Chunk
      BY <1>1, <1>2, <2>1 DEF TooLong
    <3> QED
      BY <1>1, <1>2, <2>1, <3>1, <3>2, <3>3, <3>4
  <2>2. CASE width # 1
    <3>1. Count = Len(group) * width
      BY <2>2 DEF Count
    <3>2. /\ Len(group) * width \in Nat /\ Len(group) * width >= 1
          /\ (Len(group) + 1) * width = Len(group) * width + width
      BY <1>1, <1>2
    <3>3. TooLong(Previous + width) <=> (Len(group) + 1) * width > Chunk
      BY <2>2 DEF TooLong
    <3> QED
      BY <1>1, <1>2, <3>1, <3>2, <3>3
  <2> QED
    BY <2>1, <2>2
<1>4. /\ Formed.group = group /\ Formed.start = Start /\ Formed.count = Count
      /\ Formed = [start |-> Start, count |-> Count, group |-> group]
  BY DEF Formed
<1>5. group \in Seq(addresses)
  BY <1>1 DEF Run
<1>6. RunRange(width, addresses, Formed)
  BY <1>1, <1>3, <1>4 DEF RunRange, Start, Previous
<1>7. Formed \in Runs(width, addresses)
  BY <1>2, <1>3, <1>4, <1>5, <1>6 DEF Runs
<1> QED
  BY <1>2, <1>3, <1>4, <1>7

LEMMA FirstKeeps ==
    ASSUME Reading, NEW a \in ordered, First(a)
    PROVE  Reading'
<1>1. /\ width \in 1..Chunk /\ Chunk \in Nat /\ addresses \subseteq Nat
      /\ a \in addresses /\ a \in Nat
      /\ ordered = addresses /\ ranges = <<>> /\ found = {} /\ requests = {}
      /\ Spaced(width, addresses)
  BY ReadsAssumption DEF Reading, Spaced, Stages, First
<1>2. /\ width' = width /\ addresses' = addresses /\ ranges' = ranges
      /\ requests' = requests /\ found' = found /\ group' = <<a>>
      /\ ordered' = ordered \ {a} /\ stage' = "grouping"
      /\ \A b \in ordered : a <= b
  BY DEF First, Smallest
<1>3. Elements(<<a>>) = {a} /\ <<a>>[Len(<<a>>)] = a
  BY DEF Elements
<1>4. Run(width, addresses, <<a>>)
  BY <1>1, OneRun
<1>5. Growing'
  <2>1. \A b \in ordered \ {a} : a + width <= b
    BY <1>1, <1>2 DEF Spaced
  <2> QED
    BY <1>2, <1>3, <1>4, <2>1 DEF Growing, Previous
<1>6. Behind' /\ Apart'
  BY <1>1, <1>2, NoElements DEF Behind, Apart, FormedRuns
<1>7. Accounted'
  BY <1>1, <1>2, <1>3, NoElements DEF Accounted
<1>8. Stages'
  BY <1>2 DEF Stages
<1>9. /\ ranges \in Seq(Runs(width, addresses)) /\ requests \subseteq Runs(width, addresses)
      /\ found \subseteq {<<b, b>> : b \in addresses}
  BY DEF Reading
<1> QED
  BY <1>1, <1>2, <1>5, <1>6, <1>7, <1>8, <1>9 DEF Reading

LEMMA ExtendKeeps ==
    ASSUME Reading, NEW a \in ordered, Extend(a)
    PROVE  Reading'
<1>1. /\ width \in 1..Chunk /\ Chunk \in Nat /\ addresses \subseteq Nat
      /\ a \in addresses /\ a \in Nat /\ Spaced(width, addresses)
      /\ ordered \subseteq addresses /\ stage = "grouping"
      /\ Run(width, addresses, group) /\ Accounted /\ Stages /\ Behind /\ Apart
  BY ReadsAssumption DEF Reading, Spaced, Growing, Extend, Grows
<1>2. /\ width' = width /\ addresses' = addresses /\ ranges' = ranges
      /\ requests' = requests /\ found' = found /\ group' = Append(group, a)
      /\ ordered' = ordered \ {a} /\ stage' = stage
      /\ \A b \in ordered : a <= b
      /\ a = Previous + width /\ ~TooLong(a)
  BY DEF Extend, Smallest, Breaks
<1>3. /\ Len(group) \in Nat /\ Len(group) >= 1 /\ group \in Seq(addresses)
      /\ group[1] \in Nat /\ Previous \in Nat
      /\ group[1] + Len(group) * width = Previous + width
  BY <1>1, RunShape DEF Previous, Run
<1>4. a + width <= group[1] + Chunk
  <2>1. CASE width = 1
    <3>1. ~(a - group[1] + 1 > Chunk)
      BY <1>2, <2>1 DEF TooLong, Start
    <3> QED
      BY <1>1, <1>3, <2>1, <3>1
  <2>2. CASE width # 1
    <3>1. ~((Len(group) + 1) * width > Chunk)
      BY <1>2, <2>2 DEF TooLong
    <3>2. Len(group) * width \in Nat /\ (Len(group) + 1) * width = Len(group) * width + width
      BY <1>1, <1>3
    <3> QED
      BY <1>1, <1>2, <1>3, <3>1, <3>2
  <2> QED
    BY <2>1, <2>2
<1>5. Run(width, addresses, Append(group, a))
  BY <1>1, <1>2, <1>4, LongerRun DEF Previous
<1>6. /\ Append(group, a)[Len(Append(group, a))] = a
      /\ Append(group, a)[1] = group[1]
      /\ Elements(Append(group, a)) = Elements(group) \cup {a}
  BY <1>1, <1>3, Appended, ElementsAppended
<1>7. Growing'
  <2>1. \A b \in ordered \ {a} : a + width <= b
    BY <1>1, <1>2 DEF Spaced
  <2> QED
    BY <1>2, <1>5, <1>6, <2>1 DEF Growing, Previous
<1>8. Behind' /\ Apart'
  BY <1>1, <1>2, <1>6 DEF Behind, Apart, FormedRuns, Start
<1>9. Accounted'
  BY <1>1, <1>2, <1>6 DEF Accounted
<1>10. Stages'
  BY <1>1, <1>2 DEF Stages
<1>11. /\ ranges \in Seq(Runs(width, addresses)) /\ requests \subseteq Runs(width, addresses)
       /\ found \subseteq {<<b, b>> : b \in addresses}
  BY DEF Reading
<1> QED
  BY <1>1, <1>2, <1>7, <1>8, <1>9, <1>10, <1>11 DEF Reading

(* The run being formed joins the others.                                  *)
LEMMA Joins ==
    ASSUME Reading, stage = "grouping",
           ranges' = Append(ranges, Formed), requests' = requests,
           width' = width
    PROVE  /\ ranges' \in Seq(Runs(width, addresses)) /\ ranges' # <<>>
           /\ Elements(ranges)' = Elements(ranges) \cup {Formed}
           /\ FormedRuns' = FormedRuns \cup {Formed}
           /\ Apart'
           /\ \A r \in FormedRuns' :
                 /\ r.start + r.count <= Previous + width
                 /\ r.start + r.count = Previous + width => r = Formed
<1>1. /\ ranges \in Seq(Runs(width, addresses)) /\ Formed \in Runs(width, addresses)
      /\ requests \subseteq Runs(width, addresses) /\ Behind /\ Apart
  BY FormedIsRun DEF Reading
<1>2. /\ ranges' \in Seq(Runs(width, addresses)) /\ ranges' # <<>>
      /\ Elements(ranges)' = Elements(ranges) \cup {Formed}
  BY <1>1, Appended, ElementsAppended DEF Elements
<1>3. FormedRuns' = FormedRuns \cup {Formed}
  BY <1>2 DEF FormedRuns
<1>4. \A r \in FormedRuns \cup {Formed} : r.start \in Nat /\ r.count \in Nat
  <2>1. Elements(ranges) \subseteq Runs(width, addresses)
    BY <1>1, InSeq DEF Elements
  <2> QED
    BY <1>1, <2>1 DEF FormedRuns, Runs
<1>5. \A r \in FormedRuns :
          /\ r.start + r.count <= Start
          /\ r.start + r.count = Start => r.count + width > Chunk
  BY <1>1 DEF Behind
<1>6. /\ Formed.start = Start /\ Formed.count \in Nat /\ Formed.count >= 1
      /\ Formed.start + Formed.count = Previous + width
      /\ Start \in Nat /\ Previous \in Nat
  BY FormedIsRun
<1>7. width \in Nat
  BY ReadsAssumption DEF Reading
<1>8. \A r \in FormedRuns \cup {Formed} :
          /\ r.start + r.count <= Previous + width
          /\ r.start + r.count = Previous + width => r = Formed
  BY <1>4, <1>5, <1>6, <1>7
<1>9. ASSUME NEW r \in FormedRuns \cup {Formed}, NEW q \in FormedRuns \cup {Formed},
             q.start = r.start + r.count
      PROVE  r.count + width > Chunk
  <2>1. CASE r \in FormedRuns /\ q \in FormedRuns
    BY <1>1, <1>9, <2>1 DEF Apart
  <2>2. CASE r \in FormedRuns /\ q = Formed
    BY <1>5, <1>6, <1>9, <2>2
  <2>3. CASE r = Formed
    BY <1>4, <1>5, <1>6, <1>7, <1>9, <2>3
  <2> QED
    BY <2>1, <2>2, <2>3
<1>10. Apart'
  BY <1>3, <1>9 DEF Apart
<1> QED
  BY <1>2, <1>3, <1>8, <1>10

LEMMA BreakKeeps ==
    ASSUME Reading, NEW a \in ordered, Break(a)
    PROVE  Reading'
<1>1. /\ width \in 1..Chunk /\ Chunk \in Nat /\ addresses \subseteq Nat
      /\ a \in addresses /\ a \in Nat /\ Spaced(width, addresses)
      /\ ordered \subseteq addresses /\ stage = "grouping"
      /\ Accounted /\ Stages /\ \A b \in ordered : Previous + width <= b
  BY ReadsAssumption DEF Reading, Spaced, Growing, Break, Grows
<1>2. /\ width' = width /\ addresses' = addresses /\ ranges' = Append(ranges, Formed)
      /\ requests' = requests /\ found' = found /\ group' = <<a>>
      /\ ordered' = ordered \ {a} /\ stage' = stage
      /\ \A b \in ordered : a <= b
      /\ a # Previous + width \/ TooLong(a)
  BY DEF Break, Smallest, Breaks
<1>3. Elements(<<a>>) = {a} /\ <<a>>[Len(<<a>>)] = a /\ <<a>>[1] = a
  BY DEF Elements
<1>4. Run(width, addresses, <<a>>)
  BY <1>1, OneRun
<1>5. /\ ranges' \in Seq(Runs(width, addresses)) /\ ranges' # <<>>
      /\ Elements(ranges)' = Elements(ranges) \cup {Formed}
      /\ Apart'
      /\ \A r \in FormedRuns' :
            /\ r.start + r.count <= Previous + width
            /\ r.start + r.count = Previous + width => r = Formed
      /\ FormedRuns' = FormedRuns \cup {Formed}
  BY <1>1, <1>2, Joins
<1>6. /\ Formed.group = group /\ Previous \in Nat /\ Formed.count \in Nat
      /\ TooLong(Previous + width) => Formed.count + width > Chunk
  BY <1>1, FormedIsRun
<1>7. Growing'
  <2>1. \A b \in ordered \ {a} : a + width <= b
    BY <1>1, <1>2 DEF Spaced
  <2> QED
    BY <1>2, <1>3, <1>4, <2>1 DEF Growing, Previous
<1>8. Behind'
  <2>1. Start' = a /\ Previous + width <= a
    BY <1>1, <1>2, <1>3 DEF Start
  <2>2. \A r \in FormedRuns' : r.start \in Nat /\ r.count \in Nat
    <3>1. /\ Formed \in Runs(width, addresses)
          /\ requests \subseteq Runs(width, addresses)
      BY <1>1, FormedIsRun DEF Reading
    <3>2. Elements(ranges) \subseteq Runs(width, addresses)
      BY InSeq DEF Elements, Reading
    <3> QED
      BY <1>5, <3>1, <3>2 DEF FormedRuns, Runs
  <2>3. ASSUME NEW r \in FormedRuns'
        PROVE  /\ r.start + r.count <= a
               /\ r.start + r.count = a => r.count + width > Chunk
    <3>1. r.start + r.count <= Previous + width
      BY <1>5
    <3>2. r.start + r.count <= a
      BY <1>1, <1>6, <2>1, <2>2, <3>1
    <3>3. ASSUME r.start + r.count = a PROVE r.count + width > Chunk
      <4>1. a = Previous + width
        BY <1>1, <1>6, <2>1, <2>2, <3>1, <3>3
      <4>2. r = Formed
        BY <1>5, <3>3, <4>1
      <4> QED
        BY <1>2, <1>6, <4>1, <4>2
    <3> QED
      BY <3>2, <3>3
  <2> QED
    BY <1>2, <2>1, <2>3 DEF Behind
<1>9. Accounted'
  <2>1. \A x : (\E r \in Elements(ranges)' : x \in Elements(r.group))
                <=> x \in Elements(group) \/ \E r \in Elements(ranges) : x \in Elements(r.group)
    BY <1>5, <1>6
  <2> QED
    BY <1>1, <1>2, <1>3, <2>1 DEF Accounted
<1>10. Stages'
  BY <1>1, <1>2 DEF Stages
<1>11. /\ requests \subseteq Runs(width, addresses)
       /\ found \subseteq {<<b, b>> : b \in addresses}
  BY DEF Reading
<1> QED
  BY <1>1, <1>2, <1>5, <1>7, <1>8, <1>9, <1>10, <1>11 DEF Reading

LEMMA LastKeeps ==
    ASSUME Reading, Last
    PROVE  Reading'
<1>1. /\ width \in 1..Chunk /\ Spaced(width, addresses)
      /\ ordered \subseteq addresses /\ stage = "grouping"
      /\ Accounted /\ Stages
  BY DEF Reading, Last, Grows
<1>2. /\ width' = width /\ addresses' = addresses /\ ranges' = Append(ranges, Formed)
      /\ requests' = requests /\ found' = found /\ group' = group
      /\ ordered' = ordered /\ stage' = "last" /\ ordered = {}
  BY DEF Last
<1>3. /\ ranges' \in Seq(Runs(width, addresses)) /\ ranges' # <<>>
      /\ Elements(ranges)' = Elements(ranges) \cup {Formed}
      /\ Apart'
  BY <1>1, <1>2, Joins
<1>4. Formed.group = group
  BY <1>1, FormedIsRun
<1>5. Accounted'
  <2>1. \A x : (\E r \in Elements(ranges)' : x \in Elements(r.group))
                <=> x \in Elements(group) \/ \E r \in Elements(ranges) : x \in Elements(r.group)
    BY <1>3, <1>4
  <2> QED
    BY <1>1, <1>2, <2>1 DEF Accounted
<1>6. Stages' /\ Growing' /\ Behind'
  BY <1>1, <1>2, <1>3 DEF Stages, Growing, Behind
<1>7. /\ requests \subseteq Runs(width, addresses)
      /\ found \subseteq {<<b, b>> : b \in addresses}
  BY DEF Reading
<1> QED
  BY <1>1, <1>2, <1>3, <1>5, <1>6, <1>7 DEF Reading

LEMMA NothingKeeps ==
    ASSUME Reading, Nothing
    PROVE  Reading'
<1>1. /\ width' = width /\ addresses' = addresses /\ ranges' = ranges
      /\ requests' = requests /\ found' = found /\ group' = group
      /\ ordered' = ordered /\ stage' = "done" /\ ordered = {} /\ stage = "begin"
  BY DEF Nothing
<1>2. Stages /\ Accounted /\ Apart
  BY <1>1 DEF Reading
<1>3. Stages' /\ Growing' /\ Behind' /\ Apart'
  BY <1>1, <1>2 DEF Stages, Growing, Behind, Apart, FormedRuns, Elements
<1>4. Accounted'
  <2>1. Elements(ranges)' = Elements(ranges)
    BY <1>1 DEF Elements
  <2> QED
    BY <1>1, <1>2, <2>1 DEF Accounted
<1> QED
  BY <1>1, <1>3, <1>4 DEF Reading

LEMMA RequestKeeps ==
    ASSUME Reading, Request
    PROVE  Reading'
<1> DEFINE r == Head(ranges)
<1>1. /\ width' = width /\ addresses' = addresses /\ ranges' = Tail(ranges)
      /\ requests' = requests \cup {r} /\ found' = found \cup Kept(r) /\ group' = group
      /\ ordered' = ordered /\ ranges # <<>>
      /\ stage' = IF stage = "last" /\ Len(ranges) = 1 THEN "done" ELSE stage
  BY DEF Request, Reads
<1>2. /\ width \in 1..Chunk /\ Chunk \in Nat /\ Spaced(width, addresses)
      /\ addresses \subseteq Nat /\ ordered \subseteq addresses
      /\ ranges \in Seq(Runs(width, addresses)) /\ requests \subseteq Runs(width, addresses)
      /\ found \subseteq {<<b, b>> : b \in addresses}
      /\ Stages /\ Growing /\ Behind /\ Apart
      /\ stage # "failed" => Accounted
  BY ReadsAssumption DEF Reading, Spaced
<1>3. /\ r \in Runs(width, addresses) /\ ranges' \in Seq(Runs(width, addresses))
      /\ Elements(ranges) = {r} \cup Elements(ranges)'
      /\ ranges' = <<>> <=> Len(ranges) = 1
  <2>1. /\ Head(ranges) \in Runs(width, addresses)
        /\ Tail(ranges) \in Seq(Runs(width, addresses))
        /\ Elements(ranges) = {Head(ranges)} \cup Elements(Tail(ranges))
        /\ Tail(ranges) = <<>> <=> Len(ranges) = 1
    BY <1>1, <1>2, FirstAndRest
  <2>2. Elements(ranges)' = Elements(Tail(ranges))
    BY <1>1 DEF Elements
  <2> QED
    BY <1>1, <2>1, <2>2
<1> HIDE DEF r
<1>4. Kept(r) = {<<b, b>> : b \in Elements(r.group)}
  BY <1>2, <1>3, KeptOwn DEF Runs
<1>5. Elements(r.group) \subseteq addresses
  <2>1. r.group \in Seq(addresses)
    BY <1>3 DEF Runs
  <2> QED
    BY <2>1, InSeq DEF Elements
<1>6. /\ requests' \subseteq Runs(width, addresses)
      /\ found' \subseteq {<<b, b>> : b \in addresses}
  BY <1>1, <1>2, <1>3, <1>4, <1>5
<1>7. FormedRuns' = FormedRuns
  BY <1>1, <1>3 DEF FormedRuns
<1>8. Behind' /\ Apart' /\ Growing'
  BY <1>1, <1>2, <1>7 DEF Behind, Apart, Growing, Start, Previous
<1>9. Stages'
  BY <1>1, <1>2, <1>3 DEF Stages
<1>10. stage' # "failed" => Accounted'
  <2> SUFFICES ASSUME stage' # "failed" PROVE Accounted'
    OBVIOUS
  <2>1. Accounted /\ (stage' = "grouping" <=> stage = "grouping")
    BY <1>1, <1>2
  <2>2. \A x : <<x, x>> \in found' <=> <<x, x>> \in found \/ x \in Elements(r.group)
    BY <1>1, <1>4
  <2>3. \A x : (\E q \in Elements(ranges) : x \in Elements(q.group))
               <=> x \in Elements(r.group) \/ \E q \in Elements(ranges)' : x \in Elements(q.group)
    BY <1>3
  <2> QED
    BY <1>1, <2>1, <2>2, <2>3 DEF Accounted
<1> QED
  BY <1>1, <1>2, <1>3, <1>6, <1>8, <1>9, <1>10 DEF Reading

LEMMA RequestFailsKeeps ==
    ASSUME Reading, RequestFails
    PROVE  Reading'
<1>1. /\ width' = width /\ addresses' = addresses /\ ranges' = <<>>
      /\ requests' = requests /\ found' = found /\ group' = group
      /\ ordered' = ordered /\ stage' = "failed"
  BY DEF RequestFails
<1>2. Apart'
  BY <1>1, NoElements DEF Reading, Apart, FormedRuns
<1>3. Stages' /\ Growing' /\ Behind'
  BY <1>1 DEF Stages, Growing, Behind
<1> QED
  BY <1>1, <1>2, <1>3 DEF Reading

LEMMA ReadingKept == Reading /\ [ReadNext]_readVars => Reading'
<1> SUFFICES ASSUME Reading, [ReadNext]_readVars PROVE Reading'
  OBVIOUS
<1>1. CASE ReadNext
  BY <1>1, FirstKeeps, ExtendKeeps, BreakKeeps, LastKeeps, NothingKeeps,
     RequestKeeps, RequestFailsKeeps DEF ReadNext
<1>2. CASE UNCHANGED readVars
  <2>1. /\ width' = width /\ addresses' = addresses /\ ranges' = ranges
        /\ requests' = requests /\ found' = found /\ group' = group
        /\ ordered' = ordered /\ stage' = stage
    BY <1>2 DEF readVars
  <2>2. (Accounted' <=> Accounted) /\ (Stages' <=> Stages)
    BY <2>1 DEF Accounted, Stages, Elements
  <2>3. (Growing' <=> Growing) /\ (Behind' <=> Behind) /\ (Apart' <=> Apart)
    BY <2>1 DEF Growing, Behind, Apart, FormedRuns, Elements, Start, Previous
  <2> QED
    BY <2>1, <2>2, <2>3 DEF Reading
<1> QED
  BY <1>1, <1>2

(* A read that ends well has kept, for each address asked for and for no   *)
(* other, the registers of that address, wherever its run was broken       *)
(* (s2000_pp.py:1141-1184, :1209-1225).                                    *)
THEOREM EachReadItsOwn == ReadSpec => []EachHasItsOwn
<1>1. Reading => EachHasItsOwn
  <2> SUFFICES ASSUME Reading, stage = "done"
               PROVE  found = {<<a, a>> : a \in addresses}
    BY DEF EachHasItsOwn
  <2>1. /\ found \subseteq {<<a, a>> : a \in addresses} /\ Accounted
        /\ ordered = {} /\ ranges = <<>>
    BY DEF Reading, Stages
  <2>2. \A x \in addresses : <<x, x>> \in found
    BY <2>1, NoElements DEF Accounted
  <2> QED
    BY <2>1, <2>2
<1> QED
  BY ReadingStarts, ReadingKept, <1>1, PTL DEF ReadSpec

(* No request is longer than the gateway takes, and each register of it    *)
(* belongs to an address asked for (s2000_pp.py:1210).                     *)
THEOREM RequestsAlwaysFit == ReadSpec => []RequestsFit
<1>1. Reading => RequestsFit
  <2> SUFFICES ASSUME Reading, NEW r \in requests
               PROVE  /\ r.count <= Chunk
                      /\ \A x \in Within(r) : \E a \in addresses : a <= x /\ x < a + width
    BY DEF RequestsFit
  <2>1. /\ width \in 1..Chunk /\ Chunk \in Nat /\ addresses \subseteq Nat
        /\ r.start \in Nat /\ r.count \in Nat /\ RunRange(width, addresses, r)
    BY ReadsAssumption DEF Reading, Spaced, Runs
  <2>2. PICK s, e : s = r.group[1] /\ e = r.group[Len(r.group)]
    OBVIOUS
  <2>3. /\ r.start = s /\ r.start + r.count = e + width /\ e + width <= s + Chunk
        /\ \A x \in Nat : s <= x /\ x < e + width =>
               \E a \in addresses : a <= x /\ x < a + width
    BY <2>1, <2>2 DEF RunRange, Run
  <2>4. r.count <= Chunk
    BY <2>1, <2>3
  <2>5. ASSUME NEW x \in Within(r) PROVE \E a \in addresses : a <= x /\ x < a + width
    <3>1. x \in Nat /\ s <= x /\ x < e + width
      BY <2>1, <2>3 DEF Within
    <3> QED
      BY <2>3, <3>1
  <2> QED
    BY <2>4, <2>5
<1> QED
  BY ReadingStarts, ReadingKept, <1>1, PTL DEF ReadSpec

(* Two requests whose registers meet could not have been one               *)
(* (s2000_pp.py:1157-1162, :1217-1220).                                    *)
THEOREM NoRequestTooMany == ReadSpec => []NoneTooMany
<1>1. Reading => NoneTooMany
  BY DEF Reading, Apart, FormedRuns, NoneTooMany
<1> QED
  BY ReadingStarts, ReadingKept, <1>1, PTL DEF ReadSpec
=============================================================================
