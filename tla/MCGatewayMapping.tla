-------------------------- MODULE MCGatewayMapping --------------------------
(* GatewayMapping for every Bolid class, with small tables: the required   *)
(* cells of a class and some others, one row of another device in each     *)
(* section, and mappings typed in with consecutive row numbers.  And       *)
(* RuntimeReads, the reads of the rows that entries are mapped to, for     *)
(* single registers and for blocks of two: any of eight neighbours each.   *)
EXTENDS GatewayMapping, RuntimeReads

MCModels ==
    {C2000KPB, C20002, C20004, C2000BKI, Signal20M, C2000KDL, MIP24Isp20,
     C2000RARR125, DIP34A05, C2000RDIP, C2000RIP, C2000RST01, C2000ST04,
     C2000IP03, C2000SMK, SVK15_3_8_1_B3, SVK15_3_2_B, C2000DZ, C2000RDZ,
     C2000RSirena, C2000VT, C2000RVTI}
    \cup {C2000RSMK(t) : t \in {"contact_only", "contact_and_external_input"}}
    \cup {C2000RRM(v, t) : v \in {"standard", "isp_01"},
                           t \in {"outputs_only", "outputs_and_input"}}
    \cup {C2000SP2(t) : t \in {"one_output", "two_outputs"}}
    \cup {C2000SP4(v) : v \in {"sp4_24", "sp4_220_02"}}
    \cup {C2000VTI(v) : v \in {"vti", "vti_01"}}

(* The required cells of a class and those with the lowest numbers.        *)
Few(m, n) == m.required \cup {c \in m.accepted \cup m.offered : c.n <= n}

(* The cells of one kind in the order of their numbers.                    *)
Before(c, d) == c.n < d.n \/ (c.n = d.n /\ c.type < d.type)

InOrder(cells, k) ==
    LET own == {c \in cells : c.kind = k}
    IN  [i \in 1..Cardinality(own) |->
            CHOOSE c \in own : Cardinality({d \in own : Before(d, c)}) = i - 1]

TableOf(cells, at) ==
    [k \in Kinds |->
        LET s == InOrder(cells, k)
        IN  IF at = 1 THEN <<Nobody>> \o s ELSE s \o <<Nobody>>]

MCTables ==
    [m \in MCModels |->
        {TableOf(c, at) : at \in 1..2, c \in
            IF m.repair = "mip" THEN {MIPCells, LegacyMIPCells, Few(m, 0)}
            ELSE {m.required, Few(m, 0), Few(m, 1), Few(m, 2)}}]

Numbered(cells, first) ==
    UNION {LET s == InOrder(cells, k)
           IN  {[cell |-> s[i], row |-> i + first - 1] : i \in DOMAIN s} : k \in Kinds}

MCEntered ==
    [m \in MCModels |->
        {Numbered(c, first) : first \in 1..2, c \in
            {Few(m, 0), Few(m, 1), m.offered \cap Few(m, 5)}}]

-----------------------------------------------------------------------------
MCWidths == {1, 2}

MCAddresses == [w \in MCWidths |-> SUBSET {10 + w * i : i \in 0..7}]

(* A mapping and a read share nothing: a behaviour is one of the entry, or *)
(* one of the reader while the entry is still to be made.                  *)
EntryOnly == addresses = {} /\ width = 1

ReadOnly == model = C2000ST04 /\ phase = "none"

MCInit == MappingInit /\ ReadInit /\ (EntryOnly \/ ReadOnly)

MCNext ==
    \/ EntryOnly /\ MappingNext /\ UNCHANGED readVars
    \/ ReadOnly /\ ReadNext /\ UNCHANGED mappingVars

MCSpec == MCInit /\ [][MCNext]_<<mappingVars, readVars>>
=============================================================================
