---------------------------- MODULE BolidModels ----------------------------
(***************************************************************************)
(* The Bolid equipment classes behind the S2000-PP gateway                 *)
(* (equipment/bolid.py), as far as their gateway mappings go: which rows   *)
(* of the gateway's table a class offers to map, which sets of objects its *)
(* apply_gateway_mapping accepts and how its reconcile_gateway_mapping     *)
(* repairs a stored mapping.                                               *)
(*                                                                         *)
(* A cell is what a row of the table describes: the kind of object, its    *)
(* local number (for a DPLS device, relative to its base address) and the  *)
(* zone type (0 for a relay).                                              *)
(***************************************************************************)
EXTENDS Integers, FiniteSets

Zone(n, t) == [kind |-> "zone", n |-> n, type |-> t]
Relay(n)   == [kind |-> "relay", n |-> n, type |-> 0]

(* A class: offered cells; cells its mapping may contain; cells it must    *)
(* contain; sets of which it contains exactly one; DPLS addresses (0: not  *)
(* a DPLS device); and what its reconcile hook is.                         *)
Model(cells, required, span, repair) ==
    [offered |-> cells, accepted |-> cells, required |-> required,
     oneOf |-> {}, span |-> span, repair |-> repair]

(* A variant the flow lists and apply_gateway_mapping refuses.             *)
Refusing(m) == [m EXCEPT !.accepted = {}]

-----------------------------------------------------------------------------
(* Devices with an Orion address of their own: any configured subset.      *)
Direct(cells) == Model(cells, {}, 0, "none")

C2000KPB == Direct(
    {Relay(n) : n \in 1..6} \cup {Zone(n, 2) : n \in 1..6}
    \cup {Zone(n, 1) : n \in 1..2} \cup {Zone(0, 3)})
C20002    == Direct({Zone(0, 3)} \cup {Zone(n, 1) : n \in 1..4})
C20004    == Direct({Zone(0, 3)} \cup {Zone(n, 1) : n \in 1..4})
C2000BKI  == Direct({Zone(0, 3)})
Signal20M == Direct({Zone(0, 3)} \cup {Zone(n, 1) : n \in 1..20})
C2000KDL  == Model({Zone(0, 3)}, {Zone(0, 3)}, 0, "none")

(* The power supply: the inputs 1-5 of a mapping stored by an older        *)
(* version have zone type 1.                                               *)
MIPCells == {Zone(0, 3)} \cup {Zone(n, 8) : n \in 1..5}
LegacyMIPCells == {Zone(0, 3)} \cup {Zone(n, 1) : n \in 1..5}
MIP24Isp20 ==
    [Model(MIPCells, {Zone(0, 3)}, 0, "mip") EXCEPT
        !.accepted = MIPCells \cup LegacyMIPCells,
        !.oneOf = {{Zone(n, 8), Zone(n, 1)} : n \in 1..5}]

-----------------------------------------------------------------------------
(* DPLS devices with zones only: the radio expander, fire and glass-break  *)
(* detectors, magnetic contacts and water meters.                          *)
Detector(cells, repair) == Model(cells, cells, Cardinality(cells), repair)

C2000RARR125 == Detector({Zone(0, 1)}, "none")
DIP34A05     == Detector({Zone(0, 1)}, "none")
C2000RDIP    == DIP34A05
C2000RIP     == DIP34A05
C2000RST01   == DIP34A05
C2000ST04    == DIP34A05

(* One of two rows, with or without the temperature.                       *)
C2000IP03 ==
    [Model({Zone(0, 1), Zone(0, 6)}, {}, 1, "none") EXCEPT
        !.oneOf = {{Zone(0, 1), Zone(0, 6)}}]

C2000RSMK(topology) ==
    Detector({Zone(0, 1)} \cup
             (IF topology = "contact_only" THEN {} ELSE {Zone(1, 1)}), "exact")
C2000SMK == Detector({Zone(0, 1)}, "exact")

WaterMeter    == Detector({Zone(0, 7)}, "none")
SVK15_3_8_1_B3 == WaterMeter
SVK15_3_2_B    == WaterMeter

(* Water-leak detectors.                                                   *)
WaterDetector == Detector({Zone(0, 1)}, "exact")
C2000DZ  == WaterDetector
C2000RDZ == WaterDetector

-----------------------------------------------------------------------------
(* DPLS devices with outputs.                                              *)
Output(required, optional, span) ==
    Model(required \cup optional, required, span, "none")

C2000RRM(variant, topology) ==
    LET relays == {Relay(0), Relay(1)}
    IN  IF topology = "outputs_only"
        THEN Output(relays, {}, 2)
        ELSE LET m == Output(relays \cup {Zone(2, 1)}, {}, 3)
             IN  IF variant = "isp_01" THEN Refusing(m) ELSE m

C2000RSirena == Output({Relay(0), Relay(1)}, {}, 2)

C2000SP2(topology) ==
    IF topology = "one_output" THEN Output({}, {Relay(0)}, 1)
                               ELSE Output({}, {Relay(0), Relay(1)}, 2)

C2000SP4(variant) ==
    LET m == Output({}, {Relay(0), Zone(0, 1), Zone(1, 2), Zone(2, 2),
                         Zone(3, 1), Zone(4, 1)}, 5)
    IN  IF variant = "sp4_220_02" THEN Refusing(m) ELSE m

-----------------------------------------------------------------------------
(* Thermohygrometers: both channels, at two addresses.                     *)
Thermohygrometer == Detector({Zone(0, 6), Zone(1, 6)}, "exact")
C2000VT   == Thermohygrometer
C2000RVTI == Thermohygrometer

(* With CO sensor: a third channel is offered, and no variant accepts it.  *)
C2000VTI(variant) ==
    LET m == [C2000VT EXCEPT !.offered = @ \cup {Zone(2, 6)}]
    IN  IF variant = "vti_01" THEN [Refusing(m) EXCEPT !.span = 3] ELSE m
=============================================================================
