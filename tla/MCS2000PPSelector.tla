------------------------- MODULE MCS2000PPSelector -------------------------
(* Instances of the selector protocol: a temperature sensor with two       *)
(* numeric zones and a water meter with a counter in a zone of the same    *)
(* number.                                                                 *)
EXTENDS S2000PPSelector

CONSTANTS r1, r2

Temperature == [family |-> "numeric", zone |-> 1]
Humidity    == [family |-> "numeric", zone |-> 2]
Water       == [family |-> "counter", zone |-> 1]

ThreeChannels == {Temperature, Humidity, Water}
TwoChildren == [r \in {r1, r2} |-> IF r = r1 THEN {Temperature, Humidity} ELSE {Water}]

TwoChannels == {Temperature, Water}
OneEach == [r \in {r1, r2} |-> IF r = r1 THEN {Temperature} ELSE {Water}]
=============================================================================
