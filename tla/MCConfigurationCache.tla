------------------------ MODULE MCConfigurationCache ------------------------
(* Two child entries with their rows in two chunks; an edit makes the rows *)
(* ambiguous, the next one repairs them.                                   *)
EXTENDS ConfigurationCache

CONSTANTS e1, e2

OneChunkEach == [e \in {e1, e2} |-> IF e = e1 THEN 1 ELSE 2]

OneRepaired == [c \in 1..2 |-> IF c = 1 THEN 2 ELSE 1]
=============================================================================
