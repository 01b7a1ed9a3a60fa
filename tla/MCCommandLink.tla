--------------------------- MODULE MCCommandLink ---------------------------
(* Instances of CommandLink for TLC: two good configurations, which differ *)
(* in block_rows or not, and one that the firmware refuses; or one good    *)
(* and one refused configuration, which is enough for liveness.            *)
EXTENDS CommandLink

CONSTANTS c1, c2, bad

MCConfigs  == {c1, c2, bad}
MCFewConfigs == {c1, bad}
MCRejected == {bad}
MCRowsDiffer == [c \in MCConfigs |-> IF c = c2 THEN 2 ELSE 1]
MCRowsSame   == [c \in MCConfigs |-> 1]
MCFewRows    == [c \in MCFewConfigs |-> 1]
=============================================================================
