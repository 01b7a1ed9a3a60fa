--------------------------- MODULE MCConfigReload ---------------------------
(***************************************************************************)
(* ConfigReload with configurations that differ in one field from the      *)
(* defaults each, and one that differs in all.                             *)
(***************************************************************************)
EXTENDS ConfigReload

Cfg(d, w, m, p) == [dev |-> d, wire |-> w, mode |-> m, pin |-> p]
MCDefaults == Cfg("d1", "w1", "m1", "p1")
MCConfigs == {MCDefaults, Cfg("d1", "w2", "m1", "p1"), Cfg("d1", "w1", "m2", "p1"),
              Cfg("d2", "w2", "m1", "p2")}
=============================================================================
