------------------------------- MODULE MCApps -------------------------------
(* Apps for TLC. *)
EXTENDS Apps, TLC

CONSTANTS a1, r1, r2, s1, s2, x, y

OneAccount  == {a1}
MCCalls     == {r1, r2}
MCNames     == {"Shop", "www"}
MCBaseOf    == [n \in MCNames |-> IF n = "www" THEN "www" ELSE "shop"]
MCReserved  == {"www"}
MCSuffixes  == {s1, s2}
MCKeys      == {x, y}
MCSizes     == {2}
MCSymmetry  == Permutations(MCCalls) \union Permutations(MCSuffixes) \union Permutations(MCKeys)

\* Two configuration keys with one app and one upload and while nothing fails,
\* one of them otherwise.
WithinBounds ==
  \/ faults = 0 /\ drawn <= 1 /\ apps[2] = NoApp
  \/ \E k \in MCKeys :
       /\ \A i \in AppIds : config[i][k] = 0 /\ \A r \in releases[i] : r.cfg[k] = 0
       /\ \A c \in Calls : call[c].write[k] = 0

\* At these sizes the bounds shrink with the configuration.
ASSUME SumAssumption == FitsShrinks
=============================================================================
