------------------------- MODULE MCDeploymentStore -------------------------
(* DeploymentStore for TLC: two apps, every caller in any order. *)
EXTENDS DeploymentStore, TLC

CONSTANTS a1, a2, c1, u1

MCApps    == {a1, a2}
MCConfigs == {c1}
MCUploads == {u1}
MCEngines == {"dockerfile"}
MCCodes   == {"build_failed"}

Symmetry == Permutations(MCApps)
=============================================================================
