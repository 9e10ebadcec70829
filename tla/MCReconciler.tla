---------------------------- MODULE MCReconciler ----------------------------
(* Reconciler for TLC. *)
EXTENDS Reconciler

CONSTANTS a1, c1, c2, u1, u2

OneApp      == {a1}
MCConfigs   == {c1, c2}
OneConfig   == {c1}
OneUpload   == {u1}
TwoUploads  == {u1, u2}
DockerOnly  == [u \in {u1} |-> "dockerfile"]
MCEngineOf  == [u \in {u1, u2} |-> IF u = u1 THEN "dockerfile" ELSE "buildpacks"]
MCEngines   == {}
MCCodes     == {}

\* Two uploads and two configurations without trouble, one of each with it.
WithinBounds ==
  \/ faults + crashes + adminCalls + shutdowns = 0
  \/ /\ \A d \in Ids : upload[d] # u2
     /\ \A a \in Apps : config[a] = c1 /\ plan = c1 /\ workload[a].secret = c1
     /\ \A a \in Apps : \A n \in DOMAIN releases[a] : releases[a][n].config = c1
=============================================================================
