------------------------- MODULE DeploymentContract -------------------------
(***************************************************************************)
(* What the deployment tables promise, with no columns, logs or claims:    *)
(* an accepted deployment is settled exactly once, a later one cancels an  *)
(* earlier one that is still pending, an app serves the deployment that    *)
(* succeeded last, and a deleted app accepts nothing more.                 *)
(*                                                                         *)
(* Module DeploymentStore implements it; the refinement maps a row's four  *)
(* in-flight states to "pending" and an app's current release to the       *)
(* deployment that minted it.                                              *)
(***************************************************************************)
EXTENDS Naturals

CONSTANTS Apps, NoApp, Ids

VARIABLES
  phase,    \* of each deployment
  owner,    \* the app each deployment is for
  serving,  \* the deployment each app serves, 0 before the first success
  gone      \* the deleted apps

vars == <<phase, owner, serving, gone>>

PendingOf(a) == {d \in Ids : owner[d] = a /\ phase[d] = "pending"}

Init ==
  /\ phase   = [d \in Ids |-> "absent"]
  /\ owner   = [d \in Ids |-> NoApp]
  /\ serving = [a \in Apps |-> 0]
  /\ gone    = {}

\* Accept the next deployment of an app, cancelling the one it supersedes.
Accept(a, d) ==
  /\ a \notin gone
  /\ phase[d] = "absent"
  /\ \A e \in Ids : e < d => phase[e] # "absent"
  /\ phase' = [e \in Ids |-> IF e = d THEN "pending"
                             ELSE IF e \in PendingOf(a) THEN "cancelled"
                             ELSE phase[e]]
  /\ owner' = [owner EXCEPT ![d] = a]
  /\ UNCHANGED <<serving, gone>>

\* A pending deployment succeeds and serves: it is the app's newest.
Succeed(a, d) ==
  /\ PendingOf(a) = {d}
  /\ serving[a] < d
  /\ phase'   = [phase EXCEPT ![d] = "healthy"]
  /\ serving' = [serving EXCEPT ![a] = d]
  /\ UNCHANGED <<owner, gone>>

\* A pending deployment ends without being served.
End(d) ==
  /\ phase[d] = "pending"
  /\ \E p \in {"failed", "cancelled"} : phase' = [phase EXCEPT ![d] = p]
  /\ UNCHANGED <<owner, serving, gone>>

Retire(a) ==
  /\ a \notin gone
  /\ PendingOf(a) = {}
  /\ gone' = gone \cup {a}
  /\ UNCHANGED <<phase, owner, serving>>

Next ==
  \/ \E a \in Apps, d \in Ids : Accept(a, d) \/ Succeed(a, d)
  \/ \E d \in Ids : End(d)
  \/ \E a \in Apps : Retire(a)

Spec == Init /\ [][Next]_vars
=============================================================================
