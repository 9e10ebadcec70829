------------------------------ MODULE MCAccess ------------------------------
(* Access for TLC. *)
EXTENDS Access, TLC

CONSTANTS p1, p2, k1, k2, c1, r1, r2

MCPeople    == {p1, p2}
OnePassword == {"first"}
MCKeys      == {k1, k2}
MCClients   == {c1}
MCCalls     == {r1, r2}
MCSymmetry  == Permutations(MCPeople) \union Permutations(MCKeys) \union Permutations(MCCalls)
=============================================================================
