------------------------------ MODULE MCLimits ------------------------------
(* Limits for TLC.  The lockout has the numbers of SignInSettings: 30 s is   *)
(* 29296875 units of 2^10 ns and the ceiling is 15 minutes.  The bucket is   *)
(* small, and idle as soon as the longest penalty is over.                   *)
EXTENDS Limits, TLC

CONSTANTS c1, c2, office, mail

MCCalls    == {c1, c2}
MCPairs    == {<<office, mail>>, <<None, mail>>, <<None, None>>}
MCJumps    == {10, 30}
MCSymmetry == Permutations(MCCalls)
=============================================================================
