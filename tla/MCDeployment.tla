---------------------------- MODULE MCDeployment ----------------------------
(* Two pods, of any two programs or of one.                                *)
EXTENDS Deployment

\* A duration of 8 bits, with 10 units to the second: 12 seconds fit, 13 are
\* negative and 26 are 4 units.
Seconds1 == {0, 1, 12, 13, 26}
=============================================================================
