-------------------------- MODULE MCTelemetryQueue --------------------------
(***************************************************************************)
(* The small instances on which TLC checks TelemetryQueue.                 *)
(***************************************************************************)
EXTENDS TelemetryQueue, TLC

CONSTANTS s1, s2, s3,  \* scripts
          e1, e2       \* reports left by earlier ones

MCBacklog == <<e1, e2>>

\* Scripts that no other constant tells apart.
MCSymmetry == Permutations(Script \ Malformed)
=============================================================================
