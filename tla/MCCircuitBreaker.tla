-------------------------- MODULE MCCircuitBreaker --------------------------
(* Three concurrent calls; two routes share an entry with different        *)
(* thresholds and timeouts (two tenants with one upstream and prefix), a   *)
(* third route has an entry of its own.                                    *)
EXTENDS CircuitBreaker, TLC

CONSTANTS s1, s2, s3, patient, hasty, alone, shared, own

MCSlots == {s1, s2, s3}
MCRoutes == {patient, hasty, alone}
MCKeys == {shared, own}
MCKeyOf == (patient :> shared) @@ (hasty :> shared) @@ (alone :> own)
MCThreshold == (patient :> 3) @@ (hasty :> 2) @@ (alone :> 2)
MCRecoveryTimeout == (patient :> 1) @@ (hasty :> 2) @@ (alone :> 1)

=============================================================================
