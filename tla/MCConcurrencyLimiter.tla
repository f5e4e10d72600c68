------------------------ MODULE MCConcurrencyLimiter ------------------------
(* Mutants of ConcurrencyLimiter and the instance TLC checks. *)
EXTENDS ConcurrencyLimiter
=============================================================================
