------------------------------ MODULE MCMutex -------------------------------
(* TLC instances of Mutex: see MCMutex.cfg and MCMutexInherit.cfg. *)
EXTENDS Mutex, TLC

CONSTANTS high, middle, other, low

\* Two threads have the same priority.
Priority == high :> 0 @@ middle :> 1 @@ other :> 1 @@ low :> 2

=============================================================================
