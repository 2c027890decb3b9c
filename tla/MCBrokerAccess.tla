----------------------------- MODULE MCBrokerAccess -----------------------------
(* Bounds for TLC: a window of two requests, ages of at most two.          *)
EXTENDS BrokerAccess, TLC

\* retry pauses base_delay * 2^(n - 1) after the n-th failed try.
MCDelay == [n \in 1..(MaxAttempts - 1) |-> 2^(n - 1)]

ThreadSymmetry == Permutations(Threads)
=============================================================================
