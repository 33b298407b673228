---------------------------- MODULE MCJobWorker ----------------------------
(* Finite instances of JobWorker for TLC. *)
EXTENDS JobWorker, TLC

(* Workers and callers are interchangeable; used by the safety runs only. *)
Symmetry == Permutations(Workers) \cup Permutations(Callers)

CONSTANTS k1, mail, nohandler

(* A keyed job with a handler, and an anonymous one nobody handles. *)
KeyedAndUnhandled == {[key |-> k1, type |-> mail, maxAttempts |-> 2],
                      [key |-> NoKey, type |-> nohandler, maxAttempts |-> 0]}

(* job_backoff_ms as the code computes it, before it is tabulated, on every *)
(* exponent TLC's integers can hold.                                        *)
ASSUME BackoffTable ==
    \A attempt \in -2..24 :
        LET safe == IF attempt > 1 THEN attempt ELSE 1
            raw  == 2 ^ (safe - 1)
        IN  JobBackoff(attempt) = IF raw < 5 THEN raw ELSE 5
=============================================================================
