-------------------------- MODULE MCIngestionQueue --------------------------
(* Small instances of IngestionQueue for TLC. *)
EXTENDS IngestionQueue, TLC

CONSTANTS t1, t2, w1, w2, e1, e2

OneTenant == {t1}
TwoTenants == {t1, t2}
OneWorker == {w1}
TwoWorkers == {w1, w2}
OneEnqueuer == {e1}
TwoEnqueuers == {e1, e2}

\* Tenants, workers and enqueuers are interchangeable in the safety runs.
Symmetry == Permutations(TwoTenants) \cup Permutations(TwoWorkers)
              \cup Permutations(TwoEnqueuers)
=============================================================================
