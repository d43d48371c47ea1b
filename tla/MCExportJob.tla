------------------------------ MODULE MCExportJob ------------------------------
(* Instances of ExportJob for TLC. *)
EXTENDS ExportJob, TLC

CONSTANTS j1, j2, w1, w2, r1, r2

OneJob      == {j1}
TwoJobs     == {j1, j2}
OneWorker   == {w1}
TwoWorkers  == {w1, w2}
OneRequest  == {r1}
TwoRequests == {r1, r2}

\* Jobs, workers and requests are interchangeable; used by safety runs only.
Interchangeable == Permutations(Jobs) \cup Permutations(Workers) \cup Permutations(Requests)

\* The events each run lets happen.
DistinctNames   == AllEvents \ {"same_second"}
UserEvents      == {"cancel", "week_passes", "same_second"}
CrashEvents     == {"cancel", "delete", "job_error", "worker_lost"}
Cancelling      == {"cancel"}

================================================================================
