------------------------------- MODULE JobService -------------------------------
(***************************************************************************)
(* What the export service promises the user of its API, with no workers,   *)
(* messages, files or sessions: the status of a job, and whether a completed *)
(* one can be downloaded.  ExportJob implements it.                          *)
(***************************************************************************)
EXTENDS Naturals

CONSTANT Jobs

VARIABLES status,   \* the status the API shows, "none" and "absent" without a row
          archive,  \* what a download of a completed job finds
          stale,    \* jobs with a task that has not heard of their cancellation
          leaving   \* jobs whose deletion has begun

vars == <<status, archive, stale, leaving>>

Rows == {"pending", "running", "completed", "failed", "cancelled"}

Init ==
    /\ status = [j \in Jobs |-> "none"]
    /\ archive = [j \in Jobs |-> "none"]
    /\ stale = {} /\ leaving = {}

\* Tasks may learn of a cancellation at any time; none forgets it.
Learn == stale' \subseteq stale

Becomes(j, new, found) ==
    /\ status' = [status EXCEPT ![j] = new]
    /\ archive' = [archive EXCEPT ![j] = found]

\* A cancellation is final but for a task that had not heard of it.
Open(j) == status[j] \in Rows /\ (status[j] = "cancelled" => j \in stale)

Submit(j) == status[j] = "none" /\ Becomes(j, "pending", "none") /\ Learn /\ UNCHANGED leaving

\* A task begins, for the first time or because its message came again.
Run(j) == Open(j) /\ Becomes(j, "running", "none") /\ Learn /\ UNCHANGED leaving

\* Completed and ready to be downloaded is one step.
Finish(j) == Open(j) /\ Becomes(j, "completed", "ready") /\ Learn /\ UNCHANGED leaving

Break(j) == Open(j) /\ Becomes(j, "failed", "none") /\ Learn /\ UNCHANGED leaving

Cancel(j) ==
    /\ status[j] \in Rows
    /\ Becomes(j, "cancelled", "none")
    /\ stale' \subseteq stale \union {j}
    /\ UNCHANGED leaving

\* A ready archive grows old, only an old one expires.
Retain ==
    /\ \E due \in SUBSET Jobs :
          archive' = [j \in Jobs |->
              IF j \notin due THEN archive[j]
              ELSE IF archive[j] = "ready" THEN "old"
              ELSE IF archive[j] = "old" THEN "gone" ELSE archive[j]]
    /\ Learn
    /\ UNCHANGED <<status, leaving>>

\* A deletion takes the archive first, ...
Withdraw(j) ==
    /\ \/ UNCHANGED archive
       \/ (archive[j] # "none" /\ archive' = [archive EXCEPT ![j] = "gone"])
    /\ leaving' = leaving \union {j}
    /\ Learn
    /\ UNCHANGED status

\* ... then the row; another deletion of the same job may still be under way.
Remove(j) ==
    /\ j \in leaving
    /\ Becomes(j, "absent", "none")
    /\ leaving' \in {leaving, leaving \ {j}}
    /\ Learn

Next ==
    \/ \E j \in Jobs : \/ Submit(j) \/ Run(j) \/ Finish(j) \/ Break(j) \/ Cancel(j)
                       \/ Withdraw(j) \/ Remove(j)
    \/ Retain

Spec == Init /\ [][Next]_vars
=============================================================================
