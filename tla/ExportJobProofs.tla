---------------------------- MODULE ExportJobProofs ----------------------------
(***************************************************************************)
(* What TLAPS proves of ExportJob, for any number of jobs, workers,        *)
(* requests, archive names and redeliveries.                               *)
(***************************************************************************)
EXTENDS ExportJob, TLAPS

USE DEF Names, NoName, Live, Terminal, Statuses, Expired, Steps, Ops

(* Every variable stays in its type: a worker in a task and a request in     *)
(* progress always hold a job, so no step writes a row that is not there.    *)
THEOREM TypeCorrect == Spec => []TypeOK
<1>1. Init => TypeOK
  BY ConstantsAssumption DEF Init, TypeOK
<1>2. TypeOK /\ [Next]_vars => TypeOK'
  <2> SUFFICES ASSUME TypeOK, [Next]_vars PROVE TypeOK'
    OBVIOUS
  <2> USE ConstantsAssumption DEF TypeOK, rowVars, brokerVars, diskVars, workerVars, requestVars,
                                  Exists, Wanted, Flushed, Marked, Goto, Load, Unlink
  <2>1. ASSUME NEW j \in Jobs, Create(j) \/ CreateUnsent(j) PROVE TypeOK'
    <3>1. CASE Create(j)
      BY <3>1 DEF Create
    <3>2. CASE CreateUnsent(j)
      BY <3>2 DEF CreateUnsent
    <3>3. QED
      BY <2>1, <3>1, <3>2
  <2>2. ASSUME NEW w \in Workers, NEW j \in Jobs, Skip(w, j) PROVE TypeOK'
    BY <2>2 DEF Skip
  <2>3. ASSUME NEW w \in Workers, NEW j \in Jobs, PickUp(w, j) PROVE TypeOK'
    BY <2>3 DEF PickUp
  <2>4. ASSUME NEW w \in Workers, MarkRunning(w) PROVE TypeOK'
    BY <2>4 DEF MarkRunning
  <2>5. ASSUME NEW w \in Workers, Proceed(w) PROVE TypeOK'
    BY <2>5 DEF Proceed, MustStop
  <2>6. ASSUME NEW w \in Workers, Abort(w) PROVE TypeOK'
    BY <2>6 DEF Abort
  <2>7. ASSUME NEW w \in Workers, OpenArchive(w) PROVE TypeOK'
    BY <2>7 DEF OpenArchive, MustStop
  <2>8. ASSUME NEW w \in Workers, CloseArchive(w) PROVE TypeOK'
    BY <2>8 DEF CloseArchive
  <2>9. ASSUME NEW w \in Workers, Finalize(w) PROVE TypeOK'
    BY <2>9 DEF Finalize
  <2>10. ASSUME NEW w \in Workers, FinalCheck(w) PROVE TypeOK'
    BY <2>10 DEF FinalCheck, MustStop
  <2>11. ASSUME NEW w \in Workers, Complete(w) PROVE TypeOK'
    BY <2>11 DEF Complete
  <2>12. ASSUME NEW w \in Workers, HandleCancel(w) PROVE TypeOK'
    BY <2>12 DEF HandleCancel, DropArchive, CommitCancel
  <2>13. ASSUME NEW w \in Workers, Fail(w) PROVE TypeOK'
    BY <2>13 DEF Fail, Cached
  <2>14. ASSUME NEW w \in Workers, LoseSession(w) PROVE TypeOK'
    BY <2>14 DEF LoseSession
  <2>15. ASSUME NEW w \in Workers, CleanUp(w) \/ Acknowledge(w) PROVE TypeOK'
    BY <2>15 DEF CleanUp, Acknowledge, Outdated
  <2>16. ASSUME NEW w \in Workers, LoseWorker(w) \/ Redeliver(w) PROVE TypeOK'
    <3>1. CASE LoseWorker(w)
      BY <3>1 DEF LoseWorker, Requeue
    <3>2. CASE Redeliver(w)
      BY <3>2 DEF Redeliver, Requeue
    <3>3. QED
      BY <2>16, <3>1, <3>2
  <2>17. ASSUME NEW r \in Requests, NEW j \in Jobs, CancelRead(r, j) \/ DeleteRead(r, j) PROVE TypeOK'
    BY <2>17 DEF CancelRead, DeleteRead, Request, Deletable
  <2>18. ASSUME NEW r \in Requests, RequestStep(r) PROVE TypeOK'
    <3>1. CASE CancelWrite(r)
      BY <3>1 DEF CancelWrite, Reply
    <3>2. CASE DeleteFile(r)
      BY <3>2 DEF DeleteFile
    <3>3. CASE DeleteRow(r)
      BY <3>3 DEF DeleteRow, Reply
    <3>4. QED
      BY <2>18, <3>1, <3>2, <3>3 DEF RequestStep
  <2>19. ASSUME NEW n \in Names, Age(n) PROVE TypeOK'
    BY <2>19 DEF Age
  <2>20. CASE UNCHANGED vars
    BY <2>20 DEF vars
  <2>21. QED
    BY <2>1, <2>2, <2>3, <2>4, <2>5, <2>6, <2>7, <2>8, <2>9, <2>10, <2>11, <2>12, <2>13, <2>14,
       <2>15, <2>16, <2>17, <2>18, <2>19, <2>20 DEF Next, WorkerStep
<1>3. QED
  BY <1>1, <1>2, PTL DEF Spec

-----------------------------------------------------------------------------
(* Nobody is forgotten: a pending or running job has a message or a worker. *)

Working == Steps \ {"idle", "ending", "acking"}

(* Worker w will still move job j on: it is about to mark a pending job as       *)
(* running, or works on a running one with a copy of the row that will make its *)
(* last flush write a status.                                                   *)
Carries(w, j) ==
    /\ wjob[w] = j
    /\ \/ status[j] = "pending" /\ pc[w] = "picked" /\ seen[w] = "pending"
       \/ status[j] = "running" /\ pc[w] \in Working /\ seen[w] \in {Expired, "running"}

OwnerInv ==
    \A j \in Jobs : status[j] \in {"pending", "running"} =>
        queue[j] > 0 \/ \E w \in Workers : Carries(w, j)

(* Whatever worker w does, jobs with an owner keep one. *)
LEMMA WorkerKeepsOwner ==
    ASSUME TypeOK, TypeOK', OwnerInv, NEW w \in Workers, WorkerStep(w), ~LoseSession(w)
    PROVE  OwnerInv'
<1> SUFFICES ASSUME NEW j \in Jobs, status'[j] \in {"pending", "running"}
             PROVE  queue'[j] > 0 \/ \E v \in Workers : Carries(v, j)'
  BY DEF OwnerInv
<1> USE DEF TypeOK, rowVars, brokerVars, diskVars, workerVars, requestVars,
            Exists, Wanted, Flushed, Marked, Goto, Load, Working, Carries
<1>0. ASSUME status'[j] = status[j], queue' = queue, ~Carries(w, j),
             \A v \in Workers \ {w} : pc'[v] = pc[v] /\ seen'[v] = seen[v] /\ wjob'[v] = wjob[v]
      PROVE  queue'[j] > 0 \/ \E v \in Workers : Carries(v, j)'
  <2>1. CASE queue[j] > 0
    BY <1>0, <2>1
  <2>2. CASE ~(queue[j] > 0)
    <3>1. PICK v \in Workers : Carries(v, j)
      BY <1>0, <2>2 DEF OwnerInv
    <3>2. Carries(v, j)'
      BY <1>0, <3>1
    <3>3. QED
      BY <3>2
  <2>3. QED
    BY <2>1, <2>2
<1>1. CASE MarkRunning(w)
  <2>1. CASE status'[j] = "running" /\ wjob[w] = j
    <3>1. Carries(w, j)'
      BY <1>1, <2>1 DEF MarkRunning
    <3>2. QED
      BY <3>1
  <2>2. CASE wjob[w] # j \/ status'[j] = "pending"
    <3>1. status'[j] = status[j] /\ ~Carries(w, j)
      BY <1>1, <2>2 DEF MarkRunning
    <3>2. QED
      BY <1>0, <1>1, <3>1 DEF MarkRunning
  <2>3. QED
    BY <2>1, <2>2
<1>2. CASE Proceed(w)
  BY <1>2 DEF Proceed, MustStop, OwnerInv
<1>3. CASE Abort(w)
  BY <1>3 DEF Abort, MustStop, OwnerInv
<1>4. CASE OpenArchive(w)
  BY <1>4 DEF OpenArchive, MustStop, OwnerInv
<1>5. CASE CloseArchive(w)
  BY <1>5 DEF CloseArchive, OwnerInv
<1>6. CASE Finalize(w)
  <2>1. CASE Carries(w, j)
    <3>1. Carries(w, j)'
      BY <1>6, <2>1 DEF Finalize
    <3>2. QED
      BY <3>1
  <2>2. CASE ~Carries(w, j)
    BY <1>0, <1>6, <2>2 DEF Finalize
  <2>3. QED
    BY <2>1, <2>2
<1>7. CASE FinalCheck(w)
  <2>1. CASE Carries(w, j)
    <3>1. Carries(w, j)'
      BY <1>7, <2>1 DEF FinalCheck, MustStop
    <3>2. QED
      BY <3>1
  <2>2. CASE ~Carries(w, j)
    BY <1>0, <1>7, <2>2 DEF FinalCheck, MustStop
  <2>3. QED
    BY <2>1, <2>2
<1>8. CASE Complete(w)
  BY <1>8 DEF Complete, OwnerInv
<1>9. CASE HandleCancel(w)
  BY <1>9 DEF HandleCancel, CommitCancel, OwnerInv
<1>10. CASE Fail(w)
  BY <1>10 DEF Fail, Cached, OwnerInv
<1>11. CASE CleanUp(w)
  BY <1>11 DEF CleanUp, OwnerInv
<1>12. CASE Acknowledge(w)
  BY <1>0, <1>12 DEF Acknowledge
<1>13. QED
  BY <1>1, <1>2, <1>3, <1>4, <1>5, <1>6, <1>7, <1>8, <1>9, <1>10, <1>11, <1>12 DEF WorkerStep

(* As long as no flush fails and every message can be sent, a job shown as       *)
(* pending or running has a task or a message, whatever crashes, redeliveries,  *)
(* failures, cancellations and deletions happen.                                *)
THEOREM UnfinishedOwned ==
    ASSUME Events \cap {"db_error", "broker_down"} = {}
    PROVE  Spec => []UnfinishedIsOwned
<1>1. Init => OwnerInv
  BY DEF Init, OwnerInv
<1>2. TypeOK /\ TypeOK' /\ OwnerInv /\ [Next]_vars => OwnerInv'
  <2> SUFFICES ASSUME TypeOK, TypeOK', OwnerInv, [Next]_vars PROVE OwnerInv'
    OBVIOUS
  <2> USE DEF rowVars, brokerVars, diskVars, workerVars, requestVars
  <2>1. ASSUME NEW j \in Jobs, Create(j) \/ CreateUnsent(j) PROVE OwnerInv'
    BY <2>1 DEF Create, CreateUnsent, OwnerInv, Carries, TypeOK
  <2>2. ASSUME NEW w \in Workers, NEW j \in Jobs, Skip(w, j) PROVE OwnerInv'
    BY <2>2 DEF Skip, Wanted, OwnerInv, Carries, TypeOK
  <2>3. ASSUME NEW w \in Workers, NEW j \in Jobs, PickUp(w, j) PROVE OwnerInv'
    <3> SUFFICES ASSUME NEW k \in Jobs, status'[k] \in {"pending", "running"}
                 PROVE  queue'[k] > 0 \/ \E v \in Workers : Carries(v, k)'
      BY DEF OwnerInv
    <3>1. CASE k = j
      <4>1. Carries(w, k)'
        BY <2>3, <3>1 DEF PickUp, Wanted, Goto, Load, Carries, Working, TypeOK
      <4>2. QED
        BY <4>1
    <3>2. CASE k # j
      <4>1. ~Carries(w, k) /\ queue'[k] = queue[k] /\ status'[k] = status[k]
        BY <2>3, <3>2 DEF PickUp, Carries, Working, TypeOK
      <4>2. \A v \in Workers : Carries(v, k) => Carries(v, k)'
        BY <2>3, <4>1 DEF PickUp, Goto, Load, Carries, Working, TypeOK
      <4>3. QED
        BY <4>1, <4>2 DEF OwnerInv
    <3>3. QED
      BY <3>1, <3>2
  <2>4. ASSUME NEW w \in Workers, WorkerStep(w) PROVE OwnerInv'
    BY <2>4, WorkerKeepsOwner DEF LoseSession
  <2>5. ASSUME NEW w \in Workers, LoseWorker(w) PROVE OwnerInv'
    BY <2>5 DEF LoseWorker, Requeue, Goto, Load, OwnerInv, Carries, Working, TypeOK
  <2>6. ASSUME NEW w \in Workers, Redeliver(w) PROVE OwnerInv'
    BY <2>6 DEF Redeliver, Requeue, OwnerInv, Carries, TypeOK
  <2>7. ASSUME NEW r \in Requests, NEW j \in Jobs, CancelRead(r, j) \/ DeleteRead(r, j) PROVE OwnerInv'
    BY <2>7 DEF CancelRead, DeleteRead, Request, OwnerInv, Carries
  <2>8. ASSUME NEW r \in Requests, RequestStep(r) PROVE OwnerInv'
    BY <2>8 DEF RequestStep, CancelWrite, DeleteFile, DeleteRow, OwnerInv, Carries, TypeOK
  <2>9. ASSUME NEW n \in Names, Age(n) PROVE OwnerInv'
    BY <2>9 DEF Age, OwnerInv, Carries
  <2>10. CASE UNCHANGED vars
    BY <2>10 DEF vars, OwnerInv, Carries
  <2>11. QED
    BY <2>1, <2>2, <2>3, <2>4, <2>5, <2>6, <2>7, <2>8, <2>9, <2>10 DEF Next
<1>3. OwnerInv /\ TypeOK => UnfinishedIsOwned
  BY DEF OwnerInv, Carries, Working, UnfinishedIsOwned, Running
<1>4. QED
  BY <1>1, <1>2, <1>3, TypeCorrect, PTL DEF Spec

-----------------------------------------------------------------------------
(* A cancellation is lost only to a worker with an older copy of the row. *)

(* A worker's loaded copy says what the row says about a cancellation, unless   *)
(* the cancellation was committed since; and a copy is loaded exactly where a   *)
(* status is about to be flushed.                                               *)
CopyInv ==
    /\ \A w \in Workers : pc[w] # "idle" /\ status[wjob[w]] = "cancelled" =>
          seen[w] \in {Expired, "cancelled"} \/ w \in overtaken
    /\ \A w \in Workers : pc[w] = "picked" => seen[w] \in Live \ {"cancelled"}
    /\ \A w \in Workers : pc[w] = "completing" => seen[w] # Expired
    /\ \A w \in Workers : pc[w] = "cancelling" => seen[w] = Expired

(* What a worker remembers of a row is never newer than the row. *)
LEMMA CopyInvInvariant == Spec => []CopyInv
<1>1. Init => CopyInv
  BY DEF Init, CopyInv
<1>2. TypeOK /\ TypeOK' /\ CopyInv /\ [Next]_vars => CopyInv'
  <2> SUFFICES ASSUME TypeOK, TypeOK', CopyInv, [Next]_vars PROVE CopyInv'
    OBVIOUS
  <2> USE DEF rowVars, brokerVars, diskVars, workerVars, requestVars, TypeOK, CopyInv,
              Exists, Wanted, Flushed, Marked, Goto, Load
  <2>1. ASSUME NEW j \in Jobs, Create(j) \/ CreateUnsent(j) PROVE CopyInv'
    BY <2>1 DEF Create, CreateUnsent
  <2>2. ASSUME NEW w \in Workers, NEW j \in Jobs, Skip(w, j) PROVE CopyInv'
    BY <2>2 DEF Skip
  <2>3. ASSUME NEW w \in Workers, NEW j \in Jobs, PickUp(w, j) PROVE CopyInv'
    BY <2>3 DEF PickUp
  <2>4. ASSUME NEW w \in Workers, MarkRunning(w) PROVE CopyInv'
    BY <2>4 DEF MarkRunning
  <2>5. ASSUME NEW w \in Workers, Proceed(w) PROVE CopyInv'
    BY <2>5 DEF Proceed, MustStop
  <2>6. ASSUME NEW w \in Workers, Abort(w) PROVE CopyInv'
    BY <2>6 DEF Abort
  <2>7. ASSUME NEW w \in Workers, OpenArchive(w) PROVE CopyInv'
    BY <2>7 DEF OpenArchive, MustStop
  <2>8. ASSUME NEW w \in Workers, CloseArchive(w) \/ CleanUp(w) \/ Acknowledge(w) PROVE CopyInv'
    BY <2>8 DEF CloseArchive, CleanUp, Acknowledge
  <2>9. ASSUME NEW w \in Workers, Finalize(w) PROVE CopyInv'
    BY <2>9 DEF Finalize
  <2>10. ASSUME NEW w \in Workers, FinalCheck(w) PROVE CopyInv'
    <3>1. UNCHANGED <<status, wjob>> /\ overtaken' = overtaken \ {w}
      BY <2>10 DEF FinalCheck
    <3>2. \/ pc' = [pc EXCEPT ![w] = "cancelling"] /\ seen' = [seen EXCEPT ![w] = Expired]
          \/ pc' = [pc EXCEPT ![w] = "completing"] /\ seen' = [seen EXCEPT ![w] = status[wjob[w]]]
      BY <2>10 DEF FinalCheck
    <3>3. pc[w] = "checking"
      BY <2>10 DEF FinalCheck
    <3>4. status[wjob[w]] # Expired
      BY <3>3
    <3>5. \A v \in Workers \ {w} : pc'[v] = pc[v] /\ seen'[v] = seen[v]
      BY <3>2
    <3>6. seen'[w] \in {Expired, status[wjob[w]]} /\ pc'[w] \in {"cancelling", "completing"}
      BY <3>2
    <3>7. pc'[w] = "completing" => seen'[w] # Expired
      BY <3>2, <3>4
    <3>8. pc'[w] = "cancelling" => seen'[w] = Expired
      BY <3>2
    <3>9. QED
      BY <3>1, <3>5, <3>6, <3>7, <3>8
  <2>11. ASSUME NEW w \in Workers, Complete(w) PROVE CopyInv'
    BY <2>11 DEF Complete
  <2>12. ASSUME NEW w \in Workers, HandleCancel(w) PROVE CopyInv'
    BY <2>12 DEF HandleCancel, CommitCancel
  <2>13. ASSUME NEW w \in Workers, Fail(w) PROVE CopyInv'
    BY <2>13 DEF Fail, Cached
  <2>14. ASSUME NEW w \in Workers, LoseSession(w) \/ LoseWorker(w) \/ Redeliver(w) PROVE CopyInv'
    <3>1. CASE LoseSession(w)
      BY <3>1 DEF LoseSession
    <3>2. CASE LoseWorker(w)
      BY <3>2 DEF LoseWorker
    <3>3. CASE Redeliver(w)
      BY <3>3 DEF Redeliver
    <3>4. QED
      BY <2>14, <3>1, <3>2, <3>3
  <2>15. ASSUME NEW r \in Requests, NEW j \in Jobs, CancelRead(r, j) \/ DeleteRead(r, j) PROVE CopyInv'
    BY <2>15 DEF CancelRead, DeleteRead, Request
  <2>16. ASSUME NEW r \in Requests, CancelWrite(r) PROVE CopyInv'
    BY <2>16 DEF CancelWrite
  <2>17. ASSUME NEW r \in Requests, DeleteFile(r) \/ DeleteRow(r) PROVE CopyInv'
    BY <2>17 DEF DeleteFile, DeleteRow
  <2>18. ASSUME NEW n \in Names, Age(n) PROVE CopyInv'
    BY <2>18 DEF Age
  <2>19. CASE UNCHANGED vars
    BY <2>19 DEF vars
  <2>20. QED
    BY <2>1, <2>2, <2>3, <2>4, <2>5, <2>6, <2>7, <2>8, <2>9, <2>10, <2>11, <2>12, <2>13, <2>14,
       <2>15, <2>16, <2>17, <2>18, <2>19 DEF Next, WorkerStep, RequestStep
<1>3. QED
  BY <1>1, <1>2, TypeCorrect, PTL DEF Spec

(* However the steps of workers and requests interleave, a committed cancellation *)
(* is overwritten only by a worker that had loaded the row before that commit.    *)
THEOREM CancelLost == Spec => CancelLostOnlyToOldCopy
<1>1. TypeOK /\ CopyInv /\ [Next]_vars =>
        [\A j \in Jobs : status[j] = "cancelled" /\ status'[j] \notin {"cancelled", "absent"}
             => \E w \in overtaken : wjob[w] = j /\ pc'[w] # pc[w]]_vars
  <2> SUFFICES ASSUME TypeOK, CopyInv, Next, NEW j \in Jobs,
                      status[j] = "cancelled", status'[j] \notin {"cancelled", "absent"}
               PROVE  \E w \in overtaken : wjob[w] = j /\ pc'[w] # pc[w]
    OBVIOUS
  <2> USE DEF TypeOK, CopyInv, Exists, Wanted, Flushed, Marked, Goto
  <2>1. ASSUME NEW w \in Workers, MarkRunning(w) \/ Complete(w) \/ Fail(w)
        PROVE  w \in overtaken /\ wjob[w] = j /\ pc'[w] # pc[w]
    <3>1. CASE MarkRunning(w)
      BY <3>1 DEF MarkRunning
    <3>2. CASE Complete(w)
      <4>1. wjob[w] = j /\ pc'[w] # pc[w]
        BY <3>2 DEF Complete, rowVars
      <4>2. seen[w] \notin {Expired, "cancelled"}
        BY <3>2, <4>1 DEF Complete, rowVars
      <4>3. QED
        BY <3>2, <4>1, <4>2 DEF Complete
    <3>3. CASE Fail(w)
      BY <3>3 DEF Fail, Cached
    <3>4. QED
      BY <2>1, <3>1, <3>2, <3>3
  <2>2. ASSUME NEW w \in Workers, WorkerStep(w), ~(MarkRunning(w) \/ Complete(w) \/ Fail(w))
        PROVE  FALSE
    BY <2>2 DEF WorkerStep, Proceed, Abort, OpenArchive, CloseArchive, Finalize, FinalCheck,
                HandleCancel, CommitCancel, LoseSession, CleanUp, Acknowledge, rowVars
  <2>3. ~\E k \in Jobs : Create(k) \/ CreateUnsent(k)
    BY DEF Create, CreateUnsent
  <2>4. ~\E r \in Requests : RequestStep(r)
    <3>1. ASSUME NEW r \in Requests, CancelWrite(r) PROVE FALSE
      BY <3>1 DEF CancelWrite
    <3>2. ASSUME NEW r \in Requests, DeleteFile(r) PROVE FALSE
      BY <3>2 DEF DeleteFile, rowVars
    <3>3. ASSUME NEW r \in Requests, DeleteRow(r) PROVE FALSE
      BY <3>3 DEF DeleteRow
    <3>4. QED
      BY <3>1, <3>2, <3>3 DEF RequestStep
  <2>5. UNCHANGED status => FALSE
    OBVIOUS
  <2>6. \E w \in Workers : WorkerStep(w)
    BY <2>3, <2>4, <2>5 DEF Next, Skip, PickUp, LoseWorker, Redeliver, CancelRead, DeleteRead,
                            Request, Age, rowVars
  <2>7. QED
    BY <2>1, <2>2, <2>6
<1>2. QED
  BY <1>1, TypeCorrect, CopyInvInvariant, PTL DEF Spec, CancelLostOnlyToOldCopy

-----------------------------------------------------------------------------
(* What a download serves. *)

(* No name is used before the clock has reached it. *)
NamesUsed ==
    /\ \A n \in disk \cup aged : n <= clock
    /\ \A j \in Jobs : filePath[j] <= clock
    /\ \A w \in Workers : zip[w] <= clock
    /\ \A r \in Requests : rfile[r] <= clock

(* The archive a worker holds is nobody else's. *)
HeldApart ==
    /\ \A w, v \in Workers : zip[w] # NoName /\ zip[w] = zip[v] => w = v
    /\ \A w \in Workers, j \in Jobs : zip[w] # NoName => zip[w] # filePath[j]
    /\ \A w \in Workers, r \in Requests : zip[w] # NoName => zip[w] # rfile[r]

(* No two rows name the same archive, and a deletion removes that of its own job. *)
OneOwner ==
    /\ \A j, k \in Jobs : filePath[j] # NoName /\ filePath[j] = filePath[k] => j = k
    /\ \A r \in Requests, k \in Jobs : rfile[r] # NoName /\ rfile[r] = filePath[k] => k = rjob[r]

(* The archive a worker is about to hand over is that of its job, and recent. *)
Sealed ==
    \A w \in Workers :
        /\ pc[w] \in {"archiving", "finalizing", "checking", "completing"} =>
              zip[w] \in Names /\ zip[w] \notin aged
        /\ pc[w] = "archiving" => content[zip[w]] = {}
        /\ pc[w] \in {"finalizing", "checking", "completing"} =>
              zip[w] \in disk /\ content[zip[w]] = {wjob[w]}

NameInv == NamesUsed /\ HeldApart /\ OneOwner /\ Sealed

(* Names drawn in different seconds keep the archives of different jobs apart. *)
LEMMA NameInvInvariant == ASSUME "same_second" \notin Events PROVE Spec => []NameInv
<1>1. Init => NameInv
  BY ConstantsAssumption DEF Init, NameInv, NamesUsed, HeldApart, OneOwner, Sealed
<1>2. TypeOK /\ TypeOK' /\ NameInv /\ [Next]_vars => NameInv'
  <2> SUFFICES ASSUME TypeOK, TypeOK', NameInv, [Next]_vars PROVE NameInv'
    OBVIOUS
  <2> USE ConstantsAssumption
      DEF rowVars, brokerVars, diskVars, workerVars, requestVars, TypeOK, Goto, Load,
          NameInv, NamesUsed, HeldApart, OneOwner, Sealed
  <2>1. ASSUME NEW j \in Jobs, Create(j) \/ CreateUnsent(j) PROVE NameInv'
    BY <2>1 DEF Create, CreateUnsent
  <2>2. ASSUME NEW w \in Workers, NEW j \in Jobs, Skip(w, j) \/ PickUp(w, j) PROVE NameInv'
    BY <2>2 DEF Skip, PickUp
  <2>3. ASSUME NEW w \in Workers, MarkRunning(w) PROVE NameInv'
    BY <2>3 DEF MarkRunning
  <2>4. ASSUME NEW w \in Workers, Proceed(w) PROVE NameInv'
    BY <2>4 DEF Proceed
  <2>5. ASSUME NEW w \in Workers, Abort(w) PROVE NameInv'
    BY <2>5 DEF Abort, Unlink
  <2>6. ASSUME NEW w \in Workers, OpenArchive(w) PROVE NameInv'
    <3>0. clock' = clock + 1 /\ disk' = disk \cup {clock + 1} /\ zip' = [zip EXCEPT ![w] = clock + 1]
      BY <2>6 DEF OpenArchive
    <3>1. NamesUsed'
      <4>1. \A n \in Nat : n <= clock => n <= clock'
        BY <3>0
      <4>2. \A n \in disk' \cup aged' : n <= clock'
        BY <2>6, <3>0, <4>1 DEF OpenArchive
      <4>3. \A v \in Workers : zip'[v] \in {zip[v], clock'} /\ zip[v] \in Nat /\ zip[v] <= clock
        BY <3>0
      <4>4. \A v \in Workers : zip'[v] <= clock'
        <5> HIDE DEF TypeOK, NameInv, NamesUsed, HeldApart, OneOwner, Sealed
        <5>1. clock' \in Nat
          BY DEF TypeOK
        <5>2. QED
          BY <4>1, <4>3, <5>1
      <4>5. UNCHANGED <<filePath, rfile>>
        BY <2>6 DEF OpenArchive
      <4>6. \A j \in Jobs : filePath[j] \in Nat /\ filePath[j] <= clock
        OBVIOUS
      <4>7. \A r \in Requests : rfile[r] \in Nat /\ rfile[r] <= clock
        OBVIOUS
      <4>8. QED
        <5> HIDE DEF TypeOK, NameInv, HeldApart, OneOwner, Sealed
        <5>1. QED
          BY <4>1, <4>2, <4>4, <4>5, <4>6, <4>7
    <3>2. HeldApart'
      BY <2>6 DEF OpenArchive
    <3>3. OneOwner'
      BY <2>6 DEF OpenArchive
    <3>4. Sealed'
      BY <2>6 DEF OpenArchive
    <3>5. QED
      BY <3>1, <3>2, <3>3, <3>4
  <2>7. ASSUME NEW w \in Workers, CloseArchive(w) PROVE NameInv'
    BY <2>7 DEF CloseArchive
  <2>8. ASSUME NEW w \in Workers, Finalize(w) PROVE NameInv'
    <3>0. /\ \A v \in Workers : zip'[v] \in {zip[v], NoName}
          /\ UNCHANGED <<disk, content, aged, clock, filePath, rfile>>
      BY <2>8 DEF Finalize
    <3>1. NamesUsed'
      BY <3>0
    <3>2. HeldApart'
      BY <3>0
    <3>3. OneOwner'
      BY <2>8 DEF Finalize
    <3>4. Sealed'
      BY <2>8 DEF Finalize
    <3>5. QED
      BY <3>1, <3>2, <3>3, <3>4
  <2>9. ASSUME NEW w \in Workers, FinalCheck(w) PROVE NameInv'
    BY <2>9 DEF FinalCheck
  <2>10. ASSUME NEW w \in Workers, Complete(w) PROVE NameInv'
    <3>1. NamesUsed'
      BY <2>10 DEF Complete
    <3>2. HeldApart'
      BY <2>10 DEF Complete
    <3>3. OneOwner'
      BY <2>10 DEF Complete
    <3>4. Sealed'
      BY <2>10 DEF Complete
    <3>5. QED
      BY <3>1, <3>2, <3>3, <3>4
  <2>11. ASSUME NEW w \in Workers, HandleCancel(w) PROVE NameInv'
    BY <2>11 DEF HandleCancel, CommitCancel, DropArchive, Unlink
  <2>12. ASSUME NEW w \in Workers, Fail(w) PROVE NameInv'
    BY <2>12 DEF Fail
  <2>13. ASSUME NEW w \in Workers, LoseSession(w) PROVE NameInv'
    BY <2>13 DEF LoseSession
  <2>14. ASSUME NEW w \in Workers, CleanUp(w) PROVE NameInv'
    BY <2>14 DEF CleanUp, Unlink, Outdated
  <2>15. ASSUME NEW w \in Workers, Acknowledge(w) PROVE NameInv'
    BY <2>15 DEF Acknowledge
  <2>16. ASSUME NEW w \in Workers, LoseWorker(w) \/ Redeliver(w) PROVE NameInv'
    <3>1. CASE LoseWorker(w)
      BY <3>1 DEF LoseWorker
    <3>2. CASE Redeliver(w)
      BY <3>2 DEF Redeliver
    <3>3. QED
      BY <2>16, <3>1, <3>2
  <2>17. ASSUME NEW r \in Requests, NEW j \in Jobs, CancelRead(r, j) \/ DeleteRead(r, j) PROVE NameInv'
    <3>1. CASE CancelRead(r, j)
      BY <3>1 DEF CancelRead, Request
    <3>2. CASE DeleteRead(r, j)
      BY <3>2 DEF DeleteRead, Request
    <3>3. QED
      BY <2>17, <3>1, <3>2
  <2>18. ASSUME NEW r \in Requests, CancelWrite(r) PROVE NameInv'
    BY <2>18 DEF CancelWrite, Reply
  <2>19. ASSUME NEW r \in Requests, DeleteFile(r) PROVE NameInv'
    BY <2>19 DEF DeleteFile, Unlink
  <2>20. ASSUME NEW r \in Requests, DeleteRow(r) PROVE NameInv'
    BY <2>20 DEF DeleteRow, Reply
  <2>21. ASSUME NEW n \in Names, Age(n) PROVE NameInv'
    <3>1. NamesUsed'
      BY <2>21 DEF Age
    <3>2. HeldApart'
      BY <2>21 DEF Age
    <3>3. OneOwner'
      BY <2>21 DEF Age
    <3>4. Sealed'
      BY <2>21 DEF Age
    <3>5. QED
      BY <3>1, <3>2, <3>3, <3>4
  <2>22. CASE UNCHANGED vars
    BY <2>22 DEF vars
  <2>23. QED
    BY <2>1, <2>2, <2>3, <2>4, <2>5, <2>6, <2>7, <2>8, <2>9, <2>10, <2>11, <2>12, <2>13, <2>14, <2>15, <2>16, <2>17, <2>18, <2>19, <2>20, <2>21, <2>22
       DEF Next, WorkerStep, RequestStep
<1>3. QED
  BY <1>1, <1>2, TypeCorrect, PTL DEF Spec

(* When archives of one user get names of their own, a completed job's file is    *)
(* the complete archive of that job and of no other, until the retention period  *)
(* or the deletion of the job removes it - whatever is cancelled, deleted,       *)
(* redelivered or crashes meanwhile.                                             *)
THEOREM DownloadOwn == ASSUME "same_second" \notin Events PROVE Spec => []DownloadIsOwnArchive
<1>1. Init => DownloadIsOwnArchive
  BY DEF Init, DownloadIsOwnArchive
<1>2. TypeOK /\ TypeOK' /\ NameInv /\ DownloadIsOwnArchive /\ [Next]_vars => DownloadIsOwnArchive'
  <2> SUFFICES ASSUME TypeOK, TypeOK', NameInv, DownloadIsOwnArchive, [Next]_vars,
                      NEW k \in Jobs, status'[k] = "completed"
               PROVE  (Intact(k, filePath[k]) \/ filePath[k] \in aged \/ BeingDeleted(k))'
    BY DEF DownloadIsOwnArchive
  <2> DEFINE Served == Intact(k, filePath[k]) \/ filePath[k] \in aged \/ BeingDeleted(k)
  <2> USE ConstantsAssumption
      DEF rowVars, brokerVars, diskVars, workerVars, requestVars, TypeOK, Flushed, Marked,
          NameInv, NamesUsed, HeldApart, OneOwner, Sealed, DownloadIsOwnArchive, Intact, BeingDeleted
  <2>1. ASSUME NEW j \in Jobs, Create(j) \/ CreateUnsent(j) PROVE Served'
    <3>1. status[k] = "completed"
      BY <2>1 DEF Create, CreateUnsent
    <3>2. UNCHANGED <<filePath, disk, content, aged, op, rjob, rfile>>
      BY <2>1 DEF Create, CreateUnsent
    <3>3. QED
      BY <3>1, <3>2
  <2>2. ASSUME NEW w \in Workers, NEW j \in Jobs, Skip(w, j) \/ PickUp(w, j) PROVE Served'
    BY <2>2 DEF Skip, PickUp
  <2>3. ASSUME NEW w \in Workers, MarkRunning(w) PROVE Served'
    BY <2>3 DEF MarkRunning
  <2>4. ASSUME NEW w \in Workers, Proceed(w) PROVE Served'
    BY <2>4 DEF Proceed
  <2>5. ASSUME NEW w \in Workers, Abort(w) PROVE Served'
    BY <2>5 DEF Abort, Unlink
  <2>6. ASSUME NEW w \in Workers, OpenArchive(w) PROVE Served'
    BY <2>6 DEF OpenArchive
  <2>7. ASSUME NEW w \in Workers, CloseArchive(w) PROVE Served'
    BY <2>7 DEF CloseArchive
  <2>8. ASSUME NEW w \in Workers, Finalize(w) PROVE Served'
    BY <2>8 DEF Finalize
  <2>9. ASSUME NEW w \in Workers, FinalCheck(w) PROVE Served'
    BY <2>9 DEF FinalCheck
  <2>10. ASSUME NEW w \in Workers, Complete(w) PROVE Served'
    BY <2>10 DEF Complete
  <2>11. ASSUME NEW w \in Workers, HandleCancel(w) PROVE Served'
    <3>1. status[k] = "completed" /\ UNCHANGED <<filePath, aged, op, rjob, rfile>>
      BY <2>11 DEF HandleCancel, CommitCancel
    <3>2. \A n \in Names : n # zip[w] => (n \in disk => n \in disk') /\ content'[n] = content[n]
      BY <2>11 DEF HandleCancel, DropArchive, Unlink
    <3>3. Intact(k, filePath[k]) => Intact(k, filePath[k])'
      BY <3>1, <3>2
    <3>4. QED
      BY <3>1, <3>3
  <2>12. ASSUME NEW w \in Workers, Fail(w) PROVE Served'
    <3>1. status[k] = "completed" /\ UNCHANGED filePath
      BY <2>12 DEF Fail, Cached
    <3>2. UNCHANGED <<disk, content, aged, op, rjob, rfile>>
      BY <2>12 DEF Fail
    <3>3. QED
      BY <3>1, <3>2
  <2>13. ASSUME NEW w \in Workers, LoseSession(w) PROVE Served'
    BY <2>13 DEF LoseSession
  <2>14. ASSUME NEW w \in Workers, CleanUp(w) PROVE Served'
    BY <2>14 DEF CleanUp, Unlink, Outdated
  <2>15. ASSUME NEW w \in Workers, Acknowledge(w) PROVE Served'
    BY <2>15 DEF Acknowledge
  <2>16. ASSUME NEW w \in Workers, LoseWorker(w) \/ Redeliver(w) PROVE Served'
    BY <2>16 DEF LoseWorker, Redeliver
  <2>17. ASSUME NEW r \in Requests, NEW j \in Jobs, CancelRead(r, j) \/ DeleteRead(r, j) PROVE Served'
    <3>1. op[r] = "idle" /\ UNCHANGED <<status, filePath, disk, content, aged>>
      BY <2>17 DEF CancelRead, DeleteRead, Request
    <3>2. \A q \in Requests \ {r} : op'[q] = op[q] /\ rjob'[q] = rjob[q] /\ rfile'[q] = rfile[q]
      BY <2>17 DEF CancelRead, DeleteRead, Request
    <3>3. BeingDeleted(k) => BeingDeleted(k)'
      BY <3>1, <3>2
    <3>4. QED
      BY <3>1, <3>3
  <2>18. ASSUME NEW r \in Requests, CancelWrite(r) PROVE Served'
    <3>1. status[k] = "completed" /\ op[r] = "cancel" /\ UNCHANGED <<filePath, disk, content, aged>>
      BY <2>18 DEF CancelWrite
    <3>2. \A q \in Requests \ {r} : op'[q] = op[q] /\ rjob'[q] = rjob[q] /\ rfile'[q] = rfile[q]
      BY <2>18 DEF CancelWrite, Reply
    <3>3. BeingDeleted(k) => BeingDeleted(k)'
      BY <3>1, <3>2
    <3>4. QED
      BY <3>1, <3>3
  <2>19. ASSUME NEW r \in Requests, DeleteFile(r) PROVE Served'
    BY <2>19 DEF DeleteFile, Unlink
  <2>20. ASSUME NEW r \in Requests, DeleteRow(r) PROVE Served'
    BY <2>20 DEF DeleteRow, Reply
  <2>21. ASSUME NEW n \in Names, Age(n) PROVE Served'
    BY <2>21 DEF Age
  <2>22. CASE UNCHANGED vars
    BY <2>22 DEF vars
  <2>23. QED
    BY <2>1, <2>2, <2>3, <2>4, <2>5, <2>6, <2>7, <2>8, <2>9, <2>10, <2>11, <2>12, <2>13, <2>14, <2>15, <2>16, <2>17, <2>18, <2>19, <2>20, <2>21, <2>22
       DEF Next, WorkerStep, RequestStep
<1>3. QED
  BY <1>1, <1>2, TypeCorrect, NameInvInvariant, PTL DEF Spec

-----------------------------------------------------------------------------
(* Where every archive is. *)

(* Nothing but a cancellation ends a job early: no row goes, none is about to. *)
RowsStay ==
    /\ \A j \in Jobs : status[j] # "absent"
    /\ \A r \in Requests : op[r] \in {"idle", "cancel"}

(* A job is run once: it has no row yet, or it waits, or one worker has it. *)
RunOnce ==
    /\ \A j \in Jobs : queue[j] <= 1
    /\ \A j \in Jobs : status[j] = "none" => queue[j] = 0
    /\ \A w \in Workers : pc[w] # "idle" => status[wjob[w]] # "none" /\ queue[wjob[w]] = 0
    /\ \A w, v \in Workers : pc[w] # "idle" /\ pc[v] # "idle" /\ wjob[w] = wjob[v] => w = v

(* A row names no archive before its task completes it, and a worker holds one  *)
(* only from opening it to handing it over.                                     *)
NamedLast ==
    /\ \A j \in Jobs : queue[j] > 0 \/ status[j] = "none" => filePath[j] = NoName
    /\ \A w \in Workers : pc[w] \in Working => filePath[wjob[w]] = NoName
    /\ \A w \in Workers : pc[w] \notin Working \/ pc[w] \in {"picked", "building"} => zip[w] = NoName

ArchiveInv == RowsStay /\ RunOnce /\ NamedLast

(* A worker's step takes no message and changes no other worker's task. *)
LEMMA SameTasks ==
    ASSUME RunOnce, queue' = queue, \A j \in Jobs : status'[j] = "none" => status[j] = "none",
           \A w \in Workers : pc'[w] # "idle" => pc[w] # "idle" /\ wjob'[w] = wjob[w] /\ wjob[w] \in Jobs
    PROVE  RunOnce'
BY DEF RunOnce

(* Unless it names an archive in a row, it only has to let go of its own in time. *)
LEMMA SameNames ==
    ASSUME NamedLast, queue' = queue, filePath' = filePath,
           \A j \in Jobs : status'[j] = "none" => status[j] = "none",
           \A w \in Workers : pc'[w] \in Working => pc[w] \in Working /\ wjob'[w] = wjob[w],
           \A w \in Workers : pc'[w] \notin Working \/ pc'[w] \in {"picked", "building"} => zip'[w] = NoName
    PROVE  NamedLast'
BY DEF NamedLast

(* When exports neither fail nor run twice and no row is deleted, every archive, *)
(* also one that two jobs wrote under the same name, is the file of a row or in  *)
(* the hands of a worker: a cancellation at any moment leaves none behind.       *)
THEOREM ArchivesAccounted ==
    ASSUME Events \cap {"delete", "job_error", "db_error", "worker_lost", "redelivery"} = {}
    PROVE  Spec => []EveryArchiveAccounted
<1>1. Init => ArchiveInv /\ EveryArchiveAccounted
  BY DEF Init, ArchiveInv, RowsStay, RunOnce, NamedLast, EveryArchiveAccounted, Working
<1>2. TypeOK /\ TypeOK' /\ ArchiveInv /\ EveryArchiveAccounted /\ [Next]_vars
        => ArchiveInv' /\ EveryArchiveAccounted'
  <2> SUFFICES ASSUME TypeOK, TypeOK', ArchiveInv, EveryArchiveAccounted, [Next]_vars
               PROVE  ArchiveInv' /\ EveryArchiveAccounted'
    OBVIOUS
  <2> USE ConstantsAssumption
      DEF rowVars, brokerVars, diskVars, workerVars, requestVars, TypeOK, Goto, Load, Working,
          Exists, Wanted, Flushed, Marked, ArchiveInv, RowsStay, RunOnce, NamedLast, EveryArchiveAccounted
  <2>1. ASSUME NEW j \in Jobs, Create(j) \/ CreateUnsent(j) PROVE ArchiveInv' /\ EveryArchiveAccounted'
    <3>1. CASE Create(j)
      <4>1. status[j] = "none" /\ queue[j] = 0 /\ \A w \in Workers : pc[w] # "idle" => wjob[w] # j
        BY <3>1 DEF Create
      <4>2. \A k \in Jobs : k # j => status'[k] = status[k] /\ queue'[k] = queue[k]
        BY <3>1 DEF Create
      <4>3. status'[j] = "pending" /\ queue'[j] = 1
        BY <3>1, <4>1 DEF Create
      <4>4. UNCHANGED <<filePath, disk, pc, wjob, zip, op>>
        BY <3>1 DEF Create
      <4>5. RunOnce'
        <5>1. \A k \in Jobs : queue'[k] <= 1 /\ (status'[k] = "none" => queue'[k] = 0)
          BY <4>2, <4>3
        <5>2. \A w \in Workers : pc[w] # "idle" => wjob[w] \in Jobs \ {j}
          BY <4>1
        <5>3. QED
          BY <4>2, <4>4, <5>1, <5>2
      <4>6. NamedLast'
        BY <4>1, <4>2, <4>3, <4>4
      <4>7. QED
        BY <4>2, <4>3, <4>4, <4>5, <4>6
    <3>2. CASE CreateUnsent(j)
      BY <3>2 DEF CreateUnsent
    <3>3. QED
      BY <2>1, <3>1, <3>2
  <2>2. ASSUME NEW w \in Workers, NEW j \in Jobs, Skip(w, j) PROVE ArchiveInv' /\ EveryArchiveAccounted'
    <3>1. queue'[j] = queue[j] - 1 /\ \A k \in Jobs : k # j => queue'[k] = queue[k]
      BY <2>2 DEF Skip
    <3>2. UNCHANGED <<status, filePath, disk, pc, wjob, zip, op>> /\ queue[j] > 0
      BY <2>2 DEF Skip
    <3>3. queue'[j] = 0 /\ queue[j] = 1
      BY <3>1, <3>2
    <3>4. RunOnce'
      <4>1. \A k \in Jobs : queue'[k] <= 1 /\ (status[k] = "none" => queue'[k] = 0)
        BY <3>1, <3>3
      <4>2. \A v \in Workers : pc[v] # "idle" => queue'[wjob[v]] = 0
        BY <3>1, <3>3
      <4>3. QED
        BY <3>2, <4>1, <4>2
    <3>5. NamedLast'
      BY <3>1, <3>2, <3>3
    <3>6. RowsStay' /\ EveryArchiveAccounted'
      BY <3>2
    <3>7. QED
      BY <3>4, <3>5, <3>6
  <2>3. ASSUME NEW w \in Workers, NEW j \in Jobs, PickUp(w, j) PROVE ArchiveInv' /\ EveryArchiveAccounted'
    <3>1. RowsStay'
      BY <2>3 DEF PickUp
    <3>2. RunOnce'
      BY <2>3 DEF PickUp
    <3>3. NamedLast'
      BY <2>3 DEF PickUp
    <3>4. EveryArchiveAccounted'
      BY <2>3 DEF PickUp
    <3>5. QED
      BY <3>1, <3>2, <3>3, <3>4
  <2>4. ASSUME NEW w \in Workers, MarkRunning(w) PROVE ArchiveInv' /\ EveryArchiveAccounted'
    <3>1. RowsStay'
      BY <2>4 DEF MarkRunning
    <3>2. RunOnce'
      BY <2>4 DEF MarkRunning
    <3>3. NamedLast'
      BY <2>4, SameNames DEF MarkRunning
    <3>4. EveryArchiveAccounted'
      BY <2>4 DEF MarkRunning
    <3>5. QED
      BY <3>1, <3>2, <3>3, <3>4
  <2>5. ASSUME NEW w \in Workers, Proceed(w) PROVE ArchiveInv' /\ EveryArchiveAccounted'
    BY <2>5 DEF Proceed
  <2>6. ASSUME NEW w \in Workers, Abort(w) PROVE ArchiveInv' /\ EveryArchiveAccounted'
    BY <2>6 DEF Abort, Unlink
  <2>7. ASSUME NEW w \in Workers, OpenArchive(w) PROVE ArchiveInv' /\ EveryArchiveAccounted'
    BY <2>7 DEF OpenArchive
  <2>8. ASSUME NEW w \in Workers, CloseArchive(w) PROVE ArchiveInv' /\ EveryArchiveAccounted'
    BY <2>8 DEF CloseArchive
  <2>9. ASSUME NEW w \in Workers, Finalize(w) PROVE ArchiveInv' /\ EveryArchiveAccounted'
    <3>1. RowsStay'
      BY <2>9 DEF Finalize
    <3>2. RunOnce'
      BY <2>9, SameTasks DEF Finalize
    <3>3. NamedLast'
      BY <2>9, SameNames DEF Finalize
    <3>4. EveryArchiveAccounted'
      BY <2>9 DEF Finalize
    <3>5. QED
      BY <3>1, <3>2, <3>3, <3>4
  <2>10. ASSUME NEW w \in Workers, FinalCheck(w) PROVE ArchiveInv' /\ EveryArchiveAccounted'
    <3>1. RowsStay'
      BY <2>10 DEF FinalCheck
    <3>2. RunOnce'
      BY <2>10, SameTasks DEF FinalCheck
    <3>3. NamedLast'
      BY <2>10, SameNames DEF FinalCheck
    <3>4. EveryArchiveAccounted'
      BY <2>10 DEF FinalCheck
    <3>5. QED
      BY <3>1, <3>2, <3>3, <3>4
  <2>11. ASSUME NEW w \in Workers, Complete(w) PROVE ArchiveInv' /\ EveryArchiveAccounted'
    <3>1. RowsStay'
      BY <2>11 DEF Complete
    <3>2. RunOnce'
      BY <2>11 DEF Complete
    <3>3. NamedLast'
      BY <2>11 DEF Complete
    <3>4. EveryArchiveAccounted'
      <4>1. UNCHANGED disk /\ wjob[w] \in Jobs /\ filePath[wjob[w]] = NoName
        BY <2>11 DEF Complete
      <4>2. filePath' = [filePath EXCEPT ![wjob[w]] = zip[w]]
        BY <2>11 DEF Complete
      <4>3. \A v \in Workers : v # w => zip'[v] = zip[v]
        BY <2>11 DEF Complete
      <4>4. \A n \in disk : zip[w] = n => filePath'[wjob[w]] = n
        BY <4>1, <4>2
      <4>5. \A n \in disk, j \in Jobs : filePath[j] = n => filePath'[j] = n
        BY <4>1, <4>2
      <4>6. ASSUME NEW n \in disk PROVE (\E j \in Jobs : filePath'[j] = n) \/ \E v \in Workers : zip'[v] = n
        <5>1. CASE \E j \in Jobs : filePath[j] = n
          BY <4>5, <5>1
        <5>2. CASE \E v \in Workers : zip[v] = n
          BY <4>1, <4>3, <4>4, <5>2
        <5>3. QED
          BY <5>1, <5>2
      <4>7. QED
        BY <4>1, <4>6
    <3>5. QED
      BY <3>1, <3>2, <3>3, <3>4
  <2>12. ASSUME NEW w \in Workers, HandleCancel(w) PROVE ArchiveInv' /\ EveryArchiveAccounted'
    BY <2>12 DEF HandleCancel, DropArchive, CommitCancel, Unlink
  <2>13. ASSUME NEW w \in Workers, Fail(w) PROVE ArchiveInv' /\ EveryArchiveAccounted'
    <3>1. RowsStay'
      BY <2>13 DEF Fail, Cached
    <3>2. RunOnce'
      BY <2>13 DEF Fail, Cached
    <3>3. NamedLast'
      BY <2>13 DEF Fail, Cached
    <3>4. EveryArchiveAccounted'
      <4>1. UNCHANGED <<disk, filePath>> /\ zip[w] \notin disk
        BY <2>13 DEF Fail
      <4>2. \A v \in Workers : v # w => zip'[v] = zip[v]
        BY <2>13 DEF Fail
      <4>3. QED
        BY <4>1, <4>2
    <3>5. QED
      BY <3>1, <3>2, <3>3, <3>4
  <2>14. ASSUME NEW w \in Workers, CleanUp(w) \/ Acknowledge(w) PROVE ArchiveInv' /\ EveryArchiveAccounted'
    <3>1. CASE CleanUp(w)
      BY <3>1 DEF CleanUp, Unlink, Outdated
    <3>2. CASE Acknowledge(w)
      BY <3>2, SameTasks DEF Acknowledge
    <3>3. QED
      BY <2>14, <3>1, <3>2
  <2>15. ~\E w \in Workers : LoseSession(w) \/ LoseWorker(w) \/ Redeliver(w)
    BY DEF LoseSession, LoseWorker, Redeliver
  <2>16. ASSUME NEW r \in Requests, NEW j \in Jobs, CancelRead(r, j) \/ DeleteRead(r, j)
         PROVE  ArchiveInv' /\ EveryArchiveAccounted'
    <3>1. RowsStay'
      BY <2>16 DEF CancelRead, DeleteRead, Request
    <3>2. RunOnce'
      BY <2>16 DEF CancelRead, DeleteRead, Request
    <3>3. NamedLast'
      BY <2>16 DEF CancelRead, DeleteRead, Request
    <3>4. EveryArchiveAccounted'
      BY <2>16 DEF CancelRead, DeleteRead, Request
    <3>5. QED
      BY <3>1, <3>2, <3>3, <3>4
  <2>17. ASSUME NEW r \in Requests, RequestStep(r) PROVE ArchiveInv' /\ EveryArchiveAccounted'
    <3>1. RowsStay'
      BY <2>17 DEF RequestStep, CancelWrite, DeleteFile, DeleteRow, Reply
    <3>2. RunOnce'
      BY <2>17 DEF RequestStep, CancelWrite, DeleteFile, DeleteRow, Reply
    <3>3. NamedLast'
      BY <2>17 DEF RequestStep, CancelWrite, DeleteFile, DeleteRow, Reply
    <3>4. EveryArchiveAccounted'
      BY <2>17 DEF RequestStep, CancelWrite, DeleteFile, DeleteRow, Reply
    <3>5. QED
      BY <3>1, <3>2, <3>3, <3>4
  <2>18. ASSUME NEW n \in Names, Age(n) PROVE ArchiveInv' /\ EveryArchiveAccounted'
    BY <2>18 DEF Age
  <2>19. CASE UNCHANGED vars
    BY <2>19 DEF vars
  <2>20. QED
    BY <2>1, <2>2, <2>3, <2>4, <2>5, <2>6, <2>7, <2>8, <2>9, <2>10, <2>11, <2>12, <2>13, <2>14,
       <2>15, <2>16, <2>17, <2>18, <2>19 DEF Next, WorkerStep
<1>3. QED
  BY <1>1, <1>2, TypeCorrect, PTL DEF Spec

===============================================================================
