--------------------------- MODULE ExportJobContract ---------------------------
(***************************************************************************)
(* ExportJob implements JobService: a proof by step simulation, for any     *)
(* number of jobs, workers, requests, names and redeliveries.               *)
(***************************************************************************)
EXTENDS ExportJobProofs

USE DEF Names, NoName, Live, Expired, Steps, Ops, Statuses

Heard  == {wjob[w] : w \in overtaken}
Parting == {rjob[r] : r \in {q \in Requests : op[q] = "deleteRow"}}

(* A worker that is not in the middle of its task has no copy of a row, and none *)
(* of those whom a cancellation has overtaken is among them.                     *)
Quiet ==
    \A w \in Workers : pc[w] \in {"idle", "ending", "acking", "cancelling"} =>
        seen[w] = Expired /\ w \notin overtaken

(* The session of a task is expired at its end, so a cancellation committed then *)
(* overtakes nobody.                                                             *)
LEMMA QuietInvariant == Spec => []Quiet
<1>1. Init => Quiet
  BY DEF Init, Quiet
<1>2. TypeOK /\ TypeOK' /\ Quiet /\ [Next]_vars => Quiet'
  <2> SUFFICES ASSUME TypeOK, TypeOK', Quiet, [Next]_vars PROVE Quiet'
    OBVIOUS
  <2> USE DEF TypeOK, Quiet, Goto, Load, rowVars, brokerVars, diskVars, workerVars, requestVars
  <2>1. ASSUME NEW j \in Jobs, Create(j) \/ CreateUnsent(j) PROVE Quiet'
    BY <2>1 DEF Create, CreateUnsent
  <2>2. ASSUME NEW w \in Workers, NEW j \in Jobs, Skip(w, j) \/ PickUp(w, j) PROVE Quiet'
    BY <2>2 DEF Skip, PickUp
  <2>3. ASSUME NEW w \in Workers, MarkRunning(w) PROVE Quiet'
    BY <2>3 DEF MarkRunning
  <2>4. ASSUME NEW w \in Workers, Proceed(w) \/ Abort(w) PROVE Quiet'
    BY <2>4 DEF Proceed, Abort
  <2>5. ASSUME NEW w \in Workers, OpenArchive(w) \/ CloseArchive(w) PROVE Quiet'
    BY <2>5 DEF OpenArchive, CloseArchive
  <2>6. ASSUME NEW w \in Workers, Finalize(w) PROVE Quiet'
    BY <2>6 DEF Finalize
  <2>7. ASSUME NEW w \in Workers, FinalCheck(w) PROVE Quiet'
    BY <2>7 DEF FinalCheck
  <2>8. ASSUME NEW w \in Workers, Complete(w) PROVE Quiet'
    BY <2>8 DEF Complete
  <2>9. ASSUME NEW w \in Workers, HandleCancel(w) PROVE Quiet'
    BY <2>9 DEF HandleCancel, CommitCancel
  <2>10. ASSUME NEW w \in Workers, Fail(w) \/ LoseSession(w) PROVE Quiet'
    BY <2>10 DEF Fail, LoseSession
  <2>11. ASSUME NEW w \in Workers, CleanUp(w) \/ Acknowledge(w) PROVE Quiet'
    BY <2>11 DEF CleanUp, Acknowledge
  <2>12. ASSUME NEW w \in Workers, LoseWorker(w) \/ Redeliver(w) PROVE Quiet'
    BY <2>12 DEF LoseWorker, Redeliver
  <2>13. ASSUME NEW r \in Requests, NEW j \in Jobs, CancelRead(r, j) \/ DeleteRead(r, j) PROVE Quiet'
    BY <2>13 DEF CancelRead, DeleteRead, Request
  <2>14. ASSUME NEW r \in Requests, RequestStep(r) PROVE Quiet'
    BY <2>14 DEF RequestStep, CancelWrite, DeleteFile, DeleteRow
  <2>15. ASSUME NEW n \in Names, Age(n) PROVE Quiet'
    BY <2>15 DEF Age
  <2>16. CASE UNCHANGED vars
    BY <2>16 DEF vars
  <2>17. QED
    BY <2>1, <2>2, <2>3, <2>4, <2>5, <2>6, <2>7, <2>8, <2>9, <2>10, <2>11, <2>12, <2>13, <2>14,
       <2>15, <2>16 DEF Next, WorkerStep
<1>3. QED
  BY <1>1, <1>2, TypeCorrect, PTL DEF Spec

-----------------------------------------------------------------------------
(* What a step of ExportJob has to do to be one of JobService. *)

(* A download finds the same as long as the row and its file stay what they are. *)
LEMMA SameDownload ==
    ASSUME NEW k \in Jobs, status'[k] = status[k],
           status[k] = "completed" =>
               /\ filePath'[k] = filePath[k]
               /\ filePath[k] \in disk' <=> filePath[k] \in disk
               /\ filePath[k] \in disk => content'[filePath[k]] = content[filePath[k]]
               /\ filePath[k] \in aged' <=> filePath[k] \in aged
    PROVE  Download(k)' = Download(k)
<1>1. CASE status[k] # "completed"
  BY <1>1 DEF Download
<1>2. CASE status[k] = "completed"
  <2>1. Intact(k, filePath[k])' = Intact(k, filePath[k])
    BY <1>2 DEF Intact
  <2>2. QED
    BY <1>2, <2>1 DEF Download
<1>3. QED
  BY <1>1, <1>2

(* A step that changes nothing the user sees. *)
LEMMA UnseenStep ==
    ASSUME UNCHANGED status, \A k \in Jobs : Download(k)' = Download(k),
           Heard' \subseteq Heard, Parting' = Parting
    PROVE  Service!Next
<1> DEFINE A == [j \in Jobs |-> Download(j)]
<1>1. A' = [j \in Jobs |-> IF j \notin {} THEN A[j]
                           ELSE IF A[j] = "ready" THEN "old"
                           ELSE IF A[j] = "old" THEN "gone" ELSE A[j]]
  OBVIOUS
<1>2. \E due \in SUBSET Jobs :
          A' = [j \in Jobs |-> IF j \notin due THEN A[j]
                               ELSE IF A[j] = "ready" THEN "old"
                               ELSE IF A[j] = "old" THEN "gone" ELSE A[j]]
  <2>1. {} \in SUBSET Jobs
    OBVIOUS
  <2> HIDE DEF A
  <2>2. QED
    BY <1>1, <2>1
<1>3. Service!Learn /\ UNCHANGED <<status, Parting>>
  BY DEF Service!Learn, Heard
<1>4. Service!Retain
  BY <1>2, <1>3 DEF Service!Retain, Parting
<1>5. QED
  BY <1>4 DEF Service!Next

(* A step that changes what the user sees of one job. *)
LEMMA JobBecomes ==
    ASSUME NEW j \in Jobs, NEW new, NEW found,
           status' = [status EXCEPT ![j] = new],
           Download(j)' = found,
           \A k \in Jobs \ {j} : Download(k)' = Download(k)
    PROVE  Service!Becomes(j, new, found)
<1> DEFINE A == [k \in Jobs |-> Download(k)]
<1>1. A' = [A EXCEPT ![j] = found]
  OBVIOUS
<1>2. QED
  BY <1>1 DEF Service!Becomes

(* Only a row that was flushed from a copy older than its cancellation is open. *)
LEMMA RowIsOpen ==
    ASSUME TypeOK, CopyInv, NEW w \in Workers, pc[w] # "idle", Exists(wjob[w]),
           Cached(w) # "cancelled"
    PROVE  Service!Open(wjob[w])
  BY DEF TypeOK, CopyInv, Exists, Cached, Service!Open, Service!Rows

(* Who is in the set of jobs being deleted, and when a step leaves that set alone. *)
LEMMA PartingMembers ==
    /\ \A k : k \in Parting <=> \E q \in Requests : op[q] = "deleteRow" /\ rjob[q] = k
    /\ \A k : k \in Parting' <=> \E q \in Requests : op'[q] = "deleteRow" /\ rjob'[q] = k
  BY DEF Parting

LEMMA SameParting ==
    ASSUME NEW r \in Requests, op[r] # "deleteRow", op'[r] # "deleteRow",
           \A q \in Requests \ {r} : op'[q] = op[q] /\ rjob'[q] = rjob[q]
    PROVE  Parting' = Parting
<1>1. \A k : k \in Parting' <=> k \in Parting
  BY PartingMembers
<1>2. QED
  BY <1>1

(* A copy that is dropped or loaded again only makes a task hear more. *)
LEMMA HeardMore ==
    ASSUME overtaken' \subseteq overtaken, \A w \in overtaken' : wjob'[w] = wjob[w]
    PROVE  Heard' \subseteq Heard
  BY DEF Heard

-----------------------------------------------------------------------------
(* The simulation. *)

ContractInv == TypeOK /\ CopyInv /\ Quiet /\ NameInv

(* The steps of workers that write no status. *)
LEMMA SilentWorkerStep ==
    ASSUME "same_second" \notin Events, ContractInv, TypeOK', NEW w \in Workers,
           \/ Proceed(w) \/ Abort(w) \/ OpenArchive(w) \/ CloseArchive(w) \/ Finalize(w)
           \/ FinalCheck(w) \/ LoseSession(w) \/ Acknowledge(w) \/ LoseWorker(w)
           \/ Redeliver(w)
    PROVE  Service!Next
<1> USE DEF ContractInv, TypeOK, Goto, Load, rowVars, brokerVars, diskVars, workerVars, requestVars
<1>1. UNCHANGED <<status, filePath, aged, op, rjob>>
  BY DEF Proceed, Abort, OpenArchive, CloseArchive, Finalize, FinalCheck, LoseSession,
         Acknowledge, LoseWorker, Redeliver
<1>2. Parting' = Parting
  BY <1>1 DEF Parting
<1>3. Heard' \subseteq Heard
  <2>1. overtaken' \subseteq overtaken
    BY DEF Proceed, Abort, OpenArchive, CloseArchive, Finalize, FinalCheck, LoseSession,
           Acknowledge, LoseWorker, Redeliver
  <2>2. ASSUME NEW v \in overtaken' PROVE wjob'[v] = wjob[v]
    <3>1. CASE Acknowledge(w)
      BY <2>1, <3>1 DEF Acknowledge, Quiet
    <3>2. CASE LoseWorker(w)
      BY <2>1, <3>2 DEF LoseWorker
    <3>3. CASE ~Acknowledge(w) /\ ~LoseWorker(w)
      BY <3>3 DEF Proceed, Abort, OpenArchive, CloseArchive, Finalize, FinalCheck, LoseSession,
                  Redeliver
    <3>4. QED
      BY <3>1, <3>2, <3>3
  <2>3. QED
    BY <2>1, <2>2, HeardMore
<1>4. \A k \in Jobs : Download(k)' = Download(k)
  <2> USE ConstantsAssumption DEF NameInv, NamesUsed, HeldApart, OneOwner, Sealed
  <2>1. CASE Abort(w)
    <3>1. /\ \A n \in Names \ {zip[w]} : (n \in disk' <=> n \in disk) /\ content'[n] = content[n]
          /\ disk' \subseteq Names
      BY <2>1 DEF Abort, Unlink
    <3>2. ASSUME NEW k \in Jobs PROVE Download(k)' = Download(k)
      <4>1. filePath[k] \in disk => filePath[k] \in Names \ {zip[w]}
        OBVIOUS
      <4>2. QED
        BY <1>1, <3>1, <4>1, SameDownload
    <3>3. QED
      BY <3>2
  <2>2. CASE OpenArchive(w)
    <3>1. clock + 1 \in Names /\ disk' = disk \cup {clock + 1}
          /\ content' = [content EXCEPT ![clock + 1] = {}]
      BY <2>2 DEF OpenArchive
    <3>2. ASSUME NEW k \in Jobs PROVE Download(k)' = Download(k)
      <4>0. filePath[k] \in Nat /\ filePath[k] <= clock /\ clock \in Nat
        OBVIOUS
      <4>1. filePath[k] # clock + 1
        <5> HIDE DEF ContractInv, TypeOK, NameInv, NamesUsed, HeldApart, OneOwner, Sealed
        <5>1. QED
          BY <4>0
      <4>2. QED
        BY <1>1, <3>1, <4>1, SameDownload
    <3>3. QED
      BY <3>2
  <2>3. CASE CloseArchive(w)
    <3>1. UNCHANGED disk /\ zip[w] \in disk
          /\ content' = [content EXCEPT ![zip[w]] = @ \cup {wjob[w]}]
      BY <2>3 DEF CloseArchive
    <3>2. ASSUME NEW k \in Jobs PROVE Download(k)' = Download(k)
      <4>1. filePath[k] # zip[w]
        BY <3>1
      <4>2. QED
        BY <1>1, <3>1, <4>1, SameDownload
    <3>3. QED
      BY <3>2
  <2>4. CASE ~(Abort(w) \/ OpenArchive(w) \/ CloseArchive(w))
    <3>1. UNCHANGED <<disk, content>>
      BY <2>4 DEF Proceed, Finalize, FinalCheck, LoseSession, Acknowledge, LoseWorker, Redeliver
    <3>2. QED
      BY <1>1, <3>1, SameDownload
  <2>5. QED
    BY <2>1, <2>2, <2>3, <2>4
<1>5. QED
  BY <1>1, <1>2, <1>3, <1>4, UnseenStep

(* mark_running, mark_completed and mark_failed. *)
LEMMA MarkingStep ==
    ASSUME ContractInv, TypeOK', NEW w \in Workers,
           MarkRunning(w) \/ Complete(w) \/ Fail(w)
    PROVE  Service!Next
<1> USE DEF ContractInv, TypeOK, Goto, Load, rowVars, brokerVars, diskVars, workerVars, requestVars
<1>1. PICK j \in Jobs : j = wjob[w] /\ pc[w] \notin {"idle", "ending", "acking", "cancelling"}
  BY DEF MarkRunning, Complete, Fail
<1>2. UNCHANGED <<disk, content, aged, op, rjob, wjob>> /\ overtaken' = overtaken \ {w}
  BY DEF MarkRunning, Complete, Fail
<1>3. Parting' = Parting /\ Heard' \subseteq Heard
  BY <1>1, <1>2, HeardMore DEF Parting
<1>4. \A k \in Jobs \ {j} : status'[k] = status[k] /\ filePath'[k] = filePath[k]
  BY <1>1 DEF MarkRunning, Complete, Fail
<1>5. \A k \in Jobs \ {j} : Download(k)' = Download(k)
  BY <1>1, <1>2, <1>4, SameDownload
<1>6. CASE UNCHANGED status /\ (status[j] = "completed" => filePath'[j] = filePath[j])
  <2>1. Download(j)' = Download(j)
    BY <1>1, <1>2, <1>6, SameDownload
  <2>2. QED
    BY <1>1, <1>3, <1>5, <1>6, <2>1, UnseenStep
<1>7. CASE MarkRunning(w) /\ status' # status
  <2>1. Exists(j) /\ seen[w] \notin {Expired, "cancelled"}
    BY <1>1, <1>7 DEF MarkRunning, CopyInv
  <2>2. status' = [status EXCEPT ![j] = "running"]
    BY <1>1, <1>7 DEF MarkRunning, Flushed
  <2>3. Download(j)' = "none"
    BY <1>1, <2>2 DEF Download
  <2>4. Service!Open(j)
    BY <1>1, <2>1, RowIsOpen DEF Cached
  <2>5. Service!Becomes(j, "running", "none")
    BY <1>1, <1>5, <2>2, <2>3, JobBecomes
  <2>6. Service!Run(j)
    BY <1>1, <1>3, <2>4, <2>5 DEF Service!Run, Service!Learn, Heard, Parting
  <2>7. QED
    BY <1>1, <2>6 DEF Service!Next
<1>8. CASE Fail(w) /\ status' # status
  <2>1. Exists(j) /\ Cached(w) # "cancelled"
    BY <1>1, <1>8 DEF Fail, Flushed, Marked
  <2>2. status' = [status EXCEPT ![j] = "failed"]
    BY <1>1, <1>8, <2>1 DEF Fail, Flushed, Marked
  <2>3. Download(j)' = "none"
    BY <1>1, <2>2 DEF Download
  <2>4. Service!Open(j)
    BY <1>1, <2>1, RowIsOpen
  <2>5. Service!Becomes(j, "failed", "none")
    BY <1>1, <1>5, <2>2, <2>3, JobBecomes
  <2>6. Service!Break(j)
    BY <1>1, <1>3, <2>4, <2>5 DEF Service!Break, Service!Learn, Heard, Parting
  <2>7. QED
    BY <1>1, <2>6 DEF Service!Next
<1>9. CASE Complete(w) /\ status'[j] = "completed"
  <2>1. Exists(j) /\ filePath' = [filePath EXCEPT ![j] = zip[w]]
    <3>1. Exists(j)
      BY <1>1, <1>9 DEF Complete, Exists
    <3>2. QED
      BY <1>1, <1>9, <3>1 DEF Complete
  <2>2. status' = [status EXCEPT ![j] = "completed"]
    BY <1>1, <1>9, <2>1 DEF Complete
  <2>3. Download(j)' = "ready"
    <3>1. zip[w] \in disk /\ content[zip[w]] = {j} /\ zip[w] \notin aged
      BY <1>1, <1>9 DEF Complete, NameInv, Sealed
    <3>2. filePath'[j] = zip[w] /\ status'[j] = "completed"
      BY <1>1, <1>9, <2>1
    <3>3. QED
      BY <1>1, <1>2, <3>1, <3>2 DEF Download, Intact
  <2>4. Service!Open(j)
    <3>1. CASE status[j] = "completed"
      BY <1>1, <3>1 DEF Service!Open, Service!Rows
    <3>2. CASE status[j] # "completed"
      <4>1. Cached(w) # "cancelled"
        BY <1>1, <1>9, <2>1, <3>2 DEF Complete, Flushed, Marked, Cached, CopyInv
      <4>2. QED
        BY <1>1, <2>1, <4>1, RowIsOpen
    <3>3. QED
      BY <1>1, <3>1, <3>2
  <2>5. Service!Becomes(j, "completed", "ready")
    BY <1>1, <1>5, <2>2, <2>3, JobBecomes
  <2>6. Service!Finish(j)
    BY <1>1, <1>3, <2>4, <2>5 DEF Service!Finish, Service!Learn, Heard, Parting
  <2>7. QED
    BY <1>1, <2>6 DEF Service!Next
<1>10. CASE Complete(w) /\ status'[j] # "completed"
  <2>1. UNCHANGED status
    BY <1>1, <1>10 DEF Complete, Flushed, Marked
  <2>2. Download(j)' = Download(j)
    BY <1>1, <1>10, <2>1 DEF Download
  <2>3. QED
    BY <1>1, <1>3, <1>5, <2>1, <2>2, UnseenStep
<1>11. CASE UNCHANGED status /\ ~Complete(w)
  BY <1>1, <1>6, <1>11 DEF MarkRunning, Fail
<1>12. QED
  BY <1>7, <1>8, <1>9, <1>10, <1>11

(* A cancellation is recorded, by a request or by the task that obeys it. *)
LEMMA CancelStep ==
    ASSUME ContractInv, TypeOK', NEW j \in Jobs, NEW names,
           Exists(j),
           status' = [status EXCEPT ![j] = "cancelled"],
           overtaken' \subseteq overtaken \cup {w \in Workers : wjob[w] = j},
           UNCHANGED <<filePath, aged, wjob>>, Parting' = Parting,
           \A k \in Jobs : filePath[k] \notin names,
           \A n \in Names \ names : (n \in disk' <=> n \in disk) /\ content'[n] = content[n]
    PROVE  Service!Next
<1> USE DEF ContractInv, TypeOK
<1>1. ASSUME NEW k \in Jobs \ {j} PROVE Download(k)' = Download(k)
  <2>1. filePath[k] \in disk \cup disk' => filePath[k] \in Names \ names
    OBVIOUS
  <2>2. QED
    BY <2>1, SameDownload
<1>2. Download(j)' = "none"
  BY DEF Download
<1>3. Service!Becomes(j, "cancelled", "none")
  BY <1>1, <1>2, JobBecomes
<1>4. Heard' \subseteq Heard \cup {j}
  BY DEF Heard
<1>5. Service!Cancel(j)
  BY <1>3, <1>4 DEF Service!Cancel, Service!Rows, Exists, Heard, Parting
<1>6. QED
  BY <1>5 DEF Service!Next

LEMMA HandleCancelStep ==
    ASSUME ContractInv, TypeOK', NEW w \in Workers, HandleCancel(w)
    PROVE  Service!Next
<1> USE DEF rowVars, brokerVars, diskVars, workerVars, requestVars
<1>1. PICK j \in Jobs : j = wjob[w]
  BY DEF HandleCancel, ContractInv, TypeOK
<1>2. UNCHANGED <<filePath, aged, wjob, op, rjob>>
  BY DEF HandleCancel
<1>3. Parting' = Parting
  BY <1>2 DEF Parting
<1>a. PICK names : names = {zip[w]} \ {NoName}
  OBVIOUS
<1>4. \A k \in Jobs : filePath[k] \notin names
  BY <1>a DEF ContractInv, TypeOK, NameInv, HeldApart
<1>5. \A n \in Names \ names :
          (n \in disk' <=> n \in disk) /\ content'[n] = content[n]
  BY <1>a, ConstantsAssumption DEF HandleCancel, DropArchive, Unlink
<1>6. CASE Wanted(j)
  <2>1. status' = [status EXCEPT ![j] = "cancelled"]
        /\ overtaken' \subseteq overtaken \cup {v \in Workers : wjob[v] = j}
    BY <1>1, <1>6 DEF HandleCancel, CommitCancel
  <2>2. Exists(j)
    BY <1>6 DEF Wanted, Exists
  <2>3. QED
    BY <1>2, <1>3, <1>4, <1>5, <2>1, <2>2, CancelStep
<1>7. CASE ~Wanted(j)
  <2>1. UNCHANGED <<status, overtaken>>
    BY <1>1, <1>7 DEF HandleCancel
  <2>2. ASSUME NEW k \in Jobs PROVE Download(k)' = Download(k)
    <3>1. filePath[k] \in disk \cup disk' => filePath[k] \in Names \ names
      BY <1>4 DEF ContractInv, TypeOK
    <3>2. QED
      BY <1>2, <1>5, <2>1, <3>1, SameDownload
  <2>3. Heard' = Heard
    BY <1>2, <2>1 DEF Heard
  <2>4. QED
    BY <1>3, <2>1, <2>2, <2>3, UnseenStep
<1>8. QED
  BY <1>6, <1>7

(* Retention: time passes, or a task removes what is old. *)
LEMMA RetentionStep ==
    ASSUME ContractInv, TypeOK',
           UNCHANGED <<status, filePath, op, rjob, wjob, overtaken>>,
           \/ \E n \in Names : Age(n)
           \/ \E w \in Workers : CleanUp(w)
    PROVE  Service!Next
<1> USE DEF ContractInv, TypeOK
<1> DEFINE A == [k \in Jobs |-> Download(k)]
           Due == {k \in Jobs : Download(k)' # Download(k)}
<1>1. ASSUME NEW k \in Jobs, Download(k)' # Download(k)
      PROVE  \/ Download(k) = "ready" /\ Download(k)' = "old"
             \/ Download(k) = "old" /\ Download(k)' = "gone"
  <2>1. CASE \E n \in Names : Age(n)
    <3>1. PICK n \in Names : Age(n)
      BY <2>1
    <3>2. UNCHANGED <<disk, content>> /\ aged' = aged \cup {n}
      BY <3>1 DEF Age
    <3>3. Intact(k, filePath[k])' = Intact(k, filePath[k])
      BY <3>2 DEF Intact
    <3>4. QED
      BY <1>1, <3>2, <3>3 DEF Download
  <2>2. CASE \E w \in Workers : CleanUp(w)
    <3>1. disk' = disk \ (disk \cap aged) /\ UNCHANGED aged
          /\ content' = [n \in Names |-> IF n \in disk \cap aged THEN {} ELSE content[n]]
      BY <2>2 DEF CleanUp, Unlink, Outdated
    <3>2. CASE filePath[k] \in aged
      <4>1. ~Intact(k, filePath[k])'
        BY <3>1, <3>2 DEF Intact
      <4>2. QED
        BY <1>1, <3>1, <3>2, <4>1 DEF Download
    <3>3. CASE filePath[k] \notin aged
      <4>1. Download(k)' = Download(k)
        BY <3>1, <3>3, SameDownload
      <4>2. QED
        BY <1>1, <4>1
    <3>4. QED
      BY <3>2, <3>3
  <2>3. QED
    BY <2>1, <2>2
<1>2. A' = [k \in Jobs |-> IF k \notin Due THEN A[k]
                           ELSE IF A[k] = "ready" THEN "old"
                           ELSE IF A[k] = "old" THEN "gone" ELSE A[k]]
  BY <1>1
<1>3. \E due \in SUBSET Jobs :
          A' = [k \in Jobs |-> IF k \notin due THEN A[k]
                               ELSE IF A[k] = "ready" THEN "old"
                               ELSE IF A[k] = "old" THEN "gone" ELSE A[k]]
  <2>1. Due \in SUBSET Jobs
    OBVIOUS
  <2> HIDE DEF A, Due
  <2>2. QED
    BY <1>2, <2>1
<1>4. Service!Learn /\ UNCHANGED <<status, Parting>>
  BY DEF Service!Learn, Parting
<1>5. Service!Retain
  BY <1>3, <1>4 DEF Service!Retain, Parting
<1>6. QED
  BY <1>5 DEF Service!Next

(* The requests: a cancellation, and the two steps of a deletion. *)
LEMMA RequestContract ==
    ASSUME ContractInv, TypeOK', NEW r \in Requests, RequestStep(r)
    PROVE  Service!Next
<1> USE DEF ContractInv, TypeOK, rowVars, brokerVars, diskVars, workerVars, requestVars
<1>1. CASE CancelWrite(r)
  <2>1. PICK j \in Jobs : j = rjob[r]
    BY <1>1 DEF CancelWrite
  <2>2. UNCHANGED <<filePath, disk, content, aged, wjob>>
    BY <1>1 DEF CancelWrite
  <2>3. Parting' = Parting
    <3>1. op[r] = "cancel" /\ op'[r] = "idle"
      BY <1>1 DEF CancelWrite, Reply
    <3>2. \A q \in Requests \ {r} : op'[q] = op[q] /\ rjob'[q] = rjob[q]
      BY <1>1 DEF CancelWrite, Reply
    <3>3. QED
      BY <3>1, <3>2, SameParting
  <2>4. CASE Exists(j)
    <3>1. status' = [status EXCEPT ![j] = "cancelled"]
          /\ overtaken' \subseteq overtaken \cup {w \in Workers : wjob[w] = j}
      BY <1>1, <2>1, <2>4 DEF CancelWrite
    <3>2. PICK names : names = {}
      OBVIOUS
    <3>3. \A k \in Jobs : filePath[k] \notin names
      BY <3>2
    <3>4. QED
      BY <2>2, <2>3, <2>4, <3>1, <3>3, CancelStep
  <2>5. CASE ~Exists(j)
    <3>1. UNCHANGED <<status, overtaken>>
      BY <1>1, <2>1, <2>5 DEF CancelWrite
    <3>2. \A k \in Jobs : Download(k)' = Download(k)
      BY <2>2, <3>1, SameDownload
    <3>3. Heard' = Heard
      BY <2>2, <3>1 DEF Heard
    <3>4. QED
      BY <2>3, <3>1, <3>2, <3>3, UnseenStep
  <2>6. QED
    BY <2>4, <2>5
<1>2. CASE DeleteFile(r)
  <2>1. PICK j \in Jobs : j = rjob[r]
    BY <1>2 DEF DeleteFile
  <2>2. UNCHANGED <<status, filePath, aged, wjob, overtaken, rjob>>
    BY <1>2 DEF DeleteFile
  <2>3. Parting' = Parting \cup {j}
    <3>1. op' = [op EXCEPT ![r] = "deleteRow"]
      BY <1>2 DEF DeleteFile
    <3>2. QED
      BY <2>1, <2>2, <3>1 DEF Parting
  <2>4. ASSUME NEW k \in Jobs \ {j} PROVE Download(k)' = Download(k)
    <3>1. filePath[k] \in disk => filePath[k] # rfile[r]
      BY <2>1, ConstantsAssumption DEF NameInv, OneOwner
    <3>2. QED
      BY <1>2, <2>2, <3>1, SameDownload DEF DeleteFile, Unlink
  <2>5. Download(j)' = Download(j) \/ (Download(j) # "none" /\ Download(j)' = "gone")
    <3>0. disk' = disk \ {rfile[r]}
          /\ content' = [n \in Names |-> IF n \in {rfile[r]} THEN {} ELSE content[n]]
      BY <1>2 DEF DeleteFile, Unlink
    <3>1. CASE filePath[j] = rfile[r]
      <4>1. ~Intact(j, filePath[j])'
        BY <2>2, <3>0, <3>1 DEF Intact
      <4>2. status'[j] = status[j]
        BY <2>2
      <4>3. QED
        BY <4>1, <4>2 DEF Download
    <3>2. CASE filePath[j] # rfile[r]
      <4>1. filePath[j] \in disk' <=> filePath[j] \in disk
        BY <3>0, <3>2
      <4>2. filePath[j] \in disk => content'[filePath[j]] = content[filePath[j]]
        BY <3>0, <3>2
      <4>3. QED
        BY <2>2, <4>1, <4>2, SameDownload
    <3>3. QED
      BY <3>1, <3>2
  <2>6. Service!Withdraw(j)
    <3> DEFINE A == [k \in Jobs |-> Download(k)]
    <3>1. A' = A \/ (A[j] # "none" /\ A' = [A EXCEPT ![j] = "gone"])
      <4>1. CASE Download(j)' = Download(j)
        <5>1. \A k \in Jobs : Download(k)' = Download(k)
          BY <2>4, <4>1
        <5>2. QED
          BY <5>1
      <4>2. CASE Download(j) # "none" /\ Download(j)' = "gone"
        <5>1. A' = [k \in Jobs |-> IF k = j THEN "gone" ELSE Download(k)]
          BY <2>4, <4>2
        <5>2. A[j] # "none"
          BY <4>2
        <5>3. [A EXCEPT ![j] = "gone"] = [k \in Jobs |-> IF k = j THEN "gone" ELSE Download(k)]
          OBVIOUS
        <5>4. QED
          BY <5>1, <5>2, <5>3
      <4>3. QED
        BY <2>5, <4>1, <4>2
    <3>2. Service!Learn
      BY <2>2 DEF Service!Learn
    <3>3. QED
      BY <2>2, <2>3, <3>1, <3>2 DEF Service!Withdraw, Parting
  <2>7. QED
    BY <2>6 DEF Service!Next
<1>3. CASE DeleteRow(r)
  <2>1. PICK j \in Jobs : j = rjob[r]
    BY <1>3 DEF DeleteRow
  <2>2. UNCHANGED <<disk, content, aged, wjob, overtaken>>
        /\ status' = [status EXCEPT ![j] = "absent"]
        /\ filePath' = [filePath EXCEPT ![j] = NoName]
    BY <1>3, <2>1 DEF DeleteRow
  <2>3. j \in Parting /\ Parting' \in {Parting, Parting \ {j}}
    <3>1. op[r] = "deleteRow" /\ op'[r] = "idle"
      BY <1>3 DEF DeleteRow, Reply
    <3>2. \A q \in Requests \ {r} : op'[q] = op[q] /\ rjob'[q] = rjob[q]
      BY <1>3 DEF DeleteRow, Reply
    <3>3. \A k : k # j => (k \in Parting' <=> k \in Parting)
      <4>1. ASSUME NEW k, k # j
            PROVE  (\E q \in Requests : op'[q] = "deleteRow" /\ rjob'[q] = k)
                   <=> (\E q \in Requests : op[q] = "deleteRow" /\ rjob[q] = k)
        BY <2>1, <3>1, <3>2, <4>1
      <4>2. QED
        BY <4>1, PartingMembers
    <3>4. j \in Parting
      BY <2>1, <3>1, PartingMembers
    <3>5. CASE j \in Parting'
      <4>1. \A k : k \in Parting' <=> k \in Parting
        BY <3>3, <3>4, <3>5
      <4>2. Parting' = Parting
        BY <4>1
      <4>3. QED
        BY <3>4, <4>2
    <3>6. CASE j \notin Parting'
      <4>1. \A k : k \in Parting' <=> k \in Parting \ {j}
        BY <3>3, <3>6
      <4>2. Parting' = Parting \ {j}
        BY <4>1
      <4>3. QED
        BY <3>4, <4>2
    <3>7. QED
      BY <3>5, <3>6
  <2>4. \A k \in Jobs \ {j} : Download(k)' = Download(k)
    BY <2>2, SameDownload
  <2>5. Download(j)' = "none"
    BY <2>2 DEF Download
  <2>6. Service!Becomes(j, "absent", "none")
    BY <2>2, <2>4, <2>5, JobBecomes
  <2>7. Service!Remove(j)
    <3>1. Service!Learn
      BY <2>2 DEF Service!Learn
    <3>2. QED
      BY <2>3, <2>6, <3>1 DEF Service!Remove, Parting
  <2>8. QED
    BY <2>7 DEF Service!Next
<1>4. QED
  BY <1>1, <1>2, <1>3 DEF RequestStep

(* The creation of a job, a message that is taken, and a request that reads. *)
LEMMA OtherStep ==
    ASSUME ContractInv, TypeOK', NEW j \in Jobs,
           \/ Create(j) \/ CreateUnsent(j)
           \/ \E w \in Workers : Skip(w, j) \/ PickUp(w, j)
           \/ \E r \in Requests : CancelRead(r, j) \/ DeleteRead(r, j)
    PROVE  Service!Next
<1> USE DEF ContractInv, TypeOK, rowVars, brokerVars, diskVars, workerVars, requestVars
<1>1. UNCHANGED <<filePath, disk, content, aged>>
  BY DEF Create, CreateUnsent, Skip, PickUp, CancelRead, DeleteRead, Request
<1>2. Parting' = Parting
  <2>1. CASE Create(j) \/ CreateUnsent(j) \/ \E w \in Workers : Skip(w, j) \/ PickUp(w, j)
    BY <2>1 DEF Create, CreateUnsent, Skip, PickUp, Parting
  <2>2. CASE \E r \in Requests : CancelRead(r, j) \/ DeleteRead(r, j)
    <3>1. PICK r \in Requests : CancelRead(r, j) \/ DeleteRead(r, j)
      BY <2>2
    <3>2. op[r] = "idle" /\ op'[r] \in {"cancel", "delete"}
      BY <3>1 DEF CancelRead, DeleteRead, Request
    <3>3. \A q \in Requests \ {r} : op'[q] = op[q] /\ rjob'[q] = rjob[q]
      BY <3>1 DEF CancelRead, DeleteRead, Request
    <3>4. QED
      BY <3>2, <3>3, SameParting
  <2>3. QED
    BY <2>1, <2>2
<1>3. Heard' \subseteq Heard
  <2>1. CASE \E w \in Workers : PickUp(w, j)
    <3>1. PICK w \in Workers : PickUp(w, j)
      BY <2>1
    <3>2. overtaken' = overtaken \ {w} /\ wjob' = [wjob EXCEPT ![w] = j]
      BY <3>1 DEF PickUp, Load
    <3>3. QED
      BY <3>2, HeardMore
  <2>2. CASE ~\E w \in Workers : PickUp(w, j)
    BY <2>2 DEF Create, CreateUnsent, Skip, CancelRead, DeleteRead, Request, Heard
  <2>3. QED
    BY <2>1, <2>2
<1>4. CASE Create(j) \/ CreateUnsent(j)
  <2>1. status[j] = "none" /\ status' = [status EXCEPT ![j] = "pending"]
    BY <1>4 DEF Create, CreateUnsent
  <2>2. \A k \in Jobs \ {j} : Download(k)' = Download(k)
    BY <1>1, <2>1, SameDownload
  <2>3. Download(j)' = "none"
    BY <2>1 DEF Download
  <2>4. Service!Becomes(j, "pending", "none")
    BY <2>1, <2>2, <2>3, JobBecomes
  <2>5. Service!Submit(j)
    BY <1>2, <1>3, <2>1, <2>4 DEF Service!Submit, Service!Learn, Heard, Parting
  <2>6. QED
    BY <2>5 DEF Service!Next
<1>5. CASE ~(Create(j) \/ CreateUnsent(j))
  <2>1. UNCHANGED status
    BY <1>5 DEF Skip, PickUp, CancelRead, DeleteRead, Request
  <2>2. \A k \in Jobs : Download(k)' = Download(k)
    BY <1>1, <2>1, SameDownload
  <2>3. QED
    BY <1>2, <1>3, <2>1, <2>2, UnseenStep
<1>6. QED
  BY <1>4, <1>5

-----------------------------------------------------------------------------
(* When archives of one user get names of their own, every step of the export    *)
(* jobs, with their workers, old copies of rows, crashes and redeliveries, is a   *)
(* step of the contract the API's user can rely on, or changes nothing of it.     *)
THEOREM ContractKept == ASSUME "same_second" \notin Events PROVE Spec => KeepsContract
<1>1. Init => Service!Init
  <2> SUFFICES ASSUME Init PROVE Service!Init
    OBVIOUS
  <2>1. [j \in Jobs |-> Download(j)] = [j \in Jobs |-> "none"]
    BY DEF Init, Download
  <2>2. Heard = {} /\ Parting = {}
    BY DEF Init, Heard, Parting
  <2>3. QED
    BY <2>1, <2>2 DEF Init, Service!Init, Heard, Parting
<1>2. ContractInv /\ ContractInv' /\ [Next]_vars => [Service!Next]_(Service!vars)
  <2> SUFFICES ASSUME ContractInv, ContractInv', [Next]_vars
               PROVE  Service!Next \/ UNCHANGED Service!vars
    OBVIOUS
  <2>0. TypeOK'
    BY DEF ContractInv
  <2>1. ASSUME NEW j \in Jobs, Create(j) \/ CreateUnsent(j) PROVE Service!Next
    BY <2>0, <2>1, OtherStep
  <2>2. ASSUME NEW w \in Workers, NEW j \in Jobs, Skip(w, j) \/ PickUp(w, j) PROVE Service!Next
    BY <2>0, <2>2, OtherStep
  <2>3. ASSUME NEW r \in Requests, NEW j \in Jobs, CancelRead(r, j) \/ DeleteRead(r, j)
        PROVE  Service!Next
    BY <2>0, <2>3, OtherStep
  <2>4. ASSUME NEW r \in Requests, RequestStep(r) PROVE Service!Next
    BY <2>0, <2>4, RequestContract
  <2>5. ASSUME NEW n \in Names, Age(n) PROVE Service!Next
    <3>1. UNCHANGED <<status, filePath, op, rjob, wjob, overtaken>>
      BY <2>5 DEF Age, rowVars, workerVars, requestVars
    <3>2. QED
      BY <2>0, <2>5, <3>1, RetentionStep
  <2>6. ASSUME NEW w \in Workers, CleanUp(w) PROVE Service!Next
    <3>1. UNCHANGED <<status, filePath, op, rjob, wjob, overtaken>>
      BY <2>6 DEF CleanUp, rowVars, requestVars
    <3>2. QED
      BY <2>0, <2>6, <3>1, RetentionStep
  <2>7. ASSUME NEW w \in Workers, WorkerStep(w) \/ LoseWorker(w) \/ Redeliver(w)
        PROVE  Service!Next
    BY <2>0, <2>6, <2>7, SilentWorkerStep, MarkingStep, HandleCancelStep DEF WorkerStep
  <2>8. CASE UNCHANGED vars
    <3>1. UNCHANGED <<status, filePath, disk, content, aged, op, rjob, wjob, overtaken>>
      BY <2>8 DEF vars, rowVars, diskVars, workerVars, requestVars
    <3>2. [j \in Jobs |-> Download(j)]' = [j \in Jobs |-> Download(j)]
      BY <3>1, SameDownload
    <3>3. QED
      BY <3>1, <3>2 DEF Service!vars
  <2>9. QED
    BY <2>1, <2>2, <2>3, <2>4, <2>5, <2>7, <2>8 DEF Next
<1>3. Spec => []ContractInv
  BY TypeCorrect, CopyInvInvariant, QuietInvariant, NameInvInvariant, PTL DEF ContractInv
<1>4. QED
  BY <1>1, <1>2, <1>3, PTL DEF Spec, KeepsContract, Service!Spec

================================================================================
