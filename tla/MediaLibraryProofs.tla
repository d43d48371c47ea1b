-------------------------- MODULE MediaLibraryProofs --------------------------
(***************************************************************************)
(* What TLAPS proves of MediaLibrary, for any number of uploads, moments   *)
(* and contents.                                                           *)
(***************************************************************************)
EXTENDS MediaLibrary, FiniteSetTheorems, TLAPS

USE DEF Paths, NoPath, UploadSteps, States, DeleteSteps

(* The rows of a moment can be counted. *)
LEMMA RowsCounted ==
    ASSUME NEW m PROVE Cardinality(RowsOf(m)) \in Nat
<1>1. IsFiniteSet(RowsOf(m))
  BY ConstantsAssumption, FS_Subset DEF RowsOf
<1>2. QED
  BY <1>1, FS_CardinalityType

(* An upload knows where its file goes once it has looked for it, a row says *)
(* where its file is, and after the insert the upload knows the row it       *)
(* answers with.                                                             *)
UploadKnows ==
    \A u \in Uploads :
        /\ pc[u] \notin {"new", "checked"} => stored[u] \in Paths
        /\ row[u] # "none" \/ pc[u] = "planned" => path[u] \in Paths
        /\ pc[u] \in {"inserted", "counted"} =>
              media[u] \in Uploads /\ (media[u] = u \/ row[media[u]] # "none")

(* So the path sent with the message of an upload is one. *)
LEMMA MessageHasPath ==
    ASSUME TypeOK, UploadKnows, NEW u \in Uploads, pc[u] \in {"inserted", "counted"}
    PROVE  Message(u) \in Uploads \X Paths
<1>1. stored[u] \in Paths /\ media[u] \in Uploads
  BY DEF UploadKnows
<1>2. media[u] # u => path[media[u]] \in Paths
  BY <1>1 DEF UploadKnows
<1>3. QED
  BY <1>1, <1>2 DEF Message

(* Every variable stays in its type: media_count never becomes negative, and *)
(* a request answers with a row of some upload.                              *)
THEOREM TypeCorrect == Spec => []TypeOK
<1>1. Init => TypeOK /\ UploadKnows
  BY ConstantsAssumption DEF Init, TypeOK, UploadKnows
<1>2. TypeOK /\ UploadKnows /\ [Next]_vars => TypeOK'
  <2> SUFFICES ASSUME TypeOK, UploadKnows, [Next]_vars PROVE TypeOK'
    OBVIOUS
  <2> USE DEF TypeOK, rowVars, uploadVars, taskVars, delVars, Step
  <2>1. ASSUME NEW u \in Uploads, CheckMoment(u) PROVE TypeOK'
    BY <2>1 DEF CheckMoment
  <2>2. ASSUME NEW u \in Uploads, NEW s \in Suffixes, Probe(u, s) PROVE TypeOK'
    BY <2>2 DEF Probe
  <2>3. ASSUME NEW u \in Uploads, Place(u) PROVE TypeOK'
    BY <2>3 DEF Place, UploadKnows
  <2>4. ASSUME NEW u \in Uploads, FindInMoment(u) PROVE TypeOK'
    BY <2>4 DEF FindInMoment, Twins, RowsOf
  <2>5. ASSUME NEW u \in Uploads, ReuseRow(u) PROVE TypeOK'
    BY <2>5 DEF ReuseRow, RowsWith
  <2>6. ASSUME NEW u \in Uploads, NewRow(u) PROVE TypeOK'
    BY <2>6 DEF NewRow
  <2>7. ASSUME NEW u \in Uploads, Insert(u) PROVE TypeOK'
    BY <2>7 DEF Insert, Answer, Twins, RowsOf
  <2>8. ASSUME NEW u \in Uploads, InsertFails(u) PROVE TypeOK'
    BY <2>8 DEF InsertFails
  <2>9. ASSUME NEW u \in Uploads, ReadTotal(u) PROVE TypeOK'
    <3>1. pc' \in [Uploads -> UploadSteps] /\ total' \in [Uploads -> Nat]
      BY <2>9, RowsCounted DEF ReadTotal
    <3>2. Message(u) \in Uploads \X Paths
      BY <2>9, MessageHasPath DEF ReadTotal
    <3>3. queued' \subseteq Uploads \X Paths
      BY <2>9, <3>2 DEF ReadTotal
    <3>4. QED
      BY <2>9, <3>1, <3>3 DEF ReadTotal
  <2>10. ASSUME NEW u \in Uploads, WriteTotal(u) PROVE TypeOK'
    <3>1. CASE moment[u] \in moments
      <4>1. Message(u) \in Uploads \X Paths
        BY <2>10, <3>1, MessageHasPath DEF WriteTotal
      <4>2. pc' \in [Uploads -> UploadSteps]
        <5>1. pc' = [pc EXCEPT ![u] = "answered"]
          BY <2>10, <3>1 DEF WriteTotal
        <5>2. QED
          BY <5>1
      <4>3. count' \in [Moments -> Nat]
        <5>1. count' = [count EXCEPT ![moment[u]] = total[u]]
          BY <2>10, <3>1 DEF WriteTotal
        <5>2. QED
          BY <5>1
      <4>4. queued' \subseteq Uploads \X Paths
        BY <2>10, <3>1, <4>1 DEF WriteTotal
      <4>5. QED
        BY <2>10, <4>2, <4>3, <4>4 DEF WriteTotal
    <3>2. CASE moment[u] \notin moments
      BY <2>10, <3>2 DEF WriteTotal
    <3>3. QED
      BY <3>1, <3>2
  <2>11. ASSUME NEW u \in Uploads, TaskStep(u) PROVE TypeOK'
    <3>0. ASSUME NEW p \in Paths, SkipProcessing(u, p) PROVE TypeOK'
      BY <3>0 DEF SkipProcessing
    <3>1. ASSUME NEW p \in Paths, BeginProcessing(u, p) PROVE TypeOK'
      BY <3>1 DEF BeginProcessing
    <3>2. CASE MissFile(u)
      BY <3>2 DEF MissFile
    <3>3. CASE Render(u)
      <4>1. CASE thumb[u] \in thumbs
        <5>1. given' = [given EXCEPT ![u] = thumb[u]] /\ thumbs' = thumbs
          BY <3>3, <4>1 DEF Render
        <5>2. given' \in [Uploads -> Paths \cup {NoPath}]
          BY <5>1
        <5>3. QED
          BY <3>3, <5>1, <5>2 DEF Render
      <4>2. CASE thumb[u] \notin thumbs
        BY <3>3, <4>2 DEF Render
      <4>3. QED
        BY <4>1, <4>2
    <3>4. CASE Record(u)
      BY <3>4 DEF Record
    <3>5. QED
      BY <2>11, <3>0, <3>1, <3>2, <3>3, <3>4 DEF TaskStep
  <2>12. ASSUME NEW d \in Deletions, NEW rest \in SUBSET Uploads, GoOn(d, rest)
         PROVE  /\ dpc' \in [Deletions -> DeleteSteps]
                /\ target' \in [Deletions -> Moments \cup {None}]
                /\ todo' \in [Deletions -> SUBSET Uploads]
                /\ thumbed' \in [Deletions -> SUBSET (Uploads \X Paths)]
                /\ cur' \in [Deletions -> Uploads \cup {None}]
                /\ \A e \in Deletions : dpc'[e] \in {"counting", "unlinking"} => cur'[e] \in todo'[e]
                /\ \A e \in Deletions : dpc'[e] \in {"media", "moment"} => target'[e] \in Moments
    <3>1. dpc' \in [Deletions -> DeleteSteps] /\ dpc'[d] \in {"idle", "purging"}
      BY <2>12 DEF GoOn
    <3>2. \A e \in Deletions \ {d} :
              dpc'[e] = dpc[e] /\ cur'[e] = cur[e] /\ todo'[e] = todo[e] /\ target'[e] = target[e]
      BY <2>12 DEF GoOn
    <3>3. target' \in [Deletions -> Moments \cup {None}] /\ cur' \in [Deletions -> Uploads \cup {None}]
      BY <2>12 DEF GoOn
    <3>4. todo' \in [Deletions -> SUBSET Uploads] /\ thumbed' \in [Deletions -> SUBSET (Uploads \X Paths)]
      BY <2>12 DEF GoOn
    <3>5. QED
      BY <3>1, <3>2, <3>3, <3>4
  <2>13. ASSUME NEW d \in Deletions, DeleteStep(d) PROVE TypeOK'
    <3>1. CASE DeleteMedia(d)
      <4>1. Cardinality(todo[d]) \in Nat
        BY ConstantsAssumption, FS_Subset, FS_CardinalityType
      <4>2. count' \in [Moments -> Nat]
        BY <3>1, <4>1 DEF DeleteMedia, Decreased
      <4>3. GoOn(d, todo[d]) /\ todo[d] \in SUBSET Uploads
        BY <3>1 DEF DeleteMedia
      <4>4. QED
        BY <2>12, <3>1, <4>2, <4>3 DEF DeleteMedia, DropRows
    <3>2. CASE DeleteMoment(d)
      <4>1. GoOn(d, todo[d]) /\ todo[d] \in SUBSET Uploads
        BY <3>2 DEF DeleteMoment
      <4>2. QED
        BY <2>12, <3>2, <4>1 DEF DeleteMoment, DropRows
    <3>3. ASSUME NEW u \in Uploads, PurgeThumb(d, u) PROVE TypeOK'
      BY <3>3 DEF PurgeThumb
    <3>4. CASE PurgeKeep(d) \/ PurgeUnlink(d)
      <4>1. GoOn(d, Rest(d)) /\ Rest(d) \in SUBSET Uploads
        BY <3>4 DEF PurgeKeep, PurgeUnlink, Rest
      <4>2. QED
        BY <2>12, <3>4, <4>1 DEF PurgeKeep, PurgeUnlink
    <3>5. CASE PurgeCount(d)
      BY <3>5 DEF PurgeCount
    <3>6. QED
      BY <2>13, <3>1, <3>2, <3>3, <3>4, <3>5 DEF DeleteStep
  <2>14. ASSUME NEW m \in Moments PROVE /\ \A d \in Deletions, rows \in SUBSET Uploads :
                                              ReadMedia(d, m, rows) => TypeOK'
                                        /\ \A d \in Deletions : ReadMoment(d, m) => TypeOK'
                                        /\ PruneRead(m) \/ PruneDelete(m) => TypeOK'
    <3>1. ASSUME NEW d \in Deletions, NEW to \in {"media", "moment"}, NEW rows \in SUBSET Uploads,
                 Read(d, to, m, rows)
          PROVE  TypeOK'
      BY <3>1 DEF Read
    <3>2. ASSUME NEW d \in Deletions, NEW rows \in SUBSET Uploads, ReadMedia(d, m, rows) PROVE TypeOK'
      BY <3>1, <3>2 DEF ReadMedia
    <3>3. ASSUME NEW d \in Deletions, ReadMoment(d, m) PROVE TypeOK'
      <4>1. RowsOf(m) \in SUBSET Uploads
        BY DEF RowsOf
      <4>2. QED
        BY <3>1, <3>3, <4>1 DEF ReadMoment
    <3>4. CASE PruneRead(m) \/ PruneDelete(m)
      <4>1. CASE PruneRead(m)
        BY <4>1 DEF PruneRead
      <4>2. CASE PruneDelete(m)
        <5>1. row' \in [Uploads -> {"none", "live", "gone"}]
          BY <4>2 DEF PruneDelete, DropRows
        <5>2. moments' \subseteq Moments /\ pruning' \subseteq Moments
          BY <4>2 DEF PruneDelete
        <5>3. QED
          BY <4>2, <5>1, <5>2 DEF PruneDelete
      <4>3. QED
        BY <3>4, <4>1, <4>2
    <3>5. QED
      BY <3>2, <3>3, <3>4
  <2>15. CASE UNCHANGED vars
    BY <2>15 DEF vars
  <2>16. QED
    BY <2>1, <2>2, <2>3, <2>4, <2>5, <2>6, <2>7, <2>8, <2>9, <2>10, <2>11, <2>13, <2>14,
       <2>15 DEF Next, UploadStep
<1>3. TypeOK /\ UploadKnows /\ [Next]_vars => UploadKnows'
  <2> SUFFICES ASSUME TypeOK, UploadKnows, [Next]_vars PROVE UploadKnows'
    OBVIOUS
  <2> USE DEF TypeOK, UploadKnows, rowVars, uploadVars, Step
  <2>1. ASSUME NEW u \in Uploads, NEW s \in Suffixes, Probe(u, s) PROVE UploadKnows'
    BY <2>1 DEF Probe
  <2>2. ASSUME NEW u \in Uploads, FindInMoment(u) PROVE UploadKnows'
    BY <2>2 DEF FindInMoment, Twins, RowsOf
  <2>3. ASSUME NEW u \in Uploads, Insert(u) PROVE UploadKnows'
    <3>1. PICK r \in Answer(u) : media' = [media EXCEPT ![u] = r]
      BY <2>3 DEF Insert
    <3>2. r \in Uploads /\ (r = u \/ row[r] # "none")
      BY <3>1 DEF Answer, Twins, RowsOf
    <3>3. \A v \in Uploads : row[v] # "none" => row'[v] # "none"
      BY <2>3 DEF Insert
    <3>4. \A v \in Uploads \ {u} : row'[v] = row[v] /\ pc'[v] = pc[v] /\ media'[v] = media[v]
      BY <2>3, <3>1 DEF Insert
    <3>5. path' = path /\ stored' = stored /\ path[u] \in Paths /\ stored[u] \in Paths
      BY <2>3 DEF Insert
    <3>6. pc'[u] = "inserted" /\ media'[u] = r
      BY <2>3, <3>1 DEF Insert
    <3>7. \A v \in Uploads \ {u} : pc'[v] \in {"inserted", "counted"} =>
              media'[v] \in Uploads /\ (media'[v] = v \/ row'[media'[v]] # "none")
      BY <3>3, <3>4
    <3>8. media'[u] \in Uploads /\ (media'[u] = u \/ row'[media'[u]] # "none")
      BY <3>2, <3>3, <3>6
    <3>9. \A v \in Uploads : /\ pc'[v] \notin {"new", "checked"} => stored'[v] \in Paths
                             /\ row'[v] # "none" \/ pc'[v] = "planned" => path'[v] \in Paths
      BY <3>4, <3>5
    <3>10. QED
      BY <3>7, <3>8, <3>9
  <2>4. ASSUME NEW u \in Uploads, ReuseRow(u) PROVE UploadKnows'
    <3>1. PICK r \in RowsWith(content[u]) : path' = [path EXCEPT ![u] = path[r]]
      BY <2>4 DEF ReuseRow
    <3>2. path[r] \in Paths
      BY <3>1 DEF RowsWith
    <3>3. QED
      BY <2>4, <3>1, <3>2 DEF ReuseRow
  <2>5. ASSUME NEW u \in Uploads, NewRow(u) PROVE UploadKnows'
    BY <2>5 DEF NewRow
  <2>6. ASSUME NEW u \in Uploads, ReadTotal(u) \/ WriteTotal(u) PROVE UploadKnows'
    <3>1. UNCHANGED <<rowVars, stored, media>>
      BY <2>6 DEF ReadTotal, WriteTotal
    <3>2. \A v \in Uploads \ {u} : pc'[v] = pc[v]
      BY <2>6 DEF ReadTotal, WriteTotal
    <3>3. pc[u] \in {"inserted", "counted"} /\ pc'[u] \in {"counted", "answered", "refused"}
      BY <2>6 DEF ReadTotal, WriteTotal
    <3>4. QED
      BY <3>1, <3>2, <3>3
  <2>7. ASSUME NEW u \in Uploads, CheckMoment(u) \/ Place(u) \/ InsertFails(u) PROVE UploadKnows'
    BY <2>7 DEF CheckMoment, Place, InsertFails
  <2>8. ASSUME UNCHANGED <<path, uploadVars>>, \A u \in Uploads : row'[u] # "none" <=> row[u] # "none"
        PROVE  UploadKnows'
    BY <2>8
  <2>9. ASSUME NEW rows, DropRows(rows) PROVE \A u \in Uploads : row'[u] # "none" <=> row[u] # "none"
    BY <2>9 DEF DropRows
  <2>10. ASSUME NEW u \in Uploads, TaskStep(u) PROVE UploadKnows'
    BY <2>8, <2>10 DEF TaskStep, SkipProcessing, BeginProcessing, MissFile, Render, Record
  <2>11. ASSUME NEW d \in Deletions, DeleteStep(d) PROVE UploadKnows'
    BY <2>8, <2>9, <2>11 DEF DeleteStep, DeleteMedia, DeleteMoment, PurgeThumb, PurgeKeep, PurgeCount,
                             PurgeUnlink
  <2>12. ASSUME NEW m \in Moments PROVE
              /\ \A d \in Deletions, rows \in SUBSET Uploads : ReadMedia(d, m, rows) => UploadKnows'
              /\ \A d \in Deletions : ReadMoment(d, m) => UploadKnows'
              /\ PruneRead(m) \/ PruneDelete(m) => UploadKnows'
    BY <2>8, <2>9 DEF ReadMedia, ReadMoment, Read, PruneRead, PruneDelete
  <2>13. CASE UNCHANGED vars
    BY <2>8, <2>13 DEF vars
  <2>14. QED
    BY <2>1, <2>2, <2>3, <2>4, <2>5, <2>6, <2>7, <2>10, <2>11, <2>12, <2>13 DEF Next, UploadStep
<1>4. QED
  BY <1>1, <1>2, <1>3, PTL DEF Spec

-----------------------------------------------------------------------------
(* No step changes what an upload is for. *)
LEMMA UploadFixed ==
    ASSUME [Next]_vars PROVE moment' = moment /\ content' = content
BY DEF Next, UploadStep, TaskStep, DeleteStep, CheckMoment, Probe, Place, FindInMoment, ReuseRow,
       NewRow, Insert, InsertFails, ReadTotal, WriteTotal, SkipProcessing, BeginProcessing,
       MissFile, Render, Record, ReadMedia, ReadMoment, Read, DeleteMedia, DeleteMoment, PurgeThumb,
       PurgeKeep, PurgeCount, PurgeUnlink, PruneRead, PruneDelete, vars, uploadVars

(* The row upload u is going to answer with, or has, is one of its moment and *)
(* content, if the moment is there still.                                     *)
AnswerInv ==
    \A u \in Uploads :
        pc[u] \in {"inserted", "counted", "answered"} /\ moment[u] \in moments =>
            /\ media[u] \in Uploads /\ row[media[u]] # "none"
            /\ moment[media[u]] = moment[u] /\ content[media[u]] = content[u]

(* An upload is answered with a row of its moment and content: its insert has *)
(* put one there, or was refused because there is one, or the moment is gone. *)
THEOREM AnswersAreStored == Spec => []AnsweredIsStored
<1>1. Init => AnswerInv
  BY DEF Init, AnswerInv
<1>2. TypeOK /\ AnswerInv /\ [Next]_vars => AnswerInv'
  <2> SUFFICES ASSUME TypeOK, AnswerInv, [Next]_vars PROVE AnswerInv'
    OBVIOUS
  <2>1. moment' = moment /\ content' = content
    BY UploadFixed
  <2>2. ASSUME NEW u \in Uploads, NEW r \in Uploads, media' = [media EXCEPT ![u] = r],
               moments' = moments,
               moment[u] \in moments => /\ row'[r] # "none"
                                        /\ moment[r] = moment[u] /\ content[r] = content[u],
               \A v \in Uploads : row[v] # "none" => row'[v] # "none",
               \A v \in Uploads \ {u} : pc'[v] = pc[v]
        PROVE  AnswerInv'
    BY <2>1, <2>2 DEF AnswerInv, TypeOK
  <2>3. ASSUME NEW u \in Uploads, FindInMoment(u) PROVE AnswerInv'
    <3>1. PICK r \in Twins(u) : media' = [media EXCEPT ![u] = r]
      BY <2>3 DEF FindInMoment
    <3>2. r \in Uploads /\ row[r] # "none" /\ moment[r] = moment[u] /\ content[r] = content[u]
      BY <3>1 DEF Twins, RowsOf, RowsWith
    <3>3. row' = row /\ moments' = moments /\ \A v \in Uploads \ {u} : pc'[v] = pc[v]
      BY <2>3 DEF FindInMoment, Step, rowVars, TypeOK
    <3>4. QED
      BY <2>2, <3>1, <3>2, <3>3
  <2>4. ASSUME NEW u \in Uploads, Insert(u) PROVE AnswerInv'
    <3>1. PICK r \in Answer(u) : media' = [media EXCEPT ![u] = r]
      BY <2>4 DEF Insert
    <3>2. /\ row' = IF moment[u] \in moments /\ Twins(u) = {} THEN [row EXCEPT ![u] = "live"]
                    ELSE row
          /\ moments' = moments /\ \A v \in Uploads \ {u} : pc'[v] = pc[v]
      BY <2>4 DEF Insert, Step, TypeOK
    <3>3. \A v \in Uploads : row[v] # "none" => row'[v] # "none"
      BY <3>2 DEF TypeOK
    <3>4. CASE Twins(u) = {}
      <4>1. r = u /\ (moment[u] \in moments => row'[r] # "none")
        BY <3>1, <3>2, <3>4 DEF Answer, TypeOK
      <4>2. QED
        BY <2>2, <3>1, <3>2, <3>3, <4>1
    <3>5. CASE Twins(u) # {}
      <4>1. r \in Uploads /\ row[r] # "none" /\ moment[r] = moment[u] /\ content[r] = content[u]
        BY <3>1, <3>5 DEF Answer, Twins, RowsOf, RowsWith
      <4>2. QED
        BY <2>2, <3>1, <3>2, <3>3, <4>1
    <3>6. QED
      BY <3>4, <3>5
  <2>5. ASSUME media' = media, moments' \subseteq moments,
               \A v \in Uploads : row[v] # "none" => row'[v] # "none",
               \A v \in Uploads : pc'[v] \in {"inserted", "counted", "answered"}
                                    => pc[v] \in {"inserted", "counted", "answered"}
        PROVE  AnswerInv'
    BY <2>1, <2>5 DEF AnswerInv
  <2>6. ASSUME NEW rows, DropRows(rows) PROVE \A v \in Uploads : row[v] # "none" => row'[v] # "none"
    BY <2>6 DEF DropRows
  <2>7. ASSUME NEW u \in Uploads, NEW from, NEW to, Step(u, from, to),
               to \notin {"inserted", "counted", "answered"} \/ from \in {"inserted", "counted"}
        PROVE  \A v \in Uploads : pc'[v] \in {"inserted", "counted", "answered"}
                                    => pc[v] \in {"inserted", "counted", "answered"}
    BY <2>7 DEF Step, TypeOK
  <2>8. ASSUME NEW u \in Uploads,
               \/ CheckMoment(u) \/ (\E s \in Suffixes : Probe(u, s)) \/ Place(u)
               \/ ReuseRow(u) \/ NewRow(u) \/ InsertFails(u) \/ ReadTotal(u) \/ WriteTotal(u)
        PROVE  AnswerInv'
    <3>1. /\ media' = media /\ moments' = moments /\ row' = row
      BY <2>8 DEF CheckMoment, Probe, Place, ReuseRow, NewRow, InsertFails, ReadTotal, WriteTotal,
                  rowVars
    <3>2. CASE CheckMoment(u) \/ Place(u) \/ ReuseRow(u) \/ NewRow(u) \/ InsertFails(u)
      BY <2>5, <2>7, <3>1, <3>2 DEF CheckMoment, Place, ReuseRow, NewRow, InsertFails
    <3>3. ASSUME NEW s \in Suffixes, Probe(u, s) PROVE AnswerInv'
      <4>1. PICK to \in {"stored", "probed"} : Step(u, "checked", to)
        BY <3>3 DEF Probe
      <4>2. QED
        BY <2>5, <2>7, <3>1, <4>1
    <3>4. CASE ReadTotal(u)
      <4>1. PICK to : Step(u, "inserted", to)
        BY <3>4 DEF ReadTotal
      <4>2. QED
        BY <2>5, <2>7, <3>1, <4>1
    <3>5. CASE WriteTotal(u)
      <4>1. PICK to : Step(u, "counted", to)
        BY <3>5 DEF WriteTotal
      <4>2. QED
        BY <2>5, <2>7, <3>1, <4>1
    <3>6. QED
      BY <2>8, <3>2, <3>3, <3>4, <3>5
  <2>9. ASSUME NEW u \in Uploads, TaskStep(u) PROVE AnswerInv'
    BY <2>5, <2>9 DEF TaskStep, SkipProcessing, BeginProcessing, MissFile, Render, Record, rowVars,
                      uploadVars
  <2>10. ASSUME NEW d \in Deletions, DeleteStep(d) PROVE AnswerInv'
    BY <2>5, <2>6, <2>10 DEF DeleteStep, DeleteMedia, DeleteMoment, PurgeThumb, PurgeKeep,
                             PurgeCount, PurgeUnlink, rowVars, uploadVars
  <2>11. ASSUME NEW m \in Moments PROVE
              /\ \A d \in Deletions, rows \in SUBSET Uploads : ReadMedia(d, m, rows) => AnswerInv'
              /\ \A d \in Deletions : ReadMoment(d, m) => AnswerInv'
              /\ PruneRead(m) \/ PruneDelete(m) => AnswerInv'
    BY <2>5, <2>6 DEF ReadMedia, ReadMoment, Read, PruneRead, PruneDelete, rowVars, uploadVars
  <2>12. CASE UNCHANGED vars
    BY <2>5, <2>12 DEF vars, rowVars, uploadVars
  <2>13. QED
    BY <2>3, <2>4, <2>8, <2>9, <2>10, <2>11, <2>12 DEF Next, UploadStep
<1>3. AnswerInv => AnsweredIsStored
  BY DEF AnswerInv, AnsweredIsStored
<1>4. QED
  BY <1>1, <1>2, <1>3, TypeCorrect, PTL DEF Spec

-----------------------------------------------------------------------------
(* A row only loses its file to an overlap: reference counting is right as  *)
(* long as no upload of the content is under way.                           *)

\* A stored or planned path is made of the content.
Rooted(p, u) == \E s \in Suffixes : p = <<content[u], s>>

PathInv ==
    \A u \in Uploads :
        /\ pc[u] \notin {"new", "checked"} => Rooted(stored[u], u)
        /\ pc[u] = "planned" \/ row[u] # "none" => Rooted(path[u], u)
        /\ row[u] # "none" => pc[u] \in {"inserted", "counted", "answered", "refused"}
        /\ (\E d \in Deletions : u \in todo[d]) => row[u] # "none"

\* What an upload or a row outside every overlap relies on is there.
KeptInv ==
    \A u \in Uploads \ overlapped :
        /\ pc[u] = "stored" => stored[u] \in files
        /\ pc[u] = "planned" => path[u] \in files
        /\ row[u] = "live" => path[u] \in files

\* While a file is being removed, whoever counts on its content is in an overlap.
ClaimInv ==
    \A d \in Deletions, r \in Uploads :
        dpc[d] = "unlinking" /\ content[r] = content[cur[d]] /\ (row[r] = "live" \/ InFlight(r))
            => r \in overlapped

(* Steps that leave files, paths and overlaps alone, and no row, upload or  *)
(* deletion with more to rely on, preserve all three.                       *)
LEMMA Harmless ==
    ASSUME TypeOK, PathInv, KeptInv, ClaimInv, content' = content, stored' = stored, path' = path,
           overlapped' = overlapped, files' = files,
           \A u \in Uploads : row'[u] = row[u] \/ (row[u] = "live" /\ row'[u] = "gone"),
           \A d \in Deletions : \A u \in todo'[d] : u \in todo[d] \/ row[u] = "live",
           \A d \in Deletions : dpc'[d] = "unlinking" => dpc[d] = "unlinking" /\ cur'[d] = cur[d],
           \A u \in Uploads : \/ pc'[u] = pc[u]
                              \/ pc[u] = "new" /\ pc'[u] = "checked"
                              \/ pc'[u] \in {"inserted", "counted", "answered", "refused"}
                                   /\ pc[u] \notin {"new", "checked"}
    PROVE  PathInv' /\ KeptInv' /\ ClaimInv'
<1>1. PathInv'
  BY DEF TypeOK, PathInv, Rooted
<1>2. KeptInv'
  BY DEF TypeOK, KeptInv
<1>3. ClaimInv'
  <2> SUFFICES ASSUME NEW d \in Deletions, NEW r \in Uploads, dpc'[d] = "unlinking",
                      content[r] = content[cur'[d]], row'[r] = "live" \/ InFlight(r)'
               PROVE  r \in overlapped
    BY DEF ClaimInv
  <2>1. dpc[d] = "unlinking" /\ cur'[d] = cur[d]
    OBVIOUS
  <2>2. row[r] = "live" \/ InFlight(r)
    BY DEF InFlight
  <2>3. QED
    BY <2>1, <2>2 DEF ClaimInv
<1>4. QED
  BY <1>1, <1>2, <1>3

(* Where a content has one file name and no insert fails, the three are     *)
(* inductive together.                                                      *)
LEMMA FilesKept ==
    ASSUME \A s, t \in Suffixes : s = t, "db_error" \notin Events
    PROVE  Spec => [](PathInv /\ KeptInv /\ ClaimInv)
<1> DEFINE Inv == PathInv /\ KeptInv /\ ClaimInv
<1>1. Init => Inv
  BY DEF Init, PathInv, KeptInv, ClaimInv
<1>2. TypeOK /\ Inv /\ [Next]_vars => Inv'
  <2> SUFFICES ASSUME TypeOK, PathInv, KeptInv, ClaimInv, [Next]_vars
               PROVE  PathInv' /\ KeptInv' /\ ClaimInv'
    OBVIOUS
  <2>0. content' = content
    BY UploadFixed
  <2> USE <2>0 DEF TypeOK, Step, rowVars, uploadVars, taskVars, delVars
  <2>1. ASSUME NEW u \in Uploads, NEW s \in Suffixes, Probe(u, s) PROVE PathInv' /\ KeptInv' /\ ClaimInv'
    <3>1. PathInv'
      BY <2>1 DEF Probe, PathInv, Rooted
    <3>2. KeptInv'
      BY <2>1 DEF Probe, KeptInv
    <3>3. ClaimInv'
      BY <2>1 DEF Probe, ClaimInv, InFlight
    <3>4. QED
      BY <3>1, <3>2, <3>3
  <2>2. ASSUME NEW u \in Uploads, Place(u) PROVE PathInv' /\ KeptInv' /\ ClaimInv'
    <3>1. PathInv'
      BY <2>2 DEF Place, PathInv, Rooted
    <3>2. KeptInv'
      BY <2>2 DEF Place, KeptInv
    <3>3. ClaimInv'
      BY <2>2 DEF Place, ClaimInv, InFlight
    <3>4. QED
      BY <3>1, <3>2, <3>3
  <2>3. ASSUME NEW u \in Uploads, NewRow(u) PROVE PathInv' /\ KeptInv' /\ ClaimInv'
    <3>1. PathInv'
      BY <2>3 DEF NewRow, PathInv, Rooted
    <3>2. KeptInv'
      BY <2>3 DEF NewRow, KeptInv, PathInv
    <3>3. ClaimInv'
      BY <2>3 DEF NewRow, ClaimInv, InFlight
    <3>4. QED
      BY <3>1, <3>2, <3>3
  <2>4. ASSUME NEW u \in Uploads, ReuseRow(u) PROVE PathInv' /\ KeptInv' /\ ClaimInv'
    <3>1. PICK r \in RowsWith(content[u]) :
              /\ path' = [path EXCEPT ![u] = path[r]]
              /\ files' = IF ~dedup[u] /\ stored[u] # path[r] THEN files \ {stored[u]} ELSE files
      BY <2>4 DEF ReuseRow
    <3>2. r \in Uploads /\ row[r] = "live" /\ content[r] = content[u]
      BY <3>1 DEF RowsWith
    <3>3. path[r] = stored[u]
      <4>1. Rooted(path[r], r) /\ Rooted(stored[u], u)
        BY <2>4, <3>2 DEF ReuseRow, PathInv
      <4>2. QED
        BY <3>2, <4>1 DEF Rooted
    <3>4. files' = files /\ path' = [path EXCEPT ![u] = stored[u]]
      BY <3>1, <3>3
    <3>5. PathInv'
      BY <2>4, <3>4 DEF ReuseRow, PathInv, Rooted
    <3>6. KeptInv'
      BY <2>4, <3>4 DEF ReuseRow, KeptInv, PathInv
    <3>7. ClaimInv'
      BY <2>4 DEF ReuseRow, ClaimInv, InFlight
    <3>8. QED
      BY <3>5, <3>6, <3>7
  <2>5. ASSUME NEW u \in Uploads, Insert(u) PROVE PathInv' /\ KeptInv' /\ ClaimInv'
    <3>1. /\ pc[u] = "planned" /\ pc' = [pc EXCEPT ![u] = "inserted"]
          /\ row' = row \/ row' = [row EXCEPT ![u] = "live"]
      BY <2>5 DEF Insert
    <3>2. PathInv'
      BY <2>5, <3>1 DEF Insert, PathInv, Rooted
    <3>3. KeptInv'
      BY <2>5, <3>1 DEF Insert, KeptInv
    <3>4. ClaimInv'
      BY <2>5, <3>1 DEF Insert, ClaimInv, InFlight
    <3>5. QED
      BY <3>2, <3>3, <3>4
  <2>6. ASSUME NEW u \in Uploads, CheckMoment(u) \/ FindInMoment(u) \/ ReadTotal(u) \/ WriteTotal(u)
        PROVE  PathInv' /\ KeptInv' /\ ClaimInv'
    BY <2>6, Harmless DEF CheckMoment, FindInMoment, ReadTotal, WriteTotal
  <2>7. ASSUME NEW u \in Uploads, InsertFails(u) PROVE PathInv' /\ KeptInv' /\ ClaimInv'
    BY <2>7 DEF InsertFails
  <2>8. ASSUME NEW u \in Uploads, TaskStep(u) PROVE PathInv' /\ KeptInv' /\ ClaimInv'
    BY <2>8, Harmless DEF TaskStep, SkipProcessing, BeginProcessing, MissFile, Render, Record
  <2>9. ASSUME NEW d \in Deletions, NEW u \in Uploads, PurgeThumb(d, u)
        PROVE  PathInv' /\ KeptInv' /\ ClaimInv'
    BY <2>9, Harmless DEF PurgeThumb
  <2>10. ASSUME NEW d \in Deletions, PurgeKeep(d) PROVE PathInv' /\ KeptInv' /\ ClaimInv'
    BY <2>10, Harmless DEF PurgeKeep, GoOn, Rest
  <2>11. ASSUME NEW d \in Deletions, PurgeCount(d) PROVE PathInv' /\ KeptInv' /\ ClaimInv'
    <3>1. PathInv'
      BY <2>11 DEF PurgeCount, PathInv, Rooted
    <3>2. KeptInv'
      BY <2>11 DEF PurgeCount, KeptInv
    <3>3. ClaimInv'
      BY <2>11 DEF PurgeCount, ClaimInv, InFlight, Referenced, RowsWith
    <3>4. QED
      BY <3>1, <3>2, <3>3
  <2>12. ASSUME NEW d \in Deletions, PurgeUnlink(d) PROVE PathInv' /\ KeptInv' /\ ClaimInv'
    <3> DEFINE u == cur[d]
    <3>1. PathInv'
      BY <2>12 DEF PurgeUnlink, PathInv, Rooted, GoOn, Rest
    <3>2. \A r \in Uploads \ overlapped :
              row[r] = "live" \/ InFlight(r) => content[r] # content[u]
      BY <2>12 DEF PurgeUnlink, ClaimInv
    <3>3. u \in Uploads /\ Rooted(path[u], u)
      BY <2>12 DEF PurgeUnlink, PathInv
    <3>4. KeptInv'
      <4> HIDE DEF u
      <4> SUFFICES ASSUME NEW r \in Uploads \ overlapped
                   PROVE  /\ pc[r] = "stored" => stored[r] \in files'
                          /\ pc[r] = "planned" => path[r] \in files'
                          /\ row[r] = "live" => path[r] \in files'
        BY <2>12 DEF PurgeUnlink, KeptInv
      <4>1. files' = files \ {path[u]}
        BY <2>12 DEF PurgeUnlink, u
      <4>2. \A p : Rooted(p, r) /\ content[r] # content[u] => p # path[u]
        BY <3>3 DEF Rooted
      <4>3. CASE pc[r] = "stored"
        BY <3>2, <4>1, <4>2, <4>3 DEF KeptInv, PathInv, InFlight
      <4>4. CASE pc[r] = "planned" \/ row[r] = "live"
        BY <3>2, <4>1, <4>2, <4>4 DEF KeptInv, PathInv, InFlight
      <4>5. QED
        BY <4>3, <4>4
    <3>5. ClaimInv'
      BY <2>12 DEF PurgeUnlink, ClaimInv, InFlight, GoOn
    <3>6. QED
      BY <3>1, <3>4, <3>5
  <2>13. ASSUME NEW d \in Deletions, DeleteMedia(d) \/ DeleteMoment(d)
         PROVE  PathInv' /\ KeptInv' /\ ClaimInv'
    <3>1. PICK rows : DropRows(rows)
      BY <2>13 DEF DeleteMedia, DeleteMoment
    <3>2. \A u \in Uploads : row'[u] = row[u] \/ (row[u] = "live" /\ row'[u] = "gone")
      BY <3>1 DEF DropRows
    <3>3. GoOn(d, todo[d])
      BY <2>13 DEF DeleteMedia, DeleteMoment
    <3>4. /\ \A e \in Deletions : \A u \in todo'[e] : u \in todo[e]
          /\ \A e \in Deletions : dpc'[e] = "unlinking" => dpc[e] = "unlinking" /\ cur'[e] = cur[e]
      BY <3>3 DEF GoOn
    <3>5. QED
      BY <2>13, <3>2, <3>4, Harmless DEF DeleteMedia, DeleteMoment
  <2>14. ASSUME NEW m \in Moments PROVE
              /\ \A d \in Deletions, rows \in SUBSET Uploads :
                    ReadMedia(d, m, rows) => PathInv' /\ KeptInv' /\ ClaimInv'
              /\ \A d \in Deletions : ReadMoment(d, m) => PathInv' /\ KeptInv' /\ ClaimInv'
              /\ PruneRead(m) \/ PruneDelete(m) => PathInv' /\ KeptInv' /\ ClaimInv'
    <3>1. ASSUME NEW d \in Deletions, NEW to \in {"media", "moment"}, NEW rows, rows \subseteq RowsOf(m),
                 Read(d, to, m, rows)
          PROVE  PathInv' /\ KeptInv' /\ ClaimInv'
      BY <3>1, Harmless DEF Read, RowsOf
    <3>2. CASE PruneRead(m) \/ PruneDelete(m)
      BY <3>2, Harmless DEF PruneRead, PruneDelete, DropRows, delVars
    <3>3. QED
      BY <3>1, <3>2 DEF ReadMedia, ReadMoment
  <2>15. CASE UNCHANGED vars
    BY <2>15, Harmless DEF vars
  <2>16. QED
    BY <2>1, <2>2, <2>3, <2>4, <2>5, <2>6, <2>7, <2>8, <2>9, <2>10, <2>11, <2>12, <2>13, <2>14,
       <2>15 DEF Next, UploadStep, DeleteStep
<1>3. QED
  BY <1>1, <1>2, TypeCorrect, PTL DEF Spec

(* Reference counting never removes a file that a row names, except under an *)
(* upload that overlaps the removal.                                         *)
THEOREM OverlapOnly ==
    ASSUME \A s, t \in Suffixes : s = t, "db_error" \notin Events
    PROVE  Spec => []LostOnlyByOverlap
<1>1. KeptInv => LostOnlyByOverlap
  BY DEF KeptInv, LostOnlyByOverlap
<1>2. QED
  BY <1>1, FilesKept, PTL

-----------------------------------------------------------------------------
(* No file is left behind while moments are kept. *)

\* No moment goes or is about to, and a deletion that has ended has no files left.
MomentsStay ==
    /\ moments = Moments
    /\ pruning = {}
    /\ \A d \in Deletions : dpc[d] # "moment"
    /\ \A d \in Deletions : dpc[d] = "idle" => todo[d] = {}

(* The deletion of a medium goes on with its files and touches no moment. *)
LEMMA DeletionStays ==
    ASSUME TypeOK, MomentsStay, NEW d \in Deletions,
           DeleteStep(d) \/ \E m \in Moments, rows \in SUBSET Uploads : ReadMedia(d, m, rows)
    PROVE  MomentsStay'
<1> USE DEF TypeOK, MomentsStay, uploadVars, taskVars
<1>1. CASE \E m \in Moments, rows \in SUBSET Uploads : ReadMedia(d, m, rows)
  BY <1>1 DEF ReadMedia, Read
<1>2. CASE DeleteStep(d)
  <2>1. UNCHANGED <<moments, pruning>> /\ ~DeleteMoment(d)
    BY <1>2 DEF DeleteStep, DeleteMedia, DeleteMoment, PurgeThumb, PurgeKeep, PurgeCount, PurgeUnlink
  <2>2. ASSUME NEW rest \in SUBSET Uploads, GoOn(d, rest) PROVE MomentsStay'
    BY <2>1, <2>2 DEF GoOn
  <2>3. CASE DeleteMedia(d) \/ PurgeKeep(d) \/ PurgeUnlink(d)
    BY <2>2, <2>3 DEF DeleteMedia, PurgeKeep, PurgeUnlink, Rest
  <2>4. CASE (\E u \in Uploads : PurgeThumb(d, u)) \/ PurgeCount(d)
    <3>1. UNCHANGED todo /\ \E to \in {"counting", "unlinking"} : dpc' = [dpc EXCEPT ![d] = to]
      BY <2>4 DEF PurgeThumb, PurgeCount
    <3>2. \A e \in Deletions : dpc'[e] \in {dpc[e], "counting", "unlinking"}
      BY <3>1
    <3>3. QED
      BY <2>1, <3>1, <3>2
  <2>5. QED
    BY <1>2, <2>1, <2>3, <2>4 DEF DeleteStep
<1>3. QED
  BY <1>1, <1>2

(* Moments only go by their deletion and by pruning. *)
LEMMA MomentsKept ==
    ASSUME Events \cap {"delete_moment", "prune"} = {}
    PROVE  Spec => []MomentsStay
<1>1. ASSUME Init PROVE MomentsStay
  BY <1>1 DEF Init, MomentsStay
<1>2. ASSUME NEW m \in Moments, MomentsStay
      PROVE  ~PruneRead(m) /\ ~PruneDelete(m) /\ \A d \in Deletions : ~ReadMoment(d, m)
  BY <1>2 DEF ReadMoment, PruneRead, PruneDelete, MomentsStay
<1>3. ASSUME TypeOK, MomentsStay, Next PROVE MomentsStay'
  <2>1. ASSUME NEW u \in Uploads, UploadStep(u) \/ TaskStep(u) PROVE MomentsStay'
    BY <1>3, <2>1 DEF TypeOK, MomentsStay, uploadVars, taskVars, delVars,
       UploadStep, CheckMoment, Probe, Place, FindInMoment, ReuseRow, NewRow, Insert, InsertFails,
       ReadTotal, WriteTotal,
       TaskStep, SkipProcessing, BeginProcessing, MissFile, Render, Record
  <2>2. QED
    BY <1>2, <1>3, <2>1, DeletionStays DEF Next
<1>4. MomentsStay /\ UNCHANGED vars => MomentsStay'
  BY DEF MomentsStay, vars, uploadVars, taskVars, delVars
<1>5. QED
  BY <1>1, <1>3, <1>4, TypeCorrect, PTL DEF Spec

(* Where a content has one file name, it has one path. *)
LEMMA OnePath ==
    ASSUME \A s, t \in Suffixes : s = t, NEW u, NEW v, content[u] = content[v], NEW p, NEW q,
           Rooted(p, u), Rooted(q, v)
    PROVE  p = q
BY DEF Rooted

\* What is asked of each file.
Accounted(p) ==
    \/ \E r \in Uploads : row[r] = "live" /\ path[r] = p
    \/ \E u \in Uploads : InFlight(u) /\ stored[u] = p
    \/ \E d \in Deletions : \E u \in todo[d] : path[u] = p

LEMMA EachAccounted ==
    /\ EveryFileAccounted <=> \A p \in files : Accounted(p)
    /\ EveryFileAccounted' <=> \A p \in files' : Accounted(p)'
BY DEF EveryFileAccounted, Accounted

(* Steps that keep every name a file has keep it accounted for. *)
LEMMA StaysAccounted ==
    ASSUME EveryFileAccounted, files' \subseteq files, path' = path, stored' = stored,
           \A r \in Uploads : row[r] = "live" =>
               row'[r] = "live" \/ \E d \in Deletions : r \in todo'[d],
           \A u \in Uploads : InFlight(u) => InFlight(u)',
           \A d \in Deletions : todo[d] \subseteq todo'[d]
    PROVE  EveryFileAccounted'
<1> SUFFICES ASSUME NEW p \in files PROVE Accounted(p)'
  BY EachAccounted
<1>1. ASSUME NEW r \in Uploads, row[r] = "live", path[r] = p PROVE Accounted(p)'
  BY <1>1 DEF Accounted
<1>2. ASSUME NEW u \in Uploads, InFlight(u), stored[u] = p PROVE Accounted(p)'
  BY <1>2 DEF Accounted
<1>3. ASSUME NEW d \in Deletions, NEW u \in todo[d], path[u] = p PROVE Accounted(p)'
  BY <1>3 DEF Accounted
<1>4. QED
  BY <1>1, <1>2, <1>3, EachAccounted DEF Accounted

(* When an upload has ended a row names its file, and while one is left such a *)
(* row exists: other uploads keep it, and the last deletion takes it.          *)
THEOREM FilesAccounted ==
    ASSUME \A s, t \in Suffixes : s = t, Events \cap {"db_error", "delete_moment", "prune"} = {}
    PROVE  Spec => []EveryFileAccounted
<1>1. Init => EveryFileAccounted
  BY DEF Init, EveryFileAccounted
<1>2. TypeOK /\ PathInv /\ MomentsStay /\ EveryFileAccounted /\ [Next]_vars => EveryFileAccounted'
  <2> SUFFICES ASSUME TypeOK, PathInv, MomentsStay, EveryFileAccounted, [Next]_vars
               PROVE  EveryFileAccounted'
    OBVIOUS
  <2> USE DEF TypeOK, Step, rowVars, uploadVars, taskVars, delVars, MomentsStay
  <2>0. content' = content
    BY UploadFixed
  <2>1. ASSUME NEW u \in Uploads, NEW s \in Suffixes, Probe(u, s) PROVE EveryFileAccounted'
    <3>1. pc[u] = "checked" /\ UNCHANGED <<files, row, path, todo>>
      BY <2>1 DEF Probe
    <3>2. \A v \in Uploads \ {u} : pc'[v] = pc[v] /\ stored'[v] = stored[v]
      BY <2>1 DEF Probe
    <3>3. \A v \in Uploads : InFlight(v) => InFlight(v)' /\ stored'[v] = stored[v]
      BY <3>1, <3>2 DEF InFlight
    <3>4. QED
      <4> SUFFICES ASSUME NEW p \in files PROVE Accounted(p)'
        BY <3>1, EachAccounted
      <4>1. ASSUME NEW r \in Uploads, row[r] = "live", path[r] = p PROVE Accounted(p)'
        BY <4>1, <3>1 DEF Accounted
      <4>2. ASSUME NEW v \in Uploads, InFlight(v), stored[v] = p PROVE Accounted(p)'
        BY <4>2, <3>3 DEF Accounted
      <4>3. ASSUME NEW e \in Deletions, NEW v \in todo[e], path[v] = p PROVE Accounted(p)'
        BY <4>3, <3>1 DEF Accounted
      <4>4. QED
        BY <4>1, <4>2, <4>3, EachAccounted DEF Accounted
  <2>2. ASSUME NEW u \in Uploads, Place(u) PROVE EveryFileAccounted'
    <3>1. UNCHANGED <<row, path, stored, todo>> /\ files' = files \cup {stored[u]}
      BY <2>2 DEF Place
    <3>2. InFlight(u)' /\ \A v \in Uploads : InFlight(v) => InFlight(v)'
      BY <2>2 DEF Place, InFlight
    <3>3. QED
      BY <3>1, <3>2 DEF EveryFileAccounted
  <2>3. ASSUME NEW u \in Uploads, ReuseRow(u) \/ NewRow(u) PROVE EveryFileAccounted'
    <3>1. files' \subseteq files /\ UNCHANGED <<row, stored, todo>>
      BY <2>3 DEF ReuseRow, NewRow
    <3>2. row[u] = "none" /\ \A d \in Deletions : u \notin todo[d]
      BY <2>3 DEF ReuseRow, NewRow, PathInv
    <3>3. \A v \in Uploads \ {u} : path'[v] = path[v]
      BY <2>3 DEF ReuseRow, NewRow
    <3>4. \A v \in Uploads : InFlight(v) => InFlight(v)'
      BY <2>3 DEF ReuseRow, NewRow, InFlight
    <3>5. QED
      <4> SUFFICES ASSUME NEW p \in files PROVE Accounted(p)'
        BY <3>1, EachAccounted
      <4>1. ASSUME NEW r \in Uploads, row[r] = "live", path[r] = p PROVE Accounted(p)'
        BY <4>1, <3>1, <3>2, <3>3 DEF Accounted
      <4>2. ASSUME NEW v \in Uploads, InFlight(v), stored[v] = p PROVE Accounted(p)'
        BY <4>2, <3>1, <3>4 DEF Accounted
      <4>3. ASSUME NEW e \in Deletions, NEW v \in todo[e], path[v] = p PROVE Accounted(p)'
        BY <4>3, <3>1, <3>2, <3>3 DEF Accounted
      <4>4. QED
        BY <4>1, <4>2, <4>3, EachAccounted DEF Accounted
  <2>4. ASSUME NEW u \in Uploads, FindInMoment(u) PROVE EveryFileAccounted'
    <3>1. UNCHANGED <<files, row, path, stored, todo>>
      BY <2>4 DEF FindInMoment
    <3>2. \A v \in Uploads \ {u} : InFlight(v) => InFlight(v)'
      BY <2>4 DEF FindInMoment, InFlight
    <3>3. PICK r \in Twins(u) : TRUE
      BY <2>4 DEF FindInMoment
    <3>4. r \in Uploads /\ row[r] = "live" /\ content[r] = content[u]
      BY <3>3 DEF Twins, RowsWith
    <3>5. Rooted(stored[u], u) /\ Rooted(path[r], r)
      BY <2>4, <3>4 DEF FindInMoment, PathInv
    <3>6. path[r] = stored[u]
      BY <3>4, <3>5, OnePath
    <3>7. QED
      BY <3>1, <3>2, <3>4, <3>6 DEF EveryFileAccounted
  <2>5. ASSUME NEW u \in Uploads, Insert(u) PROVE EveryFileAccounted'
    <3>1. pc[u] = "planned" /\ UNCHANGED <<files, path, stored, todo>>
      BY <2>5 DEF Insert
    <3>2. \A v \in Uploads \ {u} : InFlight(v) => InFlight(v)'
      BY <2>5 DEF Insert, InFlight
    <3>3. PICK r \in Uploads : row'[r] = "live" /\ content[r] = content[u] /\ Rooted(path[r], r)
      <4>1. CASE Twins(u) = {}
        <5>1. row' = [row EXCEPT ![u] = "live"]
          BY <2>5, <4>1 DEF Insert
        <5>2. QED
          BY <3>1, <5>1 DEF PathInv
      <4>2. ASSUME NEW v \in Twins(u)
            PROVE  v \in Uploads /\ row'[v] = "live" /\ content[v] = content[u] /\ Rooted(path[v], v)
        BY <2>5, <4>2 DEF Insert, Twins, RowsOf, RowsWith, PathInv
      <4>3. QED
        BY <4>1, <4>2
    <3>4. \A v \in Uploads : row[v] = "live" => row'[v] = "live"
      BY <2>5 DEF Insert
    <3>5. path[r] = stored[u]
      <4>1. Rooted(stored[u], u)
        BY <3>1 DEF PathInv
      <4>2. QED
        BY <3>3, <4>1, OnePath
    <3>6. QED
      <4> SUFFICES ASSUME NEW p \in files PROVE Accounted(p)'
        BY <3>1, EachAccounted
      <4>1. ASSUME NEW t \in Uploads, row[t] = "live", path[t] = p PROVE Accounted(p)'
        BY <4>1, <3>1, <3>4 DEF Accounted
      <4>2. ASSUME NEW v \in Uploads, InFlight(v), stored[v] = p PROVE Accounted(p)'
        BY <4>2, <3>1, <3>2, <3>3, <3>5 DEF Accounted
      <4>3. ASSUME NEW e \in Deletions, NEW v \in todo[e], path[v] = p PROVE Accounted(p)'
        BY <4>3, <3>1 DEF Accounted
      <4>4. QED
        BY <4>1, <4>2, <4>3, EachAccounted DEF Accounted
  <2>6. ASSUME NEW u \in Uploads, CheckMoment(u) \/ ReadTotal(u) \/ WriteTotal(u) PROVE EveryFileAccounted'
    <3>1. \A v \in Uploads : InFlight(v) => InFlight(v)'
      BY <2>6 DEF CheckMoment, ReadTotal, WriteTotal, InFlight
    <3>2. QED
      BY <2>6, <3>1, StaysAccounted DEF CheckMoment, ReadTotal, WriteTotal
  <2>7. ~\E u \in Uploads : InsertFails(u)
    BY DEF InsertFails
  <2>8. ASSUME NEW u \in Uploads, TaskStep(u) PROVE EveryFileAccounted'
    BY <2>8, StaysAccounted DEF TaskStep, SkipProcessing, BeginProcessing, MissFile, Render, Record, InFlight
  <2>9. ASSUME NEW d \in Deletions, DeleteMedia(d) PROVE EveryFileAccounted'
    <3>1. todo' = todo /\ DropRows(todo[d])
      BY <2>9 DEF DeleteMedia, GoOn
    <3>2. \A r \in Uploads : row[r] = "live" => row'[r] = "live" \/ r \in todo'[d]
      BY <3>1 DEF DropRows
    <3>3. QED
      BY <2>9, <3>1, <3>2, StaysAccounted DEF DeleteMedia, InFlight
  <2>10. ~\E d \in Deletions : DeleteMoment(d)
    BY DEF DeleteMoment
  <2>11. ASSUME NEW d \in Deletions, (\E u \in Uploads : PurgeThumb(d, u)) \/ PurgeCount(d)
         PROVE  EveryFileAccounted'
    BY <2>11, StaysAccounted DEF PurgeThumb, PurgeCount, InFlight
  <2>12. ASSUME NEW d \in Deletions, PurgeKeep(d) \/ PurgeUnlink(d) PROVE EveryFileAccounted'
    <3> DEFINE u == cur[d]
    <3>1. u \in todo[d] /\ u \in Uploads /\ Rooted(path[u], u)
      BY <2>12 DEF PurgeKeep, PurgeUnlink, PathInv
    <3>2. /\ UNCHANGED <<row, path, stored, pc>>
          /\ \A e \in Deletions : \A v \in todo[e] : v # u \/ e # d => v \in todo'[e]
          /\ files' \subseteq files
      BY <2>12 DEF PurgeKeep, PurgeUnlink, GoOn, Rest
    <3>3. path[u] \notin files' \/ \E r \in Uploads : row[r] = "live" /\ path[r] = path[u]
      <4>1. CASE PurgeUnlink(d)
        BY <4>1 DEF PurgeUnlink
      <4>2. CASE path[u] \notin files
        BY <3>2, <4>2
      <4>3. ASSUME NEW r \in RowsWith(content[u]) PROVE r \in Uploads /\ row[r] = "live" /\ path[r] = path[u]
        <5>1. r \in Uploads /\ row[r] = "live" /\ content[r] = content[u]
          BY <4>3 DEF RowsWith
        <5>2. Rooted(path[r], r)
          BY <5>1 DEF PathInv
        <5>3. QED
          BY <3>1, <5>1, <5>2, OnePath
      <4>4. QED
        BY <2>12, <4>1, <4>2, <4>3 DEF PurgeKeep, Referenced
    <3> HIDE DEF u
    <3>4. QED
      <4> SUFFICES ASSUME NEW p \in files' PROVE Accounted(p)'
        BY <3>2, EachAccounted
      <4>1. ASSUME NEW r \in Uploads, row[r] = "live", path[r] = p PROVE Accounted(p)'
        BY <4>1, <3>2 DEF Accounted
      <4>2. ASSUME NEW v \in Uploads, InFlight(v), stored[v] = p PROVE Accounted(p)'
        BY <4>2, <3>2 DEF Accounted, InFlight
      <4>3. ASSUME NEW e \in Deletions, NEW v \in todo[e], path[v] = p PROVE Accounted(p)'
        BY <4>3, <3>2, <3>3 DEF Accounted
      <4>4. QED
        BY <3>2, <4>1, <4>2, <4>3, EachAccounted DEF Accounted
  <2>13. ASSUME NEW d \in Deletions, NEW m \in Moments, NEW rows \in SUBSET Uploads, ReadMedia(d, m, rows)
         PROVE  EveryFileAccounted'
    <3>1. \A e \in Deletions : todo[e] \subseteq todo'[e]
      BY <2>13 DEF ReadMedia, Read
    <3>2. QED
      BY <2>13, <3>1, StaysAccounted DEF ReadMedia, Read, InFlight
  <2>14. ASSUME NEW m \in Moments PROVE /\ ~\E d \in Deletions : ReadMoment(d, m)
                                        /\ ~PruneRead(m) /\ ~PruneDelete(m)
    BY DEF ReadMoment, PruneRead, PruneDelete
  <2>15. CASE UNCHANGED vars
    BY <2>15, StaysAccounted DEF vars, InFlight
  <2>16. QED
    BY <2>1, <2>2, <2>3, <2>4, <2>5, <2>6, <2>7, <2>8, <2>9, <2>10, <2>11, <2>12, <2>13, <2>14,
       <2>15 DEF Next, UploadStep, DeleteStep
<1>3. QED
  <2>1. "db_error" \notin Events /\ Events \cap {"delete_moment", "prune"} = {}
    OBVIOUS
  <2>2. Spec => [](PathInv /\ KeptInv /\ ClaimInv)
    BY <2>1, FilesKept
  <2>3. Spec => []MomentsStay
    BY <2>1, MomentsKept
  <2>4. QED
    BY <1>1, <1>2, <2>2, <2>3, TypeCorrect, PTL DEF Spec

================================================================================
