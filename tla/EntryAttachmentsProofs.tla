------------------------- MODULE EntryAttachmentsProofs -------------------------
(***************************************************************************)
(* Proofs about EntryAttachments, for any number of files, contents and     *)
(* Moments.                                                                 *)
(***************************************************************************)
EXTENDS EntryAttachments, TLAPS

USE AttachAssumption

Stages == {"idle", "ensuring", "placed", "failed", "unwanted", "done"} \union Uploading
Marks == {"none", "placeholder", "media"}
FileRecords == [stage : Stages, target : Identities, mark : Marks]
DraftRecords == [made : Identities, ensure : {"none", "sent", "made"}, id : Identities,
                 discard : {"no", "keep", "drop"}]
SaveRecords == [stage : {"none", "sent", "applied", "adopted"}, target : Identities,
                text : SUBSET Files, late : SUBSET Files, beside : BOOLEAN]
States == {"unused", "draft", "saved", "kept", "deleted"}

-----------------------------------------------------------------------------
(* The helpers. *)

LEMMA SomeMoments ==
    Opened \in Moments /\ Opened # None /\ Made \subseteq Moments /\ None \notin Made
    /\ Opened \notin Made /\ Moments \subseteq Identities /\ None \in Identities
    /\ \A m \in Identities : m # None => m \in Moments
  BY DEF Opened, Made, Moments, Identities

LEMMA FreshIsUnused ==
    ASSUME HasFresh
    PROVE  Fresh \in Made /\ moments[Fresh] = "unused"
  BY DEF HasFresh, Fresh

LEMMA IdentityType ==
    ASSUME moment \in {Opened, None}, draft \in DraftRecords
    PROVE  Identity \in Identities
  BY SomeMoments DEF Identity, DraftRecords

(* A torn-down form: the marks are gone, and so are the uploads that have a handle. *)
LEMMA TornDownType ==
    ASSUME file \in [Files -> FileRecords]
    PROVE  /\ TornDown \in [Files -> FileRecords]
           /\ \A f \in Files : /\ TornDown[f].mark = "none"
                               /\ TornDown[f].target = file[f].target
                               /\ TornDown[f].stage = Aborted(file[f].stage)
<1> SUFFICES ASSUME NEW f \in Files
             PROVE  /\ [file[f] EXCEPT !.stage = Aborted(@), !.mark = "none"] \in FileRecords
                    /\ TornDown[f].mark = "none"
                    /\ TornDown[f].target = file[f].target
                    /\ TornDown[f].stage = Aborted(file[f].stage)
  BY DEF TornDown
<1>1. file[f].stage \in Stages /\ file[f] \in FileRecords
  BY DEF FileRecords
<1>2. Aborted(file[f].stage) \in Stages /\ "none" \in Marks
  BY <1>1 DEF Aborted, Stages, Marks
<1>3. PICK s \in Stages : s = Aborted(file[f].stage)
  BY <1>2
<1>4. PICK q : q = [file[f] EXCEPT !.stage = s, !.mark = "none"]
  OBVIOUS
<1>5. q \in FileRecords /\ q.mark = "none" /\ q.target = file[f].target /\ q.stage = s
  BY <1>1, <1>2, <1>4 DEF FileRecords
<1>6. q = TornDown[f] /\ q = [file[f] EXCEPT !.stage = Aborted(@), !.mark = "none"]
  BY <1>3, <1>4 DEF TornDown
<1>7. QED
  BY <1>3, <1>5, <1>6

LEMMA BegunType ==
    ASSUME file \in [Files -> FileRecords], NEW f \in Files, NEW m \in Moments
    PROVE  /\ Begun(f, m) \in FileRecords
           /\ Begun(f, m).stage = "queued" /\ Begun(f, m).target = m
           /\ Begun(f, m).mark = IF Writing /\ file[f].target = None THEN "placeholder"
                                 ELSE file[f].mark
  BY SomeMoments DEF Begun, FileRecords, Stages, Marks, Uploading

LEMMA ResumedType ==
    ASSUME file \in [Files -> FileRecords], NEW m \in Moments
    PROVE  /\ Resumed(m) \in [Files -> FileRecords]
           /\ \A f \in Files : Resumed(m)[f] = IF file[f].stage = "ensuring" THEN Begun(f, m)
                                               ELSE file[f]
  BY BegunType DEF Resumed, Waiting

LEMMA CleanedUpType ==
    ASSUME moments \in [Moments -> States], NEW m \in Moments, NEW keep \in BOOLEAN
    PROVE  /\ CleanedUp(m, keep) \in [Moments -> States]
           /\ \A n \in Moments \ {m} : CleanedUp(m, keep)[n] = moments[n]
           /\ CleanedUp(m, keep)[m] = IF moments[m] \notin {"draft", "saved"} THEN moments[m]
                                      ELSE IF keep THEN "kept" ELSE "deleted"
  BY DEF CleanedUp, States

LEMMA CleansUpType ==
    ASSUME moments \in [Moments -> States], lost \subseteq Moments, NEW m \in Moments,
           NEW keep \in BOOLEAN, CleansUp(m, keep)
    PROVE  /\ moments' \in [Moments -> States] /\ lost' \subseteq Moments
           /\ \A n \in Moments \ {m} : moments'[n] = moments[n]
           /\ moments'[m] # moments[m] => /\ moments[m] \in {"draft", "saved"}
                                         /\ moments'[m] = IF keep THEN "kept" ELSE "deleted"
           /\ lost \subseteq lost'
           /\ moments'[m] = "draft" => m \in lost'
<1>1. CASE moments' = CleanedUp(m, keep) /\ UNCHANGED lost
  BY <1>1, CleanedUpType
<1>2. CASE lost' = lost \union {m} /\ UNCHANGED moments
  BY <1>2
<1>3. QED
  BY <1>1, <1>2 DEF CleansUp

-----------------------------------------------------------------------------
(* The inductive invariant. *)

Types ==
    /\ moment \in {Opened, None} /\ moments \in [Moments -> States]
    /\ rows \subseteq Moments \X Contents
    /\ page \in {"open", "left", "cancelled", "saved"}
    /\ draft \in DraftRecords /\ file \in [Files -> FileRecords] /\ kept \in BOOLEAN
    /\ save \in SaveRecords /\ removed \in [Files -> {"no", "out", "back"}]
    /\ attached \subseteq Moments \X Contents /\ shared \subseteq Moments \X Contents
    /\ lost \subseteq Moments /\ missed \subseteq Files

Waits(f) == file[f].stage \in {"idle", "ensuring"} /\ file[f].target = None

(* An attachment: what its stage says of its mark, its Moment and the writer's hand. *)
FileInv(f) ==
    /\ file[f].stage = "idle" => file[f].target = None
    /\ Waits(f) => file[f].mark = "none" /\ removed[f] = "no" /\ f \notin missed
    /\ ~Waits(f) => file[f].target # None /\ moments[file[f].target] # "unused"
                    /\ file[f].target # draft.id
    /\ file[f].mark = "media" => file[f].stage = "placed" /\ f \notin missed
    /\ f \in missed /\ file[f].stage # "placed" => file[f].mark = "none"
    /\ removed[f] = "out" => \/ file[f].mark = "none"
                             \/ file[f].mark = "placeholder" /\ file[f].stage \in {"placed", "done"}

(* While the editor is open every attachment is in the text unless it was taken out *)
(* or the text was locked.                                                          *)
TextInv(f) ==
    page = "open" /\ removed[f] = "no" /\ f \notin missed =>
        /\ file[f].stage \in Uploading \union {"failed"} => file[f].mark = "placeholder"
        /\ file[f].stage = "ensuring" /\ ~Waits(f) => file[f].mark = "placeholder"
        /\ file[f].stage = "placed" => file[f].mark = "media"
        /\ file[f].stage \notin {"unwanted", "done"}

(* The draft Moment and the one being made. *)
DraftInv ==
    /\ draft.ensure = "made" <=> draft.id # None
    /\ draft.made # None => draft.made \in Made /\ moments[draft.made] # "unused"
    /\ draft.id # None => draft.id \in Made /\ moments[draft.id] # "unused"
    /\ draft.ensure # "none" => draft.made = None /\ moment = None
    /\ draft.made # None => moment = None /\ page # "cancelled"
    /\ draft.discard # "no" => page = "cancelled"
    /\ page = "cancelled" /\ draft.ensure # "none" => draft.discard # "no"
    /\ moment = Opened => moments[Opened] # "unused"
    /\ page = "open" => \A m \in Moments : moments[m] # "deleted"
    /\ NoStrayDraft

(* The save. *)
SaveInv ==
    /\ save.stage # "none" => page \in {"open", "left"}
    /\ save.stage \in {"applied", "adopted"} =>
           save.target # None /\ moments[save.target] = "saved"
    /\ page = "saved" => Alive(save.target)
    /\ save.stage \in {"sent", "applied"} => draft.made \in {save.target, None} \/ save.beside
    /\ save.stage = "adopted" \/ page = "saved" => draft.made = None \/ save.beside
    /\ save.stage # "none" \/ page = "saved" => draft.ensure = "none" \/ save.beside

(* Nothing chosen before the save escapes it. *)
CoverInv ==
    save.stage # "none" \/ page = "saved" => \A f \in Files :
        file[f].stage \in {"idle", "failed"} \/ removed[f] # "no"
            \/ f \in save.text \union save.late \union missed

Answered(f) == file[f].stage \in {"stored", "placed", "unwanted"}

(* The rows on the server and the uploads they answered. *)
RowInv ==
    /\ \A r \in rows : moments[r[1]] # "deleted"
    /\ \A f, g \in Files : f # g /\ Answered(f) /\ Answered(g) /\ Row(f) = Row(g) => Row(f) \in shared
    /\ \A f \in Files : Answered(f) =>
          Row(f) \in rows \union shared \/ moments[file[f].target] = "deleted"
    /\ \A r \in attached : \E f \in Files : file[f].stage = "placed" /\ Row(f) = r
    /\ page = "open" /\ save.stage # "adopted" /\ attached # {} => kept
    /\ AttachedIsStored

Inv == /\ Types /\ DraftInv /\ SaveInv /\ CoverInv /\ RowInv
       /\ \A f \in Files : FileInv(f) /\ TextInv(f)

LEMMA InvTypes == Inv => TypeOK
  BY DEF Inv, Types, TypeOK, FileInv, Waits, FileRecords, DraftRecords, SaveRecords, States, Stages,
         Marks, Uploading

LEMMA InvStarts == Init => Inv
<1> SUFFICES ASSUME Init PROVE Inv
  OBVIOUS
<1>1. \A f \in Files : file[f] = Idle
  BY DEF Init
<1>2. Idle \in FileRecords /\ Idle.stage = "idle" /\ Idle.mark = "none" /\ Idle.target = None
  BY SomeMoments DEF Idle, FileRecords, Stages, Marks
<1>3. Types
  BY <1>2, SomeMoments DEF Init, Types, DraftRecords, SaveRecords, States
<1>4. \A f \in Files : FileInv(f) /\ TextInv(f)
  BY <1>1, <1>2 DEF Init, FileInv, TextInv, Waits, Uploading
<1>5. DraftInv /\ SaveInv /\ CoverInv
  BY SomeMoments DEF Init, DraftInv, NoStrayDraft, SaveInv, CoverInv
<1>6. RowInv
  BY <1>1, <1>2, SomeMoments DEF Init, RowInv, Answered, AttachedIsStored
<1>7. QED
  BY <1>3, <1>4, <1>5, <1>6 DEF Inv

(* A step that leaves the attachments alone keeps what is said of each, as long *)
(* as no Moment becomes unused and the one being made is a new one.             *)
LEMMA SameFiles ==
    ASSUME Inv, Types', UNCHANGED <<file, removed, missed, page>>,
           \A m \in Moments : moments[m] # "unused" => moments'[m] # "unused",
           draft'.id \in {draft.id, None} \/ moments[draft'.id] = "unused"
    PROVE  \A f \in Files : FileInv(f)' /\ TextInv(f)'
<1> SUFFICES ASSUME NEW f \in Files PROVE FileInv(f)' /\ TextInv(f)'
  OBVIOUS
<1>1. FileInv(f) /\ TextInv(f) /\ file[f].target \in Identities
  BY DEF Inv, Types, FileRecords
<1>2. QED
  BY <1>1, SomeMoments DEF FileInv, TextInv, Waits

-----------------------------------------------------------------------------
(* Steps of one attachment. *)

(* The save under way goes on; it may have learned of something beside it. *)
SaveGoesOn ==
    /\ save' \in SaveRecords /\ save'.stage = save.stage /\ save'.target = save.target
    /\ save'.text = save.text /\ save.late \subseteq save'.late /\ (save.beside => save'.beside)

OnlyFile(f) ==
    /\ f \in Files /\ UNCHANGED <<moment, moments, page, lost>> /\ SaveGoesOn
    /\ file' \in [Files -> FileRecords]
    /\ removed' \in [Files -> {"no", "out", "back"}]
    /\ missed' \subseteq Files /\ missed \subseteq missed'
    /\ \A g \in Files \ {f} : file'[g] = file[g] /\ removed'[g] = removed[g]
    /\ \A g \in Files \ {f} : g \in missed' <=> g \in missed

LEMMA SaveUnchanged ==
    ASSUME Types, UNCHANGED save
    PROVE  SaveGoesOn
  BY DEF Types, SaveGoesOn

LEMMA OthersKeep ==
    ASSUME Inv, NEW f, OnlyFile(f), draft'.id = draft.id, FileInv(f)', TextInv(f)'
    PROVE  \A g \in Files : FileInv(g)' /\ TextInv(g)'
<1> SUFFICES ASSUME NEW g \in Files \ {f} PROVE FileInv(g)' /\ TextInv(g)'
  BY DEF OnlyFile
<1>1. /\ file'[g] = file[g] /\ removed'[g] = removed[g] /\ UNCHANGED <<moments, page>>
      /\ g \in missed' <=> g \in missed
  BY DEF OnlyFile
<1>2. FileInv(g) /\ TextInv(g)
  BY DEF Inv
<1>3. QED
  BY <1>1, <1>2 DEF FileInv, TextInv, Waits

LEMMA SameDraft ==
    ASSUME Inv, NEW f, OnlyFile(f), UNCHANGED draft
    PROVE  DraftInv' /\ SaveInv'
<1>1. UNCHANGED <<moment, moments, page, lost, draft>> /\ SaveGoesOn
  BY DEF OnlyFile
<1>2. DraftInv'
  BY <1>1 DEF Inv, DraftInv, NoStrayDraft, SaveGoesOn
<1>3. SaveInv'
  BY <1>1 DEF Inv, SaveInv, Alive, SaveGoesOn
<1>4. QED
  BY <1>2, <1>3

LEMMA SameCover ==
    ASSUME Inv, NEW f, OnlyFile(f),
           \/ file[f].stage \notin {"idle", "failed"} /\ (removed[f] # "no" => removed'[f] # "no")
           \/ file'[f].stage \in {"idle", "failed"}
           \/ removed'[f] # "no"
           \/ save.stage = "none" /\ page = "open"
           \/ f \in save'.late
    PROVE  CoverInv'
  BY DEF Inv, CoverInv, OnlyFile, SaveGoesOn

LEMMA SameRows ==
    ASSUME Inv, NEW f, OnlyFile(f), UNCHANGED <<rows, attached, shared, kept>>,
           file'[f].stage \in {"stored", "placed", "unwanted"} =>
               Answered(f) /\ file'[f].target = file[f].target,
           file[f].stage = "placed" =>
               file'[f].stage = "placed" /\ file'[f].target = file[f].target
    PROVE  RowInv'
<1>1. \A g \in Files : Answered(g)' => Answered(g) /\ Row(g)' = Row(g) /\ file'[g].target = file[g].target
  BY DEF OnlyFile, Answered, Row
<1>2. \A g \in Files : file[g].stage = "placed" => file'[g].stage = "placed" /\ Row(g)' = Row(g)
  BY DEF OnlyFile, Row
<1>3. UNCHANGED <<moments, page>> /\ save'.stage = save.stage
  BY DEF OnlyFile, SaveGoesOn
<1>4. QED
  BY <1>1, <1>2, <1>3 DEF Inv, RowInv, AttachedIsStored

(* Steps of one upload that change nothing but its stage. *)
LEMMA StageSteps ==
    ASSUME Inv, NEW f \in Files, Start(f) \/ UploadFails(f)
    PROVE  Inv'
<1> USE DEF history
<1>1. FileInv(f) /\ TextInv(f) /\ Types /\ file[f] \in FileRecords
  BY DEF Inv, Types
<1>2. UNCHANGED <<moment, moments, rows, page, draft, kept, save, removed, attached, shared, lost, missed>>
  BY DEF Start, UploadFails
<1>3. PICK s \in {"uploading", "failed"} : file' = [file EXCEPT ![f].stage = s]
  BY DEF Start, UploadFails
<1>4. /\ file' \in [Files -> FileRecords] /\ file'[f].stage = s /\ file'[f].target = file[f].target
      /\ file'[f].mark = file[f].mark
  BY <1>1, <1>3 DEF Types, FileRecords, Stages, Uploading
<1>5. OnlyFile(f)
  BY <1>1, <1>2, <1>3, <1>4, SaveUnchanged DEF OnlyFile, Types
<1>6. file[f].stage \in Uploading
  BY DEF Start, UploadFails, Uploading
<1>7. FileInv(f)' /\ TextInv(f)'
  BY <1>1, <1>2, <1>4, <1>6 DEF FileInv, TextInv, Waits, Uploading
<1>8. DraftInv' /\ SaveInv' /\ CoverInv' /\ RowInv'
  BY <1>2, <1>4, <1>5, <1>6, SameDraft, SameCover, SameRows DEF Uploading, Answered
<1>9. Types'
  BY <1>1, <1>2, <1>4 DEF Types
<1>10. QED
  BY <1>2, <1>5, <1>7, <1>8, <1>9, OthersKeep DEF Inv

(* ensure() is called: the Moment is being made, for one caller or for several. *)
LEMMA EnsuringType ==
    ASSUME Types, DraftInv, NeedsMoment
    PROVE  /\ Ensuring \in DraftRecords /\ Ensuring.id = draft.id /\ Ensuring.made = draft.made
           /\ Ensuring.discard = draft.discard /\ Ensuring.ensure # "none"
           /\ Ensuring.ensure = "made" <=> draft.ensure = "made"
           /\ draft.made = None /\ moment = None
<1>1. draft \in DraftRecords
  BY DEF Types
<1>2. draft.made = None /\ moment = None
  BY SomeMoments DEF NeedsMoment, Identity, Types
<1>3. CASE draft.ensure # "none"
  BY <1>1, <1>2, <1>3 DEF Ensuring, StartsEnsure
<1>4. CASE draft.ensure = "none"
  <2>1. Ensuring = [draft EXCEPT !.ensure = "sent", !.id = None] /\ draft.id = None
    BY <1>4 DEF Ensuring, StartsEnsure, DraftInv
  <2>2. QED
    BY <1>1, <1>2, <1>4, <2>1, SomeMoments DEF DraftRecords
<1>5. QED
  BY <1>3, <1>4

LEMMA BesideSaveType ==
    ASSUME Types, NEW fs \in SUBSET Files, NEW asks \in BOOLEAN, BesideSave(fs, asks)
    PROVE  /\ SaveGoesOn
           /\ save.stage # "none" => save'.late = save.late \union fs /\ save'.beside = (save.beside \/ asks)
<1>1. save \in SaveRecords
  BY DEF Types
<1>2. CASE save.stage = "none"
  BY <1>1, <1>2 DEF BesideSave, SaveGoesOn
<1>3. CASE save.stage # "none"
  <2>1. save' = [save EXCEPT !.late = save.late \union fs, !.beside = save.beside \/ asks]
    BY <1>3 DEF BesideSave
  <2>2. save.late \union fs \in SUBSET Files /\ (save.beside \/ asks) \in BOOLEAN
    BY <1>1 DEF SaveRecords
  <2>3. QED
    BY <1>1, <2>1, <2>2 DEF SaveGoesOn, SaveRecords
<1>4. QED
  BY <1>2, <1>3

LEMMA EnsureMomentIdStep ==
    ASSUME Inv, EnsureMomentId
    PROVE  Inv'
<1> USE DEF history
<1>1. Types /\ DraftInv /\ SaveInv /\ CoverInv /\ RowInv
  BY DEF Inv
<1>2. /\ UNCHANGED <<moment, moments, rows, page, file, kept, removed, attached, shared, lost, missed>>
      /\ page = "open" /\ NeedsMoment /\ draft' = Ensuring /\ BesideSave({}, TRUE)
  BY DEF EnsureMomentId
<1>3. /\ draft' \in DraftRecords /\ draft'.id = draft.id /\ draft'.made = draft.made
      /\ draft'.discard = draft.discard /\ draft'.ensure # "none"
      /\ draft'.ensure = "made" <=> draft.ensure = "made"
      /\ draft.made = None /\ moment = None
  BY <1>1, <1>2, EnsuringType
<1>4. SaveGoesOn /\ (save.stage # "none" => save'.beside)
  BY <1>1, <1>2, BesideSaveType
<1>5. Types'
  BY <1>1, <1>2, <1>3, <1>4 DEF Types, SaveGoesOn
<1>6. \A f \in Files : FileInv(f)' /\ TextInv(f)'
  BY <1>2, <1>3, <1>5, SameFiles
<1>7. DraftInv'
  BY <1>1, <1>2, <1>3, <1>4 DEF DraftInv, NoStrayDraft, SaveGoesOn
<1>8. SaveInv'
  BY <1>1, <1>2, <1>3, <1>4 DEF SaveInv, SaveGoesOn, Alive
<1>9. CoverInv'
  BY <1>1, <1>2, <1>4 DEF CoverInv, SaveGoesOn
<1>10. RowInv'
  BY <1>1, <1>2, <1>4 DEF RowInv, Answered, Row, AttachedIsStored, SaveGoesOn
<1>11. QED
  BY <1>5, <1>6, <1>7, <1>8, <1>9, <1>10 DEF Inv

(* An attachment is chosen or tried again. *)
LEMMA BeginsStep ==
    ASSUME Inv, NEW f \in Files, Attach(f) \/ Retry(f)
    PROVE  Inv'
<1>1. FileInv(f) /\ TextInv(f) /\ Types /\ file[f] \in FileRecords /\ DraftInv /\ SaveInv
  BY DEF Inv, Types
<1>2. /\ UNCHANGED <<moment, moments, rows, page, kept, removed, attached, shared, lost>>
      /\ file[f].stage \in {"idle", "failed"} /\ page = "open" /\ BesideSave({f}, NeedsMoment)
  BY DEF Attach, Retry, Begins
<1>3. /\ SaveGoesOn
      /\ save.stage # "none" => f \in save'.late /\ (NeedsMoment => save'.beside)
  BY <1>1, <1>2, BesideSaveType DEF NeedsMoment
<1>4. CASE NeedsMoment
  <2>1. file' = [file EXCEPT ![f].stage = "ensuring"] /\ draft' = Ensuring /\ UNCHANGED missed
    BY <1>4 DEF Attach, Retry, Begins
  <2>2. /\ file' \in [Files -> FileRecords] /\ file'[f].stage = "ensuring"
        /\ file'[f].mark = file[f].mark /\ file'[f].target = file[f].target
        /\ \A g \in Files \ {f} : file'[g] = file[g]
    BY <1>1, <2>1 DEF Types, FileRecords, Stages
  <2>3. /\ draft' \in DraftRecords /\ draft'.id = draft.id /\ draft'.made = draft.made
        /\ draft'.discard = draft.discard /\ draft'.ensure # "none"
        /\ draft'.ensure = "made" <=> draft.ensure = "made"
        /\ draft.made = None /\ moment = None
    BY <1>1, <1>4, <2>1, EnsuringType
  <2>4. OnlyFile(f)
    BY <1>1, <1>2, <1>3, <2>1, <2>2 DEF OnlyFile, Types
  <2>5. FileInv(f)' /\ TextInv(f)'
    BY <1>1, <1>2, <2>1, <2>2, <2>3 DEF FileInv, TextInv, Waits, Uploading
  <2>6. DraftInv'
    BY <1>1, <1>2, <1>3, <2>3 DEF DraftInv, NoStrayDraft, SaveGoesOn
  <2>7. SaveInv'
    BY <1>1, <1>2, <1>3, <1>4, <2>3 DEF SaveInv, SaveGoesOn, Alive
  <2>8. CoverInv' /\ RowInv'
    <3>1. \/ f \in save'.late
          \/ save.stage = "none" /\ page = "open"
      BY <1>2, <1>3
    <3>2. CoverInv'
      BY <2>4, <3>1, SameCover
    <3>3. RowInv'
      BY <1>2, <2>2, <2>4, SameRows
    <3>4. QED
      BY <3>2, <3>3
  <2>9. Types'
    BY <1>1, <1>2, <1>3, <2>1, <2>2, <2>3 DEF Types, SaveGoesOn
  <2>10. QED
    BY <2>3, <2>4, <2>5, <2>6, <2>7, <2>8, <2>9, OthersKeep DEF Inv
<1>5. CASE ~NeedsMoment
  <2>1. Identity \in Moments /\ Identity # None /\ moments[Identity] # "unused" /\ Identity # draft.id
    BY <1>1, <1>5, SomeMoments DEF NeedsMoment, Identity, Types, DraftInv, DraftRecords
  <2>2. file' = [file EXCEPT ![f] = Begun(f, Identity)] /\ Misses({f}) /\ UNCHANGED draft
    BY <1>5 DEF Attach, Retry, Begins
  <2>3. PICK m \in Moments : m = Identity
    BY <2>1
  <2>4. PICK b \in FileRecords :
           /\ b = Begun(f, m) /\ b.stage = "queued" /\ b.target = m
           /\ b.mark = IF Writing /\ file[f].target = None THEN "placeholder" ELSE file[f].mark
    BY <1>1, BegunType DEF Types
  <2>5. file' \in [Files -> FileRecords] /\ file'[f] = b /\ \A g \in Files \ {f} : file'[g] = file[g]
    BY <1>1, <2>2, <2>3, <2>4 DEF Types
  <2>6. /\ missed' \subseteq Files /\ missed \subseteq missed'
        /\ \A g \in Files \ {f} : g \in missed' <=> g \in missed
        /\ f \in missed' <=> f \in missed \/ (file[f].target = None /\ ~Writing)
    BY <1>1, <1>2, <2>2 DEF Misses, Types
  <2>7. OnlyFile(f)
    BY <1>1, <1>2, <1>3, <2>5, <2>6 DEF OnlyFile, Types
  <2>8. FileInv(f)' /\ TextInv(f)'
    <3>1. UNCHANGED <<page, moments, removed, draft>> /\ m # None /\ moments[m] # "unused" /\ m # draft.id
      BY <1>2, <2>1, <2>2, <2>3
    <3>2. CASE file[f].target = None
      <4>1. Waits(f)
        BY <1>1, <3>2 DEF FileInv
      <4>2. QED
        BY <1>1, <2>4, <2>5, <2>6, <3>1, <3>2, <4>1 DEF FileInv, TextInv, Waits, Uploading
    <3>3. CASE file[f].target # None
      <4>1. file[f].stage = "failed" /\ ~Waits(f)
        BY <1>1, <1>2, <3>3 DEF FileInv, Waits
      <4>2. b.mark = file[f].mark /\ (f \in missed' <=> f \in missed)
        BY <2>4, <2>6, <3>3
      <4>3. FileInv(f)'
        BY <1>1, <2>4, <2>5, <3>1, <4>1, <4>2 DEF FileInv, Waits
      <4>4. TextInv(f)'
        BY <1>1, <2>4, <2>5, <3>1, <4>1, <4>2 DEF TextInv, Waits, Uploading
      <4>5. QED
        BY <4>3, <4>4
    <3>4. QED
      BY <3>2, <3>3
  <2>9. DraftInv' /\ SaveInv'
    BY <2>2, <2>7, SameDraft
  <2>10. CoverInv'
    <3>1. \/ f \in save'.late
          \/ save.stage = "none" /\ page = "open"
      BY <1>2, <1>3
    <3>2. QED
      BY <2>7, <3>1, SameCover
  <2>11. RowInv'
    BY <1>2, <2>4, <2>5, <2>7, SameRows
  <2>12. Types'
    BY <1>1, <1>2, <1>3, <2>2, <2>5, <2>6 DEF Types, SaveGoesOn
  <2>13. QED
    BY <2>2, <2>7, <2>8, <2>9, <2>10, <2>11, <2>12, OthersKeep DEF Inv
<1>6. QED
  BY <1>4, <1>5

LEMMA UploadReachesStep ==
    ASSUME Inv, NEW f \in Files, UploadReaches(f)
    PROVE  Inv'
<1>1. /\ FileInv(f) /\ TextInv(f) /\ Types /\ file[f] \in FileRecords /\ RowInv
      /\ file[f].target \in Moments
  BY SomeMoments DEF Inv, Types, FileRecords, UploadReaches, Alive
<1>2. /\ UNCHANGED <<moment, moments, page, draft, kept, save, removed, attached, lost, missed>>
      /\ file[f].stage = "uploading" /\ moments[file[f].target] # "deleted"
  BY DEF UploadReaches, Alive
<1>3. /\ file' \in [Files -> FileRecords] /\ file'[f].stage = "stored"
      /\ file'[f].target = file[f].target /\ file'[f].mark = file[f].mark
      /\ \A g \in Files \ {f} : file'[g] = file[g]
  BY <1>1 DEF UploadReaches, Types, FileRecords, Stages, Uploading
<1>4. OnlyFile(f)
  BY <1>1, <1>2, <1>3, SaveUnchanged DEF OnlyFile, Types
<1>5. FileInv(f)' /\ TextInv(f)'
  BY <1>1, <1>2, <1>3 DEF FileInv, TextInv, Waits, Uploading
<1>6. DraftInv' /\ SaveInv' /\ CoverInv'
  BY <1>2, <1>3, <1>4, SameDraft, SameCover
<1>7. Row(f) \in Moments \X Contents /\ \A g \in Files : Row(g)' = Row(g)
  BY <1>1, <1>3 DEF Row, Types
<1>8. rows' = rows \union {Row(f)} /\ shared \subseteq shared'
      /\ (Row(f) \in rows => Row(f) \in shared') /\ shared' \subseteq shared \union {Row(f)}
  BY DEF UploadReaches
<1>9. RowInv'
  <2>1. \A r \in rows' : moments'[r[1]] # "deleted"
    BY <1>1, <1>2, <1>8 DEF RowInv, Row
  <2>2. ASSUME NEW g \in Files \ {f}, Answered(g), Row(g) = Row(f)
        PROVE  Row(f) \in shared'
    <3>1. file[g].target = file[f].target
      BY <2>2 DEF Row
    <3>2. Row(g) \in rows \union shared
      BY <1>1, <1>2, <2>2, <3>1 DEF RowInv
    <3>3. QED
      BY <1>8, <2>2, <3>2
  <2>3. \A g \in Files \ {f} : Answered(g)' <=> Answered(g)
    BY <1>3 DEF Answered
  <2>4. \A g, h \in Files : g # h /\ Answered(g)' /\ Answered(h)' /\ Row(g)' = Row(h)' => Row(g)' \in shared'
    BY <1>1, <1>7, <1>8, <2>2, <2>3 DEF RowInv
  <2>5. \A g \in Files : Answered(g)' =>
            Row(g)' \in rows' \union shared' \/ moments'[file'[g].target] = "deleted"
    BY <1>1, <1>2, <1>3, <1>7, <1>8, <2>3 DEF RowInv
  <2>6. \A r \in attached' : \E g \in Files : file'[g].stage = "placed" /\ Row(g)' = r
    BY <1>1, <1>2, <1>3, <1>7 DEF RowInv
  <2>7. AttachedIsStored'
    BY <1>1, <1>2, <1>8 DEF RowInv, AttachedIsStored
  <2>8. QED
    BY <1>1, <1>2, <2>1, <2>4, <2>5, <2>6, <2>7 DEF RowInv
<1>10. Types'
  BY <1>1, <1>2, <1>3, <1>7, <1>8 DEF Types
<1>11. QED
  BY <1>2, <1>4, <1>5, <1>6, <1>9, <1>10, OthersKeep DEF Inv

LEMMA UploadAnsweredStep ==
    ASSUME Inv, NEW f \in Files, UploadAnswered(f)
    PROVE  Inv'
<1>1. /\ FileInv(f) /\ TextInv(f) /\ Types /\ file[f] \in FileRecords /\ RowInv /\ DraftInv
      /\ file[f].target \in Moments
  BY SomeMoments DEF Inv, Types, FileRecords, UploadAnswered, FileInv, Waits
<1>2. /\ UNCHANGED <<moment, moments, rows, page, draft, save, removed, shared, lost>>
      /\ file[f].stage = "stored"
  BY DEF UploadAnswered
<1>3. CASE Replaced(f)
  <2> DEFINE mk == IF Writing THEN "media" ELSE "placeholder"
  <2>1. file[f].mark = "placeholder" /\ page = "open" /\ kept' = TRUE
    BY <1>3 DEF UploadAnswered, Replaced
  <2>2. PICK k \in {"media", "placeholder"} : (k = "media" <=> Writing) /\ k = mk
    OBVIOUS
  <2>3. file' = [file EXCEPT ![f].stage = "placed", ![f].mark = k]
    BY <1>3, <2>1, <2>2 DEF UploadAnswered
  <2>4. /\ file' \in [Files -> FileRecords] /\ file'[f].stage = "placed"
        /\ file'[f].target = file[f].target /\ file'[f].mark = k
        /\ \A g \in Files \ {f} : file'[g] = file[g]
    BY <1>1, <2>3 DEF Types, FileRecords, Stages, Uploading, Marks
  <2>5. /\ attached' = IF k = "media" THEN attached \union {Row(f)} ELSE attached
        /\ missed' = IF k = "media" THEN missed ELSE missed \union {f}
    BY <1>3, <2>2 DEF UploadAnswered
  <2>6. f \notin missed /\ removed[f] # "out"
    BY <1>1, <1>2, <2>1 DEF FileInv
  <2>7. OnlyFile(f)
    BY <1>1, <1>2, <2>4, <2>5, SaveUnchanged DEF OnlyFile, Types
  <2>8. FileInv(f)' /\ TextInv(f)'
    <3>1. ~Waits(f)
      BY <1>2 DEF Waits
    <3>2. QED
      BY <1>1, <1>2, <2>1, <2>4, <2>5, <2>6, <3>1 DEF FileInv, TextInv, Waits, Uploading
  <2>9. DraftInv' /\ SaveInv' /\ CoverInv'
    BY <1>2, <2>4, <2>7, SameDraft, SameCover
  <2>10. \A g \in Files : /\ Row(g)' = Row(g) /\ Answered(g)' = Answered(g)
                           /\ file'[g].target = file[g].target
                           /\ (file[g].stage = "placed" => file'[g].stage = "placed")
    BY <1>2, <2>4 DEF Row, Answered
  <2>11. Row(f) \in rows \union shared /\ Row(f) \in Moments \X Contents
    BY <1>1, <1>2, <2>1 DEF RowInv, DraftInv, Answered, Row
  <2>12. RowInv'
    <3>1. \A r \in attached' : \E g \in Files : file'[g].stage = "placed" /\ Row(g)' = r
      BY <1>1, <2>4, <2>5, <2>10 DEF RowInv
    <3>2. AttachedIsStored'
      BY <1>1, <1>2, <2>5, <2>11 DEF RowInv, AttachedIsStored
    <3>3. QED
      BY <1>1, <1>2, <2>1, <2>10, <3>1, <3>2 DEF RowInv
  <2>13. Types'
    BY <1>1, <1>2, <2>1, <2>4, <2>5, <2>11 DEF Types
  <2>14. QED
    BY <1>2, <2>7, <2>8, <2>9, <2>12, <2>13, OthersKeep DEF Inv
<1>4. CASE ~Replaced(f)
  <2>1. /\ file' \in [Files -> FileRecords] /\ file'[f].stage = "unwanted"
        /\ file'[f].target = file[f].target /\ file'[f].mark = file[f].mark
        /\ \A g \in Files \ {f} : file'[g] = file[g]
    BY <1>1, <1>4 DEF UploadAnswered, Types, FileRecords, Stages
  <2>2. UNCHANGED <<kept, attached, missed>> /\ ~(page = "open" /\ file[f].mark = "placeholder")
    BY <1>4 DEF UploadAnswered, Replaced
  <2>3. OnlyFile(f)
    BY <1>1, <1>2, <2>1, <2>2, SaveUnchanged DEF OnlyFile, Types
  <2>4. FileInv(f)' /\ TextInv(f)'
    BY <1>1, <1>2, <2>1, <2>2 DEF FileInv, TextInv, Waits, Uploading
  <2>5. DraftInv' /\ SaveInv' /\ CoverInv' /\ RowInv'
    BY <1>2, <2>1, <2>2, <2>3, SameDraft, SameCover, SameRows DEF Answered
  <2>6. Types'
    BY <1>1, <1>2, <2>1, <2>2 DEF Types
  <2>7. QED
    BY <1>2, <2>3, <2>4, <2>5, <2>6, OthersKeep DEF Inv
<1>5. QED
  BY <1>3, <1>4

LEMMA DeleteReachesStep ==
    ASSUME Inv, NEW f \in Files, DeleteReaches(f)
    PROVE  Inv'
<1> USE DEF history
<1>1. FileInv(f) /\ TextInv(f) /\ Types /\ file[f] \in FileRecords /\ RowInv
  BY DEF Inv, Types
<1>2. /\ UNCHANGED <<moment, moments, page, draft, kept, save, removed, attached, shared, lost, missed>>
      /\ file[f].stage = "unwanted" /\ rows \ {Row(f)} \subseteq rows' /\ rows' \subseteq rows
  BY DEF DeleteReaches
<1>3. /\ file' \in [Files -> FileRecords] /\ file'[f].stage = "done"
      /\ file'[f].target = file[f].target /\ file'[f].mark = file[f].mark
      /\ \A g \in Files \ {f} : file'[g] = file[g]
  BY <1>1 DEF DeleteReaches, Types, FileRecords, Stages
<1>4. OnlyFile(f)
  BY <1>1, <1>2, <1>3, SaveUnchanged DEF OnlyFile, Types
<1>5. FileInv(f)' /\ TextInv(f)'
  BY <1>1, <1>2, <1>3 DEF FileInv, TextInv, Waits, Uploading
<1>6. DraftInv' /\ SaveInv' /\ CoverInv'
  BY <1>2, <1>3, <1>4, SameDraft, SameCover
<1>7. RowInv'
  <2>1. \A g \in Files : Row(g)' = Row(g) /\ (Answered(g)' => g # f /\ Answered(g))
    BY <1>3 DEF Row, Answered
  <2>2. ASSUME NEW g \in Files \ {f}, Answered(g), Row(g) = Row(f) PROVE Row(g) \in shared
    <3>1. Answered(f)
      BY <1>2 DEF Answered
    <3>2. QED
      BY <1>1, <2>2, <3>1 DEF RowInv
  <2>3. \A g \in Files : Answered(g)' =>
            Row(g)' \in rows' \union shared' \/ moments'[file'[g].target] = "deleted"
    BY <1>1, <1>2, <1>3, <2>1, <2>2 DEF RowInv
  <2>4. \A r \in attached : \E g \in Files \ {f} : file[g].stage = "placed" /\ Row(g) = r
    BY <1>1, <1>2 DEF RowInv
  <2>5. \A r \in attached : r \in rows' \union shared
    <3> SUFFICES ASSUME NEW r \in attached, r \notin shared PROVE r \in rows'
      OBVIOUS
    <3>1. PICK g \in Files \ {f} : file[g].stage = "placed" /\ Row(g) = r
      BY <2>4
    <3>2. r # Row(f)
      BY <2>2, <3>1 DEF Answered
    <3>3. QED
      BY <1>1, <1>2, <3>2 DEF RowInv, AttachedIsStored
  <2>6. \A r \in attached' : \E g \in Files : file'[g].stage = "placed" /\ Row(g)' = r
    BY <1>2, <1>3, <2>1, <2>4
  <2>7. QED
    BY <1>1, <1>2, <2>1, <2>3, <2>5, <2>6 DEF RowInv, AttachedIsStored
<1>8. Types'
  BY <1>1, <1>2, <1>3 DEF Types
<1>9. QED
  BY <1>2, <1>4, <1>5, <1>6, <1>7, <1>8, OthersKeep DEF Inv

(* The writer's hand. *)
LEMMA WriterSteps ==
    ASSUME Inv, NEW f \in Files, CancelUpload(f) \/ TakeOut(f) \/ UndoSwap(f) \/ Undo(f)
    PROVE  Inv'
<1>1. FileInv(f) /\ TextInv(f) /\ Types /\ file[f] \in FileRecords
  BY DEF Inv, Types
<1>2. UNCHANGED <<moment, moments, rows, page, draft, kept, save, attached, shared, lost, missed>>
  BY DEF CancelUpload, TakeOut, UndoSwap, Undo, Rewritten
<1>3. CASE CancelUpload(f)
  <2>1. /\ file' \in [Files -> FileRecords] /\ file'[f].stage = "done"
        /\ file'[f].target = file[f].target /\ file'[f].mark \in {"none", file[f].mark}
        /\ \A g \in Files \ {f} : file'[g] = file[g]
    BY <1>1, <1>3 DEF CancelUpload, Types, FileRecords, Stages, Marks
  <2>2. /\ file[f].stage = "failed" /\ removed' = [removed EXCEPT ![f] = "out"]
    BY <1>3 DEF CancelUpload
  <2>3. removed' \in [Files -> {"no", "out", "back"}] /\ removed'[f] = "out"
        /\ \A g \in Files \ {f} : removed'[g] = removed[g]
    BY <1>1, <2>2 DEF Types
  <2>4. OnlyFile(f)
    BY <1>1, <1>2, <2>1, <2>3, SaveUnchanged DEF OnlyFile, Types
  <2>5. FileInv(f)' /\ TextInv(f)'
    BY <1>1, <1>2, <2>1, <2>2, <2>3 DEF FileInv, TextInv, Waits, Uploading, FileRecords, Marks
  <2>6. DraftInv' /\ SaveInv' /\ CoverInv' /\ RowInv'
    BY <1>2, <2>1, <2>2, <2>3, <2>4, SameDraft, SameCover, SameRows
  <2>7. Types'
    BY <1>1, <1>2, <2>1, <2>3 DEF Types
  <2>8. QED
    BY <1>2, <2>4, <2>5, <2>6, <2>7, OthersKeep DEF Inv
<1>4. CASE TakeOut(f) \/ UndoSwap(f) \/ Undo(f)
  <2>1. PICK mk \in Marks, how \in {"out", "back"} : Rewritten(f, mk, how)
    BY <1>4 DEF TakeOut, UndoSwap, Undo, Marks
  <2>2. /\ file' \in [Files -> FileRecords] /\ file'[f].stage = file[f].stage
        /\ file'[f].target = file[f].target /\ file'[f].mark = mk
        /\ \A g \in Files \ {f} : file'[g] = file[g]
        /\ removed' \in [Files -> {"no", "out", "back"}] /\ removed'[f] = how
        /\ \A g \in Files \ {f} : removed'[g] = removed[g]
    BY <1>1, <2>1 DEF Rewritten, Types, FileRecords
  <2>3. OnlyFile(f)
    BY <1>1, <1>2, <2>2, SaveUnchanged DEF OnlyFile, Types
  <2>4. ~Waits(f)
    BY <1>1, <1>4 DEF TakeOut, UndoSwap, Undo, FileInv, Waits
  <2>5. mk = "media" => file[f].stage = "placed" /\ how = "back" /\ f \notin missed
    <3>1. CASE TakeOut(f)
      BY <1>1, <2>1, <2>2, <3>1 DEF TakeOut, Rewritten, Types, FileRecords
    <3>2. CASE UndoSwap(f)
      BY <1>1, <2>1, <2>2, <3>2 DEF UndoSwap, Rewritten, Types, FileRecords
    <3>3. CASE Undo(f)
      BY <1>1, <2>1, <2>2, <3>3 DEF Undo, Rewritten, Types, FileRecords
    <3>4. QED
      BY <1>4, <3>1, <3>2, <3>3
  <2>6. how = "out" => mk = "none" \/ (mk = "placeholder" /\ file[f].stage = "placed")
    <3>1. CASE TakeOut(f)
      BY <1>1, <2>1, <2>2, <3>1 DEF TakeOut, Rewritten, Types, FileRecords
    <3>2. CASE UndoSwap(f)
      BY <1>1, <2>1, <2>2, <3>2 DEF UndoSwap, Rewritten, Types, FileRecords, FileInv
    <3>3. CASE Undo(f)
      BY <1>1, <2>1, <2>2, <3>3 DEF Undo, Rewritten, Types, FileRecords
    <3>4. QED
      BY <1>4, <3>1, <3>2, <3>3
  <2>7. FileInv(f)' /\ TextInv(f)'
    <3>1. f \in missed /\ file[f].stage # "placed" => mk = "none"
      BY <1>1, <1>4, <2>1, <2>2 DEF TakeOut, UndoSwap, Undo, FileInv
    <3>2. QED
      BY <1>1, <1>2, <2>2, <2>4, <2>5, <2>6, <3>1 DEF FileInv, TextInv, Waits
  <2>8. DraftInv' /\ SaveInv' /\ CoverInv' /\ RowInv'
    BY <1>2, <2>2, <2>3, SameDraft, SameCover, SameRows DEF Answered
  <2>9. Types'
    BY <1>1, <1>2, <2>2 DEF Types
  <2>10. QED
    BY <1>2, <2>3, <2>7, <2>8, <2>9, OthersKeep DEF Inv
<1>5. QED
  BY <1>3, <1>4

-----------------------------------------------------------------------------
(* Steps of the page: the draft Moment, the save, and the ways off the page. *)

(* After the form is torn down nothing is in a text. *)
LEMMA NoText ==
    ASSUME Inv, file' = TornDown, UNCHANGED <<removed, missed>>, page' # "open", draft'.id = draft.id,
           \A m \in Moments : moments[m] # "unused" => moments'[m] # "unused"
    PROVE  /\ \A f \in Files : FileInv(f)' /\ TextInv(f)'
           /\ file' \in [Files -> FileRecords]
           /\ \A f \in Files : file'[f].target = file[f].target
           /\ \A f \in Files : \/ file'[f].stage = file[f].stage
                               \/ (file[f].stage \in {"uploading", "stored"} /\ file'[f].stage = "done")
<1>1. /\ file' \in [Files -> FileRecords]
      /\ \A f \in Files : /\ file'[f].mark = "none" /\ file'[f].target = file[f].target
                           /\ file'[f].stage = Aborted(file[f].stage)
  BY TornDownType DEF Inv, Types
<1>2. \A f \in Files : \/ file'[f].stage = file[f].stage
                       \/ (file[f].stage \in {"uploading", "stored"} /\ file'[f].stage = "done")
  BY <1>1 DEF Aborted
<1>3. ASSUME NEW f \in Files PROVE FileInv(f)' /\ TextInv(f)'
  <2>1. FileInv(f) /\ file[f].target \in Identities
    BY DEF Inv, Types, FileRecords
  <2>2. QED
    BY <1>1, <1>2, <2>1, SomeMoments DEF FileInv, TextInv, Waits
<1>4. QED
  BY <1>1, <1>2, <1>3

(* The rows are those of the Moments that remain. *)
LEMMA FilteredRows ==
    ASSUME Inv, UNCHANGED <<attached, shared>>, rows' = {r \in rows : moments'[r[1]] # "deleted"},
           kept' = kept \/ page' # "open", page' = "open" => page = "open",
           UNCHANGED save \/ page' # "open",
           \A m \in Moments : moments[m] = "deleted" => moments'[m] = "deleted",
           \A f \in Files : Answered(f)' => Answered(f) /\ file'[f].target = file[f].target,
           \A f \in Files : file[f].stage = "placed"
               => file'[f].stage = "placed" /\ file'[f].target = file[f].target,
           \A f \in Files : file[f].stage = "placed" /\ Row(f) \in attached
               => moments'[file[f].target] = moments[file[f].target]
                  \/ moments'[file[f].target] # "deleted"
    PROVE  RowInv'
<1>1. RowInv /\ Types
  BY DEF Inv
<1>2. \A f \in Files : Answered(f)' => Answered(f) /\ Row(f)' = Row(f)
  BY DEF Row
<1>3. \A r \in attached' : \E f \in Files : file'[f].stage = "placed" /\ Row(f)' = r
  BY <1>1 DEF RowInv, Row
<1>4. ASSUME NEW f \in Files, Answered(f)'
      PROVE  Row(f)' \in rows' \union shared' \/ moments'[file'[f].target] = "deleted"
  <2>1. Row(f) \in rows \union shared \/ moments[file[f].target] = "deleted"
    BY <1>1, <1>4 DEF RowInv
  <2>2. file[f].target \in Moments \/ Row(f) \notin rows
    BY <1>1 DEF Types, Row
  <2>3. Row(f)[1] = file[f].target /\ (Row(f) \in shared => Row(f) \in shared')
    BY DEF Row
  <2>4. CASE moments[file[f].target] = "deleted"
    <3>1. file[f].target \in Moments
      BY <1>4, SomeMoments DEF Inv, FileInv, Waits, Answered, Types, FileRecords
    <3>2. QED
      BY <1>4, <2>4, <3>1
  <2>5. CASE Row(f) \in rows \union shared
    BY <1>2, <1>4, <2>3, <2>5
  <2>6. QED
    BY <2>1, <2>4, <2>5
<1>5. ASSUME NEW r \in attached PROVE r \in rows' \union shared'
  <2>1. PICK f \in Files : file[f].stage = "placed" /\ Row(f) = r
    BY <1>1 DEF RowInv
  <2>2. r \in rows \union shared
    BY <1>1 DEF RowInv, AttachedIsStored
  <2>3. r \in rows => moments[file[f].target] # "deleted" /\ r[1] = file[f].target
    BY <1>1, <2>1 DEF RowInv, Row
  <2>4. QED
    BY <2>1, <2>2, <2>3
<1>6. QED
  BY <1>1, <1>2, <1>3, <1>4, <1>5 DEF RowInv, AttachedIsStored

LEMMA EnsureReachesStep ==
    ASSUME Inv, EnsureReaches
    PROVE  Inv'
<1> USE DEF history
<1>1. Types /\ DraftInv /\ SaveInv /\ CoverInv /\ RowInv
  BY DEF Inv
<1>2. /\ UNCHANGED <<moment, rows, page, file, kept, save, removed, attached, shared, lost, missed>>
      /\ draft.ensure = "sent" /\ HasFresh
  BY DEF EnsureReaches
<1>3. Fresh \in Made /\ Fresh \in Moments /\ moments[Fresh] = "unused"
  BY <1>2, FreshIsUnused, SomeMoments
<1>4. PICK m \in Made : m = Fresh
  BY <1>3
<1>5. moments' = [moments EXCEPT ![m] = "draft"] /\ draft' = [draft EXCEPT !.ensure = "made", !.id = m]
  BY <1>4 DEF EnsureReaches
<1>6. /\ moments' \in [Moments -> States] /\ moments'[m] = "draft" /\ m # None
      /\ \A n \in Moments \ {m} : moments'[n] = moments[n]
  BY <1>1, <1>3, <1>4, <1>5, SomeMoments DEF Types, States
<1>7. /\ draft' \in DraftRecords /\ draft'.id = m /\ draft'.ensure = "made"
      /\ draft'.made = draft.made /\ draft'.discard = draft.discard
  BY <1>1, <1>3, <1>4, <1>5, SomeMoments DEF Types, DraftRecords
<1>8. Types'
  BY <1>1, <1>2, <1>6, <1>7 DEF Types
<1>9. \A f \in Files : FileInv(f)' /\ TextInv(f)'
  BY <1>2, <1>3, <1>4, <1>6, <1>7, <1>8, SameFiles
<1>10. draft.id = None /\ draft.made = None /\ moment = None
  BY <1>1, <1>2 DEF DraftInv
<1>11. DraftInv'
  BY <1>1, <1>2, <1>4, <1>6, <1>7, <1>10, SomeMoments DEF DraftInv, NoStrayDraft
<1>12. save.target \in Identities
  BY <1>1 DEF Types, SaveRecords
<1>13. SaveInv'
  BY <1>1, <1>2, <1>3, <1>4, <1>6, <1>7, <1>12, SomeMoments DEF SaveInv, Alive
<1>14. \A f \in Files : Row(f)' = Row(f) /\ Answered(f)' = Answered(f)
  BY <1>2 DEF Row, Answered
<1>15. RowInv'
  <2>1. \A r \in rows : r[1] \in Moments
    BY <1>1 DEF Types
  <2>2. \A f \in Files : Answered(f) => file[f].target \in Moments /\ file[f].target # m
    <3>1. \A f \in Files : FileInv(f) /\ file[f].target \in Identities
      BY DEF Inv, Types, FileRecords
    <3>2. QED
      BY <1>3, <1>4, <3>1, SomeMoments DEF FileInv, Waits, Answered
  <2>3. QED
    BY <1>1, <1>2, <1>6, <1>14, <2>1, <2>2 DEF RowInv, AttachedIsStored
<1>16. CoverInv'
  BY <1>1, <1>2 DEF CoverInv
<1>17. QED
  BY <1>8, <1>9, <1>11, <1>13, <1>15, <1>16 DEF Inv

LEMMA EnsureAnsweredStep ==
    ASSUME Inv, EnsureAnswered
    PROVE  Inv'
<1>1. Types /\ DraftInv /\ SaveInv /\ CoverInv /\ RowInv
  BY DEF Inv
<1>2. /\ UNCHANGED <<moment, page, kept, save, removed, attached, shared>>
      /\ draft.ensure = "made" /\ rows' = {r \in rows : moments'[r[1]] # "deleted"}
      /\ file' = Resumed(draft.id)
  BY DEF EnsureAnswered
<1>3. PICK m \in Made : m = draft.id /\ m \in Moments /\ m # None /\ moments[m] # "unused"
  BY <1>1, <1>2, SomeMoments DEF DraftInv
<1>4. draft.made = None /\ moment = None
  BY <1>1, <1>2 DEF DraftInv
<1>5. /\ file' \in [Files -> FileRecords]
      /\ \A f \in Files : file'[f] = IF file[f].stage = "ensuring" THEN Begun(f, m) ELSE file[f]
  BY <1>1, <1>2, <1>3, ResumedType DEF Types
<1>5a. ASSUME NEW f \in Files, file[f].stage = "ensuring"
       PROVE  /\ file'[f].stage = "queued" /\ file'[f].target = m
              /\ file'[f].mark = IF Writing /\ file[f].target = None THEN "placeholder"
                                 ELSE file[f].mark
              /\ f \in missed' <=> f \in missed
                                   \/ (file[f].target = None /\ page = "open" /\ ~Writing)
  <2>1. file'[f] = Begun(f, m) /\ file \in [Files -> FileRecords]
    BY <1>1, <1>5, <1>5a DEF Types
  <2>2. f \in missed' <=> f \in missed \/ (file[f].target = None /\ page = "open" /\ ~Writing)
    BY <1>5a DEF EnsureAnswered, Misses, Waiting
  <2>3. QED
    BY <1>3, <2>1, <2>2, BegunType
<1>5b. /\ missed' \subseteq Files /\ missed \subseteq missed'
       /\ \A f \in Files : file[f].stage # "ensuring" => (f \in missed' <=> f \in missed)
  BY <1>1 DEF EnsureAnswered, Misses, Waiting, Types
<1>6. /\ moments' \in [Moments -> States] /\ lost' \subseteq Moments /\ lost \subseteq lost'
      /\ \A n \in Moments \ {m} : moments'[n] = moments[n]
      /\ moments'[m] # moments[m] =>
             draft.discard # "no" /\ moments'[m] \in {"kept", "deleted"} /\ moments[m] # "deleted"
      /\ moments'[m] = "draft" => draft.discard = "no" \/ m \in lost'
  <2>1. CASE draft.discard = "no"
    BY <1>1, <2>1 DEF EnsureAnswered, Types
  <2>2. CASE draft.discard # "no"
    <3>1. PICK keep \in BOOLEAN : CleansUp(m, keep)
      BY <1>3, <2>2 DEF EnsureAnswered
    <3>2. QED
      BY <1>1, <1>3, <2>2, <3>1, CleansUpType DEF Types
  <2>3. QED
    BY <2>1, <2>2
<1>7. /\ draft' \in DraftRecords /\ draft'.id = None /\ draft'.ensure = "none" /\ draft'.discard = "no"
      /\ draft'.made = IF draft.discard = "no" THEN m ELSE None
  <2>1. CASE draft.discard = "no"
    <3>1. draft' = [draft EXCEPT !.made = m, !.ensure = "none", !.id = None]
      BY <1>3, <2>1 DEF EnsureAnswered
    <3>2. QED
      BY <1>1, <1>3, <2>1, <3>1, SomeMoments DEF Types, DraftRecords
  <2>2. CASE draft.discard # "no"
    <3>1. draft' = [draft EXCEPT !.made = None, !.ensure = "none", !.id = None, !.discard = "no"]
      BY <2>2 DEF EnsureAnswered
    <3>2. QED
      BY <1>1, <2>2, <3>1, SomeMoments DEF Types, DraftRecords
  <2>3. QED
    BY <2>1, <2>2
<1>8. Types'
  <2>1. rows' \subseteq Moments \X Contents
    BY <1>1, <1>2 DEF Types
  <2>2. QED
    BY <1>1, <1>2, <1>5, <1>6, <1>7, <1>5b, <2>1 DEF Types
<1>9. draft.discard # "no" <=> page = "cancelled"
  BY <1>1, <1>2 DEF DraftInv
<1>10. ASSUME NEW f \in Files PROVE FileInv(f)' /\ TextInv(f)'
  <2>1. FileInv(f) /\ TextInv(f) /\ file[f].target \in Identities
    BY <1>1 DEF Inv, Types, FileRecords
  <2>2. CASE file[f].stage = "ensuring"
    <3>1. moments'[m] # "unused" /\ UNCHANGED <<page, removed>>
      BY <1>2, <1>3, <1>6
    <3>2. /\ file'[f].stage = "queued" /\ file'[f].target = m
          /\ file'[f].mark = IF Writing /\ file[f].target = None THEN "placeholder"
                             ELSE file[f].mark
          /\ f \in missed' <=> f \in missed \/ (file[f].target = None /\ page = "open" /\ ~Writing)
      BY <1>5a, <2>2
    <3>3. CASE file[f].target = None
      <4>1. Waits(f) /\ (Writing => page = "open")
        BY <2>2, <3>3 DEF Waits, Writing
      <4>2. QED
        BY <1>3, <1>7, <2>1, <3>1, <3>2, <3>3, <4>1 DEF FileInv, TextInv, Waits, Uploading
    <3>4. CASE file[f].target # None
      <4>1. ~Waits(f) /\ file'[f].mark = file[f].mark /\ (f \in missed' <=> f \in missed)
        BY <3>2, <3>4 DEF Waits
      <4>2. FileInv(f)'
        BY <1>3, <1>7, <2>1, <2>2, <3>1, <3>2, <4>1 DEF FileInv, Waits
      <4>3. TextInv(f)'
        BY <1>3, <2>1, <2>2, <3>1, <3>2, <4>1 DEF TextInv, Waits, Uploading
      <4>4. QED
        BY <4>2, <4>3
    <3>5. QED
      BY <3>3, <3>4
  <2>3. CASE file[f].stage # "ensuring"
    <3>1. file'[f] = file[f]
      BY <1>5, <2>3
    <3>2. ~Waits(f) => file[f].target \in Moments /\ moments'[file[f].target] # "unused"
      BY <1>3, <1>6, <2>1, SomeMoments DEF FileInv
    <3>3. QED
      BY <1>2, <1>7, <1>5b, <2>1, <2>3, <3>1, <3>2 DEF FileInv, TextInv, Waits
  <2>4. QED
    BY <2>2, <2>3
<1>11. DraftInv'
  <2>1. moments'[m] # "unused" /\ (page = "open" => \A n \in Moments : moments'[n] # "deleted")
    BY <1>1, <1>3, <1>6, <1>9 DEF DraftInv
  <2>2. page = "saved" => save.beside
    BY <1>1, <1>2 DEF SaveInv
  <2>3. moments'[m] = "draft" => \/ m \in lost'
                                \/ (m = draft'.made /\ page \in {"open", "left"})
                                \/ (save.beside /\ page = "saved")
    BY <1>1, <1>6, <1>7, <1>9, <2>2 DEF Types
  <2>4. ASSUME NEW n \in Made \ {m}, moments'[n] = "draft"
        PROVE  n \in lost' \/ (save.beside /\ (save.stage = "adopted" \/ page = "saved"))
    <3>1. moments[n] = "draft" /\ n # draft.id /\ n # draft.made
      BY <1>3, <1>4, <1>6, <2>4, SomeMoments
    <3>2. QED
      BY <1>1, <1>6, <3>1 DEF DraftInv, NoStrayDraft
  <2>5. NoStrayDraft'
    BY <1>2, <2>3, <2>4 DEF NoStrayDraft
  <2>6. draft'.made # None => page # "cancelled"
    BY <1>7, <1>9
  <2>7. QED
    BY <1>1, <1>2, <1>3, <1>4, <1>7, <2>1, <2>5, <2>6, SomeMoments DEF DraftInv
<1>12. SaveInv'
  <2>1. save.stage # "none" \/ page = "saved" => draft.discard = "no" /\ UNCHANGED moments
    <3>1. CASE draft.discard = "no"
      BY <3>1 DEF EnsureAnswered
    <3>2. QED
      BY <1>1, <1>9, <3>1 DEF SaveInv
  <2>2. QED
    BY <1>1, <1>2, <1>7, <2>1 DEF SaveInv, Alive
<1>13. CoverInv'
  <2>1. ASSUME NEW f \in Files, file[f].stage = "ensuring"
        PROVE  save.stage # "none" \/ page = "saved"
                   => removed[f] # "no" \/ f \in save.text \union save.late \union missed
    BY <1>1, <2>1 DEF CoverInv
  <2>2. QED
    BY <1>1, <1>2, <1>5, <1>5b, <2>1 DEF CoverInv
<1>14. RowInv'
  <2>1. \A f \in Files : Answered(f)' => Answered(f) /\ file'[f].target = file[f].target
    BY <1>5, <1>5a DEF Answered
  <2>2. \A f \in Files : file[f].stage = "placed"
            => file'[f].stage = "placed" /\ file'[f].target = file[f].target
    BY <1>5
  <2>3. \A n \in Moments : moments[n] = "deleted" => moments'[n] = "deleted"
    BY <1>6
  <2>4. \A f \in Files : file[f].stage = "placed" => moments'[file[f].target] = moments[file[f].target]
    <3>1. \A f \in Files : FileInv(f) /\ file[f].target \in Identities
      BY <1>1 DEF Inv, Types, FileRecords
    <3>2. QED
      BY <1>3, <1>6, <3>1, SomeMoments DEF FileInv, Waits
  <2>5. QED
    BY <1>2, <2>1, <2>2, <2>3, <2>4, FilteredRows
<1>15. QED
  BY <1>8, <1>10, <1>11, <1>12, <1>13, <1>14 DEF Inv

LEMMA EnsureFailsStep ==
    ASSUME Inv, EnsureFails
    PROVE  Inv'
<1>1. Types /\ DraftInv /\ SaveInv /\ CoverInv /\ RowInv
  BY DEF Inv
<1>2. /\ UNCHANGED <<moment, moments, rows, page, kept, save, removed, attached, shared, missed>>
      /\ draft.ensure # "none" /\ lost' = lost \union ({draft.id} \ {None})
      /\ draft' = [draft EXCEPT !.ensure = "none", !.id = None]
  BY DEF EnsureFails
<1>3. draft.made = None /\ draft.id \in Identities
  BY <1>1, <1>2 DEF DraftInv, Types, DraftRecords
<1>4. /\ file' \in [Files -> FileRecords]
      /\ \A f \in Files : IF file[f].stage # "ensuring" THEN file'[f] = file[f]
                           ELSE IF file[f].target = None THEN file'[f] = Idle
                           ELSE /\ file'[f].stage = "failed" /\ file'[f].mark = file[f].mark
                                /\ file'[f].target = file[f].target
  <2>1. file \in [Files -> FileRecords] /\ Idle \in FileRecords
    BY <1>1, SomeMoments DEF Types, Idle, FileRecords, Stages, Marks
  <2>2. \A f \in Files : [file[f] EXCEPT !.stage = "failed"] \in FileRecords
    BY <2>1 DEF FileRecords, Stages
  <2>3. QED
    BY <2>1, <2>2 DEF EnsureFails, Waiting, FileRecords
<1>5. /\ draft' \in DraftRecords /\ draft'.id = None /\ draft'.ensure = "none"
      /\ draft'.made = None /\ draft'.discard = draft.discard
  BY <1>1, <1>2, <1>3, SomeMoments DEF Types, DraftRecords
<1>6. Types'
  BY <1>1, <1>2, <1>3, <1>4, <1>5, SomeMoments DEF Types
<1>7. ASSUME NEW f \in Files PROVE FileInv(f)' /\ TextInv(f)'
  <2>1. FileInv(f) /\ TextInv(f)
    BY DEF Inv
  <2>2. CASE file[f].stage = "ensuring" /\ file[f].target = None
    <3>1. file'[f].stage = "idle" /\ file'[f].mark = "none" /\ file'[f].target = None
      BY <1>4, <2>2 DEF Idle
    <3>2. QED
      BY <1>2, <1>5, <2>1, <2>2, <3>1 DEF FileInv, TextInv, Waits, Uploading
  <2>3. CASE file[f].stage = "ensuring" /\ file[f].target # None
    <3>1. /\ file'[f].stage = "failed" /\ file'[f].mark = file[f].mark
          /\ file'[f].target = file[f].target /\ ~Waits(f)
      BY <1>4, <2>3 DEF Waits
    <3>2. FileInv(f)'
      BY <1>2, <1>5, <2>1, <2>3, <3>1 DEF FileInv, Waits
    <3>3. TextInv(f)'
      BY <1>2, <2>1, <2>3, <3>1 DEF TextInv, Waits, Uploading
    <3>4. QED
      BY <3>2, <3>3
  <2>4. CASE file[f].stage # "ensuring"
    BY <1>2, <1>4, <1>5, <2>1, <2>4 DEF FileInv, TextInv, Waits
  <2>5. QED
    BY <2>2, <2>3, <2>4
<1>8. DraftInv'
  <2>1. \A n \in Made : n = draft.id => n \in lost'
    BY <1>2, SomeMoments
  <2>2. NoStrayDraft'
    BY <1>1, <1>2, <1>3, <1>5, <2>1, SomeMoments DEF DraftInv, NoStrayDraft
  <2>3. QED
    BY <1>1, <1>2, <1>3, <1>5, <2>2, SomeMoments DEF DraftInv
<1>9. SaveInv'
  BY <1>1, <1>2, <1>5 DEF SaveInv, Alive
<1>10. CoverInv'
  <2>1. \A f \in Files : file'[f].stage \in {"idle", "failed"} \/ file'[f] = file[f]
    BY <1>4 DEF Idle
  <2>2. QED
    BY <1>1, <1>2, <2>1 DEF CoverInv
<1>11. RowInv'
  <2>1. \A f \in Files : (Answered(f)' <=> Answered(f)) /\ (Answered(f) => file'[f] = file[f])
    BY <1>4 DEF Answered, Idle
  <2>2. \A f \in Files : file[f].stage = "placed" => file'[f] = file[f]
    BY <1>4
  <2>3. QED
    BY <1>1, <1>2, <2>1, <2>2 DEF RowInv, Answered, Row, AttachedIsStored
<1>12. QED
  BY <1>6, <1>7, <1>8, <1>9, <1>10, <1>11 DEF Inv

LEMMA SaveStep ==
    ASSUME Inv, Save
    PROVE  Inv'
<1> USE DEF history
<1>1. Types /\ DraftInv /\ SaveInv /\ CoverInv /\ RowInv
  BY DEF Inv
<1>2. /\ UNCHANGED <<moment, moments, rows, page, draft, file, kept, removed, attached, shared, lost, missed>>
      /\ page = "open" /\ save.stage = "none" /\ Pending = {}
      /\ save' = [stage |-> "sent", target |-> Identity,
                  text |-> {f \in Files : file[f].mark = "media"},
                  late |-> Waiting, beside |-> draft.ensure # "none"]
  BY DEF Save, MaySave
<1>3. /\ save' \in SaveRecords /\ save'.stage = "sent" /\ save'.target = Identity
      /\ save'.text = {f \in Files : file[f].mark = "media"}
      /\ save'.late = {f \in Files : file[f].stage = "ensuring"}
      /\ save'.beside = (draft.ensure # "none")
  BY <1>1, <1>2, IdentityType DEF Types, SaveRecords, Waiting
<1>4. Types'
  BY <1>1, <1>2, <1>3 DEF Types
<1>5. \A f \in Files : FileInv(f)' /\ TextInv(f)'
  BY <1>2, <1>4, SameFiles
<1>6. DraftInv' /\ RowInv'
  BY <1>1, <1>2, <1>3 DEF DraftInv, NoStrayDraft, RowInv, Answered, Row, AttachedIsStored
<1>7. SaveInv'
  <2>1. draft.made # None => draft.made = Identity
    BY <1>1 DEF DraftInv, Identity
  <2>2. QED
    BY <1>2, <1>3, <2>1 DEF SaveInv
<1>8. CoverInv'
  <2>1. ASSUME NEW f \in Files, removed[f] = "no", file[f].stage \notin {"idle", "failed"}
        PROVE  f \in save'.text \union save'.late \union missed
    <3>1. file[f].stage \notin Uploading /\ file[f].stage \in Stages /\ TextInv(f)
      BY <1>1, <1>2 DEF Inv, Pending, Types, FileRecords
    <3>2. file[f].stage \in {"ensuring", "placed"} \/ f \in missed
      BY <1>2, <2>1, <3>1 DEF Stages, TextInv
    <3>3. QED
      BY <1>2, <1>3, <2>1, <3>1, <3>2 DEF TextInv
  <2>2. QED
    BY <1>1, <1>2, <2>1 DEF CoverInv, Types
<1>9. QED
  BY <1>4, <1>5, <1>6, <1>7, <1>8 DEF Inv

LEMMA SaveReachesStep ==
    ASSUME Inv, SaveReaches
    PROVE  Inv'
<1> USE DEF history
<1>1. Types /\ DraftInv /\ SaveInv /\ CoverInv /\ RowInv
  BY DEF Inv
<1>2. /\ UNCHANGED <<moment, rows, page, draft, file, kept, removed, attached, shared, lost, missed>>
      /\ save.stage = "sent"
  BY DEF SaveReaches
<1>3. PICK m \in Moments : /\ m # None /\ m \in {save.target, Fresh}
                           /\ moments' = [moments EXCEPT ![m] = "saved"]
                           /\ save' = [save EXCEPT !.stage = "applied", !.target = m]
                           /\ m # save.target => save.target = None
                           /\ moments[m] # "deleted"
                           /\ m # save.target => moments[m] = "unused"
  <2>1. CASE save.target = None /\ HasFresh
    BY <1>1, <2>1, FreshIsUnused, SomeMoments DEF SaveReaches, Alive
  <2>2. CASE Alive(save.target)
    <3>1. save.target \in Moments /\ save.target # None
      BY <1>1, <2>2, SomeMoments DEF Types, SaveRecords, Alive
    <3>2. [save EXCEPT !.stage = "applied", !.target = save.target] = [save EXCEPT !.stage = "applied"]
      BY <1>1 DEF Types, SaveRecords
    <3>3. QED
      BY <2>2, <3>1, <3>2 DEF SaveReaches, Alive
  <2>3. QED
    BY <2>1, <2>2 DEF SaveReaches
<1>4. /\ moments' \in [Moments -> States] /\ moments'[m] = "saved"
      /\ \A n \in Moments \ {m} : moments'[n] = moments[n]
  BY <1>1, <1>3 DEF Types, States
<1>5. /\ save' \in SaveRecords /\ save'.stage = "applied" /\ save'.target = m
      /\ save'.text = save.text /\ save'.late = save.late /\ save'.beside = save.beside
  BY <1>1, <1>3, SomeMoments DEF Types, SaveRecords
<1>6. Types'
  BY <1>1, <1>2, <1>4, <1>5 DEF Types
<1>7. \A f \in Files : FileInv(f)' /\ TextInv(f)'
  BY <1>2, <1>4, <1>6, SameFiles
<1>8. DraftInv'
  <2>1. NoStrayDraft'
    BY <1>1, <1>2, <1>4, <1>5, SomeMoments DEF DraftInv, NoStrayDraft
  <2>2. QED
    BY <1>1, <1>2, <1>4, <1>5, <2>1, SomeMoments DEF DraftInv
<1>9. SaveInv'
  BY <1>1, <1>2, <1>3, <1>4, <1>5 DEF SaveInv, Alive
<1>10. CoverInv'
  BY <1>1, <1>2, <1>5 DEF CoverInv
<1>11. RowInv'
  <2>1. \A n \in Moments : moments'[n] = "deleted" <=> moments[n] = "deleted"
    BY <1>3, <1>4
  <2>2. \A f \in Files : Answered(f) => file[f].target \in Moments
    BY <1>1, SomeMoments DEF Inv, FileInv, Waits, Answered, Types, FileRecords
  <2>3. \A r \in rows : r[1] \in Moments
    BY <1>1 DEF Types
  <2>4. QED
    BY <1>1, <1>2, <2>1, <2>2, <2>3 DEF RowInv, Answered, Row, AttachedIsStored
<1>12. QED
  BY <1>6, <1>7, <1>8, <1>9, <1>10, <1>11 DEF Inv

LEMMA SaveSucceedsStep ==
    ASSUME Inv, SaveSucceeds
    PROVE  Inv'
<1> USE DEF history
<1>1. Types /\ DraftInv /\ SaveInv /\ CoverInv /\ RowInv
  BY DEF Inv
<1>2. /\ UNCHANGED <<moment, moments, rows, page, file, removed, attached, shared, lost, missed>>
      /\ save.stage = "applied" /\ kept' = FALSE
      /\ save' = [save EXCEPT !.stage = "adopted"] /\ draft' = [draft EXCEPT !.made = None]
  BY DEF SaveSucceeds
<1>3. /\ save' \in SaveRecords /\ save'.stage = "adopted" /\ save'.target = save.target
      /\ save'.text = save.text /\ save'.late = save.late /\ save'.beside = save.beside
  BY <1>1, <1>2 DEF Types, SaveRecords
<1>4. /\ draft' \in DraftRecords /\ draft'.made = None /\ draft'.id = draft.id
      /\ draft'.ensure = draft.ensure /\ draft'.discard = draft.discard
  BY <1>1, <1>2, SomeMoments DEF Types, DraftRecords
<1>5. Types'
  BY <1>1, <1>2, <1>3, <1>4 DEF Types
<1>6. \A f \in Files : FileInv(f)' /\ TextInv(f)'
  BY <1>2, <1>4, <1>5, SameFiles
<1>7. DraftInv'
  <2>1. draft.made # None /\ moments[draft.made] = "draft" => save.beside
    BY <1>1, <1>2 DEF SaveInv
  <2>2. NoStrayDraft'
    BY <1>1, <1>2, <1>3, <1>4, <2>1, SomeMoments DEF DraftInv, NoStrayDraft
  <2>3. QED
    BY <1>1, <1>2, <1>4, <2>2 DEF DraftInv
<1>8. SaveInv'
  BY <1>1, <1>2, <1>3, <1>4 DEF SaveInv, Alive
<1>9. CoverInv'
  BY <1>1, <1>2, <1>3 DEF CoverInv
<1>10. RowInv'
  BY <1>1, <1>2, <1>3 DEF RowInv, Answered, Row, AttachedIsStored
<1>11. QED
  BY <1>5, <1>6, <1>7, <1>8, <1>9, <1>10 DEF Inv

LEMMA GoToReaderStep ==
    ASSUME Inv, GoToReader
    PROVE  Inv'
<1> USE DEF history
<1>1. Types /\ DraftInv /\ SaveInv /\ CoverInv /\ RowInv
  BY DEF Inv
<1>2. /\ UNCHANGED <<moment, moments, rows, draft, kept, removed, attached, shared, lost, missed>>
      /\ save.stage = "adopted" /\ page' = "saved" /\ file' = TornDown
      /\ save' = [save EXCEPT !.stage = "none"]
  BY DEF GoToReader
<1>3. /\ save' \in SaveRecords /\ save'.stage = "none" /\ save'.target = save.target
      /\ save'.text = save.text /\ save'.late = save.late /\ save'.beside = save.beside
  BY <1>1, <1>2 DEF Types, SaveRecords
<1>4. /\ \A f \in Files : FileInv(f)' /\ TextInv(f)'
      /\ file' \in [Files -> FileRecords]
      /\ \A f \in Files : file'[f].target = file[f].target
      /\ \A f \in Files : \/ file'[f].stage = file[f].stage
                          \/ (file[f].stage \in {"uploading", "stored"} /\ file'[f].stage = "done")
  BY <1>2, NoText
<1>5. Types'
  BY <1>1, <1>2, <1>3, <1>4 DEF Types
<1>6. DraftInv'
  <2>1. draft.discard = "no" /\ (draft.made # None => save.beside)
    BY <1>1, <1>2 DEF DraftInv, SaveInv
  <2>2. NoStrayDraft'
    BY <1>1, <1>2, <1>3, <2>1, SomeMoments DEF DraftInv, NoStrayDraft
  <2>3. QED
    BY <1>1, <1>2, <2>1, <2>2 DEF DraftInv
<1>7. SaveInv'
  BY <1>1, <1>2, <1>3 DEF SaveInv, Alive
<1>8. CoverInv'
  BY <1>1, <1>2, <1>3, <1>4 DEF CoverInv
<1>9. RowInv'
  <2>1. \A f \in Files : Answered(f)' => Answered(f) /\ file'[f].target = file[f].target
    BY <1>4 DEF Answered
  <2>2. rows' = {r \in rows : moments'[r[1]] # "deleted"}
    BY <1>1, <1>2 DEF RowInv
  <2>3. QED
    BY <1>2, <1>4, <2>1, <2>2, FilteredRows
<1>10. QED
  BY <1>4, <1>5, <1>6, <1>7, <1>8, <1>9 DEF Inv

LEMMA SaveFailsStep ==
    ASSUME Inv, SaveFails
    PROVE  Inv'
<1> USE DEF history
<1>1. Types /\ DraftInv /\ SaveInv /\ CoverInv /\ RowInv
  BY DEF Inv
<1>2. /\ UNCHANGED <<moment, moments, rows, page, draft, file, kept, removed, attached, shared, lost, missed>>
      /\ save.stage \in {"sent", "applied"} /\ save' = [save EXCEPT !.stage = "none"]
  BY DEF SaveFails
<1>3. /\ save' \in SaveRecords /\ save'.stage = "none" /\ page # "saved"
  BY <1>1, <1>2 DEF Types, SaveRecords, SaveInv
<1>4. Types'
  BY <1>1, <1>2, <1>3 DEF Types
<1>5. \A f \in Files : FileInv(f)' /\ TextInv(f)'
  BY <1>2, <1>4, SameFiles
<1>6. DraftInv' /\ SaveInv' /\ CoverInv'
  BY <1>1, <1>2, <1>3 DEF DraftInv, NoStrayDraft, SaveInv, CoverInv
<1>7. RowInv'
  BY <1>1, <1>2 DEF RowInv, Answered, Row, AttachedIsStored
<1>8. QED
  BY <1>4, <1>5, <1>6, <1>7 DEF Inv

LEMMA CancelStep ==
    ASSUME Inv, Cancel
    PROVE  Inv'
<1>1. Types /\ DraftInv /\ SaveInv /\ CoverInv /\ RowInv
  BY DEF Inv
<1>2. /\ UNCHANGED <<moment, kept, save, removed, attached, shared, missed>>
      /\ page = "open" /\ save.stage = "none" /\ page' = "cancelled" /\ file' = TornDown
      /\ rows' = {r \in rows : moments'[r[1]] # "deleted"}
  BY DEF Cancel, MayCancel
<1>3. /\ draft' \in DraftRecords /\ draft'.id = draft.id /\ draft'.ensure = draft.ensure
      /\ draft'.made \in {draft.made, None}
      /\ draft'.made # draft.made => draft.ensure = "none"
  <2>1. CASE UNCHANGED draft
    BY <1>1, <2>1 DEF Types
  <2>2. CASE draft' = [draft EXCEPT !.discard = IF kept THEN "keep" ELSE "drop"]
    BY <1>1, <2>2 DEF Types, DraftRecords
  <2>3. CASE draft' = [draft EXCEPT !.made = None] /\ draft.made # None
    BY <1>1, <2>3, SomeMoments DEF Types, DraftRecords, DraftInv
  <2>4. QED
    BY <2>1, <2>2, <2>3 DEF Cancel
<1>4. /\ moments' \in [Moments -> States] /\ lost' \subseteq Moments /\ lost \subseteq lost'
      /\ \A n \in Moments : moments'[n] # moments[n] =>
             n = draft.made /\ moments'[n] = IF kept THEN "kept" ELSE "deleted"
      /\ \A n \in Moments : moments[n] = "deleted" => moments'[n] = "deleted"
      /\ \A n \in Moments : n = draft.made /\ n # draft'.made /\ moments'[n] = "draft" => n \in lost'
  <2>1. CASE UNCHANGED <<moments, lost>> /\ draft'.made = draft.made
    BY <1>1, <2>1 DEF Types
  <2>2. CASE draft.made # None /\ CleansUp(draft.made, kept)
    <3>1. draft.made \in Moments /\ kept \in BOOLEAN
      BY <1>1, <2>2, SomeMoments DEF DraftInv, Types
    <3>2. QED
      BY <1>1, <2>2, <3>1, CleansUpType DEF Types
  <2>3. draft' = [draft EXCEPT !.discard = IF kept THEN "keep" ELSE "drop"] => draft'.made = draft.made
    BY <1>1 DEF Types, DraftRecords
  <2>4. QED
    BY <2>1, <2>2, <2>3 DEF Cancel
<1>5. \A n \in Moments : moments[n] # "unused" => moments'[n] # "unused"
  BY <1>4
<1>6. /\ \A f \in Files : FileInv(f)' /\ TextInv(f)'
      /\ file' \in [Files -> FileRecords]
      /\ \A f \in Files : file'[f].target = file[f].target
      /\ \A f \in Files : \/ file'[f].stage = file[f].stage
                          \/ (file[f].stage \in {"uploading", "stored"} /\ file'[f].stage = "done")
  BY <1>2, <1>3, <1>5, NoText
<1>7. Types'
  <2>1. rows' \subseteq Moments \X Contents
    BY <1>1, <1>2 DEF Types
  <2>2. QED
    BY <1>1, <1>2, <1>3, <1>4, <1>6, <2>1 DEF Types
<1>8. DraftInv'
  <2>1. draft'.made = None /\ (draft.ensure # "none" => draft'.discard # "no")
    <3>1. CASE moment # None \/ (draft.made = None /\ draft.ensure = "none")
      BY <1>1, <1>2, <3>1 DEF Cancel, DraftInv
    <3>2. CASE moment = None /\ draft.made = None /\ draft.ensure # "none"
      <4>1. draft' = [draft EXCEPT !.discard = IF kept THEN "keep" ELSE "drop"]
        BY <3>2 DEF Cancel
      <4>2. QED
        BY <1>1, <3>2, <4>1 DEF Types, DraftRecords
    <3>3. CASE moment = None /\ draft.made # None
      <4>1. draft' = [draft EXCEPT !.made = None]
        BY <3>3 DEF Cancel
      <4>2. QED
        BY <1>1, <3>3, <4>1 DEF Types, DraftRecords, DraftInv
    <3>4. QED
      BY <3>1, <3>2, <3>3
  <2>2. NoStrayDraft'
    BY <1>1, <1>2, <1>3, <1>4, <2>1, SomeMoments DEF DraftInv, NoStrayDraft, States
  <2>3. moment = Opened => moments'[Opened] # "unused"
    BY <1>1, <1>5, SomeMoments DEF DraftInv
  <2>4. draft.id # None => draft.id \in Made /\ moments'[draft.id] # "unused"
    BY <1>1, <1>5, SomeMoments DEF DraftInv
  <2>5. QED
    BY <1>1, <1>2, <1>3, <2>1, <2>2, <2>3, <2>4 DEF DraftInv
<1>9. SaveInv' /\ CoverInv'
  BY <1>2 DEF SaveInv, CoverInv
<1>10. RowInv'
  <2>1. \A f \in Files : Answered(f)' => Answered(f) /\ file'[f].target = file[f].target
    BY <1>6 DEF Answered
  <2>2. \A f \in Files : file[f].stage = "placed" => file[f].target \in Moments
    BY <1>1, SomeMoments DEF Inv, FileInv, Waits, Types, FileRecords
  <2>3. ASSUME NEW f \in Files, file[f].stage = "placed", Row(f) \in attached
        PROVE  moments'[file[f].target] = moments[file[f].target] \/ moments'[file[f].target] # "deleted"
    <3>1. kept
      BY <1>1, <1>2, <2>3 DEF RowInv
    <3>2. QED
      BY <1>4, <2>2, <2>3, <3>1
  <2>4. QED
    BY <1>2, <1>4, <1>6, <2>1, <2>3, FilteredRows
<1>11. QED
  BY <1>6, <1>7, <1>8, <1>9, <1>10 DEF Inv

LEMMA LeaveStep ==
    ASSUME Inv, Leave
    PROVE  Inv'
<1> USE DEF history
<1>1. Types /\ DraftInv /\ SaveInv /\ CoverInv /\ RowInv
  BY DEF Inv
<1>2. /\ UNCHANGED <<moment, moments, rows, draft, kept, save, removed, attached, shared, lost, missed>>
      /\ page = "open" /\ page' = "left" /\ file' = TornDown
  BY DEF Leave
<1>3. /\ \A f \in Files : FileInv(f)' /\ TextInv(f)'
      /\ file' \in [Files -> FileRecords]
      /\ \A f \in Files : file'[f].target = file[f].target
      /\ \A f \in Files : \/ file'[f].stage = file[f].stage
                          \/ (file[f].stage \in {"uploading", "stored"} /\ file'[f].stage = "done")
  BY <1>2, NoText
<1>4. Types'
  BY <1>1, <1>2, <1>3 DEF Types
<1>5. DraftInv'
  BY <1>1, <1>2 DEF DraftInv, NoStrayDraft
<1>6. SaveInv'
  BY <1>1, <1>2 DEF SaveInv
<1>7. CoverInv'
  BY <1>1, <1>2, <1>3 DEF CoverInv
<1>8. RowInv'
  <2>1. \A f \in Files : Answered(f)' => Answered(f) /\ file'[f].target = file[f].target
    BY <1>3 DEF Answered
  <2>2. rows' = {r \in rows : moments'[r[1]] # "deleted"}
    BY <1>1, <1>2 DEF RowInv
  <2>3. QED
    BY <1>2, <1>3, <2>1, <2>2, FilteredRows
<1>9. QED
  BY <1>3, <1>4, <1>5, <1>6, <1>7, <1>8 DEF Inv

-----------------------------------------------------------------------------
(* The theorems. *)

LEMMA InvKept == Spec => []Inv
<1>1. Init => Inv
  BY InvStarts
<1>2. Inv /\ [Next]_vars => Inv'
  <2> SUFFICES ASSUME Inv, [Next]_vars PROVE Inv'
    OBVIOUS
  <2>1. ASSUME NEW f \in Files, FileStep(f) PROVE Inv'
    BY <2>1, StageSteps, BeginsStep, UploadReachesStep, UploadAnsweredStep, DeleteReachesStep,
       WriterSteps DEF FileStep
  <2>2. CASE UNCHANGED vars
    BY <2>2 DEF vars, Inv, Types, FileInv, TextInv, Waits, DraftInv, SaveInv, Alive, CoverInv,
                RowInv, Answered, Row, AttachedIsStored, NoStrayDraft
  <2>3. QED
    BY <2>1, <2>2, EnsureMomentIdStep, EnsureReachesStep, EnsureAnsweredStep, EnsureFailsStep, SaveStep,
       SaveReachesStep, SaveSucceedsStep, GoToReaderStep, SaveFailsStep, CancelStep, LeaveStep DEF Next
<1>3. QED
  BY <1>1, <1>2, PTL DEF Spec

(* Every attachment, request and Moment stays in a state the code knows, and an upload *)
(* that is under way always has a Moment to go to.                                      *)
THEOREM TypeCorrect == Spec => []TypeOK
  BY InvKept, InvTypes, PTL

(* Media that the session put into the text stays stored, whatever the order of the    *)
(* uploads, their deletions and the cleanup of the draft, unless its row was shared.    *)
THEOREM AttachedStaysStored == Spec => []AttachedIsStored
<1>1. Inv => AttachedIsStored
  BY DEF Inv, RowInv
<1>2. QED
  BY <1>1, InvKept, PTL

(* No upload puts back what the writer took out.                                        *)
THEOREM RemovedStaysRemoved == Spec => []RemovedIsNotReinserted
<1>1. Inv => RemovedIsNotReinserted
  BY DEF Inv, FileInv, RemovedIsNotReinserted
<1>2. QED
  BY <1>1, InvKept, PTL

(* A draft Moment belongs to the open session, was cleaned up or saved, was lost with  *)
(* an answer, or was made beside a save that was then reported.                         *)
THEOREM DraftsAreKnown == Spec => []NoStrayDraft
<1>1. Inv => NoStrayDraft
  BY DEF Inv, DraftInv, NoStrayDraft
<1>2. QED
  BY <1>1, InvKept, PTL

(* The Moment of a reported save is there for good: no cleanup takes it.                 *)
THEOREM SaveIsFinal == Spec => []SavedStays
<1>1. Inv => SavedStays
  BY DEF Inv, SaveInv, SavedStays
<1>2. QED
  BY <1>1, InvKept, PTL

(* A reported save has everything that was chosen before it, but for what was taken out, *)
(* failed, waited for its Moment, was tried again beside it or met a locked text.        *)
THEOREM SaveIsComplete == Spec => []NothingLeftOut
<1>1. Inv => NothingLeftOut
  BY DEF Inv, CoverInv, NothingLeftOut
<1>2. QED
  BY <1>1, InvKept, PTL
=============================================================================
