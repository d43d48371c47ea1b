----------------------------- MODULE MediaLibrary -----------------------------
(***************************************************************************)
(* Media of one user: the rows of moment_media, the files and thumbnails   *)
(* under media_root, Moment.media_count, and the operations that change    *)
(* them - upload, background processing, deletion of media and of moments. *)
(*                                                                         *)
(* Files are stored under their content: an upload whose content is        *)
(* already there shares the file, and a deletion counts the rows with the  *)
(* same checksum before it removes the file.  File system and database     *)
(* change in separate steps, and requests, sessions and workers interleave *)
(* between them.                                                           *)
(*                                                                         *)
(* An upload creates at most one row, which has the upload's name here.  A *)
(* definition named X_Y is X with a bug of kind Y, for the mutants of      *)
(* PROJECT.json; nothing uses it here.                                     *)
(***************************************************************************)
EXTENDS Naturals, FiniteSets

CONSTANTS Uploads,     \* upload requests
          Moments,     \* moments of the user
          Contents,    \* distinct file contents; one checksum each
          Suffixes,    \* file name extensions a content is uploaded with
          Deletions,   \* requests and tasks deleting media or a moment at once
          None,        \* no media row, no moment
          Events       \* what else happens, a subset of AllEvents

AllEvents == {"delete_media",    \* media is removed, by id or by saving an entry without it
              "delete_moment",   \* a moment is deleted
              "prune",           \* a moment found empty is pruned
              "process",         \* uploads are processed in the background
              "db_error"}        \* the insert fails for another reason than a constraint

ASSUME ConstantsAssumption ==
    /\ IsFiniteSet(Uploads)
    /\ None \notin Uploads
    /\ Events \subseteq AllEvents

VARIABLES moments,   \* rows of table moment
          count,     \* count[m]: column media_count
          files,     \* paths of the stored originals
          thumbs,    \* paths of originals that have a thumbnail on disk
          row,       \* row[u]: "none", "live" in moment_media, or "gone" again
          path,      \* path[u]: column file_path of the row
          thumb,     \* thumb[u]: column thumbnail_path, as the original it was made from
          state,     \* state[u]: column upload_status
          pc,        \* pc[u]: where upload u is
          moment,    \* moment[u]: the moment it attaches to
          content,   \* content[u]: what it uploads
          stored,    \* stored[u]: the path store_media returned
          dedup,     \* dedup[u]: was_deduplicated
          total,     \* total[u]: the count _refresh_moment_media_count has read
          media,     \* media[u]: the row the request answers with
          queued,    \* messages of process_media_upload: the row and the path of the file
          proc,      \* proc[u]: where the task for row u is
          given,     \* given[u]: the file it works on, then the original of the thumbnail
          dpc,       \* dpc[d]: where deletion d is
          target,    \* target[d]: the moment it is about
          todo,      \* todo[d]: the rows it has read and whose files are still to be removed
          thumbed,   \* thumbed[d]: the thumbnails they named then
          cur,       \* cur[d]: the row whose file is being removed
          pruning,   \* moments prune_empty_moments has found empty
          overlapped \* history: uploads under way while a file of their content was being removed

rowVars    == <<row, path, thumb, state>>
uploadVars == <<pc, moment, content, stored, dedup, total, media>>
taskVars   == <<queued, proc, given>>
delVars    == <<dpc, target, todo, thumbed, cur>>
vars == <<moments, count, files, thumbs, rowVars, uploadVars, taskVars, delVars, pruning, overlapped>>

\* _build_storage_path: {user}/{type}/{checksum}{extension}
Paths == Contents \X Suffixes
NoPath == <<>>

UploadSteps == {"new", "checked", "probed", "stored", "planned", "inserted", "counted",
                "answered", "refused"}
States      == {"pending", "processing", "completed", "failed"}
DeleteSteps == {"idle", "media", "moment", "purging", "counting", "unlinking"}

TypeOK ==
    /\ moments \subseteq Moments
    /\ count \in [Moments -> Nat]
    /\ files \subseteq Paths
    /\ thumbs \subseteq Paths
    /\ row \in [Uploads -> {"none", "live", "gone"}]
    /\ path \in [Uploads -> Paths \cup {NoPath}]
    /\ thumb \in [Uploads -> Paths \cup {NoPath}]
    /\ state \in [Uploads -> States]
    /\ pc \in [Uploads -> UploadSteps]
    /\ moment \in [Uploads -> Moments]
    /\ content \in [Uploads -> Contents]
    /\ stored \in [Uploads -> Paths \cup {NoPath}]
    /\ dedup \in [Uploads -> BOOLEAN]
    /\ total \in [Uploads -> Nat]
    /\ media \in [Uploads -> Uploads \cup {None}]
    /\ queued \subseteq Uploads \X Paths
    /\ proc \in [Uploads -> {"idle", "begun", "rendered"}]
    /\ given \in [Uploads -> Paths \cup {NoPath}]
    /\ dpc \in [Deletions -> DeleteSteps]
    /\ target \in [Deletions -> Moments \cup {None}]
    /\ todo \in [Deletions -> SUBSET Uploads]
    /\ thumbed \in [Deletions -> SUBSET (Uploads \X Paths)]
    /\ cur \in [Deletions -> Uploads \cup {None}]
    /\ \A d \in Deletions : dpc[d] \in {"counting", "unlinking"} => cur[d] \in todo[d]
    /\ \A d \in Deletions : dpc[d] \in {"media", "moment"} => target[d] \in Moments
    /\ pruning \subseteq Moments
    /\ overlapped \subseteq Uploads

\* Every upload is for some moment and some content, fixed once for all.
Init ==
    /\ moments = Moments
    /\ count = [m \in Moments |-> 0]
    /\ files = {}
    /\ thumbs = {}
    /\ row = [u \in Uploads |-> "none"]
    /\ path = [u \in Uploads |-> NoPath]
    /\ thumb = [u \in Uploads |-> NoPath]
    /\ state = [u \in Uploads |-> "pending"]
    /\ pc = [u \in Uploads |-> "new"]
    /\ moment \in [Uploads -> Moments]
    /\ content \in [Uploads -> Contents]
    /\ stored = [u \in Uploads |-> NoPath]
    /\ dedup = [u \in Uploads |-> FALSE]
    /\ total = [u \in Uploads |-> 0]
    /\ media = [u \in Uploads |-> None]
    /\ queued = {}
    /\ proc = [u \in Uploads |-> "idle"]
    /\ given = [u \in Uploads |-> NoPath]
    /\ dpc = [d \in Deletions |-> "idle"]
    /\ target = [d \in Deletions |-> None]
    /\ todo = [d \in Deletions |-> {}]
    /\ thumbed = [d \in Deletions |-> {}]
    /\ cur = [d \in Deletions |-> None]
    /\ pruning = {}
    /\ overlapped = {}

-----------------------------------------------------------------------------
\* The rows of a moment, and the rows with a checksum.
RowsOf(m) == {r \in Uploads : row[r] = "live" /\ moment[r] = m}
RowsWith(c) == {r \in Uploads : row[r] = "live" /\ content[r] = c}

\* Rows uq_moment_media_moment_checksum sets against upload u.
Twins(u) == RowsOf(moment[u]) \cap RowsWith(content[u])

\* The rows upload u may answer with once its insert was accepted or refused.
Answer_Own(u) == {u}
Answer(u) == IF Twins(u) = {} THEN {u} ELSE Twins(u)

\* _count_references > 0: rows of the user with the checksum of row u.
Referenced_ByMoment(u) == \E r \in RowsWith(content[u]) : moment[r] = moment[u]
Referenced(u) == RowsWith(content[u]) # {}

\* Between looking for the file and committing a row that names it.
InFlight(u) == pc[u] \in {"probed", "stored", "planned"}

Step(u, from, to) ==
    /\ pc[u] = from
    /\ pc' = [pc EXCEPT ![u] = to]

-----------------------------------------------------------------------------
(* POST /media/upload *)

\* Validation, and the moment checked in a session of its own.
CheckMoment(u) ==
    /\ moment[u] \in moments
    /\ Step(u, "new", "checked")
    /\ UNCHANGED <<moments, count, files, thumbs, rowVars, moment, content, stored, dedup, total,
                   media, taskVars, delVars, pruning, overlapped>>

\* store_media, once the content is hashed: is the file there already?
Probe(u, s) ==
    LET p == <<content[u], s>> IN
    /\ Step(u, "checked", IF p \in files THEN "stored" ELSE "probed")
    /\ stored' = [stored EXCEPT ![u] = p]
    /\ dedup' = [dedup EXCEPT ![u] = p \in files]
    /\ overlapped' = IF \E d \in Deletions : dpc[d] = "unlinking" /\ content[cur[d]] = content[u]
                     THEN overlapped \cup {u} ELSE overlapped
    /\ UNCHANGED <<moments, count, files, thumbs, rowVars, moment, content, total, media, taskVars,
                   delVars, pruning>>

\* The temporary file is renamed to its place.
Place(u) ==
    /\ Step(u, "probed", "stored")
    /\ files' = files \cup {stored[u]}
    /\ UNCHANGED <<moments, count, thumbs, rowVars, moment, content, stored, dedup, total, media,
                   taskVars, delVars, pruning, overlapped>>

\* The moment has this content already: the request answers with that row.
FindInMoment(u) ==
    /\ Step(u, "stored", "inserted")
    /\ \E r \in Twins(u) : media' = [media EXCEPT ![u] = r]
    /\ UNCHANGED <<moments, count, files, thumbs, rowVars, moment, content, stored, dedup, total,
                   taskVars, delVars, pruning, overlapped>>

\* Another moment has it: the new row copies path, thumbnail and status of that row.
\* A file just placed under another name is removed again.
ReuseRow(u) ==
    /\ Twins(u) = {}
    /\ Step(u, "stored", "planned")
    /\ \E r \in RowsWith(content[u]) :
          /\ path' = [path EXCEPT ![u] = path[r]]
          /\ thumb' = [thumb EXCEPT ![u] = thumb[r]]
          /\ state' = [state EXCEPT ![u] = state[r]]
          /\ files' = IF ~dedup[u] /\ stored[u] # path[r] THEN files \ {stored[u]} ELSE files
    /\ UNCHANGED <<moments, count, thumbs, row, moment, content, stored, dedup, total, media,
                   taskVars, delVars, pruning, overlapped>>

\* Nobody has it.
NewRow(u) ==
    /\ RowsWith(content[u]) = {}
    /\ Step(u, "stored", "planned")
    /\ path' = [path EXCEPT ![u] = stored[u]]
    /\ UNCHANGED <<moments, count, files, thumbs, row, thumb, state, moment, content, stored, dedup,
                   total, media, taskVars, delVars, pruning, overlapped>>

\* The insert is committed, unless a constraint refuses it: another upload has put
\* the content into the moment (its row is used), or the moment has been deleted.
\* In the last case media_record is not None either: nothing is cleaned up or
\* raised, and the request answers with a row that was never stored.
Insert(u) ==
    /\ Step(u, "planned", "inserted")
    /\ row' = IF moment[u] \in moments /\ Twins(u) = {} THEN [row EXCEPT ![u] = "live"] ELSE row
    /\ \E r \in Answer(u) : media' = [media EXCEPT ![u] = r]
    /\ UNCHANGED <<moments, count, files, thumbs, path, thumb, state, moment, content, stored, dedup,
                   total, taskVars, delVars, pruning, overlapped>>

\* Any other database error: the file is removed unless store_media found it there.
InsertFails(u) ==
    /\ "db_error" \in Events
    /\ Step(u, "planned", "refused")
    /\ files' = IF dedup[u] THEN files ELSE files \ {stored[u]}
    /\ UNCHANGED <<moments, count, thumbs, rowVars, moment, content, stored, dedup, total, media,
                   taskVars, delVars, pruning, overlapped>>

\* The message of the request: its row, with the path of a row that was there before
\* or else the path the upload was stored under.
Message(u) == <<media[u], IF media[u] = u THEN stored[u] ELSE path[media[u]]>>

\* _refresh_moment_media_count: the rows are counted ...
ReadTotal(u) ==
    LET n == Cardinality(RowsOf(moment[u])) IN
    /\ Step(u, "inserted",
            IF moment[u] \in moments /\ count[moment[u]] # n THEN "counted" ELSE "answered")
    /\ total' = [total EXCEPT ![u] = n]
    /\ queued' = IF pc'[u] = "answered" THEN queued \cup {Message(u)} ELSE queued
    /\ UNCHANGED <<moments, count, files, thumbs, rowVars, moment, content, stored, dedup, media, proc,
                   given, delVars, pruning, overlapped>>

\* ... and the number is written; then the processing task is sent.  A moment
\* deleted in between makes the flush fail, and the request with it.
WriteTotal(u) ==
    /\ IF moment[u] \in moments
       THEN /\ Step(u, "counted", "answered")
            /\ count' = [count EXCEPT ![moment[u]] = total[u]]
            /\ queued' = queued \cup {Message(u)}
       ELSE /\ Step(u, "counted", "refused")
            /\ UNCHANGED <<count, queued>>
    /\ UNCHANGED <<moments, files, thumbs, rowVars, moment, content, stored, dedup, total, media, proc,
                   given, delVars, pruning, overlapped>>

-----------------------------------------------------------------------------
(* process_media_upload, under the lock of its row. *)

\* The row is gone (retried, then given up), or completed: nothing to do.
SkipProcessing(u, p) ==
    /\ <<u, p>> \in queued
    /\ proc[u] = "idle"
    /\ row[u] # "live" \/ state[u] = "completed"
    /\ queued' = queued \ {<<u, p>>}
    /\ UNCHANGED <<moments, count, files, thumbs, rowVars, uploadVars, proc, given, delVars, pruning,
                   overlapped>>

BeginProcessing(u, p) ==
    /\ "process" \in Events
    /\ <<u, p>> \in queued
    /\ proc[u] = "idle"
    /\ row[u] = "live" /\ state[u] # "completed"
    /\ queued' = queued \ {<<u, p>>}
    /\ proc' = [proc EXCEPT ![u] = "begun"]
    /\ given' = [given EXCEPT ![u] = p]
    /\ state' = [state EXCEPT ![u] = "processing"]
    /\ UNCHANGED <<moments, count, files, thumbs, row, path, thumb, uploadVars, delVars, pruning,
                   overlapped>>

\* Without the file it was given the upload has failed; without the row it stops.
MissFile(u) ==
    /\ proc[u] = "begun"
    /\ given[u] \notin files \/ row[u] # "live"
    /\ proc' = [proc EXCEPT ![u] = "idle"]
    /\ state' = IF row[u] = "live" THEN [state EXCEPT ![u] = "failed"] ELSE state
    /\ UNCHANGED <<moments, count, files, thumbs, row, path, thumb, uploadVars, queued, given, delVars,
                   pruning, overlapped>>

\* The thumbnail is generated next to that file unless the row's own is there.
Render(u) ==
    /\ proc[u] = "begun"
    /\ given[u] \in files
    /\ proc' = [proc EXCEPT ![u] = "rendered"]
    /\ IF thumb[u] \in thumbs
       THEN given' = [given EXCEPT ![u] = thumb[u]] /\ UNCHANGED thumbs
       ELSE thumbs' = thumbs \cup {given[u]} /\ UNCHANGED given
    /\ UNCHANGED <<moments, count, files, rowVars, uploadVars, queued, delVars, pruning, overlapped>>

\* _update_media_metadata; a row deleted meanwhile is left alone.
Record(u) ==
    /\ proc[u] = "rendered"
    /\ proc' = [proc EXCEPT ![u] = "idle"]
    /\ IF row[u] = "live"
       THEN /\ state' = [state EXCEPT ![u] = "completed"]
            /\ thumb' = [thumb EXCEPT ![u] = given[u]]
       ELSE UNCHANGED <<state, thumb>>
    /\ UNCHANGED <<moments, count, files, thumbs, row, path, uploadVars, queued, given, delVars, pruning,
                   overlapped>>

-----------------------------------------------------------------------------
(* Deletion: the rows are read, then deleted in one transaction, and their files *)
(* are removed afterwards, one row at a time.                                     *)

DropRows(rows) == row' = [r \in Uploads |-> IF r \in rows /\ row[r] = "live" THEN "gone" ELSE row[r]]

\* The rows of moment m that deletion d finds, with their file names.
Read(d, to, m, rows) ==
    /\ dpc[d] = "idle"
    /\ dpc' = [dpc EXCEPT ![d] = to]
    /\ target' = [target EXCEPT ![d] = m]
    /\ todo' = [todo EXCEPT ![d] = rows]
    /\ thumbed' = [thumbed EXCEPT ![d] = {x \in rows \X thumbs : x[2] = thumb[x[1]]}]
    /\ UNCHANGED <<moments, count, files, thumbs, rowVars, uploadVars, taskVars, cur, pruning, overlapped>>

\* What is left once the file of cur[d] has been dealt with.
Rest_None(d) == {}
Rest(d) == todo[d] \ {cur[d]}

\* The rows are deleted, or a file has been dealt with: on to the files that remain.
GoOn(d, rest) ==
    /\ dpc' = [dpc EXCEPT ![d] = IF rest = {} THEN "idle" ELSE "purging"]
    /\ todo' = [todo EXCEPT ![d] = rest]
    /\ thumbed' = [thumbed EXCEPT ![d] = {x \in @ : x[1] \in rest}]
    /\ target' = [target EXCEPT ![d] = None]
    /\ cur' = [cur EXCEPT ![d] = None]

\* delete_media_by_id_sync, and delete_orphaned_media_for_delta when an entry is
\* saved without some of its media.
ReadMedia(d, m, rows) ==
    /\ "delete_media" \in Events
    /\ rows # {} /\ rows \subseteq RowsOf(m)
    /\ Read(d, "media", m, rows)

\* media_count is never decremented below zero.
Decreased_Below(n, k) == n - k
Decreased(n, k) == IF n >= k THEN n - k ELSE 0

\* Rows that are gone by now are no error: they are deleted, and counted, again.
DeleteMedia(d) ==
    /\ dpc[d] = "media"
    /\ DropRows(todo[d])
    /\ count' = [count EXCEPT ![target[d]] = Decreased(@, Cardinality(todo[d]))]
    /\ GoOn(d, todo[d])
    /\ UNCHANGED <<moments, files, thumbs, path, thumb, state, uploadVars, taskVars,
                   pruning, overlapped>>

\* delete_moment lists the media it has to clean up after ...
ReadMoment(d, m) ==
    /\ "delete_moment" \in Events
    /\ m \in moments
    /\ Read(d, "moment", m, RowsOf(m))

\* ... and deletes the moment with all its rows, listed or not.
DeleteMoment(d) ==
    /\ dpc[d] = "moment"
    /\ moments' = moments \ {target[d]}
    /\ DropRows(RowsOf(target[d]))
    /\ GoOn(d, todo[d])
    /\ UNCHANGED <<count, files, thumbs, path, thumb, state, uploadVars, taskVars,
                   pruning, overlapped>>

\* _delete_media_file_with_reference_count: the thumbnail goes first, and always.
PurgeThumb(d, u) ==
    /\ dpc[d] = "purging"
    /\ u \in todo[d]
    /\ cur' = [cur EXCEPT ![d] = u]
    /\ dpc' = [dpc EXCEPT ![d] = "counting"]
    /\ thumbs' = {p \in thumbs : <<u, p>> \notin thumbed[d]}
    /\ UNCHANGED <<moments, count, files, rowVars, uploadVars, taskVars, target, todo, thumbed, pruning,
                   overlapped>>

\* delete_media: nothing to do without the file, or while a row has the checksum.
PurgeKeep(d) ==
    /\ dpc[d] = "counting"
    /\ path[cur[d]] \notin files \/ Referenced(cur[d])
    /\ GoOn(d, Rest(d))
    /\ UNCHANGED <<moments, count, files, thumbs, rowVars, uploadVars, taskVars,
                   pruning, overlapped>>

PurgeCount(d) ==
    /\ dpc[d] = "counting"
    /\ path[cur[d]] \in files /\ ~Referenced(cur[d])
    /\ dpc' = [dpc EXCEPT ![d] = "unlinking"]
    /\ overlapped' = overlapped \cup {v \in Uploads : InFlight(v) /\ content[v] = content[cur[d]]}
    /\ UNCHANGED <<moments, count, files, thumbs, rowVars, uploadVars, taskVars, target, todo, thumbed, cur,
                   pruning>>

PurgeUnlink(d) ==
    /\ dpc[d] = "unlinking"
    /\ GoOn(d, Rest(d))
    /\ files' = files \ {path[cur[d]]}
    /\ UNCHANGED <<moments, count, thumbs, rowVars, uploadVars, taskVars, pruning,
                   overlapped>>

\* prune_empty_moments: a moment without entry, note, mood and other content is
\* judged by media_count alone; its rows cascade and nothing removes their files.
PruneRead(m) ==
    /\ "prune" \in Events
    /\ m \in moments \ pruning
    /\ count[m] = 0
    /\ pruning' = pruning \cup {m}
    /\ UNCHANGED <<moments, count, files, thumbs, rowVars, uploadVars, taskVars, delVars, overlapped>>

PruneDelete(m) ==
    /\ m \in pruning
    /\ pruning' = pruning \ {m}
    /\ moments' = moments \ {m}
    /\ DropRows(RowsOf(m))
    /\ UNCHANGED <<count, files, thumbs, path, thumb, state, uploadVars, taskVars, delVars, overlapped>>

-----------------------------------------------------------------------------
UploadStep(u) ==
    \/ CheckMoment(u) \/ (\E s \in Suffixes : Probe(u, s)) \/ Place(u)
    \/ FindInMoment(u) \/ ReuseRow(u) \/ NewRow(u) \/ Insert(u) \/ InsertFails(u)
    \/ ReadTotal(u) \/ WriteTotal(u)

TaskStep(u) ==
    \/ \E p \in Paths : SkipProcessing(u, p) \/ BeginProcessing(u, p)
    \/ MissFile(u) \/ Render(u) \/ Record(u)

DeleteStep(d) ==
    \/ DeleteMedia(d) \/ DeleteMoment(d) \/ (\E u \in Uploads : PurgeThumb(d, u))
    \/ PurgeKeep(d) \/ PurgeCount(d) \/ PurgeUnlink(d)

Next ==
    \/ \E u \in Uploads : UploadStep(u) \/ TaskStep(u)
    \/ \E d \in Deletions : DeleteStep(d)
    \/ \E d \in Deletions, m \in Moments : \/ \E rows \in SUBSET Uploads : ReadMedia(d, m, rows)
                                           \/ ReadMoment(d, m)
    \/ \E m \in Moments : PruneRead(m) \/ PruneDelete(m)

Spec == Init /\ [][Next]_vars

-----------------------------------------------------------------------------
(* Properties. *)

\* A row whose file is gone belongs to an upload that was under way while the last
\* reference to its content was being given up: outside that window reference
\* counting never removes a file that a row names.
LostOnlyByOverlap ==
    \A r \in Uploads : row[r] = "live" /\ path[r] \notin files => r \in overlapped

\* No file is left behind: each is named by a row, or by an upload or a deletion
\* that is still under way.  (A moment deleted under an upload is where it fails.)
EveryFileAccounted ==
    \A p \in files :
        \/ \E r \in Uploads : row[r] = "live" /\ path[r] = p
        \/ \E u \in Uploads : InFlight(u) /\ stored[u] = p
        \/ \E d \in Deletions : \E u \in todo[d] : path[u] = p

\* What an upload is answered with exists: a row of the content it sent, in the
\* moment it sent it to, whichever of the racing uploads has stored it -- unless the
\* moment is gone, when the answer may name a row that was never stored.
AnsweredIsStored ==
    \A u \in Uploads : pc[u] = "answered" /\ moment[u] \in moments =>
        /\ row[media[u]] # "none"
        /\ moment[media[u]] = moment[u] /\ content[media[u]] = content[u]

================================================================================
