-------------------------------- MODULE Upload --------------------------------
(***************************************************************************)
(* Images attached to a message: the composer's row of attachments, the    *)
(* browser's upload, in one request or in slices, and the server's upload  *)
(* sessions and assets (websites/src/features/chat, lib/api/browser,       *)
(* app/api/assets; api/routers/assets.py, platform/storage/uploads.py).    *)
(*                                                                         *)
(* Each upload is an asynchronous function of one browser thread; its      *)
(* slices are sent by a few workers at a time.  The server handles each    *)
(* request on its own: it looks for the session and only then writes the   *)
(* slice or removes the directory.  Any request may fail or its answer be  *)
(* lost, and the server may still handle one the browser has given up.     *)
(*                                                                         *)
(* All is about one user.  An asset is known by its content, which a user  *)
(* has at most once (the unique index), and remembers one source.          *)
(***************************************************************************)
EXTENDS Integers, FiniteSets

CONSTANTS Up,            \* attachments there ever are, bound of the model
          File,
          Size,          \* length of a file
          Content,       \* what a file is once it is normalised
          SingleShot,    \* SINGLE_SHOT_LIMIT
          ChunkSize, MaxParallel

None == "none"

ASSUME FileAssumption == /\ Size \in [File -> Nat \ {0}]
                         /\ DOMAIN Content = File /\ None \notin File
ASSUME LimitAssumption == /\ SingleShot \in Nat
                          /\ ChunkSize \in Nat \ {0} /\ MaxParallel \in Nat \ {0}

VARIABLES file,         \* the file of each attachment, None before it is picked
          chip,         \* none, pending, ready; removed by the user, or sent
          pc,           \* what the upload awaits
          chunk,        \* slices: queued, sent, loaded, stored, acked, failed
          meta, saved,  \* upload session: its meta file, the slices it holds
          erase,        \* the DELETE request
          work,         \* the server's handling of an image that is all there
          asset,        \* rows of the assets table
          calm          \* history: no request failed

composer == <<file, chip>>
session == <<meta, saved>>
vars == <<composer, pc, chunk, session, erase, work, asset, calm>>

\* Variant: the last, short slice is not counted.
expected_chunksDown(f) == Size[f] \div ChunkSize

expected_chunks(f) == (Size[f] + ChunkSize - 1) \div ChunkSize
Index(f) == 0 .. expected_chunks(f) - 1
LesserOf(a, b) == IF a < b THEN a ELSE b

\* The browser's slices, and the length the server expects of them.
Slice(f, i) == LesserOf((i + 1) * ChunkSize, Size[f]) - i * ChunkSize
ExpectedSize(f, i) ==
    IF i = expected_chunks(f) - 1 THEN Size[f] - ChunkSize * (expected_chunks(f) - 1)
    ELSE ChunkSize

useChunked(f) == Size[f] > SingleShot

Init ==
    /\ file = [u \in Up |-> None] /\ chip = [u \in Up |-> "none"]
    /\ pc = [u \in Up |-> "idle"] /\ chunk = [u \in Up |-> <<>>]
    /\ meta = [u \in Up |-> FALSE] /\ saved = [u \in Up |-> {}]
    /\ erase = [u \in Up |-> "none"] /\ work = [u \in Up |-> "none"]
    /\ asset = {} /\ calm = TRUE

\* ---------------------------------------------------------------- composer
\* A file is picked or pasted: its placeholder is there at once.
uploadOne(u, f) ==
    /\ file[u] = None /\ file' = [file EXCEPT ![u] = f]
    /\ chip' = [chip EXCEPT ![u] = "pending"]
    /\ pc' = [pc EXCEPT ![u] = IF useChunked(f) THEN "create" ELSE "post"]
    /\ UNCHANGED <<chunk, session, erase, work, asset, calm>>

\* Removing an attachment does not stop its upload.
removeAttachment(u) ==
    /\ chip[u] \in {"pending", "ready"} /\ chip' = [chip EXCEPT ![u] = "removed"]
    /\ UNCHANGED <<file, pc, chunk, session, erase, work, asset, calm>>

\* A message takes the images that are there, and waits for those that are not.
submitCurrent ==
    /\ \E u \in Up : chip[u] = "ready"
    /\ \A u \in Up : chip[u] # "pending"
    /\ chip' = [u \in Up |-> IF chip[u] = "ready" THEN "sent" ELSE chip[u]]
    /\ UNCHANGED <<file, pc, chunk, session, erase, work, asset, calm>>

\* The end of an upload: only a placeholder that is still there is replaced.
Over(u, to) ==
    /\ pc' = [pc EXCEPT ![u] = "over"]
    /\ chip' = [chip EXCEPT ![u] = IF @ = "pending" THEN to ELSE @]
Ready(u) == Over(u, "ready")
Reject(u) == Over(u, "none") /\ calm' = FALSE

\* ---------------------------------------------------- an upload in slices
\* create_upload_session: an asset with this source, or a new session.
create(u) ==
    /\ pc[u] = "create"
    /\ \/ /\ \E a \in asset : a.source = file[u]
          /\ Ready(u) /\ UNCHANGED <<chunk, meta, calm>>
       \/ /\ ~\E a \in asset : a.source = file[u]
          /\ meta' = [meta EXCEPT ![u] = TRUE]
          /\ \/ /\ pc' = [pc EXCEPT ![u] = "chunks"]
                /\ chunk' = [chunk EXCEPT ![u] = [i \in Index(file[u]) |-> "queued"]]
                /\ UNCHANGED <<chip, calm>>
             \/ Reject(u) /\ UNCHANGED chunk  \* the answer is lost
       \/ Reject(u) /\ UNCHANGED <<chunk, meta>>
    /\ UNCHANGED <<file, saved, erase, work, asset>>

Flying(u) == {i \in DOMAIN chunk[u] : chunk[u][i] \in {"sent", "loaded", "stored"}}
Set(u, i, state) == chunk' = [chunk EXCEPT ![u][i] = state]

\* A worker takes the next slice of the queue.
PutChunk(u, i) ==
    /\ pc[u] = "chunks" /\ chunk[u][i] = "queued"
    /\ \A j \in DOMAIN chunk[u] : j < i => chunk[u][j] # "queued"
    /\ Cardinality(Flying(u)) < MaxParallel
    /\ Set(u, i, "sent")
    /\ UNCHANGED <<composer, pc, session, erase, work, asset, calm>>

\* put_upload_chunk: the session is looked for.
LoadForChunk(u, i) ==
    /\ chunk[u][i] = "sent"
    /\ Set(u, i, IF meta[u] THEN "loaded" ELSE "refused")
    /\ UNCHANGED <<composer, pc, session, erase, work, asset, calm>>

\* write_chunk: the directory is made if it is not there.
write_chunk(u, i) ==
    /\ chunk[u][i] = "loaded"
    /\ IF Slice(file[u], i) = ExpectedSize(file[u], i)
       THEN saved' = [saved EXCEPT ![u] = @ \cup {i}] /\ Set(u, i, "stored")
       ELSE UNCHANGED saved /\ Set(u, i, "refused")
    /\ UNCHANGED <<composer, pc, meta, erase, work, asset, calm>>

\* The answer; the last one of all is followed by the request to complete.
Acked(u, i) ==
    /\ chunk[u][i] = "stored" /\ Set(u, i, "acked")
    /\ pc' = [pc EXCEPT ![u] =
                 IF @ = "chunks" /\ \A j \in DOMAIN chunk[u] \ {i} : chunk[u][j] = "acked"
                 THEN "complete" ELSE @]
    /\ UNCHANGED <<composer, session, erase, work, asset, calm>>

\* Variant: a failed slice ends its worker only.
ChunkFailedAlone(u, i) ==
    /\ pc[u] = "chunks" /\ chunk[u][i] \in {"sent", "loaded", "stored", "refused"}
    /\ Set(u, i, "failed") /\ calm' = FALSE
    /\ UNCHANGED <<composer, pc, session, erase, work, asset>>

\* The first slice that fails ends the upload: the queue is left, the other
\* slices under way are not waited for, and the session is deleted.  Another
\* slice that fails changes nothing.
ChunkFailed(u, i) ==
    /\ pc[u] = "chunks" /\ chunk[u][i] \in {"sent", "loaded", "stored", "refused"}
    /\ Reject(u)
    /\ erase' = [erase EXCEPT ![u] = "sent"]
    /\ UNCHANGED <<file, chunk, session, work, asset>>

\* delete_upload_session.
LoadForDelete(u) ==
    /\ erase[u] = "sent"
    /\ erase' = [erase EXCEPT ![u] = IF meta[u] THEN "loaded" ELSE "done"]
    /\ UNCHANGED <<composer, pc, chunk, session, work, asset, calm>>

\* Variant: the slices are removed, their session is not.
DiscardSlices(u) == saved' = [saved EXCEPT ![u] = {}] /\ UNCHANGED meta

Discard(u) == /\ meta' = [meta EXCEPT ![u] = FALSE]
              /\ saved' = [saved EXCEPT ![u] = {}]

DeleteSession(u) ==
    /\ erase[u] = "loaded" /\ erase' = [erase EXCEPT ![u] = "done"]
    /\ Discard(u)
    /\ UNCHANGED <<composer, pc, chunk, work, asset, calm>>

\* ------------------------------------------------------- an image that is all there
\* complete_upload_session: every slice is there, or it is refused; what is put
\* together is persisted.
Complete(u) ==
    /\ pc[u] = "complete" /\ work[u] = "none"
    /\ IF meta[u] /\ saved[u] = Index(file[u])
       THEN work' = [work EXCEPT ![u] = "find"] /\ UNCHANGED <<chip, pc, calm>>
       ELSE Reject(u) /\ UNCHANGED work
    /\ UNCHANGED <<file, chunk, session, erase, asset>>

\* The one request of a small image.
Post(u) ==
    /\ pc[u] = "post" /\ work[u] = "none"
    /\ work' = [work EXCEPT ![u] = "find"]
    /\ UNCHANGED <<composer, pc, chunk, session, erase, asset, calm>>

\* _persist_image_asset: an asset with this source, or the image is normalised,
\* which takes a while.
Find(u) ==
    /\ work[u] = "find"
    /\ work' = [work EXCEPT ![u] = IF \E a \in asset : a.source = file[u]
                                   THEN "persisted" ELSE "normalise"]
    /\ UNCHANGED <<composer, pc, chunk, session, erase, asset, calm>>

\* An asset with this content, or the content is stored; or it is no image.
Normalise(u) ==
    /\ work[u] = "normalise"
    /\ \E w \in {IF \E a \in asset : a.content = Content[file[u]]
                 THEN "persisted" ELSE "insert", "failed"} :
          work' = [work EXCEPT ![u] = w]
    /\ UNCHANGED <<composer, pc, chunk, session, erase, asset, calm>>

\* The row, unless one with the source or the content has been added meanwhile:
\* the unique indexes refuse it, and that one is taken.
Insert(u) ==
    /\ work[u] = "insert" /\ work' = [work EXCEPT ![u] = "persisted"]
    /\ asset' = IF \E a \in asset : a.source = file[u] \/ a.content = Content[file[u]]
                THEN asset
                ELSE asset \cup {[source |-> file[u], content |-> Content[file[u]]]}
    /\ UNCHANGED <<composer, pc, chunk, session, erase, calm>>

\* Variant: whatever comes back is taken for an asset.
AnswerUnread(u) ==
    /\ work[u] \in {"persisted", "failed"}
    /\ IF useChunked(file[u]) THEN Discard(u) ELSE UNCHANGED session
    /\ work' = [work EXCEPT ![u] = "done"]
    /\ IF pc[u] = "over" THEN UNCHANGED <<chip, pc>> ELSE Ready(u)
    /\ UNCHANGED <<file, chunk, erase, asset, calm>>

\* Persisted or not, the session is discarded, and the browser is told.
Answer(u) ==
    /\ work[u] \in {"persisted", "failed"}
    /\ IF useChunked(file[u]) THEN Discard(u) ELSE UNCHANGED session
    /\ work' = [work EXCEPT ![u] = "done"]
    /\ IF pc[u] = "over" THEN UNCHANGED <<chip, pc, calm>>
       ELSE IF work[u] = "persisted" THEN Ready(u) /\ UNCHANGED calm
       ELSE Reject(u)
    /\ UNCHANGED <<file, chunk, erase, asset>>

\* The request to complete, or the one request, fails for the browser.
GiveUp(u) ==
    /\ pc[u] \in {"complete", "post"} /\ Reject(u)
    /\ UNCHANGED <<file, chunk, session, erase, work, asset>>

Slices(u) == \E i \in DOMAIN chunk[u] :
                 \/ PutChunk(u, i) \/ LoadForChunk(u, i) \/ write_chunk(u, i)
                 \/ Acked(u, i) \/ ChunkFailed(u, i)
Persist(u) == Complete(u) \/ Post(u) \/ Find(u) \/ Normalise(u) \/ Insert(u) \/ Answer(u)
Step(u) == create(u) \/ Slices(u) \/ Persist(u)
           \/ LoadForDelete(u) \/ DeleteSession(u) \/ GiveUp(u)

Next == \/ submitCurrent
        \/ \E u \in Up : removeAttachment(u) \/ Step(u)
        \/ \E u \in Up : \E f \in File : uploadOne(u, f)

\* What is asked is answered, or fails.
Spec == Init /\ [][Next]_vars /\ \A u \in Up : WF_vars(Step(u))

-----------------------------------------------------------------------------
(***************************************************************************)
(* Properties                                                              *)
(***************************************************************************)

\* The types; a user has a content, and a source, once.
TypeOK ==
    /\ file \in [Up -> File \cup {None}]
    /\ chip \in [Up -> {"none", "pending", "ready", "removed", "sent"}]
    /\ pc \in [Up -> {"idle", "create", "chunks", "complete", "post", "over"}]
    /\ \A u \in Up : \A i \in DOMAIN chunk[u] :
          chunk[u][i] \in {"queued", "sent", "loaded", "stored", "acked", "refused", "failed"}
    /\ meta \in [Up -> BOOLEAN]
    /\ erase \in [Up -> {"none", "sent", "loaded", "done"}]
    /\ work \in [Up -> {"none", "find", "normalise", "insert", "persisted",
                        "failed", "done"}]
    /\ calm \in BOOLEAN
    /\ \A a, b \in asset : a.content = b.content \/ a.source = b.source => a = b

\* An image that can be sent is the one asset of its own file's content,
\* whichever of the ways it came, and however many uploads of it ran at once.
ReadyIsStored ==
    \A u \in Up : chip[u] \in {"ready", "sent"} =>
        \E a \in asset : \A b \in asset : b.content = Content[file[u]] <=> b = a

\* The request to complete meets every slice: while an upload goes on, what was
\* acknowledged is there, and each slice has the length the server expects.
CompleteFindsAll ==
    \A u \in Up :
        /\ pc[u] = "complete" /\ work[u] = "none" => meta[u] /\ saved[u] = Index(file[u])
        /\ pc[u] = "chunks" => \A i \in DOMAIN chunk[u] : chunk[u][i] # "refused"
        /\ work[u] = "find" /\ useChunked(file[u]) => saved[u] = Index(file[u])

\* If no request failed, an upload that is over has left no files behind.
CalmLeavesNothing ==
    calm => \A u \in Up : pc[u] = "over" => ~meta[u] /\ saved[u] = {}

\* A placeholder does not stay.
PendingEnds == \A u \in Up : chip[u] = "pending" ~> chip[u] # "pending"
=============================================================================
