---------------------------- MODULE UploadProofs ----------------------------
(***************************************************************************)
(* What the server holds of an attachment at each moment of its upload,    *)
(* for any number of attachments, any files and any lengths.               *)
(*                                                                         *)
(* An upload is one function of the browser, of which a step moves one     *)
(* slice or the whole; only the table of assets is common to all of them,  *)
(* and it grows.  So the invariant is a conjunction over the uploads, and  *)
(* every step has to be followed through one of them.                      *)
(***************************************************************************)
EXTENDS Upload, TLAPS

ChunkState == {"queued", "sent", "loaded", "stored", "acked", "refused", "failed"}
WorkState == {"none", "find", "normalise", "insert", "persisted", "failed", "done"}

\* The types of what is kept of one upload.
Typed(u) ==
    /\ file[u] \in File \cup {None}
    /\ chip[u] \in {"none", "pending", "ready", "removed", "sent"}
    /\ pc[u] \in {"idle", "create", "chunks", "complete", "post", "over"}
    /\ chunk[u] = [i \in DOMAIN chunk[u] |-> chunk[u][i]]
    /\ \A i \in DOMAIN chunk[u] : chunk[u][i] \in ChunkState
    /\ meta[u] \in BOOLEAN
    /\ erase[u] \in {"none", "sent", "loaded", "done"}
    /\ work[u] \in WorkState

Untouched(u) == DOMAIN chunk[u] = {} /\ ~meta[u] /\ saved[u] = {} /\ erase[u] = "none"

AllAcked(u) == \A i \in DOMAIN chunk[u] : chunk[u][i] = "acked"

\* Every slice arrived, and nobody deletes them.
AllThere(u) == /\ DOMAIN chunk[u] = Index(file[u]) /\ AllAcked(u)
               /\ meta[u] /\ saved[u] = Index(file[u]) /\ erase[u] = "none"

\* Where an upload stands, and which of the two ways it went.
Way(u) ==
    /\ pc[u] = "idle" <=> file[u] = None
    /\ pc[u] = "idle" => chip[u] = "none"
    /\ pc[u] \in {"idle", "create", "chunks"} => work[u] = "none"
    /\ pc[u] \in {"create", "chunks", "complete"} => useChunked(file[u])
    /\ pc[u] = "post" => ~useChunked(file[u])
    /\ work[u] = "done" => pc[u] = "over"

\* What the server holds of its slices.
Held(u) ==
    /\ pc[u] \in {"idle", "create", "post"} => Untouched(u)
    /\ pc[u] = "over" /\ ~useChunked(file[u]) => Untouched(u)
    /\ pc[u] = "chunks" =>
          /\ DOMAIN chunk[u] = Index(file[u]) /\ meta[u] /\ erase[u] = "none"
          /\ saved[u] = {i \in DOMAIN chunk[u] : chunk[u][i] \in {"stored", "acked"}}
          /\ \A i \in DOMAIN chunk[u] : chunk[u][i] # "refused"
    /\ pc[u] = "complete" => AllThere(u)
    /\ work[u] \notin {"none", "done"} /\ useChunked(file[u]) => AllThere(u)
    /\ work[u] # "none" => AllAcked(u)
    /\ calm /\ pc[u] = "over" => ~meta[u] /\ saved[u] = {} /\ AllAcked(u)

\* An image that was persisted has its asset.
Persisted(u) ==
    chip[u] \in {"ready", "sent"} \/ work[u] = "persisted" =>
        \E a \in asset : a.content = Content[file[u]]

Sound(u) == Typed(u) /\ Way(u) /\ Held(u) /\ Persisted(u)

\* An asset has the content of its source, and no other asset has either.
AssetsOk ==
    /\ \A a \in asset : a.source \in File /\ a.content = Content[a.source]
    /\ \A a, b \in asset : a.content = b.content \/ a.source = b.source => a = b

\* Each variable has a value for every upload.
Functions == /\ file = [u \in Up |-> file[u]] /\ chip = [u \in Up |-> chip[u]]
             /\ pc = [u \in Up |-> pc[u]] /\ chunk = [u \in Up |-> chunk[u]]
             /\ meta = [u \in Up |-> meta[u]] /\ saved = [u \in Up |-> saved[u]]
             /\ erase = [u \in Up |-> erase[u]] /\ work = [u \in Up |-> work[u]]

IInv == Functions /\ calm \in BOOLEAN /\ AssetsOk /\ \A u \in Up : Sound(u)

-----------------------------------------------------------------------------
(***************************************************************************)
(* The slices of a file                                                    *)
(***************************************************************************)

LEMMA Times ==
    ASSUME NEW a \in Nat, NEW b \in Nat, NEW c \in Nat, a <= b
    PROVE  a * c <= b * c
OBVIOUS

\* As many slices as are needed, and no slice too many.
LEMMA ChunkCount ==
    ASSUME NEW f \in File
    PROVE  /\ Size[f] \in Nat \ {0} /\ ChunkSize \in Nat \ {0}
           /\ expected_chunks(f) \in Nat \ {0}
           /\ ChunkSize * (expected_chunks(f) - 1) < Size[f]
           /\ Size[f] <= ChunkSize * expected_chunks(f)
<1>1. Size[f] \in Nat \ {0} /\ ChunkSize \in Nat \ {0}
  BY FileAssumption, LimitAssumption
<1> DEFINE s == Size[f]
           c == ChunkSize
           n == (s + c - 1) \div c
<1>2. n \in Nat /\ c * n <= s + c - 1 /\ s + c - 1 < c * n + c
  BY <1>1
<1>3. n >= 1
  <2> SUFFICES ASSUME n = 0 PROVE FALSE
    BY <1>2
  <2> HIDE DEF n
  <2>1. c * n = 0
    BY <1>1
  <2> QED
    BY <1>1, <1>2, <2>1
<1>4. c * (n - 1) = c * n - c
  BY <1>1, <1>2
<1> HIDE DEF n
<1> QED
  BY <1>1, <1>2, <1>3, <1>4 DEF expected_chunks, n

\* The slice the browser cuts has the length the server expects of it, whatever
\* the length of the file: the last one is short, or as long as the others.
LEMMA SliceLength ==
    ASSUME NEW f \in File, NEW i \in Index(f)
    PROVE  Slice(f, i) = ExpectedSize(f, i)
<1> DEFINE s == Size[f]
           c == ChunkSize
           n == expected_chunks(f)
<1>1. s \in Nat \ {0} /\ c \in Nat \ {0} /\ n \in Nat \ {0} /\ c * (n - 1) < s /\ s <= c * n
  BY ChunkCount
<1>2. i \in Nat /\ i <= n - 1
  BY <1>1 DEF Index
<1>3. CASE i = n - 1
  <2>1. (i + 1) * c = c * n /\ i * c = c * (n - 1)
    BY <1>1, <1>3
  <2>2. LesserOf((i + 1) * c, s) = s
    BY <1>1, <2>1 DEF LesserOf
  <2> QED
    BY <1>3, <2>1, <2>2 DEF Slice, ExpectedSize
<1>4. CASE i # n - 1
  <2>1. i + 1 <= n - 1
    BY <1>1, <1>2, <1>4
  <2>2. (i + 1) * c <= (n - 1) * c
    BY <1>1, <1>2, <2>1, Times
  <2>3. (i + 1) * c < s /\ (i + 1) * c \in Nat /\ (i + 1) * c - i * c = c
    BY <1>1, <1>2, <2>2
  <2>4. LesserOf((i + 1) * c, s) = (i + 1) * c
    BY <2>3 DEF LesserOf
  <2> QED
    BY <1>4, <2>3, <2>4 DEF Slice, ExpectedSize
<1> QED
  BY <1>3, <1>4

-----------------------------------------------------------------------------
(***************************************************************************)
(* The shapes of a step                                                    *)
(***************************************************************************)

\* The other uploads stay as they are.
Elsewhere(u) ==
    \A v \in Up \ {u} : /\ file'[v] = file[v] /\ chip'[v] = chip[v] /\ pc'[v] = pc[v]
                        /\ chunk'[v] = chunk[v] /\ meta'[v] = meta[v]
                        /\ saved'[v] = saved[v] /\ erase'[v] = erase[v]
                        /\ work'[v] = work[v]

\* An upload that does not move stays sound, though assets are added and others
\* may fail.
LEMMA SoundStays ==
    ASSUME NEW u, Sound(u), calm' => calm, asset \subseteq asset',
           file'[u] = file[u], chip'[u] = chip[u], pc'[u] = pc[u], chunk'[u] = chunk[u],
           meta'[u] = meta[u], saved'[u] = saved[u], erase'[u] = erase[u],
           work'[u] = work[u]
    PROVE  Sound(u)'
<1>1. Typed(u)' /\ Way(u)'
  BY DEF Sound, Typed, Way, useChunked
<1>2. Held(u)'
  BY DEF Sound, Held, Untouched, AllAcked, AllThere, useChunked, Index, expected_chunks
<1>3. Persisted(u)'
  BY DEF Sound, Persisted
<1> QED
  BY <1>1, <1>2, <1>3 DEF Sound

LEMMA OneUpload ==
    ASSUME IInv, NEW u \in Up, Functions', Elsewhere(u), calm' => calm, calm' \in BOOLEAN,
           asset \subseteq asset', AssetsOk', Sound(u)'
    PROVE  IInv'
<1>1. \A v \in Up \ {u} : Sound(v)'
  BY SoundStays DEF IInv, Elsewhere
<1> QED
  BY <1>1 DEF IInv

\* A slice that gets one stage further leaves the others.
LEMMA OneSlice ==
    ASSUME IInv, NEW u \in Up, NEW i \in DOMAIN chunk[u], NEW s \in ChunkState, Set(u, i, s)
    PROVE  /\ chunk' = [v \in Up |-> chunk'[v]]
           /\ \A v \in Up \ {u} : chunk'[v] = chunk[v]
           /\ DOMAIN chunk'[u] = DOMAIN chunk[u] /\ chunk'[u][i] = s
           /\ \A j \in DOMAIN chunk[u] \ {i} : chunk'[u][j] = chunk[u][j]
           /\ chunk'[u] = [j \in DOMAIN chunk'[u] |-> chunk'[u][j]]
           /\ \A j \in DOMAIN chunk'[u] : chunk'[u][j] \in ChunkState
<1>1. chunk = [v \in Up |-> chunk[v]] /\ Typed(u)
  BY DEF IInv, Functions, Sound
<1>2. chunk' = [chunk EXCEPT ![u] = [chunk[u] EXCEPT ![i] = s]]
  BY DEF Set
<1>3. chunk'[u] = [chunk[u] EXCEPT ![i] = s]
  BY <1>1, <1>2
<1>4. \A v \in Up \ {u} : chunk'[v] = chunk[v]
  BY <1>1, <1>2
<1> QED
  BY <1>1, <1>2, <1>3, <1>4 DEF Typed

-----------------------------------------------------------------------------
(***************************************************************************)
(* The composer                                                            *)
(***************************************************************************)

\* Nothing is held yet of a file that has just been picked.
LEMMA uploadOneKeeps ==
    ASSUME IInv, NEW u \in Up, NEW f \in File, uploadOne(u, f)
    PROVE  IInv'
<1>1. Functions' /\ Elsewhere(u)
  BY DEF uploadOne, IInv, Functions, Elsewhere, session
<1>2. UNCHANGED <<chunk, meta, saved, erase, work, asset, calm>>
  BY DEF uploadOne, session
<1>3. /\ file'[u] = f /\ f # None /\ chip'[u] = "pending" /\ file[u] = None
      /\ pc'[u] = IF useChunked(f) THEN "create" ELSE "post"
  BY FileAssumption DEF uploadOne, IInv, Functions
<1>4. Sound(u)'
  <2>1. Sound(u)
    BY DEF IInv
  <2>2. pc[u] = "idle" /\ work[u] = "none" /\ Untouched(u)
    BY <1>3, <2>1 DEF Sound, Way, Held
  <2>3. Typed(u)'
    BY <1>2, <1>3, <2>1 DEF Sound, Typed
  <2>4. Way(u)'
    BY <1>2, <1>3, <2>2 DEF Way
  <2>5. Held(u)'
    BY <1>2, <1>3, <2>2 DEF Held, Untouched
  <2>6. Persisted(u)'
    BY <1>2, <1>3, <2>2 DEF Persisted
  <2> QED
    BY <2>3, <2>4, <2>5, <2>6 DEF Sound
<1> QED
  BY <1>1, <1>2, <1>4, OneUpload DEF IInv, AssetsOk

LEMMA removeAttachmentKeeps ==
    ASSUME IInv, NEW u \in Up, removeAttachment(u)
    PROVE  IInv'
<1>1. Functions' /\ Elsewhere(u)
  BY DEF removeAttachment, IInv, Functions, Elsewhere, session
<1>2. UNCHANGED <<file, pc, chunk, meta, saved, erase, work, asset, calm>>
  BY DEF removeAttachment, session
<1>3. chip'[u] = "removed" /\ chip[u] \in {"pending", "ready"}
  BY DEF removeAttachment, IInv, Functions
<1>4. Sound(u)'
  BY <1>2, <1>3 DEF IInv, Sound, Typed, Way, Held, Untouched, AllAcked, AllThere, Persisted
<1> QED
  BY <1>1, <1>2, <1>4, OneUpload DEF IInv, AssetsOk

\* A message takes every image that is there.
LEMMA submitCurrentKeeps ==
    ASSUME IInv, submitCurrent
    PROVE  IInv'
<1>1. UNCHANGED <<file, pc, chunk, meta, saved, erase, work, asset, calm>>
  BY DEF submitCurrent, session
<1>2. chip' = [v \in Up |-> IF chip[v] = "ready" THEN "sent" ELSE chip[v]]
  BY DEF submitCurrent
<1>3. Functions'
  <2>1. chip' = [v \in Up |-> chip'[v]]
    BY <1>2
  <2> QED
    BY <1>1, <2>1 DEF IInv, Functions
<1>4. ASSUME NEW u \in Up PROVE Sound(u)'
  <2>1. chip'[u] = IF chip[u] = "ready" THEN "sent" ELSE chip[u]
    BY <1>2
  <2> QED
    BY <1>1, <2>1 DEF IInv, Sound, Typed, Way, Held, Untouched, AllAcked, AllThere, Persisted
<1> QED
  BY <1>1, <1>3, <1>4 DEF IInv, AssetsOk

-----------------------------------------------------------------------------
(***************************************************************************)
(* The end of an upload                                                    *)
(***************************************************************************)

LEMMA OverChip ==
    ASSUME IInv, NEW u \in Up, NEW to \in {"none", "ready"}, Over(u, to)
    PROVE  /\ pc' = [v \in Up |-> pc'[v]] /\ chip' = [v \in Up |-> chip'[v]]
           /\ \A v \in Up \ {u} : pc'[v] = pc[v] /\ chip'[v] = chip[v]
           /\ pc'[u] = "over" /\ chip'[u] = IF chip[u] = "pending" THEN to ELSE chip[u]
BY DEF Over, IInv, Functions

\* An upload that fails keeps what the server has, and shows nothing.
LEMMA RejectKeeps ==
    ASSUME IInv, NEW u \in Up, Reject(u), pc[u] # "idle",
           UNCHANGED <<file, chunk, saved, work, asset>>,
           meta' = [v \in Up |-> meta'[v]], meta'[u] \in BOOLEAN,
           erase' = [v \in Up |-> erase'[v]], erase'[u] \in {"none", "sent"},
           \A v \in Up \ {u} : meta'[v] = meta[v] /\ erase'[v] = erase[v],
           \/ meta'[u] = meta[u] /\ erase'[u] = erase[u]
           \/ useChunked(file[u]) /\ work[u] = "none"
    PROVE  IInv'
<1>1. Over(u, "none") /\ calm' = FALSE
  BY DEF Reject
<1>2. /\ pc' = [v \in Up |-> pc'[v]] /\ chip' = [v \in Up |-> chip'[v]]
      /\ \A v \in Up \ {u} : pc'[v] = pc[v] /\ chip'[v] = chip[v]
      /\ pc'[u] = "over" /\ chip'[u] = IF chip[u] = "pending" THEN "none" ELSE chip[u]
  BY <1>1, OverChip
<1>3. Functions' /\ Elsewhere(u)
  BY <1>2 DEF IInv, Functions, Elsewhere
<1>4. Sound(u)'
  <2>1. Sound(u)
    BY DEF IInv
  <2>2. Typed(u)'
    BY <1>2, <2>1 DEF Sound, Typed
  <2>3. Way(u)'
    BY <1>2, <2>1 DEF Sound, Way
  <2>4. Held(u)'
    <3>1. ~useChunked(file[u]) => Untouched(u)'
      BY <2>1 DEF Sound, Way, Held, Untouched, Typed
    <3>2. work[u] \notin {"none", "done"} /\ useChunked(file[u]) => AllThere(u)'
      BY <2>1 DEF Sound, Held, AllThere, AllAcked
    <3>3. work[u] # "none" => AllAcked(u)'
      BY <2>1 DEF Sound, Held, AllAcked
    <3> QED
      BY <1>1, <1>2, <3>1, <3>2, <3>3 DEF Held
  <2>5. Persisted(u)'
    BY <1>2, <2>1 DEF Sound, Persisted
  <2> QED
    BY <2>2, <2>3, <2>4, <2>5 DEF Sound
<1> QED
  BY <1>1, <1>3, <1>4, OneUpload DEF IInv, AssetsOk

LEMMA GiveUpKeeps ==
    ASSUME IInv, NEW u \in Up, GiveUp(u)
    PROVE  IInv'
<1>1. meta' = meta /\ erase' = erase /\ saved' = saved /\ pc[u] # "idle" /\ Reject(u)
      /\ UNCHANGED <<file, chunk, work, asset>>
  BY DEF GiveUp, session
<1>2. Typed(u) /\ Functions /\ Held(u)
  BY DEF IInv, Sound
<1>3. erase[u] = "none" /\ meta[u] \in BOOLEAN
  BY <1>2 DEF GiveUp, Held, Untouched, AllThere, Typed
<1>4. erase = [v \in Up |-> erase[v]] /\ meta = [v \in Up |-> meta[v]]
  BY <1>2 DEF Functions
<1> QED
  BY <1>1, <1>3, <1>4, RejectKeeps

-----------------------------------------------------------------------------
(***************************************************************************)
(* An upload in slices                                                     *)
(***************************************************************************)

\* A session is made with nothing in it, and all the slices are yet to be sent.
LEMMA createKeeps ==
    ASSUME IInv, NEW u \in Up, create(u)
    PROVE  IInv'
<1>1. /\ UNCHANGED <<file, saved, erase, work, asset>> /\ pc[u] = "create"
      /\ Sound(u) /\ Functions
  BY DEF create, IInv
<1>2. work[u] = "none" /\ Untouched(u) /\ useChunked(file[u]) /\ file[u] \in File
  BY <1>1 DEF Sound, Typed, Way, Held
<1>3. CASE /\ \E a \in asset : a.source = file[u]
           /\ Ready(u) /\ UNCHANGED <<chunk, meta, calm>>
  <2>1. /\ pc' = [v \in Up |-> pc'[v]] /\ chip' = [v \in Up |-> chip'[v]]
        /\ \A v \in Up \ {u} : pc'[v] = pc[v] /\ chip'[v] = chip[v]
        /\ pc'[u] = "over" /\ chip'[u] = IF chip[u] = "pending" THEN "ready" ELSE chip[u]
    BY <1>3, OverChip DEF Ready
  <2>2. Functions' /\ Elsewhere(u)
    BY <1>1, <1>3, <2>1 DEF Functions, Elsewhere
  <2>3. \E a \in asset : a.content = Content[file[u]]
    BY <1>3 DEF IInv, AssetsOk
  <2>4. Sound(u)'
    <3>1. Typed(u)' /\ Way(u)'
      BY <1>1, <1>2, <1>3, <2>1 DEF Sound, Typed, Way
    <3>2. Held(u)'
      BY <1>1, <1>2, <1>3, <2>1 DEF Sound, Held, Untouched, AllAcked
    <3>3. Persisted(u)'
      BY <1>1, <2>3 DEF Persisted
    <3> QED
      BY <3>1, <3>2, <3>3 DEF Sound
  <2> QED
    BY <1>1, <1>3, <2>2, <2>4, OneUpload DEF IInv, AssetsOk
<1>4. CASE /\ meta' = [meta EXCEPT ![u] = TRUE] /\ Reject(u) /\ UNCHANGED chunk
  <2>1. /\ meta' = [v \in Up |-> meta'[v]] /\ meta'[u] \in BOOLEAN
        /\ \A v \in Up \ {u} : meta'[v] = meta[v] /\ erase'[v] = erase[v]
        /\ erase' = [v \in Up |-> erase'[v]] /\ erase'[u] = "none"
    BY <1>1, <1>2, <1>4 DEF Functions, Untouched
  <2> QED
    BY <1>1, <1>2, <1>4, <2>1, RejectKeeps
<1>5. CASE Reject(u) /\ UNCHANGED <<chunk, meta>>
  <2>1. /\ meta' = [v \in Up |-> meta'[v]] /\ meta'[u] \in BOOLEAN
        /\ \A v \in Up \ {u} : meta'[v] = meta[v] /\ erase'[v] = erase[v]
        /\ erase' = [v \in Up |-> erase'[v]] /\ erase'[u] = "none"
    BY <1>1, <1>2, <1>5 DEF Functions, Untouched, Sound, Typed
  <2> QED
    BY <1>1, <1>2, <1>5, <2>1, RejectKeeps
<1>6. CASE /\ meta' = [meta EXCEPT ![u] = TRUE] /\ pc' = [pc EXCEPT ![u] = "chunks"]
           /\ chunk' = [chunk EXCEPT ![u] = [i \in Index(file[u]) |-> "queued"]]
           /\ UNCHANGED <<chip, calm>>
  <2>1. Functions' /\ Elsewhere(u)
    BY <1>1, <1>6 DEF Functions, Elsewhere
  <2>2. /\ meta'[u] = TRUE /\ pc'[u] = "chunks" /\ chip'[u] = chip[u]
        /\ chunk'[u] = [i \in Index(file[u]) |-> "queued"]
    BY <1>1, <1>6 DEF Functions
  <2>3. /\ DOMAIN chunk'[u] = Index(file[u]) /\ \A i \in Index(file[u]) : chunk'[u][i] = "queued"
        /\ chunk'[u] = [i \in DOMAIN chunk'[u] |-> chunk'[u][i]]
    BY <2>2
  <2>4. Typed(u)'
    BY <1>1, <2>2, <2>3 DEF Sound, Typed, ChunkState
  <2>5. Way(u)'
    BY <1>1, <1>2, <2>2 DEF Sound, Way
  <2>6. Held(u)'
    <3>1. saved'[u] = {} /\ erase'[u] = "none" /\ work'[u] = "none"
      BY <1>1, <1>2 DEF Untouched
    <3>2. {i \in DOMAIN chunk'[u] : chunk'[u][i] \in {"stored", "acked"}} = {}
      BY <2>3
    <3> QED
      BY <1>1, <2>2, <2>3, <3>1, <3>2 DEF Held
  <2>7. Persisted(u)'
    BY <1>1, <2>2 DEF Sound, Persisted
  <2>8. Sound(u)'
    BY <2>4, <2>5, <2>6, <2>7 DEF Sound
  <2> QED
    BY <1>1, <1>6, <2>1, <2>8, OneUpload DEF IInv, AssetsOk
<1> QED
  BY <1>3, <1>4, <1>5, <1>6 DEF create

\* A slice that is not yet acknowledged belongs to an upload that goes on, or that
\* has failed.
LEMMA SliceUnderWay ==
    ASSUME IInv, NEW u \in Up, NEW i \in DOMAIN chunk[u], chunk[u][i] # "acked"
    PROVE  /\ file[u] \in File /\ useChunked(file[u]) /\ work[u] = "none"
           /\ pc[u] \in {"chunks", "over"} /\ (pc[u] = "over" => ~calm)
<1>1. Typed(u) /\ Way(u) /\ Held(u) /\ ~AllAcked(u) /\ ~Untouched(u)
  BY DEF IInv, Sound, AllAcked, Untouched
<1> QED
  BY <1>1 DEF Typed, Way, Held, AllThere

\* A slice gets one stage further: while the upload goes on, what the server holds
\* is what has been stored.
LEMMA SliceStep ==
    ASSUME IInv, NEW u \in Up, NEW i \in DOMAIN chunk[u], chunk[u][i] # "acked",
           NEW s \in ChunkState, Set(u, i, s),
           UNCHANGED <<file, chip, pc, meta, erase, work, asset, calm>>,
           saved' = [v \in Up |-> saved'[v]], \A v \in Up \ {u} : saved'[v] = saved[v],
           pc[u] = "chunks" =>
              /\ s # "refused" /\ (chunk[u][i] = "stored" => s = "acked")
              /\ saved'[u] = IF s \in {"stored", "acked"} THEN saved[u] \cup {i} ELSE saved[u]
    PROVE  IInv'
<1>1. /\ file[u] \in File /\ useChunked(file[u]) /\ work[u] = "none"
      /\ pc[u] \in {"chunks", "over"} /\ (pc[u] = "over" => ~calm)
  BY SliceUnderWay
<1>2. /\ chunk' = [v \in Up |-> chunk'[v]]
      /\ \A v \in Up \ {u} : chunk'[v] = chunk[v]
      /\ DOMAIN chunk'[u] = DOMAIN chunk[u] /\ chunk'[u][i] = s
      /\ \A j \in DOMAIN chunk[u] \ {i} : chunk'[u][j] = chunk[u][j]
      /\ chunk'[u] = [j \in DOMAIN chunk'[u] |-> chunk'[u][j]]
      /\ \A j \in DOMAIN chunk'[u] : chunk'[u][j] \in ChunkState
  BY OneSlice
<1>3. Functions' /\ Elsewhere(u)
  BY <1>2 DEF IInv, Functions, Elsewhere
<1>4. Sound(u) /\ Typed(u)' /\ Way(u)' /\ Persisted(u)'
  BY <1>2 DEF IInv, Sound, Typed, Way, Persisted
<1>5. Held(u)'
  <2>1. CASE pc[u] = "chunks"
    <3>1. /\ DOMAIN chunk[u] = Index(file[u]) /\ meta[u] /\ erase[u] = "none"
          /\ saved[u] = {j \in DOMAIN chunk[u] : chunk[u][j] \in {"stored", "acked"}}
          /\ \A j \in DOMAIN chunk[u] : chunk[u][j] # "refused"
      BY <1>4, <2>1 DEF Sound, Held
    <3>2. \A j \in DOMAIN chunk'[u] : chunk'[u][j] # "refused"
      BY <1>2, <2>1, <3>1
    <3>3. saved'[u] = {j \in DOMAIN chunk'[u] : chunk'[u][j] \in {"stored", "acked"}}
      BY <1>2, <2>1, <3>1
    <3> QED
      BY <1>1, <1>2, <2>1, <3>1, <3>2, <3>3 DEF Held
  <2>2. CASE pc[u] = "over"
    BY <1>1, <2>2 DEF Held
  <2> QED
    BY <1>1, <2>1, <2>2
<1>6. Sound(u)'
  BY <1>4, <1>5 DEF Sound
<1> QED
  BY <1>3, <1>6, OneUpload DEF IInv, AssetsOk

LEMMA PutChunkKeeps ==
    ASSUME IInv, NEW u \in Up, NEW i \in DOMAIN chunk[u], PutChunk(u, i)
    PROVE  IInv'
<1>1. /\ chunk[u][i] = "queued" /\ Set(u, i, "sent") /\ saved' = saved
      /\ UNCHANGED <<file, chip, pc, meta, erase, work, asset, calm>>
  BY DEF PutChunk, composer, session
<1>2. saved' = [v \in Up |-> saved'[v]]
  BY <1>1 DEF IInv, Functions
<1> QED
  BY <1>1, <1>2, SliceStep DEF ChunkState

\* The session is there while the upload goes on.
LEMMA LoadForChunkKeeps ==
    ASSUME IInv, NEW u \in Up, NEW i \in DOMAIN chunk[u], LoadForChunk(u, i)
    PROVE  IInv'
<1> DEFINE s == IF meta[u] THEN "loaded" ELSE "refused"
<1>1. /\ chunk[u][i] = "sent" /\ Set(u, i, s) /\ saved' = saved
      /\ UNCHANGED <<file, chip, pc, meta, erase, work, asset, calm>>
  BY DEF LoadForChunk, composer, session
<1>2. saved' = [v \in Up |-> saved'[v]]
  BY <1>1 DEF IInv, Functions
<1>3. pc[u] = "chunks" => meta[u]
  BY DEF IInv, Sound, Held
<1>4. s \in ChunkState
  BY DEF ChunkState
<1> QED
  BY <1>1, <1>2, <1>3, <1>4, SliceStep

\* No slice is refused for its length.
LEMMA write_chunkKeeps ==
    ASSUME IInv, NEW u \in Up, NEW i \in DOMAIN chunk[u], write_chunk(u, i)
    PROVE  IInv'
<1>1. /\ chunk[u][i] = "loaded"
      /\ UNCHANGED <<file, chip, pc, meta, erase, work, asset, calm>>
  BY DEF write_chunk, composer
<1>2. CASE Slice(file[u], i) = ExpectedSize(file[u], i)
  <2>1. saved' = [saved EXCEPT ![u] = @ \cup {i}] /\ Set(u, i, "stored")
    BY <1>2 DEF write_chunk
  <2>2. /\ saved' = [v \in Up |-> saved'[v]] /\ \A v \in Up \ {u} : saved'[v] = saved[v]
        /\ saved'[u] = saved[u] \cup {i}
    BY <2>1 DEF IInv, Functions
  <2> QED
    BY <1>1, <2>1, <2>2, SliceStep DEF ChunkState
<1>3. CASE Slice(file[u], i) # ExpectedSize(file[u], i)
  <2>1. saved' = saved /\ Set(u, i, "refused")
    BY <1>3 DEF write_chunk
  <2>2. saved' = [v \in Up |-> saved'[v]]
    BY <2>1 DEF IInv, Functions
  <2>3. pc[u] # "chunks"
    <3>1. file[u] \in File
      BY <1>1, SliceUnderWay
    <3>2. i \notin Index(file[u])
      BY <1>3, <3>1, SliceLength
    <3> QED
      BY <3>2 DEF IInv, Sound, Held
  <2> QED
    BY <1>1, <2>1, <2>2, <2>3, SliceStep DEF ChunkState
<1> QED
  BY <1>2, <1>3

\* When the last slice is acknowledged, all of them are there.
LEMMA AckedKeeps ==
    ASSUME IInv, NEW u \in Up, NEW i \in DOMAIN chunk[u], Acked(u, i)
    PROVE  IInv'
<1>1. /\ chunk[u][i] = "stored" /\ Set(u, i, "acked") /\ saved' = saved
      /\ UNCHANGED <<file, chip, meta, erase, work, asset, calm>>
  BY DEF Acked, composer, session
<1> DEFINE last == pc[u] = "chunks" /\ \A j \in DOMAIN chunk[u] \ {i} : chunk[u][j] = "acked"
<1>2. pc' = [pc EXCEPT ![u] = IF last THEN "complete" ELSE @]
  BY DEF Acked
<1>3. Functions /\ Sound(u)
  BY DEF IInv
<1>4. CASE ~last
  <2>1. pc' = pc
    BY <1>2, <1>3, <1>4 DEF Functions
  <2>2. pc[u] = "chunks" => i \in saved[u]
    BY <1>1, <1>3 DEF Sound, Held
  <2>3. pc[u] = "chunks" => saved'[u] = saved[u] \cup {i}
    BY <1>1, <2>2
  <2>4. saved' = [v \in Up |-> saved'[v]]
    BY <1>1, <1>3 DEF Functions
  <2> QED
    BY <1>1, <2>1, <2>3, <2>4, SliceStep DEF ChunkState
<1>5. CASE last
  <2>1. /\ chunk' = [v \in Up |-> chunk'[v]]
        /\ \A v \in Up \ {u} : chunk'[v] = chunk[v]
        /\ DOMAIN chunk'[u] = DOMAIN chunk[u] /\ chunk'[u][i] = "acked"
        /\ \A j \in DOMAIN chunk[u] \ {i} : chunk'[u][j] = chunk[u][j]
        /\ chunk'[u] = [j \in DOMAIN chunk'[u] |-> chunk'[u][j]]
        /\ \A j \in DOMAIN chunk'[u] : chunk'[u][j] \in ChunkState
    BY <1>1, OneSlice DEF ChunkState
  <2>2. Functions' /\ Elsewhere(u)
    BY <1>1, <1>2, <1>3, <2>1 DEF Functions, Elsewhere
  <2>3. pc'[u] = "complete" /\ pc[u] = "chunks"
    BY <1>2, <1>3, <1>5 DEF Functions
  <2>4. /\ DOMAIN chunk[u] = Index(file[u]) /\ meta[u] /\ erase[u] = "none"
        /\ saved[u] = {j \in DOMAIN chunk[u] : chunk[u][j] \in {"stored", "acked"}}
    BY <1>3, <2>3 DEF Sound, Held
  <2>5. AllAcked(u)' /\ saved[u] = Index(file[u])
    BY <1>1, <1>5, <2>1, <2>4 DEF AllAcked
  <2>6. AllThere(u)'
    BY <1>1, <2>1, <2>4, <2>5 DEF AllThere
  <2>7. Typed(u)' /\ Way(u)' /\ Persisted(u)'
    BY <1>1, <1>3, <2>1, <2>3 DEF Sound, Typed, Way, Persisted
  <2>8. Held(u)'
    BY <2>3, <2>5, <2>6 DEF Held
  <2>9. Sound(u)'
    BY <2>7, <2>8 DEF Sound
  <2> QED
    BY <1>1, <2>2, <2>9, OneUpload DEF IInv, AssetsOk
<1> QED
  BY <1>4, <1>5

LEMMA ChunkFailedKeeps ==
    ASSUME IInv, NEW u \in Up, NEW i \in DOMAIN chunk[u], ChunkFailed(u, i)
    PROVE  IInv'
<1>1. /\ Reject(u) /\ erase' = [erase EXCEPT ![u] = "sent"] /\ pc[u] = "chunks"
      /\ UNCHANGED <<file, chunk, meta, saved, work, asset>>
  BY DEF ChunkFailed, session
<1>2. Functions /\ Sound(u)
  BY DEF IInv
<1>3. useChunked(file[u]) /\ work[u] = "none" /\ meta[u] \in BOOLEAN
  BY <1>1, <1>2 DEF Sound, Way, Typed
<1>4. /\ meta' = [v \in Up |-> meta'[v]]
      /\ erase' = [v \in Up |-> erase'[v]] /\ erase'[u] = "sent"
      /\ \A v \in Up \ {u} : erase'[v] = erase[v]
  BY <1>1, <1>2 DEF Functions
<1> QED
  BY <1>1, <1>3, <1>4, RejectKeeps

\* A session is deleted only of an upload that has failed.
LEMMA ErasedIsOver ==
    ASSUME IInv, NEW u \in Up, erase[u] # "none"
    PROVE  /\ pc[u] = "over" /\ useChunked(file[u])
           /\ work[u] \in {"none", "done"}
BY DEF IInv, Sound, Typed, Held, Untouched, AllThere

LEMMA LoadForDeleteKeeps ==
    ASSUME IInv, NEW u \in Up, LoadForDelete(u)
    PROVE  IInv'
<1> DEFINE s == IF meta[u] THEN "loaded" ELSE "done"
<1>1. /\ erase[u] = "sent" /\ erase' = [erase EXCEPT ![u] = s]
      /\ UNCHANGED <<file, chip, pc, chunk, meta, saved, work, asset, calm>>
  BY DEF LoadForDelete, composer, session
<1>2. Functions /\ Sound(u)
  BY DEF IInv
<1>3. Functions' /\ Elsewhere(u)
  BY <1>1, <1>2 DEF Functions, Elsewhere
<1>4. pc[u] = "over" /\ useChunked(file[u]) /\ work[u] \in {"none", "done"}
  BY <1>1, ErasedIsOver
<1>5. erase'[u] = s /\ s \in {"none", "sent", "loaded", "done"}
  BY <1>1, <1>2 DEF Functions
<1>6. Sound(u)'
  BY <1>1, <1>2, <1>4, <1>5 DEF Sound, Typed, Way, Held, AllAcked, Persisted
<1> QED
  BY <1>1, <1>3, <1>6, OneUpload DEF IInv, AssetsOk

LEMMA DeleteSessionKeeps ==
    ASSUME IInv, NEW u \in Up, DeleteSession(u)
    PROVE  IInv'
<1>1. /\ erase[u] = "loaded" /\ erase' = [erase EXCEPT ![u] = "done"]
      /\ meta' = [meta EXCEPT ![u] = FALSE] /\ saved' = [saved EXCEPT ![u] = {}]
      /\ UNCHANGED <<file, chip, pc, chunk, work, asset, calm>>
  BY DEF DeleteSession, composer, Discard
<1>2. Functions /\ Sound(u)
  BY DEF IInv
<1>3. Functions' /\ Elsewhere(u)
  BY <1>1, <1>2 DEF Functions, Elsewhere
<1>4. pc[u] = "over" /\ useChunked(file[u]) /\ work[u] \in {"none", "done"}
  BY <1>1, ErasedIsOver
<1>5. erase'[u] = "done" /\ meta'[u] = FALSE /\ saved'[u] = {}
  BY <1>1, <1>2 DEF Functions
<1>6. Sound(u)'
  BY <1>1, <1>2, <1>4, <1>5 DEF Sound, Typed, Way, Held, AllAcked, Persisted
<1> QED
  BY <1>1, <1>3, <1>6, OneUpload DEF IInv, AssetsOk

-----------------------------------------------------------------------------
(***************************************************************************)
(* An image that is all there                                              *)
(***************************************************************************)

\* The server gets on with an image: all its slices stay there.
LEMMA WorkStep ==
    ASSUME IInv, NEW u \in Up, NEW w \in WorkState \ {"none", "done"},
           work' = [work EXCEPT ![u] = w],
           UNCHANGED <<file, chip, pc, chunk, meta, saved, erase, calm>>,
           work[u] \notin {"none", "done"} \/ pc[u] \in {"complete", "post"},
           asset \subseteq asset', AssetsOk',
           w = "persisted" => \E a \in asset' : a.content = Content[file[u]]
    PROVE  IInv'
<1>1. Functions /\ Sound(u)
  BY DEF IInv
<1>2. Functions' /\ Elsewhere(u) /\ work'[u] = w
  BY <1>1 DEF Functions, Elsewhere
<1>3. Typed(u)' /\ Way(u)'
  BY <1>1, <1>2 DEF Sound, Typed, Way
<1>4. Held(u)'
  <2>1. AllAcked(u) /\ (useChunked(file[u]) => AllThere(u))
    BY <1>1 DEF Sound, Way, Held, AllThere, AllAcked, Untouched
  <2>2. AllAcked(u)' /\ (useChunked(file[u]) => AllThere(u)')
    BY <2>1 DEF AllThere, AllAcked
  <2>3. /\ pc[u] \in {"complete", "post", "over"} /\ (pc[u] = "complete" => useChunked(file[u]))
        /\ ~useChunked(file[u]) => Untouched(u)
        /\ calm /\ pc[u] = "over" => ~meta[u] /\ saved[u] = {}
        /\ pc[u] = "post" => ~useChunked(file[u])
    BY <1>1 DEF Sound, Typed, Way, Held
  <2>4. ~useChunked(file[u]) => Untouched(u)'
    BY <2>3 DEF Untouched
  <2> QED
    BY <1>2, <2>2, <2>3, <2>4 DEF Held, Untouched
<1>5. Persisted(u)'
  BY <1>1, <1>2 DEF Sound, Persisted
<1>6. Sound(u)'
  BY <1>3, <1>4, <1>5 DEF Sound
<1> QED
  BY <1>2, <1>6, OneUpload DEF IInv

\* The branch that refuses is never taken.
LEMMA CompleteKeeps ==
    ASSUME IInv, NEW u \in Up, Complete(u)
    PROVE  IInv'
<1>1. pc[u] = "complete" /\ UNCHANGED <<file, chunk, meta, saved, erase, asset>>
  BY DEF Complete, session
<1>2. AllThere(u)
  BY <1>1 DEF IInv, Sound, Held
<1>3. work' = [work EXCEPT ![u] = "find"] /\ UNCHANGED <<chip, pc, calm>>
  BY <1>2 DEF Complete, AllThere
<1> QED
  BY <1>1, <1>3, WorkStep DEF WorkState, IInv, AssetsOk

LEMMA PostKeeps ==
    ASSUME IInv, NEW u \in Up, Post(u)
    PROVE  IInv'
BY WorkStep DEF Post, composer, session, WorkState, IInv, AssetsOk

LEMMA FindKeeps ==
    ASSUME IInv, NEW u \in Up, Find(u)
    PROVE  IInv'
<1>1. (\E a \in asset : a.source = file[u]) => \E a \in asset : a.content = Content[file[u]]
  BY DEF IInv, AssetsOk
<1> DEFINE w == IF \E a \in asset : a.source = file[u] THEN "persisted" ELSE "normalise"
<1>2. w \in WorkState \ {"none", "done"}
  BY DEF WorkState
<1>3. w = "persisted" => \E a \in asset : a.content = Content[file[u]]
  BY <1>1
<1>4. /\ work' = [work EXCEPT ![u] = w] /\ work[u] = "find"
      /\ UNCHANGED <<file, chip, pc, chunk, meta, saved, erase, asset, calm>>
  BY DEF Find, composer, session
<1> HIDE DEF w
<1> QED
  BY <1>2, <1>3, <1>4, WorkStep DEF IInv, AssetsOk

LEMMA NormaliseKeeps ==
    ASSUME IInv, NEW u \in Up, Normalise(u)
    PROVE  IInv'
<1>1. PICK w \in {IF \E a \in asset : a.content = Content[file[u]]
                 THEN "persisted" ELSE "insert", "failed"} :
                 work' = [work EXCEPT ![u] = w]
  BY DEF Normalise
<1>2. /\ work[u] = "normalise"
      /\ UNCHANGED <<file, chip, pc, chunk, meta, saved, erase, asset, calm>>
  BY DEF Normalise, composer, session
<1>3. /\ w \in WorkState \ {"none", "done"}
      /\ w = "persisted" => \E a \in asset : a.content = Content[file[u]]
  BY DEF WorkState
<1> QED
  BY <1>1, <1>2, <1>3, WorkStep DEF IInv, AssetsOk

\* Whether the row is added or one was there, there is one, and one only.
LEMMA InsertKeeps ==
    ASSUME IInv, NEW u \in Up, Insert(u)
    PROVE  IInv'
<1>1. /\ work[u] = "insert" /\ work' = [work EXCEPT ![u] = "persisted"]
      /\ UNCHANGED <<file, chip, pc, chunk, meta, saved, erase, calm>>
  BY DEF Insert, composer, session
<1>2. file[u] \in File
  BY <1>1 DEF IInv, Sound, Typed, Way
<1>3. CASE \E a \in asset : a.source = file[u] \/ a.content = Content[file[u]]
  <2>1. asset' = asset
    BY <1>3 DEF Insert
  <2>2. AssetsOk' /\ \E a \in asset : a.content = Content[file[u]]
    BY <1>3, <2>1 DEF IInv, AssetsOk
  <2> QED
    BY <1>1, <2>1, <2>2, WorkStep DEF WorkState
<1>4. CASE ~\E a \in asset : a.source = file[u] \/ a.content = Content[file[u]]
  <2> DEFINE new == [source |-> file[u], content |-> Content[file[u]]]
  <2>1. asset' = asset \cup {new}
    BY <1>4 DEF Insert
  <2>2. new.source = file[u] /\ new.content = Content[file[u]]
    OBVIOUS
  <2> HIDE DEF new
  <2>3. AssetsOk'
    BY <1>2, <1>4, <2>1, <2>2 DEF IInv, AssetsOk
  <2>4. \E a \in asset' : a.content = Content[file[u]]
    BY <2>1, <2>2
  <2> QED
    BY <1>1, <2>1, <2>3, <2>4, WorkStep DEF WorkState
<1> QED
  BY <1>3, <1>4

\* The session goes, and the browser is told what has become of the image.
LEMMA AnswerKeeps ==
    ASSUME IInv, NEW u \in Up, Answer(u)
    PROVE  IInv'
<1>1. /\ work[u] \in {"persisted", "failed"} /\ work' = [work EXCEPT ![u] = "done"]
      /\ IF useChunked(file[u]) THEN Discard(u) ELSE UNCHANGED <<meta, saved>>
      /\ UNCHANGED <<file, chunk, erase, asset>>
  BY DEF Answer, session
<1>2. Functions /\ Sound(u)
  BY DEF IInv
<1>3. AllAcked(u) /\ (useChunked(file[u]) => AllThere(u)) /\ pc[u] \in {"complete", "post", "over"}
  BY <1>1, <1>2 DEF Sound, Typed, Way, Held
<1>4. ~useChunked(file[u]) => Untouched(u)
  BY <1>2, <1>3 DEF Sound, Way, Held
<1>5. /\ meta' = [v \in Up |-> meta'[v]] /\ saved' = [v \in Up |-> saved'[v]]
      /\ work' = [v \in Up |-> work'[v]] /\ work'[u] = "done"
      /\ \A v \in Up \ {u} : meta'[v] = meta[v] /\ saved'[v] = saved[v] /\ work'[v] = work[v]
      /\ meta'[u] = FALSE /\ saved'[u] = {}
  BY <1>1, <1>2, <1>4 DEF Functions, Discard, Untouched, Sound, Typed
<1>6. /\ pc' = [v \in Up |-> pc'[v]] /\ chip' = [v \in Up |-> chip'[v]]
      /\ \A v \in Up \ {u} : pc'[v] = pc[v] /\ chip'[v] = chip[v]
      /\ pc'[u] = "over" /\ (calm' => calm) /\ calm' \in BOOLEAN
      /\ \/ chip'[u] = chip[u] \/ chip'[u] = "none"
         \/ chip'[u] = "ready" /\ work[u] = "persisted"
  <2>1. CASE pc[u] = "over"
    BY <1>2, <2>1 DEF Answer, Functions, IInv
  <2>2. CASE pc[u] # "over" /\ work[u] = "persisted"
    <3>1. Over(u, "ready") /\ calm' = calm
      BY <2>2 DEF Answer, Ready
    <3> QED
      BY <2>2, <3>1, OverChip DEF IInv
  <2>3. CASE pc[u] # "over" /\ work[u] # "persisted"
    <3>1. Over(u, "none") /\ calm' = FALSE
      BY <2>3 DEF Answer, Reject
    <3> QED
      BY <2>3, <3>1, OverChip
  <2> QED
    BY <2>1, <2>2, <2>3
<1>7. Functions' /\ Elsewhere(u)
  BY <1>1, <1>2, <1>5, <1>6 DEF Functions, Elsewhere
<1>8. Sound(u)'
  <2>1. Typed(u)' /\ Way(u)'
    BY <1>1, <1>2, <1>3, <1>5, <1>6 DEF Sound, Typed, Way, WorkState
  <2>2. Held(u)'
    <3>1. AllAcked(u)'
      BY <1>1, <1>3 DEF AllAcked
    <3>2. ~useChunked(file[u]) => Untouched(u)'
      BY <1>1, <1>4, <1>5 DEF Untouched
    <3> QED
      BY <1>1, <1>5, <1>6, <3>1, <3>2 DEF Held
  <2>3. Persisted(u)'
    BY <1>1, <1>2, <1>5, <1>6 DEF Sound, Persisted
  <2> QED
    BY <2>1, <2>2, <2>3 DEF Sound
<1> QED
  BY <1>1, <1>6, <1>7, <1>8, OneUpload DEF IInv, AssetsOk

-----------------------------------------------------------------------------
(***************************************************************************)
(* The theorems                                                            *)
(***************************************************************************)

LEMMA InitIInv == Init => IInv
<1> SUFFICES ASSUME Init PROVE IInv
  OBVIOUS
<1>1. Functions /\ AssetsOk /\ calm \in BOOLEAN
  BY DEF Init, Functions, AssetsOk
<1>2. ASSUME NEW u \in Up PROVE Sound(u)
  <2>1. chunk[u] = <<>> /\ DOMAIN chunk[u] = {}
    BY DEF Init
  <2>2. chunk[u] = [i \in DOMAIN chunk[u] |-> chunk[u][i]]
    BY <2>1
  <2> QED
    BY <2>1, <2>2 DEF Init, Sound, Typed, Way, Held, Untouched, AllAcked, Persisted, WorkState
<1> QED
  BY <1>1, <1>2 DEF IInv

LEMMA SlicesKeep ==
    ASSUME IInv, NEW u \in Up, Slices(u)
    PROVE  IInv'
BY PutChunkKeeps, LoadForChunkKeeps, write_chunkKeeps, AckedKeeps, ChunkFailedKeeps DEF Slices

LEMMA PersistKeeps ==
    ASSUME IInv, NEW u \in Up, Persist(u)
    PROVE  IInv'
BY CompleteKeeps, PostKeeps, FindKeeps, NormaliseKeeps, InsertKeeps, AnswerKeeps DEF Persist

LEMMA NextIInv == IInv /\ [Next]_vars => IInv'
<1> SUFFICES ASSUME IInv, [Next]_vars PROVE IInv'
  OBVIOUS
<1>1. CASE Next
  BY <1>1, submitCurrentKeeps, removeAttachmentKeeps, uploadOneKeeps, createKeeps, SlicesKeep,
     PersistKeeps, LoadForDeleteKeeps, DeleteSessionKeeps, GiveUpKeeps DEF Next, Step
<1>2. CASE UNCHANGED vars
  <2>1. UNCHANGED <<file, chip, pc, chunk, meta, saved, erase, work, asset, calm>>
    BY <1>2 DEF vars, composer, session
  <2>2. \A u \in Up : Sound(u)'
    BY <2>1, SoundStays DEF IInv
  <2> QED
    BY <2>1, <2>2 DEF IInv, Functions, AssetsOk
<1> QED
  BY <1>1, <1>2

LEMMA Invariance == Spec => []IInv
BY InitIInv, NextIInv, PTL DEF Spec

\* The types, and that no asset of a user is there twice, neither by its source
\* nor by its content (_persist_image_asset of assets.py).
THEOREM OneAssetOfEach == Spec => []TypeOK
<1>1. IInv => TypeOK
  <2> SUFFICES ASSUME IInv PROVE TypeOK
    OBVIOUS
  <2>1. \A u \in Up : Typed(u)
    BY DEF IInv, Sound
  <2>2. /\ file \in [Up -> File \cup {None}]
        /\ chip \in [Up -> {"none", "pending", "ready", "removed", "sent"}]
        /\ pc \in [Up -> {"idle", "create", "chunks", "complete", "post", "over"}]
        /\ meta \in [Up -> BOOLEAN]
        /\ erase \in [Up -> {"none", "sent", "loaded", "done"}]
        /\ work \in [Up -> WorkState]
    BY <2>1 DEF IInv, Functions, Typed
  <2> QED
    BY <2>1, <2>2 DEF IInv, AssetsOk, Typed, TypeOK, WorkState, ChunkState
<1> QED
  BY <1>1, Invariance, PTL

\* An image that can be sent is the one asset of its file's content, whichever of
\* the ways it came (uploadOne of chat-composer.tsx, create_upload_session and
\* _persist_image_asset of assets.py).
THEOREM SentImagesAreStored == Spec => []ReadyIsStored
<1>1. IInv => ReadyIsStored
  BY DEF IInv, Sound, Persisted, AssetsOk, ReadyIsStored
<1> QED
  BY <1>1, Invariance, PTL

\* The request to complete an upload meets every slice, and no slice is refused
\* while the upload goes on, for a file of any length (expected_chunks and
\* write_chunk of uploads.py, the slices of lib/api/browser/index.ts).
THEOREM NoSliceIsMissing == Spec => []CompleteFindsAll
<1>1. IInv => CompleteFindsAll
  BY DEF IInv, Sound, Held, AllThere, CompleteFindsAll
<1> QED
  BY <1>1, Invariance, PTL

\* If no request has failed, an upload that is over has left no files behind
\* (complete_upload_session of assets.py).
THEOREM NothingIsLeftBehind == Spec => []CalmLeavesNothing
<1>1. IInv => CalmLeavesNothing
  BY DEF IInv, Sound, Held, CalmLeavesNothing
<1> QED
  BY <1>1, Invariance, PTL
=============================================================================
