-------------------------------- MODULE Files --------------------------------
(***************************************************************************)
(* The image files: UploadService streams an upload to disk, an attempt of *)
(* the pipeline (or a search by image) writes the processed variant beside *)
(* it, ProductImageService serves it and makes thumbnails on demand.  No   *)
(* file is written under a temporary name, and the queue may run two       *)
(* attempts of one job at once (WorkerPool: a late attempt is recovered, a *)
(* job is promoted twice), which then write the same file.  A file is      *)
(* abstracted to how much of it there is.                                  *)
(***************************************************************************)
EXTENDS Naturals

CONSTANTS
    Uploads,
    Queries,    \* those that come with a search or a duplicate check
    Attempts,   \* attempts under way at once, of any uploads
    Readers,    \* requests for an image under way at once
    None,
    MaxChunks,  \* max_upload_size_mb, in chunks
    MaxFaults

\* What the values of the constants must satisfy.
ConstantsOK ==
    /\ Queries \subseteq Uploads
    /\ None \notin Uploads \cup Attempts \cup {"original", "broken"} /\ "broken" \notin Attempts
    /\ {MaxChunks, MaxFaults} \subseteq Nat

VARIABLES
    original,   \* upload_dir
    processed,  \* processed_dir
    thumb,      \* processed_dir/thumbnails
    size,       \* chunks of a stream under way that were written
    step,       \* where each upload is
    indexed,    \* can its image_filename be found in the vector store?
    queued,     \* is there a copy of its job that no attempt has taken?
    at,         \* where each attempt is
    job,        \* the upload it works on
    made,       \* did its save create the file?
    writer,     \* whose save the processed file waits for: the attempt that
                \* opened it last, "broken" when that save will not end
    pc,         \* where each request is
    asks,       \* the upload it asks for
    variant,    \* the file it was resolved to
    sent,       \* how much of it was sent
    faults

streamVars == <<original, size, step>>
attemptVars == <<queued, at, job, made>>
readVars == <<pc, asks, variant, sent>>
vars == <<streamVars, attemptVars, readVars, processed, thumb, indexed, writer, faults>>

\* "mixed": two attempts wrote into it at once, and neither ended as the last.
Contents == {"none", "partial", "mixed", "whole"}
Saving == {"saving", "savingAgain"}
Places == {"free", "begun", "saved", "again", "savedAgain", "index", "finish"} \cup Saving

Init ==
    /\ original = [u \in Uploads |-> "none"]
    /\ processed = [u \in Uploads |-> "none"]
    /\ thumb = [u \in Uploads |-> "none"]
    /\ size = [u \in Uploads |-> 0]
    /\ step = [u \in Uploads |-> "new"]
    /\ indexed = [u \in Uploads |-> FALSE]
    /\ queued = [u \in Uploads |-> FALSE]
    /\ at = [w \in Attempts |-> "free"]
    /\ job = [w \in Attempts |-> None]
    /\ made = [w \in Attempts |-> FALSE]
    /\ writer = [u \in Uploads |-> None]
    /\ pc = [r \in Readers |-> "idle"]
    /\ asks = [r \in Readers |-> None]
    /\ variant = [r \in Readers |-> None]
    /\ sent = [r \in Readers |-> "none"]
    /\ faults = 0

-----------------------------------------------------------------------------
(* The upload.                                                             *)

OtherVars == <<processed, thumb, indexed, writer, at, job, made, readVars>>

\* Refused by its name or its declared type, before any file is opened.
Refuse(u) ==
    /\ step[u] = "new"
    /\ step' = [step EXCEPT ![u] = "refused"]
    /\ UNCHANGED <<original, size, queued, faults, OtherVars>>

Open(u) ==
    /\ step[u] = "new"
    /\ original' = [original EXCEPT ![u] = "partial"]
    /\ step' = [step EXCEPT ![u] = "streaming"]
    /\ UNCHANGED <<size, queued, faults, OtherVars>>

\* Mutant: the partial file stays when the limit is exceeded.
Chunk_KeepsFile(u) ==
    /\ step[u] = "streaming"
    /\ IF size[u] = MaxChunks
         THEN step' = [step EXCEPT ![u] = "refused"] /\ size' = [size EXCEPT ![u] = 0] /\ UNCHANGED original
         ELSE size' = [size EXCEPT ![u] = @ + 1] /\ UNCHANGED <<step, original>>
    /\ UNCHANGED <<queued, faults, OtherVars>>

\* A chunk over the limit is not written, and takes the file with it.
Chunk(u) ==
    /\ step[u] = "streaming"
    /\ IF size[u] = MaxChunks
         THEN /\ step' = [step EXCEPT ![u] = "refused"]
              /\ original' = [original EXCEPT ![u] = "none"]
              /\ size' = [size EXCEPT ![u] = 0]
         ELSE size' = [size EXCEPT ![u] = @ + 1] /\ UNCHANGED <<step, original>>
    /\ UNCHANGED <<queued, faults, OtherVars>>

\* A product is queued, a query goes on in the same request: either waits
\* for an attempt.  What was sent is an acceptable image or it is not.
EndOfStream(u) ==
    /\ step[u] = "streaming"
    /\ original' = [original EXCEPT ![u] = "whole"]
    /\ \E s \in {"image", "junk"} : step' = [step EXCEPT ![u] = s]
    /\ queued' = [queued EXCEPT ![u] = TRUE] /\ size' = [size EXCEPT ![u] = 0]
    /\ UNCHANGED <<faults, OtherVars>>

\* A write fails or the process dies; nothing removes what was written.
StreamBreaks(u) ==
    /\ step[u] = "streaming" /\ faults < MaxFaults
    /\ faults' = faults + 1
    /\ step' = [step EXCEPT ![u] = "broken"] /\ size' = [size EXCEPT ![u] = 0]
    /\ UNCHANGED <<original, queued, OtherVars>>

-----------------------------------------------------------------------------
(* The processed image.                                                    *)

Begin(w, u) ==
    /\ at[w] = "free" /\ queued[u]
    /\ queued' = [queued EXCEPT ![u] = FALSE]
    /\ at' = [at EXCEPT ![w] = "begun"] /\ job' = [job EXCEPT ![w] = u]
    /\ UNCHANGED <<streamVars, processed, thumb, indexed, writer, made, readVars, faults>>

\* The job is handed out again while an attempt of it runs: its claim is
\* swept as stale or cleared, or a second worker promotes it too.
Redeliver(w) ==
    /\ at[w] # "free" /\ job[w] \notin Queries
    /\ queued' = [queued EXCEPT ![job[w]] = TRUE]
    /\ UNCHANGED <<streamVars, at, job, made, processed, thumb, indexed, writer, readVars, faults>>

Leave(w) ==
    /\ at' = [at EXCEPT ![w] = "free"] /\ job' = [job EXCEPT ![w] = None]
    /\ made' = [made EXCEPT ![w] = FALSE]

\* A job is queued again or is out of tries; a query has one.
Fails(w) ==
    /\ Leave(w)
    /\ \/ UNCHANGED queued
       \/ job[w] \notin Queries /\ queued' = [queued EXCEPT ![job[w]] = TRUE]

\* ImageValidator opens the original twice and lets nothing else be written.
Invalid(w) ==
    /\ at[w] = "begun" /\ step[job[w]] = "junk"
    /\ Fails(w)
    /\ UNCHANGED <<streamVars, processed, thumb, indexed, writer, readVars, faults>>

\* image.save opens the file under its final name, which empties it; another
\* attempt that has it open goes on writing where it was.
StartSave(w) ==
    /\ \/ at[w] = "begun" /\ step[job[w]] = "image" /\ at' = [at EXCEPT ![w] = "saving"]
       \/ at[w] = "again" /\ at' = [at EXCEPT ![w] = "savingAgain"]
    /\ LET u == job[w]
           shared == processed[u] # "none" /\ \E v \in Attempts \ {w} : at[v] \in Saving /\ job[v] = u
       IN  /\ processed' = [processed EXCEPT ![u] = IF shared THEN "mixed" ELSE "partial"]
           /\ made' = [made EXCEPT ![w] = processed[u] = "none"]
           /\ writer' = [writer EXCEPT ![u] = w]
    /\ UNCHANGED <<streamVars, queued, job, thumb, indexed, readVars, faults>>

\* The attempts write the same bytes: once the one that opened it last is
\* through the file is whole, whatever the others still write.
FinishSave(w) ==
    /\ at[w] \in Saving
    /\ at' = [at EXCEPT ![w] = IF @ = "saving" THEN "saved" ELSE "savedAgain"]
    /\ made' = [made EXCEPT ![w] = FALSE]
    /\ IF writer[job[w]] = w
         THEN /\ processed' = [processed EXCEPT ![job[w]] = "whole"]
              /\ writer' = [writer EXCEPT ![job[w]] = None]
         ELSE UNCHANGED <<processed, writer>>
    /\ UNCHANGED <<streamVars, queued, job, thumb, indexed, readVars, faults>>

\* A save that raises removes the file if it created it (Pillow does), and
\* leaves what it wrote otherwise.
SaveRaises(w) ==
    /\ at[w] \in Saving /\ faults < MaxFaults
    /\ faults' = faults + 1
    /\ Fails(w)
    /\ processed' = [processed EXCEPT ![job[w]] = IF made[w] THEN "none" ELSE @]
    /\ writer' = [writer EXCEPT ![job[w]] = IF made[w] \/ @ = w THEN "broken" ELSE @]
    /\ UNCHANGED <<streamVars, thumb, indexed, readVars>>

\* The file is read back for the embedding.  That is the end for a query;
\* duplicate detection, unless it is off, searches by the same upload and
\* processes it again.
Embed(w) ==
    /\ at[w] \in {"saved", "savedAgain"} /\ processed[job[w]] \in {"mixed", "whole"}
    /\ IF job[w] \in Queries
         THEN Leave(w)
         ELSE /\ \/ at' = [at EXCEPT ![w] = "index"]
                 \/ at[w] = "saved" /\ at' = [at EXCEPT ![w] = "again"]
              /\ UNCHANGED <<job, made>>
    /\ UNCHANGED <<streamVars, queued, processed, thumb, indexed, writer, readVars, faults>>

\* What is not whole may not decode, and what is gone cannot be opened.
Unreadable(w) ==
    /\ at[w] \in {"saved", "savedAgain"} /\ processed[job[w]] # "whole"
    /\ Fails(w)
    /\ UNCHANGED <<streamVars, processed, thumb, indexed, writer, readVars, faults>>

\* Mutant: the vectors are stored before the image is processed.
Index_First(w) ==
    /\ at[w] \in {"begun", "index"} /\ job[w] \notin Queries
    /\ indexed' = [indexed EXCEPT ![job[w]] = TRUE]
    /\ at' = [at EXCEPT ![w] = IF @ = "index" THEN "finish" ELSE @]
    /\ UNCHANGED <<streamVars, queued, job, made, processed, thumb, writer, readVars, faults>>

\* The first upsert with the payload that names the image.
Index(w) ==
    /\ at[w] = "index"
    /\ indexed' = [indexed EXCEPT ![job[w]] = TRUE]
    /\ at' = [at EXCEPT ![w] = "finish"]
    /\ UNCHANGED <<streamVars, queued, job, made, processed, thumb, writer, readVars, faults>>

\* The text vector, the record of the job, analytics.
Finish(w) ==
    /\ at[w] = "finish"
    /\ Leave(w)
    /\ UNCHANGED <<streamVars, queued, processed, thumb, indexed, writer, readVars, faults>>

\* Another stage fails, or the process dies and its job is recovered.
AttemptFails(w) ==
    /\ at[w] # "free" /\ faults < MaxFaults
    /\ faults' = faults + 1
    /\ Fails(w)
    /\ writer' = [writer EXCEPT ![job[w]] = IF @ = w THEN "broken" ELSE @]
    /\ UNCHANGED <<streamVars, processed, thumb, indexed, readVars>>

-----------------------------------------------------------------------------
(* GET /products/{id}/image.                                               *)

fileVars == <<streamVars, attemptVars, processed, indexed, writer>>

Request(r, u) ==
    /\ pc[r] = "idle" /\ indexed[u]
    /\ pc' = [pc EXCEPT ![r] = "resolve"] /\ asks' = [asks EXCEPT ![r] = u]
    /\ UNCHANGED <<variant, sent, thumb, fileVars, faults>>

Resolved(r, v) ==
    /\ variant' = [variant EXCEPT ![r] = v]
    /\ pc' = [pc EXCEPT ![r] = "send"]
    /\ UNCHANGED <<asks, sent>>

\* The processed image, else the original, else there is none.
Resolve(r) ==
    /\ pc[r] = "resolve"
    /\ Resolved(r, CASE processed[asks[r]] # "none" -> "processed"
                     [] processed[asks[r]] = "none" /\ original[asks[r]] # "none" -> "original"
                     [] OTHER -> None)
    /\ UNCHANGED <<thumb, fileVars, faults>>

\* The thumbnail that is there.
ResolveThumbnail(r) ==
    /\ pc[r] = "resolve" /\ processed[asks[r]] # "none" /\ thumb[asks[r]] # "none"
    /\ Resolved(r, "thumb")
    /\ UNCHANGED <<thumb, fileVars, faults>>

\* It is made from the processed image; no other request comes in between,
\* for this part does not await.  An image with a hole may decode to a
\* spoiled thumbnail.
MakeThumbnail(r) ==
    /\ pc[r] = "resolve" /\ processed[asks[r]] \in {"mixed", "whole"} /\ thumb[asks[r]] = "none"
    /\ thumb' = [thumb EXCEPT ![asks[r]] = processed[asks[r]]]
    /\ Resolved(r, "thumb")
    /\ UNCHANGED <<fileVars, faults>>

ThumbnailFails(r) ==
    /\ pc[r] = "resolve" /\ processed[asks[r]] \in {"partial", "mixed"} /\ thumb[asks[r]] = "none"
    /\ pc' = [pc EXCEPT ![r] = "failed"]
    /\ UNCHANGED <<asks, variant, sent, thumb, fileVars, faults>>

\* The API dies while it writes a thumbnail, and its requests with it; the
\* next process takes the file for the thumbnail.
DieInThumbnail(r) ==
    /\ pc[r] = "resolve" /\ processed[asks[r]] = "whole" /\ thumb[asks[r]] = "none"
    /\ faults < MaxFaults
    /\ faults' = faults + 1
    /\ thumb' = [thumb EXCEPT ![asks[r]] = "partial"]
    /\ pc' = [q \in Readers |-> "idle"] /\ asks' = [q \in Readers |-> None]
    /\ variant' = [q \in Readers |-> None] /\ sent' = [q \in Readers |-> "none"]
    /\ UNCHANGED fileVars

\* FileResponse reads the file when the response is sent.
Send(r) ==
    /\ pc[r] = "send"
    /\ sent' = [sent EXCEPT ![r] =
                   CASE variant[r] = "processed" -> processed[asks[r]]
                     [] variant[r] = "original" -> original[asks[r]]
                     [] variant[r] = "thumb" -> thumb[asks[r]]
                     [] OTHER -> "none"]
    /\ pc' = [pc EXCEPT ![r] = "sent"]
    /\ UNCHANGED <<asks, variant, thumb, fileVars, faults>>

Return(r) ==
    /\ pc[r] \in {"sent", "failed"}
    /\ pc' = [pc EXCEPT ![r] = "idle"] /\ asks' = [asks EXCEPT ![r] = None]
    /\ variant' = [variant EXCEPT ![r] = None] /\ sent' = [sent EXCEPT ![r] = "none"]
    /\ UNCHANGED <<thumb, fileVars, faults>>

-----------------------------------------------------------------------------
Next ==
    \/ \E u \in Uploads :
         \/ Refuse(u)
         \/ Open(u)
         \/ Chunk(u)
         \/ EndOfStream(u)
         \/ StreamBreaks(u)
         \/ \E w \in Attempts : Begin(w, u)
         \/ \E r \in Readers : Request(r, u)
    \/ \E w \in Attempts :
         \/ Redeliver(w)
         \/ Invalid(w)
         \/ StartSave(w)
         \/ FinishSave(w)
         \/ SaveRaises(w)
         \/ Embed(w)
         \/ Unreadable(w)
         \/ Index(w)
         \/ Finish(w)
         \/ AttemptFails(w)
    \/ \E r \in Readers :
         \/ Resolve(r)
         \/ ResolveThumbnail(r)
         \/ MakeThumbnail(r)
         \/ ThumbnailFails(r)
         \/ DieInThumbnail(r)
         \/ Send(r)
         \/ Return(r)

Spec == Init /\ [][Next]_vars

-----------------------------------------------------------------------------
TypeOK ==
    /\ {original, processed, thumb} \subseteq [Uploads -> Contents]
    /\ size \in [Uploads -> 0..MaxChunks]
    /\ step \in [Uploads -> {"new", "refused", "streaming", "broken", "image", "junk"}]
    /\ {indexed, queued} \subseteq [Uploads -> BOOLEAN]
    /\ at \in [Attempts -> Places] /\ made \in [Attempts -> BOOLEAN]
    /\ job \in [Attempts -> Uploads \cup {None}]
    /\ writer \in [Uploads -> Attempts \cup {None, "broken"}]
    /\ pc \in [Readers -> {"idle", "resolve", "send", "sent", "failed"}]
    /\ asks \in [Readers -> Uploads \cup {None}]
    /\ variant \in [Readers -> {None, "processed", "original", "thumb"}]
    /\ sent \in [Readers -> Contents]
    /\ faults \in 0..MaxFaults

\* A refused upload leaves no file and an incomplete original is one whose
\* stream broke; and whatever attempts overlap and fail, the image of an
\* indexed product is whole unless its last save still runs or broke off.
FilesAccounted ==
    \A u \in Uploads :
        /\ original[u] = "partial" => step[u] \in {"streaming", "broken"}
        /\ step[u] = "refused" => original[u] = "none"
        /\ indexed[u] => original[u] = "whole"
        /\ indexed[u] /\ writer[u] = None => processed[u] = "whole"
        /\ writer[u] \in Attempts => at[writer[u]] \in Saving /\ job[writer[u]] = u

\* Unless at that moment the last save of the image runs or has broken off,
\* a client is sent a whole image and never the original, or a thumbnail,
\* which is whole unless it was made at such a moment or the API died in it.
SendsWhole ==
    /\ \A r \in Readers :
         LET u == asks[r]
             settled == u # None /\ writer[u] = None
         IN  /\ settled /\ pc[r] = "send" /\ pc'[r] = "sent" =>
                   sent'[r] = "whole" \/ (variant[r] = "thumb" /\ thumb[u] # "whole")
             /\ settled /\ pc[r] = "resolve" =>
                   /\ pc'[r] # "failed"
                   /\ pc'[r] = "send" => variant'[r] \in {"processed", "thumb"}
    /\ \A u \in Uploads :
         thumb'[u] # thumb[u] => \/ thumb[u] = "none" /\ thumb'[u] = "whole"
                                \/ writer[u] # None
                                \/ faults' # faults

ServedWhole == [][SendsWhole]_vars

=============================================================================
