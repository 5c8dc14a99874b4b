----------------------------- MODULE FilesProofs -----------------------------
(***************************************************************************)
(* For any number of uploads, overlapping attempts and requests: what is   *)
(* served was whole unless its save runs or broke off at that moment, and  *)
(* no file is left that nothing accounts for.                              *)
(***************************************************************************)
EXTENDS Files, TLAPS

Typed ==
    /\ original \in [Uploads -> Contents] /\ processed \in [Uploads -> Contents]
    /\ thumb \in [Uploads -> Contents]
    /\ size \in [Uploads -> Nat]
    /\ step \in [Uploads -> {"new", "refused", "streaming", "broken", "image", "junk"}]
    /\ indexed \in [Uploads -> BOOLEAN] /\ queued \in [Uploads -> BOOLEAN]
    /\ at \in [Attempts -> Places] /\ made \in [Attempts -> BOOLEAN]
    /\ job \in [Attempts -> Uploads \cup {None}]
    /\ writer \in [Uploads -> Attempts \cup {None, "broken"}]
    /\ pc \in [Readers -> {"idle", "resolve", "send", "sent", "failed"}]
    /\ asks \in [Readers -> Uploads \cup {None}]
    /\ variant \in [Readers -> {None, "processed", "original", "thumb"}]
    /\ sent \in [Readers -> Contents]

\* The processed image is whole unless its last save runs or broke off.  It
\* is so from the first save on, whatever is saved later and by whom.
Settled(u) == writer[u] = None => processed[u] = "whole"

\* Only a whole original is worked on, and what is indexed was saved before.
UploadOK(u) ==
    /\ step[u] \in {"image", "junk"} => original[u] = "whole"
    /\ step[u] = "new" => original[u] = "none"
    /\ queued[u] \/ indexed[u] => step[u] \in {"image", "junk"}
    /\ indexed[u] => Settled(u)

\* An attempt works on an upload that was accepted, and from the moment it
\* opens the file there is something to be seen of it.
AttemptOK(w) ==
    /\ at[w] # "free" => job[w] \in Uploads /\ step[job[w]] \in {"image", "junk"}
    /\ at[w] \notin {"free", "begun"} => Settled(job[w])

\* A request asks for a product that is indexed, and was resolved to a file.
RequestOK(r) ==
    /\ pc[r] # "idle" => asks[r] \in Uploads /\ indexed[asks[r]]
    /\ pc[r] = "send" => variant[r] \in {"processed", "original", "thumb"}

IInv ==
    /\ Typed
    /\ \A u \in Uploads : UploadOK(u)
    /\ \A w \in Attempts : AttemptOK(w)
    /\ \A r \in Readers : RequestOK(r)
    /\ FilesAccounted

-----------------------------------------------------------------------------
\* What the steps of an upload or an attempt leave to the requests: a product
\* stays indexed.
LEMMA RequestsKept ==
    ASSUME IInv, UNCHANGED readVars, \A u \in Uploads : indexed[u] => indexed'[u]
    PROVE  \A r \in Readers : RequestOK(r)'
  BY DEF IInv, Typed, RequestOK, readVars

\* A refused upload has no file yet.
LEMMA RefuseStep ==
    ASSUME ConstantsOK, IInv, NEW u \in Uploads, Refuse(u)
    PROVE  IInv'
  <1> USE DEF ConstantsOK, IInv, Refuse, streamVars, readVars, OtherVars
  <1>1. Typed'
    BY DEF Typed, AttemptOK, RequestOK, Places, Saving, Contents
  <1>2. \A x \in Uploads : UploadOK(x)'
    BY DEF Typed, UploadOK, AttemptOK, Settled, Saving
  <1>3. \A v \in Attempts : AttemptOK(v)'
    BY DEF Typed, UploadOK, AttemptOK, Settled, Saving
  <1>4. \A q \in Readers : RequestOK(q)'
    BY RequestsKept DEF Typed, AttemptOK
  <1>5. FilesAccounted'
    BY DEF Typed, UploadOK, AttemptOK, Settled, FilesAccounted, Saving
  <1> QED BY <1>1, <1>2, <1>3, <1>4, <1>5

\* The original is opened before anything else of its upload exists.
LEMMA OpenStep ==
    ASSUME ConstantsOK, IInv, NEW u \in Uploads, Open(u)
    PROVE  IInv'
  <1> USE DEF ConstantsOK, IInv, Open, streamVars, readVars, OtherVars
  <1>1. Typed'
    BY DEF Typed, AttemptOK, RequestOK, Places, Saving, Contents
  <1>2. \A x \in Uploads : UploadOK(x)'
    BY DEF Typed, UploadOK, AttemptOK, Settled, Saving
  <1>3. \A v \in Attempts : AttemptOK(v)'
    BY DEF Typed, UploadOK, AttemptOK, Settled, Saving
  <1>4. \A q \in Readers : RequestOK(q)'
    BY RequestsKept DEF Typed, AttemptOK
  <1>5. FilesAccounted'
    BY DEF Typed, UploadOK, AttemptOK, Settled, FilesAccounted, Saving
  <1> QED BY <1>1, <1>2, <1>3, <1>4, <1>5

\* Beyond the limit the file goes with the upload.
LEMMA ChunkStep ==
    ASSUME ConstantsOK, IInv, NEW u \in Uploads, Chunk(u)
    PROVE  IInv'
  <1> USE DEF ConstantsOK, IInv, Chunk, streamVars, readVars, OtherVars
  <1>1. Typed'
    BY DEF Typed, AttemptOK, RequestOK, Places, Saving, Contents
  <1>2. \A x \in Uploads : UploadOK(x)'
    BY DEF Typed, UploadOK, AttemptOK, Settled, Saving
  <1>3. \A v \in Attempts : AttemptOK(v)'
    BY DEF Typed, UploadOK, AttemptOK, Settled, Saving
  <1>4. \A q \in Readers : RequestOK(q)'
    BY RequestsKept DEF Typed, AttemptOK
  <1>5. FilesAccounted'
    BY DEF Typed, UploadOK, AttemptOK, Settled, FilesAccounted, Saving
  <1> QED BY <1>1, <1>2, <1>3, <1>4, <1>5

\* From here on the original is whole.
LEMMA EndOfStreamStep ==
    ASSUME ConstantsOK, IInv, NEW u \in Uploads, EndOfStream(u)
    PROVE  IInv'
  <1> USE DEF ConstantsOK, IInv, EndOfStream, streamVars, readVars, OtherVars
  <1>1. Typed'
    BY DEF Typed, AttemptOK, RequestOK, Places, Saving, Contents
  <1>2. \A x \in Uploads : UploadOK(x)'
    BY DEF Typed, UploadOK, AttemptOK, Settled, Saving
  <1>3. \A v \in Attempts : AttemptOK(v)'
    BY DEF Typed, UploadOK, AttemptOK, Settled, Saving
  <1>4. \A q \in Readers : RequestOK(q)'
    BY RequestsKept DEF Typed, AttemptOK
  <1>5. FilesAccounted'
    BY DEF Typed, UploadOK, AttemptOK, Settled, FilesAccounted, Saving
  <1> QED BY <1>1, <1>2, <1>3, <1>4, <1>5

\* A broken stream leaves its file, and nothing will read it.
LEMMA StreamBreaksStep ==
    ASSUME ConstantsOK, IInv, NEW u \in Uploads, StreamBreaks(u)
    PROVE  IInv'
  <1> USE DEF ConstantsOK, IInv, StreamBreaks, streamVars, readVars, OtherVars
  <1>1. Typed'
    BY DEF Typed, AttemptOK, RequestOK, Places, Saving, Contents
  <1>2. \A x \in Uploads : UploadOK(x)'
    BY DEF Typed, UploadOK, AttemptOK, Settled, Saving
  <1>3. \A v \in Attempts : AttemptOK(v)'
    BY DEF Typed, UploadOK, AttemptOK, Settled, Saving
  <1>4. \A q \in Readers : RequestOK(q)'
    BY RequestsKept DEF Typed, AttemptOK
  <1>5. FilesAccounted'
    BY DEF Typed, UploadOK, AttemptOK, Settled, FilesAccounted, Saving
  <1> QED BY <1>1, <1>2, <1>3, <1>4, <1>5

\* Only what was accepted is queued.
LEMMA BeginStep ==
    ASSUME ConstantsOK, IInv, NEW w \in Attempts, NEW u \in Uploads, Begin(w, u)
    PROVE  IInv'
  <1> USE DEF ConstantsOK, IInv, Begin, streamVars, readVars
  <1>1. Typed'
    BY DEF Typed, AttemptOK, RequestOK, Places, Saving, Contents
  <1>2. \A x \in Uploads : UploadOK(x)'
    BY DEF Typed, UploadOK, AttemptOK, Settled, Saving
  <1>3. \A v \in Attempts : AttemptOK(v)'
    BY DEF Typed, UploadOK, AttemptOK, Settled, Saving
  <1>4. \A q \in Readers : RequestOK(q)'
    BY RequestsKept DEF Typed, AttemptOK
  <1>5. FilesAccounted'
    BY DEF Typed, UploadOK, AttemptOK, Settled, FilesAccounted, Saving
  <1> QED BY <1>1, <1>2, <1>3, <1>4, <1>5

\* A second attempt works on the same accepted upload.
LEMMA RedeliverStep ==
    ASSUME ConstantsOK, IInv, NEW w \in Attempts, Redeliver(w)
    PROVE  IInv'
  <1> USE DEF ConstantsOK, IInv, Redeliver, streamVars, readVars
  <1>1. Typed'
    BY DEF Typed, AttemptOK, RequestOK, Places, Saving, Contents
  <1>2. \A x \in Uploads : UploadOK(x)'
    BY DEF Typed, UploadOK, AttemptOK, Settled, Saving
  <1>3. \A v \in Attempts : AttemptOK(v)'
    BY DEF Typed, UploadOK, AttemptOK, Settled, Saving
  <1>4. \A q \in Readers : RequestOK(q)'
    BY RequestsKept DEF Typed, AttemptOK
  <1>5. FilesAccounted'
    BY DEF Typed, UploadOK, AttemptOK, Settled, FilesAccounted, Saving
  <1> QED BY <1>1, <1>2, <1>3, <1>4, <1>5

\* An image that cannot be decoded is never processed.
LEMMA InvalidStep ==
    ASSUME ConstantsOK, IInv, NEW w \in Attempts, Invalid(w)
    PROVE  IInv'
  <1> USE DEF ConstantsOK, IInv, Invalid, streamVars, readVars, Fails, Leave
  <1>1. Typed'
    <2>1. at[w] # "free" /\ job[w] \in Uploads
      BY DEF Typed, AttemptOK, Saving
    <2>2. /\ at' \in [Attempts -> Places] /\ made' \in [Attempts -> BOOLEAN]
          /\ job' \in [Attempts -> Uploads \cup {None}]
      BY <2>1 DEF Typed, Places
    <2>3. queued' \in [Uploads -> BOOLEAN]
      BY <2>1 DEF Typed
    <2> QED BY <2>1, <2>2, <2>3 DEF Typed, Contents
  <1>2. \A x \in Uploads : UploadOK(x)'
    BY DEF Typed, UploadOK, AttemptOK, Settled, Saving
  <1>3. \A v \in Attempts : AttemptOK(v)'
    BY DEF Typed, UploadOK, AttemptOK, Settled, Saving
  <1>4. \A q \in Readers : RequestOK(q)'
    BY RequestsKept DEF Typed, AttemptOK
  <1>5. FilesAccounted'
    BY DEF Typed, UploadOK, AttemptOK, Settled, FilesAccounted, Saving
  <1> QED BY <1>1, <1>2, <1>3, <1>4, <1>5

\* Opening the file empties it, and it waits for the attempt that did.
LEMMA StartSaveStep ==
    ASSUME ConstantsOK, IInv, NEW w \in Attempts, StartSave(w)
    PROVE  IInv'
  <1> USE DEF ConstantsOK, IInv, StartSave, streamVars, readVars
  <1>1. Typed'
    BY DEF Typed, AttemptOK, RequestOK, Places, Saving, Contents
  <1>2. \A x \in Uploads : UploadOK(x)'
    BY DEF Typed, UploadOK, AttemptOK, Settled, Saving
  <1>3. \A v \in Attempts : AttemptOK(v)'
    BY DEF Typed, UploadOK, AttemptOK, Settled, Saving
  <1>4. \A q \in Readers : RequestOK(q)'
    BY RequestsKept DEF Typed, AttemptOK
  <1>5. FilesAccounted'
    BY DEF Typed, UploadOK, AttemptOK, Settled, FilesAccounted, Saving
  <1> QED BY <1>1, <1>2, <1>3, <1>4, <1>5

\* The last to open it makes it whole, any other leaves it waiting.
LEMMA FinishSaveStep ==
    ASSUME ConstantsOK, IInv, NEW w \in Attempts, FinishSave(w)
    PROVE  IInv'
  <1> USE DEF ConstantsOK, IInv, FinishSave, streamVars, readVars
  <1>1. Typed'
    BY DEF Typed, AttemptOK, RequestOK, Places, Saving, Contents
  <1>2. \A x \in Uploads : UploadOK(x)'
    BY DEF Typed, UploadOK, AttemptOK, Settled, Saving
  <1>3. \A v \in Attempts : AttemptOK(v)'
    BY DEF Typed, UploadOK, AttemptOK, Settled, Saving
  <1>4. \A q \in Readers : RequestOK(q)'
    BY RequestsKept DEF Typed, AttemptOK
  <1>5. FilesAccounted'
    BY DEF Typed, UploadOK, AttemptOK, Settled, FilesAccounted, Saving
  <1> QED BY <1>1, <1>2, <1>3, <1>4, <1>5

\* A save that raises leaves the file, or none, marked as broken off.
LEMMA SaveRaisesStep ==
    ASSUME ConstantsOK, IInv, NEW w \in Attempts, SaveRaises(w)
    PROVE  IInv'
  <1> USE DEF ConstantsOK, IInv, SaveRaises, streamVars, readVars, Fails, Leave
  <1>1. Typed'
    <2>1. at[w] # "free" /\ job[w] \in Uploads
      BY DEF Typed, AttemptOK, Saving
    <2>2. /\ at' \in [Attempts -> Places] /\ made' \in [Attempts -> BOOLEAN]
          /\ job' \in [Attempts -> Uploads \cup {None}]
      BY <2>1 DEF Typed, Places
    <2>3. queued' \in [Uploads -> BOOLEAN]
      BY <2>1 DEF Typed
    <2> QED BY <2>1, <2>2, <2>3 DEF Typed, Contents
  <1>2. \A x \in Uploads : UploadOK(x)'
    BY DEF Typed, UploadOK, AttemptOK, Settled, Saving
  <1>3. \A v \in Attempts : AttemptOK(v)'
    BY DEF Typed, UploadOK, AttemptOK, Settled, Saving
  <1>4. \A q \in Readers : RequestOK(q)'
    BY RequestsKept DEF Typed, AttemptOK
  <1>5. FilesAccounted'
    BY DEF Typed, UploadOK, AttemptOK, Settled, FilesAccounted, Saving
  <1> QED BY <1>1, <1>2, <1>3, <1>4, <1>5

\* Reading the file back changes nothing.
LEMMA EmbedStep ==
    ASSUME ConstantsOK, IInv, NEW w \in Attempts, Embed(w)
    PROVE  IInv'
  <1> USE DEF ConstantsOK, IInv, Embed, streamVars, readVars, Leave
  <1>1. Typed'
    <2>1. at[w] # "free" /\ job[w] \in Uploads
      BY DEF Typed, AttemptOK, Saving
    <2>2. /\ at' \in [Attempts -> Places] /\ made' \in [Attempts -> BOOLEAN]
          /\ job' \in [Attempts -> Uploads \cup {None}]
      <3>1. CASE job[w] \in Queries
        <4>1. /\ at' = [at EXCEPT ![w] = "free"] /\ job' = [job EXCEPT ![w] = None]
              /\ made' = [made EXCEPT ![w] = FALSE]
          BY <3>1
        <4> QED BY <4>1 DEF Typed, Places
      <3>2. CASE job[w] \notin Queries
        <4>1. UNCHANGED <<job, made>> /\ \E p \in {"index", "again"} : at' = [at EXCEPT ![w] = p]
          BY <3>2
        <4> QED BY <4>1 DEF Typed, Places
      <3> QED BY <3>1, <3>2
    <2>3. queued' \in [Uploads -> BOOLEAN]
      BY <2>1 DEF Typed
    <2> QED BY <2>1, <2>2, <2>3 DEF Typed, Contents
  <1>2. \A x \in Uploads : UploadOK(x)'
    BY DEF Typed, UploadOK, AttemptOK, Settled, Saving
  <1>3. \A v \in Attempts : AttemptOK(v)'
    BY DEF Typed, UploadOK, AttemptOK, Settled, Saving
  <1>4. \A q \in Readers : RequestOK(q)'
    BY RequestsKept DEF Typed, AttemptOK
  <1>5. FilesAccounted'
    BY DEF Typed, UploadOK, AttemptOK, Settled, FilesAccounted, Saving
  <1> QED BY <1>1, <1>2, <1>3, <1>4, <1>5

\* Failing to read it back changes nothing.
LEMMA UnreadableStep ==
    ASSUME ConstantsOK, IInv, NEW w \in Attempts, Unreadable(w)
    PROVE  IInv'
  <1> USE DEF ConstantsOK, IInv, Unreadable, streamVars, readVars, Fails, Leave
  <1>1. Typed'
    <2>1. at[w] # "free" /\ job[w] \in Uploads
      BY DEF Typed, AttemptOK, Saving
    <2>2. /\ at' \in [Attempts -> Places] /\ made' \in [Attempts -> BOOLEAN]
          /\ job' \in [Attempts -> Uploads \cup {None}]
      BY <2>1 DEF Typed, Places
    <2>3. queued' \in [Uploads -> BOOLEAN]
      BY <2>1 DEF Typed
    <2> QED BY <2>1, <2>2, <2>3 DEF Typed, Contents
  <1>2. \A x \in Uploads : UploadOK(x)'
    BY DEF Typed, UploadOK, AttemptOK, Settled, Saving
  <1>3. \A v \in Attempts : AttemptOK(v)'
    BY DEF Typed, UploadOK, AttemptOK, Settled, Saving
  <1>4. \A q \in Readers : RequestOK(q)'
    BY RequestsKept DEF Typed, AttemptOK
  <1>5. FilesAccounted'
    BY DEF Typed, UploadOK, AttemptOK, Settled, FilesAccounted, Saving
  <1> QED BY <1>1, <1>2, <1>3, <1>4, <1>5

\* What is indexed was saved, by this attempt at least once.
LEMMA IndexStep ==
    ASSUME ConstantsOK, IInv, NEW w \in Attempts, Index(w)
    PROVE  IInv'
  <1> USE DEF ConstantsOK, IInv, Index, streamVars, readVars
  <1>1. Typed'
    BY DEF Typed, AttemptOK, RequestOK, Places, Saving, Contents
  <1>2. \A x \in Uploads : UploadOK(x)'
    BY DEF Typed, UploadOK, AttemptOK, Settled, Saving
  <1>3. \A v \in Attempts : AttemptOK(v)'
    BY DEF Typed, UploadOK, AttemptOK, Settled, Saving
  <1>4. \A q \in Readers : RequestOK(q)'
    BY RequestsKept DEF Typed, AttemptOK
  <1>5. FilesAccounted'
    BY DEF Typed, UploadOK, AttemptOK, Settled, FilesAccounted, Saving
  <1> QED BY <1>1, <1>2, <1>3, <1>4, <1>5

\* The rest of an attempt writes no file.
LEMMA FinishStep ==
    ASSUME ConstantsOK, IInv, NEW w \in Attempts, Finish(w)
    PROVE  IInv'
  <1> USE DEF ConstantsOK, IInv, Finish, streamVars, readVars, Leave
  <1>1. Typed'
    BY DEF Typed, AttemptOK, RequestOK, Places, Saving, Contents
  <1>2. \A x \in Uploads : UploadOK(x)'
    BY DEF Typed, UploadOK, AttemptOK, Settled, Saving
  <1>3. \A v \in Attempts : AttemptOK(v)'
    BY DEF Typed, UploadOK, AttemptOK, Settled, Saving
  <1>4. \A q \in Readers : RequestOK(q)'
    BY RequestsKept DEF Typed, AttemptOK
  <1>5. FilesAccounted'
    BY DEF Typed, UploadOK, AttemptOK, Settled, FilesAccounted, Saving
  <1> QED BY <1>1, <1>2, <1>3, <1>4, <1>5

\* An attempt that dies in its save leaves the file marked as broken off.
LEMMA AttemptFailsStep ==
    ASSUME ConstantsOK, IInv, NEW w \in Attempts, AttemptFails(w)
    PROVE  IInv'
  <1> USE DEF ConstantsOK, IInv, AttemptFails, streamVars, readVars, Fails, Leave
  <1>1. Typed'
    <2>1. at[w] # "free" /\ job[w] \in Uploads
      BY DEF Typed, AttemptOK, Saving
    <2>2. /\ at' \in [Attempts -> Places] /\ made' \in [Attempts -> BOOLEAN]
          /\ job' \in [Attempts -> Uploads \cup {None}]
      BY <2>1 DEF Typed, Places
    <2>3. queued' \in [Uploads -> BOOLEAN]
      BY <2>1 DEF Typed
    <2> QED BY <2>1, <2>2, <2>3 DEF Typed, Contents
  <1>2. \A x \in Uploads : UploadOK(x)'
    BY DEF Typed, UploadOK, AttemptOK, Settled, Saving
  <1>3. \A v \in Attempts : AttemptOK(v)'
    BY DEF Typed, UploadOK, AttemptOK, Settled, Saving
  <1>4. \A q \in Readers : RequestOK(q)'
    BY RequestsKept DEF Typed, AttemptOK
  <1>5. FilesAccounted'
    BY DEF Typed, UploadOK, AttemptOK, Settled, FilesAccounted, Saving
  <1> QED BY <1>1, <1>2, <1>3, <1>4, <1>5

-----------------------------------------------------------------------------
\* Only indexed products are asked for.
LEMMA RequestStep ==
    ASSUME ConstantsOK, IInv, NEW r \in Readers, NEW u \in Uploads, Request(r, u)
    PROVE  IInv'
  <1> USE DEF ConstantsOK, IInv, Request, streamVars, readVars, fileVars, attemptVars
  <1>1. Typed'
    BY DEF Typed, AttemptOK, RequestOK, Places, Saving, Contents
  <1>2. \A x \in Uploads : UploadOK(x)'
    BY DEF Typed, UploadOK, AttemptOK, Settled, Saving
  <1>3. \A v \in Attempts : AttemptOK(v)'
    BY DEF Typed, UploadOK, AttemptOK, Settled, Saving
  <1>4. \A q \in Readers : RequestOK(q)'
    BY DEF Typed, UploadOK, RequestOK, FilesAccounted
  <1>5. FilesAccounted'
    BY DEF Typed, UploadOK, AttemptOK, Settled, FilesAccounted, Saving
  <1> QED BY <1>1, <1>2, <1>3, <1>4, <1>5

\* An indexed product has an original at least.
LEMMA ResolveStep ==
    ASSUME ConstantsOK, IInv, NEW r \in Readers, Resolve(r)
    PROVE  IInv'
  <1> USE DEF ConstantsOK, IInv, Resolve, streamVars, readVars, fileVars, attemptVars, Resolved
  <1>1. Typed'
    BY DEF Typed, AttemptOK, RequestOK, Places, Saving, Contents
  <1>2. \A x \in Uploads : UploadOK(x)'
    BY DEF Typed, UploadOK, AttemptOK, Settled, Saving
  <1>3. \A v \in Attempts : AttemptOK(v)'
    BY DEF Typed, UploadOK, AttemptOK, Settled, Saving
  <1>4. \A q \in Readers : RequestOK(q)'
    BY DEF Typed, UploadOK, RequestOK, FilesAccounted
  <1>5. FilesAccounted'
    BY DEF Typed, UploadOK, AttemptOK, Settled, FilesAccounted, Saving
  <1> QED BY <1>1, <1>2, <1>3, <1>4, <1>5

\* A thumbnail that is there is taken as it is.
LEMMA ResolveThumbnailStep ==
    ASSUME ConstantsOK, IInv, NEW r \in Readers, ResolveThumbnail(r)
    PROVE  IInv'
  <1> USE DEF ConstantsOK, IInv, ResolveThumbnail, streamVars, readVars, fileVars, attemptVars, Resolved
  <1>1. Typed'
    BY DEF Typed, AttemptOK, RequestOK, Places, Saving, Contents
  <1>2. \A x \in Uploads : UploadOK(x)'
    BY DEF Typed, UploadOK, AttemptOK, Settled, Saving
  <1>3. \A v \in Attempts : AttemptOK(v)'
    BY DEF Typed, UploadOK, AttemptOK, Settled, Saving
  <1>4. \A q \in Readers : RequestOK(q)'
    BY DEF Typed, UploadOK, RequestOK, FilesAccounted
  <1>5. FilesAccounted'
    BY DEF Typed, UploadOK, AttemptOK, Settled, FilesAccounted, Saving
  <1> QED BY <1>1, <1>2, <1>3, <1>4, <1>5

\* A thumbnail is as good as the image it is made from.
LEMMA MakeThumbnailStep ==
    ASSUME ConstantsOK, IInv, NEW r \in Readers, MakeThumbnail(r)
    PROVE  IInv'
  <1> USE DEF ConstantsOK, IInv, MakeThumbnail, streamVars, readVars, fileVars, attemptVars, Resolved
  <1>1. Typed'
    BY DEF Typed, AttemptOK, RequestOK, Places, Saving, Contents
  <1>2. \A x \in Uploads : UploadOK(x)'
    BY DEF Typed, UploadOK, AttemptOK, Settled, Saving
  <1>3. \A v \in Attempts : AttemptOK(v)'
    BY DEF Typed, UploadOK, AttemptOK, Settled, Saving
  <1>4. \A q \in Readers : RequestOK(q)'
    BY DEF Typed, UploadOK, RequestOK, FilesAccounted
  <1>5. FilesAccounted'
    BY DEF Typed, UploadOK, AttemptOK, Settled, FilesAccounted, Saving
  <1> QED BY <1>1, <1>2, <1>3, <1>4, <1>5

\* A request that fails leaves no file.
LEMMA ThumbnailFailsStep ==
    ASSUME ConstantsOK, IInv, NEW r \in Readers, ThumbnailFails(r)
    PROVE  IInv'
  <1> USE DEF ConstantsOK, IInv, ThumbnailFails, streamVars, readVars, fileVars, attemptVars
  <1>1. Typed'
    BY DEF Typed, AttemptOK, RequestOK, Places, Saving, Contents
  <1>2. \A x \in Uploads : UploadOK(x)'
    BY DEF Typed, UploadOK, AttemptOK, Settled, Saving
  <1>3. \A v \in Attempts : AttemptOK(v)'
    BY DEF Typed, UploadOK, AttemptOK, Settled, Saving
  <1>4. \A q \in Readers : RequestOK(q)'
    BY DEF Typed, UploadOK, RequestOK, FilesAccounted
  <1>5. FilesAccounted'
    BY DEF Typed, UploadOK, AttemptOK, Settled, FilesAccounted, Saving
  <1> QED BY <1>1, <1>2, <1>3, <1>4, <1>5

\* The death of the API in a thumbnail ends its requests.
LEMMA DieInThumbnailStep ==
    ASSUME ConstantsOK, IInv, NEW r \in Readers, DieInThumbnail(r)
    PROVE  IInv'
  <1> USE DEF ConstantsOK, IInv, DieInThumbnail, streamVars, readVars, fileVars, attemptVars
  <1>1. Typed'
    BY DEF Typed, AttemptOK, RequestOK, Places, Saving, Contents
  <1>2. \A x \in Uploads : UploadOK(x)'
    BY DEF Typed, UploadOK, AttemptOK, Settled, Saving
  <1>3. \A v \in Attempts : AttemptOK(v)'
    BY DEF Typed, UploadOK, AttemptOK, Settled, Saving
  <1>4. \A q \in Readers : RequestOK(q)'
    BY DEF Typed, UploadOK, RequestOK, FilesAccounted
  <1>5. FilesAccounted'
    BY DEF Typed, UploadOK, AttemptOK, Settled, FilesAccounted, Saving
  <1> QED BY <1>1, <1>2, <1>3, <1>4, <1>5

\* Sending reads the file.
LEMMA SendStep ==
    ASSUME ConstantsOK, IInv, NEW r \in Readers, Send(r)
    PROVE  IInv'
  <1> USE DEF ConstantsOK, IInv, Send, streamVars, readVars, fileVars, attemptVars
  <1>1. Typed'
    BY DEF Typed, AttemptOK, RequestOK, Places, Saving, Contents
  <1>2. \A x \in Uploads : UploadOK(x)'
    BY DEF Typed, UploadOK, AttemptOK, Settled, Saving
  <1>3. \A v \in Attempts : AttemptOK(v)'
    BY DEF Typed, UploadOK, AttemptOK, Settled, Saving
  <1>4. \A q \in Readers : RequestOK(q)'
    BY DEF Typed, UploadOK, RequestOK, FilesAccounted
  <1>5. FilesAccounted'
    BY DEF Typed, UploadOK, AttemptOK, Settled, FilesAccounted, Saving
  <1> QED BY <1>1, <1>2, <1>3, <1>4, <1>5

\* An answered request asks for nothing.
LEMMA ReturnStep ==
    ASSUME ConstantsOK, IInv, NEW r \in Readers, Return(r)
    PROVE  IInv'
  <1> USE DEF ConstantsOK, IInv, Return, streamVars, readVars, fileVars, attemptVars
  <1>1. Typed'
    BY DEF Typed, AttemptOK, RequestOK, Places, Saving, Contents
  <1>2. \A x \in Uploads : UploadOK(x)'
    BY DEF Typed, UploadOK, AttemptOK, Settled, Saving
  <1>3. \A v \in Attempts : AttemptOK(v)'
    BY DEF Typed, UploadOK, AttemptOK, Settled, Saving
  <1>4. \A q \in Readers : RequestOK(q)'
    BY DEF Typed, UploadOK, RequestOK, FilesAccounted
  <1>5. FilesAccounted'
    BY DEF Typed, UploadOK, AttemptOK, Settled, FilesAccounted, Saving
  <1> QED BY <1>1, <1>2, <1>3, <1>4, <1>5

-----------------------------------------------------------------------------
\* The inductive invariant of the image files.
LEMMA FilesKept ==
    ASSUME ConstantsOK, IInv, [Next]_vars
    PROVE  IInv'
  <1>1. ASSUME NEW u \in Uploads,
               \/ Refuse(u) \/ Open(u) \/ Chunk(u) \/ EndOfStream(u) \/ StreamBreaks(u)
               \/ \E w \in Attempts : Begin(w, u)
               \/ \E r \in Readers : Request(r, u)
        PROVE  IInv'
    BY <1>1, RefuseStep, OpenStep, ChunkStep, EndOfStreamStep, StreamBreaksStep, BeginStep, RequestStep
  <1>2. ASSUME NEW w \in Attempts,
               \/ Redeliver(w) \/ Invalid(w) \/ StartSave(w) \/ FinishSave(w) \/ SaveRaises(w)
               \/ Embed(w) \/ Unreadable(w) \/ Index(w) \/ Finish(w) \/ AttemptFails(w)
        PROVE  IInv'
    BY <1>2, RedeliverStep, InvalidStep, StartSaveStep, FinishSaveStep, SaveRaisesStep, EmbedStep,
       UnreadableStep, IndexStep, FinishStep, AttemptFailsStep
  <1>3. ASSUME NEW r \in Readers,
               \/ Resolve(r) \/ ResolveThumbnail(r) \/ MakeThumbnail(r) \/ ThumbnailFails(r)
               \/ DieInThumbnail(r) \/ Send(r) \/ Return(r)
        PROVE  IInv'
    BY <1>3, ResolveStep, ResolveThumbnailStep, MakeThumbnailStep, ThumbnailFailsStep,
       DieInThumbnailStep, SendStep, ReturnStep
  <1>4. CASE UNCHANGED vars
    BY <1>4 DEF vars, streamVars, attemptVars, readVars, IInv, Typed, UploadOK, AttemptOK, RequestOK,
       Settled, FilesAccounted
  <1> QED BY <1>1, <1>2, <1>3, <1>4 DEF Next

\* The inductive invariant holds of every reachable state: what is whole at each
\* step of an upload, of its attempts however they overlap, and of a request.
THEOREM FilesInvariant ==
    ASSUME ConstantsOK
    PROVE  Spec => []IInv
  <1>1. Init => IInv
    <2> SUFFICES ASSUME Init PROVE IInv
      OBVIOUS
    <2>1. Typed
      BY DEF Init, Typed, Contents, Places
    <2>2. (\A u \in Uploads : UploadOK(u)) /\ (\A w \in Attempts : AttemptOK(w))
      BY DEF Init, UploadOK, AttemptOK
    <2>3. (\A r \in Readers : RequestOK(r)) /\ FilesAccounted
      BY DEF ConstantsOK, Init, RequestOK, FilesAccounted
    <2> QED BY <2>1, <2>2, <2>3 DEF IInv
  <1> QED BY <1>1, FilesKept, PTL DEF Spec

\* The limit of an upload and the cap of the faults.
Bounded ==
    /\ faults \in 0..MaxFaults
    /\ \A u \in Uploads : size[u] <= MaxChunks

\* Every step keeps the bounds.
LEMMA StaysBounded ==
    ASSUME ConstantsOK, IInv, Bounded, [Next]_vars
    PROVE  Bounded'
  <1>0. MaxChunks \in Nat /\ MaxFaults \in Nat /\ size \in [Uploads -> Nat]
    BY DEF ConstantsOK, IInv, Typed
  <1>1. ASSUME NEW u \in Uploads, Chunk(u) PROVE Bounded'
    <2>1. CASE size[u] = MaxChunks
      <3>1. size' = [size EXCEPT ![u] = 0] /\ faults' = faults
        BY <1>1, <2>1 DEF Chunk
      <3>2. \A x \in Uploads : size'[x] = 0 \/ size'[x] = size[x]
        BY <1>0, <3>1
      <3> QED BY <1>0, <3>1, <3>2 DEF Bounded
    <2>2. CASE size[u] # MaxChunks
      <3>1. size' = [size EXCEPT ![u] = size[u] + 1] /\ faults' = faults
        BY <1>1, <2>2 DEF Chunk
      <3>2. size'[u] = size[u] + 1 /\ \A x \in Uploads \ {u} : size'[x] = size[x]
        BY <1>0, <3>1
      <3> QED BY <1>0, <2>2, <3>1, <3>2 DEF Bounded
    <2> QED BY <2>1, <2>2
  <1>2. ASSUME NEW u \in Uploads,
               \/ Refuse(u) \/ Open(u) \/ EndOfStream(u) \/ StreamBreaks(u)
               \/ \E w \in Attempts : Begin(w, u)
               \/ \E r \in Readers : Request(r, u)
        PROVE  Bounded'
    <2>1. /\ size' = size \/ size' = [size EXCEPT ![u] = 0]
          /\ faults' = faults \/ (faults < MaxFaults /\ faults' = faults + 1)
      BY <1>2 DEF Refuse, Open, EndOfStream, StreamBreaks, Begin, Request, streamVars, fileVars
    <2>2. \A x \in Uploads : size'[x] = 0 \/ size'[x] = size[x]
      BY <1>0, <2>1
    <2> QED BY <1>0, <2>1, <2>2 DEF Bounded
  <1>3. ASSUME NEW w \in Attempts,
               \/ Redeliver(w) \/ Invalid(w) \/ StartSave(w) \/ FinishSave(w) \/ SaveRaises(w)
               \/ Embed(w) \/ Unreadable(w) \/ Index(w) \/ Finish(w) \/ AttemptFails(w)
        PROVE  Bounded'
    <2>1. size' = size /\ (faults' = faults \/ (faults < MaxFaults /\ faults' = faults + 1))
      BY <1>3 DEF Redeliver, Invalid, StartSave, FinishSave, SaveRaises, Embed, Unreadable, Index,
         Finish, AttemptFails, streamVars
    <2> QED BY <1>0, <2>1 DEF Bounded
  <1>4. ASSUME NEW r \in Readers,
               \/ Resolve(r) \/ ResolveThumbnail(r) \/ MakeThumbnail(r) \/ ThumbnailFails(r)
               \/ DieInThumbnail(r) \/ Send(r) \/ Return(r)
        PROVE  Bounded'
    <2>1. size' = size /\ (faults' = faults \/ (faults < MaxFaults /\ faults' = faults + 1))
      BY <1>4 DEF Resolve, ResolveThumbnail, MakeThumbnail, ThumbnailFails, DieInThumbnail, Send,
         Return, streamVars, fileVars
    <2> QED BY <1>0, <2>1 DEF Bounded
  <1>5. CASE UNCHANGED vars
    BY <1>5 DEF vars, streamVars, Bounded
  <1> QED BY <1>1, <1>2, <1>3, <1>4, <1>5 DEF Next

\* Types hold in every reachable state, and no upload is larger than the limit.
THEOREM FilesTyped ==
    ASSUME ConstantsOK
    PROVE  Spec => []TypeOK
  <1>1. Init => Bounded
    BY DEF ConstantsOK, Init, Bounded
  <1>2. ConstantsOK /\ IInv /\ Bounded => TypeOK
    BY DEF ConstantsOK, IInv, Typed, Bounded, TypeOK
  <1> QED BY <1>1, <1>2, StaysBounded, FilesInvariant, PTL DEF Spec

\* A refused upload leaves no file, and the image of an indexed product is
\* whole unless its last save runs or broke off, although attempts of one job
\* overlap and every file is written in place (image_processing_service.py).
THEOREM FilesAccountedFor ==
    ASSUME ConstantsOK
    PROVE  Spec => []FilesAccounted
  <1>1. IInv => FilesAccounted
    BY DEF IInv
  <1> QED BY <1>1, FilesInvariant, PTL

-----------------------------------------------------------------------------
\* No step of an upload or an attempt answers a request or makes a thumbnail.
LEMMA NothingSent ==
    ASSUME UNCHANGED <<readVars, thumb>>
    PROVE  SendsWhole
  BY DEF SendsWhole, readVars

\* A request that is resolved or sent while its image is settled.
LEMMA RequestSendsWhole ==
    ASSUME ConstantsOK, IInv, NEW r \in Readers,
           \/ Resolve(r) \/ ResolveThumbnail(r) \/ MakeThumbnail(r) \/ ThumbnailFails(r)
           \/ DieInThumbnail(r) \/ Send(r) \/ Return(r)
           \/ \E u \in Uploads : Request(r, u)
    PROVE  SendsWhole
  <1> DEFINE u == asks[r]
  <1>1. CASE Send(r)
    <2>1. /\ pc[r] = "send" /\ thumb' = thumb
          /\ \A q \in Readers \ {r} : pc'[q] = pc[q]
          /\ pc'[r] = "sent"
      BY <1>1 DEF Send, IInv, Typed
    <2>2. u \in Uploads /\ indexed[u] /\ variant[r] \in {"processed", "original", "thumb"}
      BY <2>1 DEF IInv, Typed, RequestOK
    <2>3. original[u] = "whole" /\ (writer[u] = None => processed[u] = "whole")
      BY <2>2 DEF IInv, FilesAccounted
    <2>4. sent'[r] = CASE variant[r] = "processed" -> processed[u]
                       [] variant[r] = "original" -> original[u]
                       [] variant[r] = "thumb" -> thumb[u]
                       [] OTHER -> "none"
      BY <1>1 DEF Send, IInv, Typed
    <2>5. writer[u] = None => sent'[r] = "whole" \/ (variant[r] = "thumb" /\ thumb[u] # "whole")
      BY <2>2, <2>3, <2>4
    <2> QED BY <2>1, <2>5 DEF SendsWhole
  <1>2. ASSUME \/ Resolve(r) \/ ResolveThumbnail(r) \/ MakeThumbnail(r) \/ ThumbnailFails(r)
        PROVE  SendsWhole
    <2>1. /\ pc[r] = "resolve" /\ \A q \in Readers \ {r} : pc'[q] = pc[q]
          /\ \A q \in Readers \ {r} : variant'[q] = variant[q]
          /\ pc'[r] \in {"send", "failed"}
      BY <1>2 DEF Resolve, ResolveThumbnail, MakeThumbnail, ThumbnailFails, Resolved, IInv, Typed
    <2>2. u \in Uploads /\ indexed[u] /\ (writer[u] = None => processed[u] = "whole")
      BY <2>1 DEF IInv, Typed, RequestOK, FilesAccounted
    <2>3. writer[u] = None => pc'[r] = "send" /\ variant'[r] \in {"processed", "thumb"}
      BY <1>2, <2>2 DEF Resolve, ResolveThumbnail, MakeThumbnail, ThumbnailFails, Resolved, IInv, Typed
    <2>4. \A x \in Uploads :
            thumb'[x] # thumb[x] => (thumb[x] = "none" /\ thumb'[x] = "whole") \/ writer[x] # None
      BY <1>2, <2>2 DEF Resolve, ResolveThumbnail, MakeThumbnail, ThumbnailFails, IInv, Typed
    <2> QED BY <2>1, <2>3, <2>4 DEF SendsWhole
  <1>3. CASE DieInThumbnail(r)
    <2>1. \A q \in Readers : pc'[q] = "idle"
      BY <1>3 DEF DieInThumbnail
    <2>2. faults' # faults \/ thumb' = thumb
      BY <1>3 DEF DieInThumbnail, ConstantsOK
    <2> QED BY <2>1, <2>2 DEF SendsWhole
  <1>4. ASSUME Return(r) \/ \E x \in Uploads : Request(r, x)
        PROVE  SendsWhole
    <2>1. /\ thumb' = thumb /\ pc[r] \notin {"send", "resolve"}
          /\ \A q \in Readers \ {r} : pc'[q] = pc[q]
      BY <1>4 DEF Return, Request, IInv, Typed
    <2> QED BY <2>1 DEF SendsWhole
  <1> QED BY <1>1, <1>2, <1>3, <1>4

\* Whatever attempts overlap and fail, a client is sent a whole image, or a
\* thumbnail that was whole when made, unless at that moment the last save
\* of the image runs or has broken off (product_image_service.py).
THEOREM ImagesServedWhole ==
    ASSUME ConstantsOK
    PROVE  Spec => ServedWhole
  <1>1. ConstantsOK /\ IInv /\ [Next]_vars => [SendsWhole]_vars
    <2> SUFFICES ASSUME ConstantsOK, IInv, Next PROVE SendsWhole
      OBVIOUS
    <2>1. ASSUME NEW u \in Uploads,
                 \/ Refuse(u) \/ Open(u) \/ Chunk(u) \/ EndOfStream(u) \/ StreamBreaks(u)
                 \/ \E w \in Attempts : Begin(w, u)
          PROVE  SendsWhole
      BY <2>1, NothingSent
      DEF Refuse, Open, Chunk, EndOfStream, StreamBreaks, Begin, OtherVars, readVars
    <2>2. ASSUME NEW w \in Attempts,
                 \/ Redeliver(w) \/ Invalid(w) \/ StartSave(w) \/ FinishSave(w) \/ SaveRaises(w)
                 \/ Embed(w) \/ Unreadable(w) \/ Index(w) \/ Finish(w) \/ AttemptFails(w)
          PROVE  SendsWhole
      BY <2>2, NothingSent
      DEF Redeliver, Invalid, StartSave, FinishSave, SaveRaises, Embed, Unreadable, Index, Finish,
          AttemptFails, readVars
    <2>3. ASSUME NEW r \in Readers,
                 \/ Resolve(r) \/ ResolveThumbnail(r) \/ MakeThumbnail(r) \/ ThumbnailFails(r)
                 \/ DieInThumbnail(r) \/ Send(r) \/ Return(r)
                 \/ \E u \in Uploads : Request(r, u)
          PROVE  SendsWhole
      BY <2>3, RequestSendsWhole
    <2> QED BY <2>1, <2>2, <2>3 DEF Next
  <1> QED BY <1>1, FilesInvariant, PTL DEF Spec, ServedWhole
=============================================================================
