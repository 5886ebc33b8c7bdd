--------------------------- MODULE OverlaybdBuilder ---------------------------
(***************************************************************************)
(* Conversion of one image to overlaybd layers (overlaybdBuilder.Build in  *)
(* cmd/convertor/builder/builder.go with the engine of                     *)
(* overlaybd_builder.go).  Every layer has four goroutines in one          *)
(* errgroup: find a converted layer in the deduplication database,         *)
(* download, convert on top of the layers below, upload.  They meet on     *)
(* unbuffered channels: a send and its receive are one step here, and a    *)
(* channel is the set of goroutines that stand at its ends plus a flag     *)
(* saying that it is closed.                                               *)
(*                                                                         *)
(* A goroutine that fails closes its channel first (its deferred close)    *)
(* and is noticed by the errgroup, which cancels the shared context, in a  *)
(* later step: what the others see in between is part of the model.        *)
(*                                                                         *)
(* The content of a converted layer is "good" (the whole layer, applied to *)
(* the right layers below), "bad" or "partial" (a file cut short, or one   *)
(* that fails its digest).  Conversion is taken to be reproducible: a      *)
(* chain of layers has one good content.                                   *)
(***************************************************************************)
EXTENDS Integers, Sequences

CONSTANTS
  N,             \* layers of the image
  Recorded,      \* per layer, what the database may name for this repository
  Present,       \* per layer, the conversions the repository holds
  Elsewhere,     \* per layer, the conversions other repositories have
  Leftovers,     \* per layer, the <<layer.tar, overlaybd.commit>> of earlier runs
  noUpload       \* the option --no-upload

Layers == 0..(N - 1)
Content == {"good", "bad", "partial"}

ASSUME BuilderAssumption ==
  /\ N \in Nat \ {0}
  /\ Recorded \in [Layers -> SUBSET (Content \union {"none"})]
  /\ Present \in [Layers -> SUBSET Content] /\ Elsewhere \in [Layers -> SUBSET Content]
  /\ Leftovers \in [Layers -> SUBSET ({"none", "partial", "whole"} \X
                                       (Content \union {"none"}))]
  /\ noUpload \in BOOLEAN

VARIABLES
  ctx,           \* has the caller cancelled its context?
  failed,        \* has the errgroup recorded an error and cancelled rctx?
  main,          \* where Build() is
  dedup, download, convert, upload,  \* per layer, where each goroutine is
  closed,        \* the channels that are closed: <<name, layer>>
  tar, commit,   \* per layer, the files layer.tar and overlaybd.commit
  fromDedup,     \* the layers marked fromDedup
  lowers,        \* overlaybdConfig.Lowers, which every conversion shares
  found,         \* per layer, the content the deduplication goroutine found
  desc,          \* per layer, the content its descriptor names
  blobs,         \* per layer, the contents the target repository holds
  entry,         \* per layer, the content the database names for its chain
  image,         \* the descriptors of the uploaded manifest, or NoImage
  stray          \* ghost: layers whose commit file is of an earlier run, or of a
                 \* download that failed and could not be removed

files == <<tar, commit, fromDedup, lowers, stray>>
descs == <<found, desc>>
remote == <<blobs, entry>>
vars == <<ctx, failed, main, dedup, download, convert, upload, closed, files, descs, remote, image>>

NoImage == << >>
Cancelled == ctx \/ failed      \* rctx.Err() != nil

\* A record of the database names whatever an earlier build stored (see
\* StoreConvertedLayerDetails), good or not, and its blob may have left the
\* registry since.  The name of the work directory only depends on the image:
\* it holds the files of a run that was interrupted, or that kept them.
Init ==
  /\ ctx = FALSE /\ failed = FALSE /\ main = "check"
  /\ dedup = [i \in Layers |-> "none"] /\ download = [i \in Layers |-> "none"]
  /\ convert = [i \in Layers |-> "none"] /\ upload = [i \in Layers |-> "none"]
  /\ closed = {}
  /\ tar \in [Layers -> {"none", "partial", "whole"}]
  /\ commit \in [Layers -> Content \union {"none"}]
  /\ \A i \in Layers : <<tar[i], commit[i]>> \in Leftovers[i]
  /\ stray = {i \in Layers : commit[i] # "none"}
  /\ fromDedup = {} /\ lowers = << >>
  /\ found = [i \in Layers |-> "none"] /\ desc = [i \in Layers |-> "none"]
  /\ entry \in [Layers -> Content \union {"none"}]
  /\ \A i \in Layers : entry[i] \in Recorded[i]
  /\ blobs = Present
  /\ image = NoImage

Goroutines == <<dedup, download, convert, upload>>

-----------------------------------------------------------------------------
(* The caller *)

\* The program is interrupted, or the conversion of another manifest failed.
Cancel ==
  /\ ~ctx /\ main \notin {"ok", "error"}
  /\ ctx' = TRUE
  /\ UNCHANGED <<failed, main, Goroutines, closed, files, descs, remote, image>>

-----------------------------------------------------------------------------
(* The deduplication goroutine *)

\* The database has the layer and the registry its blob.
DedupHit(i) ==
  /\ dedup[i] = "check" /\ ~Cancelled
  /\ entry[i] # "none" /\ entry[i] \in blobs[i]
  /\ dedup' = [dedup EXCEPT ![i] = "send"]
  /\ found' = [found EXCEPT ![i] = entry[i]]
  /\ UNCHANGED <<ctx, failed, main, download, convert, upload, closed, files, desc, remote, image>>

\* The blob is gone from this repository, or its fetch fails; another
\* repository has it, it is mounted from there and recorded.  The record is
\* keyed by the chain: it cannot be inserted over one that was kept.
DedupMount(i) ==
  /\ dedup[i] = "check" /\ ~Cancelled
  /\ entry[i] = "none" \/ entry[i] \notin blobs[i]
  /\ \E c \in Elsewhere[i] :
       /\ blobs' = [blobs EXCEPT ![i] = @ \union {c}]
       /\ entry' = [entry EXCEPT ![i] = c]
       /\ found' = [found EXCEPT ![i] = c]
  /\ dedup' = [dedup EXCEPT ![i] = "send"]
  /\ UNCHANGED <<ctx, failed, main, download, convert, upload, closed, files, desc, image>>

\* Nothing is found, or a call fails: the layer is converted as usual.  A
\* record whose blob the registry does not know is deleted; a blob that was
\* mounted but could not be recorded stays.
DedupMiss(i) ==
  /\ dedup[i] = "check"
  /\ dedup' = [dedup EXCEPT ![i] = "done"]
  /\ closed' = closed \union {<<"alreadyConverted", i>>}
  /\ \/ UNCHANGED entry
     \/ /\ entry[i] # "none" /\ entry[i] \notin blobs[i] /\ ~Cancelled
        /\ entry' = [entry EXCEPT ![i] = "none"]
  /\ \/ UNCHANGED blobs
     \/ /\ ~Cancelled
        /\ \E c \in Elsewhere[i] : blobs' = [blobs EXCEPT ![i] = @ \union {c}]
  /\ UNCHANGED <<ctx, failed, main, download, convert, upload, files, descs, image>>

\* The descriptor goes to the download goroutine, unless rctx is done.
DedupSend(i) ==
  /\ dedup[i] = "send"
  /\ \/ /\ download[i] = "wait"
        /\ download' = [download EXCEPT ![i] = "cached"]
     \/ Cancelled /\ UNCHANGED download
  /\ dedup' = [dedup EXCEPT ![i] = "done"]
  /\ closed' = closed \union {<<"alreadyConverted", i>>}
  /\ UNCHANGED <<ctx, failed, main, convert, upload, files, descs, remote, image>>

-----------------------------------------------------------------------------
(* The download goroutine *)

\* Nothing came through the channel: cachedLayer is nil.
DownloadUncached(i) ==
  /\ download[i] = "wait"
  /\ Cancelled \/ <<"alreadyConverted", i>> \in closed
  /\ download' = [download EXCEPT ![i] = "plain"]
  /\ UNCHANGED <<ctx, failed, main, dedup, convert, upload, closed, files, descs, remote, image>>

\* Mutant: the file of a failed download is left behind.
DownloadConvertedLayerKeepsFile(i) ==
  /\ download[i] = "cached"
  /\ \/ /\ ~Cancelled
        /\ commit' = [commit EXCEPT ![i] = found[i]]
        /\ desc' = [desc EXCEPT ![i] = found[i]]
        /\ fromDedup' = fromDedup \union {i}
        /\ download' = [download EXCEPT ![i] = "send"]
     \/ /\ commit' = [commit EXCEPT ![i] = "partial"]
        /\ download' = [download EXCEPT ![i] = "plain"]
        /\ UNCHANGED <<fromDedup, desc>>
  /\ stray' = stray \ {i}
  /\ UNCHANGED <<ctx, failed, main, dedup, convert, upload, closed, tar, lowers, found,
                 remote, image>>

\* The file is created over what is there and its digest is verified; one that
\* fails is removed again, if that works: nobody looks.
DownloadConvertedLayer(i) ==
  /\ download[i] = "cached"
  /\ \/ /\ ~Cancelled
        /\ commit' = [commit EXCEPT ![i] = found[i]]
        /\ desc' = [desc EXCEPT ![i] = found[i]]
        /\ fromDedup' = fromDedup \union {i}
        /\ download' = [download EXCEPT ![i] = "send"]
        /\ stray' = stray \ {i}
     \/ /\ \E left \in {"none", "partial", commit[i]} :
             /\ commit' = [commit EXCEPT ![i] = left]
             /\ stray' = IF left = "none" THEN stray \ {i} ELSE stray \union {i}
        /\ download' = [download EXCEPT ![i] = "plain"]
        /\ UNCHANGED <<fromDedup, desc>>
  /\ UNCHANGED <<ctx, failed, main, dedup, convert, upload, closed, tar, lowers, found,
                 remote, image>>

\* A failed download leaves what it wrote of layer.tar, or what it found.
DownloadLayer(i) ==
  /\ download[i] = "plain"
  /\ \/ /\ ~Cancelled
        /\ tar' = [tar EXCEPT ![i] = "whole"]
        /\ download' = [download EXCEPT ![i] = "send"]
        /\ UNCHANGED closed
     \/ /\ \E left \in {"partial", tar[i]} : tar' = [tar EXCEPT ![i] = left]
        /\ download' = [download EXCEPT ![i] = "failing"]
        /\ closed' = closed \union {<<"downloaded", i>>}
  /\ UNCHANGED <<ctx, failed, main, dedup, convert, upload, commit, fromDedup, lowers, stray,
                 descs, remote, image>>

\* waitForChannel() of a convert goroutine, followed by the test of rctx: where
\* it goes when it has been woken.
Woken(i, next) == IF Cancelled THEN "failing" ELSE next

\* A convert goroutine that returns closes its channel.
ConvertCloses(i, pc) ==
  IF pc = "failing" THEN closed \union {<<"converted", i>>} ELSE closed

\* Mutant: the layer below is not waited for.
AfterDownloadUnordered(i) == Woken(i, "build")

AfterDownload(i) == Woken(i, IF i > 0 THEN "waitLower" ELSE "build")

DownloadSend(i) ==
  /\ download[i] = "send"
  /\ \/ /\ convert[i] = "waitDownload"
        /\ convert' = [convert EXCEPT ![i] = AfterDownload(i)]
        /\ closed' = ConvertCloses(i, AfterDownload(i)) \union {<<"downloaded", i>>}
     \/ /\ Cancelled
        /\ closed' = closed \union {<<"downloaded", i>>}
        /\ UNCHANGED convert
  /\ download' = [download EXCEPT ![i] = "done"]
  /\ UNCHANGED <<ctx, failed, main, dedup, upload, files, descs, remote, image>>

-----------------------------------------------------------------------------
(* The convert goroutine *)

\* Woken by a closed channel or by rctx.
ConvertWaitDownload(i) ==
  /\ convert[i] = "waitDownload"
  /\ Cancelled \/ <<"downloaded", i>> \in closed
  /\ convert' = [convert EXCEPT ![i] = AfterDownload(i)]
  /\ closed' = ConvertCloses(i, AfterDownload(i))
  /\ UNCHANGED <<ctx, failed, main, dedup, download, upload, files, descs, remote, image>>

ConvertWaitLower(i) ==
  /\ convert[i] = "waitLower"
  /\ Cancelled \/ <<"converted", i - 1>> \in closed
  /\ convert' = [convert EXCEPT ![i] = Woken(i, "build")]
  /\ closed' = ConvertCloses(i, Woken(i, "build"))
  /\ UNCHANGED <<ctx, failed, main, dedup, download, upload, files, descs, remote, image>>

\* What create, apply and commit make of layer.tar on top of the lowers of
\* the shared configuration; without layer.tar there is nothing to apply.
Below(i) == [k \in 1..i |-> k - 1]
Applied(i) ==
  IF tar[i] = "whole" /\ lowers = Below(i) /\ \A k \in 0..(i - 1) : commit[k] = "good"
  THEN "good" ELSE "bad"

Converted(i) ==
  /\ convert' = [convert EXCEPT ![i] = "send"]
  /\ lowers' = Append(lowers, i)
  /\ UNCHANGED closed

BuildFails(i) ==
  /\ convert' = [convert EXCEPT ![i] = "failing"]
  /\ closed' = closed \union {<<"converted", i>>}
  /\ UNCHANGED lowers

\* A layer that came converted only joins the lowers.  Otherwise a commit file
\* must not exist yet; the tools are run, and leave a part of it when they
\* fail while committing.
BuildLayer(i) ==
  /\ convert[i] = "build"
  /\ IF i \in fromDedup
     THEN /\ IF commit[i] # "none" THEN Converted(i) ELSE BuildFails(i)
          /\ UNCHANGED <<tar, commit>>
     ELSE \/ /\ commit[i] = "none" /\ tar[i] # "none" /\ ~Cancelled
             /\ commit' = [commit EXCEPT ![i] = Applied(i)]
             /\ tar' = [tar EXCEPT ![i] = "none"]
             /\ Converted(i)
          \/ /\ \/ UNCHANGED commit
                \/ /\ commit[i] = "none" /\ tar[i] # "none"
                   /\ commit' = [commit EXCEPT ![i] = "partial"]
             /\ BuildFails(i)
             /\ UNCHANGED tar
  /\ UNCHANGED <<ctx, failed, main, dedup, download, upload, fromDedup, stray, descs, remote,
                 image>>

\* The last send is followed by the deferred close.
Sent(i) == IF convert[i] = "send" /\ i + 1 < N THEN "sendAgain" ELSE "done"

\* Mutant: the sends do not watch rctx.
ConvertSendBlindly(i) ==
  /\ convert[i] \in {"send", "sendAgain"}
  /\ \/ /\ upload[i] = "wait"
        /\ upload' = [upload EXCEPT ![i] = Woken(i, "upload")]
        /\ convert' = [convert EXCEPT ![i] = Sent(i)]
        /\ closed' = IF Sent(i) = "done" THEN closed \union {<<"converted", i>>} ELSE closed
     \/ /\ i + 1 < N /\ convert[i + 1] = "waitLower"
        /\ convert' = [convert EXCEPT ![i] = Sent(i), ![i + 1] = Woken(i + 1, "build")]
        /\ closed' = ConvertCloses(i + 1, Woken(i + 1, "build"))
                       \union (IF Sent(i) = "done" THEN {<<"converted", i>>} ELSE {})
        /\ UNCHANGED upload
  /\ UNCHANGED <<ctx, failed, main, dedup, download, files, descs, remote, image>>

\* The result is sent twice, to upload(i) and to convert(i + 1), in the order
\* in which they come for it; once when there is no layer above.
ConvertSend(i) ==
  /\ convert[i] \in {"send", "sendAgain"}
  /\ \/ /\ upload[i] = "wait"
        /\ upload' = [upload EXCEPT ![i] = Woken(i, "upload")]
        /\ convert' = [convert EXCEPT ![i] = Sent(i)]
        /\ closed' = IF Sent(i) = "done" THEN closed \union {<<"converted", i>>} ELSE closed
     \/ /\ i + 1 < N /\ convert[i + 1] = "waitLower"
        /\ convert' = [convert EXCEPT ![i] = Sent(i), ![i + 1] = Woken(i + 1, "build")]
        /\ closed' = ConvertCloses(i + 1, Woken(i + 1, "build"))
                       \union (IF Sent(i) = "done" THEN {<<"converted", i>>} ELSE {})
        /\ UNCHANGED upload
     \/ /\ Cancelled
        /\ convert' = [convert EXCEPT ![i] = Sent(i)]
        /\ closed' = IF Sent(i) = "done" THEN closed \union {<<"converted", i>>} ELSE closed
        /\ UNCHANGED upload
  /\ UNCHANGED <<ctx, failed, main, dedup, download, files, descs, remote, image>>

-----------------------------------------------------------------------------
(* The upload goroutine *)

UploadWait(i) ==
  /\ upload[i] = "wait"
  /\ Cancelled \/ <<"converted", i>> \in closed
  /\ upload' = [upload EXCEPT ![i] = Woken(i, "upload")]
  /\ UNCHANGED <<ctx, failed, main, dedup, download, convert, closed, files, descs, remote, image>>

\* The commit file is pushed as it is found; the digest of a layer that came
\* converted must be the one of its descriptor.
UploadLayer(i) ==
  /\ upload[i] = "upload"
  /\ \/ /\ commit[i] # "none" /\ (i \in fromDedup => commit[i] = desc[i])
        /\ noUpload \/ ~Cancelled
        /\ blobs' = IF noUpload THEN blobs ELSE [blobs EXCEPT ![i] = @ \union {commit[i]}]
        /\ desc' = [desc EXCEPT ![i] = commit[i]]
        /\ upload' = [upload EXCEPT ![i] = "store"]
     \/ /\ upload' = [upload EXCEPT ![i] = "failing"]
        /\ UNCHANGED <<blobs, desc>>
  /\ UNCHANGED <<ctx, failed, main, dedup, download, convert, closed, files, found, entry, image>>

\* The insert may fail, and does when the chain has a record; nobody looks.
StoreConvertedLayerDetails(i) ==
  /\ upload[i] = "store"
  /\ \/ /\ i \notin fromDedup /\ entry[i] = "none" /\ ~Cancelled
        /\ entry' = [entry EXCEPT ![i] = desc[i]]
     \/ UNCHANGED entry
  /\ upload' = [upload EXCEPT ![i] = "done"]
  /\ UNCHANGED <<ctx, failed, main, dedup, download, convert, closed, files, descs, blobs, image>>

-----------------------------------------------------------------------------
(* The errgroup and Build() *)

\* The errgroup takes the error of a goroutine that has returned.
Report(i) ==
  /\ \/ /\ download[i] = "failing"
        /\ download' = [download EXCEPT ![i] = "done"] /\ UNCHANGED <<convert, upload>>
     \/ /\ convert[i] = "failing"
        /\ convert' = [convert EXCEPT ![i] = "done"] /\ UNCHANGED <<download, upload>>
     \/ /\ upload[i] = "failing"
        /\ upload' = [upload EXCEPT ![i] = "done"] /\ UNCHANGED <<download, convert>>
  /\ failed' = TRUE
  /\ UNCHANGED <<ctx, main, dedup, closed, files, descs, remote, image>>

\* The manifest was converted before and can be tagged: nothing is converted.
AlreadyConverted ==
  /\ main = "check" /\ ~ctx
  /\ main' = "ok"
  /\ UNCHANGED <<ctx, failed, Goroutines, closed, files, descs, remote, image>>

Spawn ==
  /\ main = "check"
  /\ main' = "wait"
  /\ dedup' = [i \in Layers |-> "check"] /\ download' = [i \in Layers |-> "wait"]
  /\ convert' = [i \in Layers |-> "waitDownload"] /\ upload' = [i \in Layers |-> "wait"]
  /\ UNCHANGED <<ctx, failed, closed, files, descs, remote, image>>

AllDone == \A i \in Layers : {dedup[i], download[i], convert[i], upload[i]} = {"done"}

\* Mutant: the result of g.Wait() is not looked at.
WaitIgnoresError ==
  /\ main = "wait" /\ AllDone
  /\ main' = "image"
  /\ UNCHANGED <<ctx, failed, Goroutines, closed, files, descs, remote, image>>

\* g.Wait(); the work directory is removed when Build() returns.
Wait ==
  /\ main = "wait" /\ AllDone
  /\ main' = IF failed THEN "error" ELSE "image"
  /\ UNCHANGED <<ctx, failed, Goroutines, closed, files, descs, remote, image>>

\* The base layer, the configuration and the manifest are pushed, in this
\* order; the files of --dump-manifest are written last and may fail alone.
UploadImage ==
  /\ main = "image"
  /\ \/ /\ ~ctx \/ noUpload
        /\ image' = IF noUpload THEN NoImage ELSE [i \in Layers |-> desc[i]]
        /\ main' \in {"ok", "error"}
     \/ main' = "error" /\ UNCHANGED image
  /\ UNCHANGED <<ctx, failed, Goroutines, closed, files, descs, remote>>

LayerStep(i) ==
  \/ DedupHit(i) \/ DedupMount(i) \/ DedupMiss(i) \/ DedupSend(i)
  \/ DownloadUncached(i) \/ DownloadConvertedLayer(i) \/ DownloadLayer(i) \/ DownloadSend(i)
  \/ ConvertWaitDownload(i) \/ ConvertWaitLower(i) \/ BuildLayer(i) \/ ConvertSend(i)
  \/ UploadWait(i) \/ UploadLayer(i) \/ StoreConvertedLayerDetails(i)
  \/ Report(i)

Build == AlreadyConverted \/ Spawn \/ Wait \/ UploadImage

Next == Cancel \/ Build \/ \E i \in Layers : LayerStep(i)

Spec == Init /\ [][Next]_vars

\* Go schedules every goroutine, and every call to the registry, the database
\* and the tools ends.
FairSpec ==
  Spec /\ WF_vars(Build) /\ \A i \in Layers : WF_vars(LayerStep(i))

-----------------------------------------------------------------------------
(* Properties *)

TypeOK ==
  /\ {ctx, failed} \subseteq BOOLEAN
  /\ main \in {"check", "wait", "image", "ok", "error"}
  /\ dedup \in [Layers -> {"none", "check", "send", "done"}]
  /\ download \in [Layers -> {"none", "wait", "cached", "plain", "send", "failing", "done"}]
  /\ convert \in [Layers -> {"none", "waitDownload", "waitLower", "build", "send", "sendAgain",
                             "failing", "done"}]
  /\ upload \in [Layers -> {"none", "wait", "upload", "store", "failing", "done"}]
  /\ closed \subseteq {"alreadyConverted", "downloaded", "converted"} \X Layers
  /\ tar \in [Layers -> {"none", "partial", "whole"}]
  /\ commit \in [Layers -> Content \union {"none"}] /\ desc \in [Layers -> Content \union {"none"}]
  /\ found \in [Layers -> Content \union {"none"}]
  /\ fromDedup \subseteq Layers /\ stray \subseteq Layers /\ lowers \in Seq(Layers)
  /\ blobs \in [Layers -> SUBSET Content]
  /\ entry \in [Layers -> Content \union {"none"}]
  /\ image \in [Layers -> Content \union {"none"}] \union {NoImage}

\* The layer was taken from a record of an earlier build that names a
\* conversion that is not good: its digest is verified, its content is not.
Misrecorded(i) == i \in fromDedup /\ found[i] # "good"
Misled(i) == \E k \in 0..i : Misrecorded(k)

\* Whatever fails, is cancelled or lies in the work directory, a manifest that
\* is pushed names for every layer what the repository holds, and that is the
\* whole conversion of the layer on top of the right layers below.  The
\* exception is exact: the database had a wrong record of the layer or of one
\* below it, and it was used.
ImageComplete ==
  image # NoImage =>
    \A i \in Layers : image[i] \in blobs[i] /\ (image[i] = "good" \/ Misled(i))

\* A conversion runs without its layer, out of order or on a lower layer that
\* failed only in the moment between a goroutine's failure and its report,
\* and then Build() will fail: as long as nothing failed the lowers are the
\* layers 0, 1, .. in order and all their files are good, up to a layer that
\* was taken from a wrong record.
AnyFailure ==
  failed \/ \E i \in Layers : "failing" \in {download[i], convert[i], upload[i]}
ErrorsContained ==
  ~AnyFailure =>
    /\ lowers = Below(Len(lowers)) /\ Len(lowers) <= N
    /\ \A k \in 0..(Len(lowers) - 1) : commit[k] = "good" \/ Misled(k)

\* "layer %d is not from dedup but commit file is present" is only met when the
\* work directory had the file of an earlier run or the removal after a failed
\* download did not work: a layer that falls back to conversion finds no other
\* trace of the converted one.  And such a file is never built upon: it is no
\* lower layer of any conversion.
NoStrayCommit ==
  /\ \A i \in Layers :
       convert[i] = "build" /\ i \notin fromDedup /\ commit[i] # "none" => i \in stray
  /\ \A k \in 1..Len(lowers) : lowers[k] \notin stray

\* Build() returns: nobody waits for ever on a channel whose other end has
\* failed, whichever goroutines fail and whenever the caller cancels.
BuildReturns == <>(main \in {"ok", "error"})

\* The database maps a chain of layers to its conversion.
EntriesGood == \A i \in Layers : entry[i] \in {"none", "good"}

=============================================================================
