------------------------ MODULE OverlaybdBuilder_proofs ------------------------
(***************************************************************************)
(* For an image of any number of layers, any content of the database, of   *)
(* the registry and of the work directory, and any failures: a pushed      *)
(* manifest is complete, but for what a wrong record of the database       *)
(* explains.                                                               *)
(***************************************************************************)
EXTENDS OverlaybdBuilder, TLAPS

-----------------------------------------------------------------------------
(* The inductive invariant *)

\* What a conversion needs is there: the converted layer the database named, or
\* the tar file.
Ready(i) == IF i \in fromDedup THEN commit[i] = found[i] ELSE tar[i] = "whole"

\* The layer is among the lowers.
Based(i) == \E k \in 1..Len(lowers) : lowers[k] = i

\* Holds whatever has failed: a conversion starts after its download is over,
\* a commit file that was not downloaded was made by the conversion or is a
\* stray one, and stray ones are neither downloaded nor converted layers.
Always(i) ==
  /\ <<"downloaded", i>> \in closed => download[i] \in {"failing", "done"}
  /\ convert[i] \in {"waitLower", "build", "send", "sendAgain"}
       => download[i] \in {"failing", "done"}
  /\ i \notin fromDedup /\ commit[i] # "none"
       => i \in stray \/ convert[i] \in {"send", "sendAgain", "failing", "done"}
  /\ i \in stray => commit[i] # "none"
  /\ i \in fromDedup => download[i] \in {"send", "done"} /\ i \notin stray
  /\ Based(i) => download[i] \in {"failing", "done"} /\ i \notin stray

\* Build() waits for goroutines it has started and for all of them.
Phases ==
  /\ main = "check" => \A i \in Layers : /\ dedup[i] = "none" /\ download[i] = "none"
                                         /\ convert[i] = "none" /\ upload[i] = "none"
  /\ main = "image" => AllDone /\ ~failed
  /\ image # NoImage => AllDone /\ main \in {"ok", "error"}

\* As long as nothing has failed: the layers that are converted are the first
\* ones, ...
Prefix ==
  /\ lowers = Below(Len(lowers)) /\ Len(lowers) <= N
  /\ \A k \in 0..(Len(lowers) - 1) : commit[k] = "good" \/ Misled(k)

\* ... convert goroutines are where that says, ...
InOrder(i) ==
  /\ convert[i] \in {"send", "sendAgain", "done"} <=> i < Len(lowers)
  /\ convert[i] = "build" => i = Len(lowers)
  /\ convert[i] = "waitLower" => i > 0
  /\ <<"converted", i>> \in closed => convert[i] = "done"

\* ... they find what they need, ...
Supplied(i) ==
  /\ download[i] \in {"none", "wait", "cached", "plain"} =>
       convert[i] \in {"none", "waitDownload"} /\ i \notin fromDedup
  /\ download[i] \in {"send", "done"} /\ convert[i] \in {"waitDownload", "waitLower", "build"}
       => Ready(i)

\* ... the database is asked before anything is downloaded, ...
Deduplicated(i) ==
  /\ <<"alreadyConverted", i>> \in closed => dedup[i] = "done"
  /\ ~ctx /\ dedup[i] \in {"none", "check"} => download[i] \in {"none", "wait"}

\* ... and an upload follows its conversion.
Uploaded(i) ==
  /\ upload[i] \in {"upload", "store", "done"} => i < Len(lowers)
  /\ upload[i] \in {"store", "done"} =>
       desc[i] = commit[i] /\ (noUpload \/ desc[i] \in blobs[i])

Clean == Prefix /\ \A i \in Layers : InOrder(i) /\ Supplied(i) /\ Deduplicated(i) /\ Uploaded(i)

AllAlways == \A i \in Layers : Always(i)

\* Nothing has failed, neither before nor after a step.
Sound(i) ==
  ~failed /\ download[i] # "failing" /\ convert[i] # "failing" /\ upload[i] # "failing"
Unfailed == \A i \in Layers : Sound(i) /\ Sound(i)'

Inv ==
  /\ TypeOK /\ Phases /\ ImageComplete
  /\ AllAlways
  /\ ~AnyFailure => Clean

-----------------------------------------------------------------------------
(* Proofs *)

\* Every step keeps the types.
LEMMA TypeStep ==
  ASSUME TypeOK, [Next]_vars
  PROVE  TypeOK'
<1>1. CASE Cancel
  BY <1>1, BuilderAssumption DEF Cancel, files, descs, remote, Goroutines, TypeOK, Content,
      NoImage, Layers
<1>2. CASE AlreadyConverted
  BY <1>2, BuilderAssumption DEF AlreadyConverted, files, descs, remote, Goroutines, TypeOK,
      Content, NoImage, Layers
<1>3. CASE Spawn
  BY <1>3, BuilderAssumption DEF Spawn, files, descs, remote, Goroutines, TypeOK, Content,
      NoImage, Layers
<1>4. CASE Wait
  BY <1>4, BuilderAssumption DEF Wait, AllDone, files, descs, remote, Goroutines, TypeOK,
      Content, NoImage, Layers
<1>5. CASE UploadImage
  BY <1>5, BuilderAssumption DEF UploadImage, files, descs, remote, Goroutines, TypeOK,
      Content, NoImage, Layers
<1>6. CASE UNCHANGED vars
  BY <1>6, BuilderAssumption DEF vars, files, descs, remote, TypeOK, Content, NoImage,
      Layers
<1>7. ASSUME NEW i \in Layers, LayerStep(i)
       PROVE  TypeOK'
  <2>1. CASE DedupHit(i)
    BY <2>1, BuilderAssumption DEF DedupHit, files, descs, remote, TypeOK, Content, NoImage,
        Layers
  <2>2. CASE DedupMount(i)
    <3>1. PICK c \in Elsewhere[i] : /\ blobs' = [blobs EXCEPT ![i] = @ \union {c}]
                                    /\ entry' = [entry EXCEPT ![i] = c]
                                    /\ found' = [found EXCEPT ![i] = c]
      BY <2>2 DEF DedupMount
    <3>2. c \in Content
      BY BuilderAssumption
    <3>3. /\ blobs' \in [Layers -> SUBSET Content]
          /\ entry' \in [Layers -> Content \union {"none"}]
          /\ found' \in [Layers -> Content \union {"none"}]
      BY <3>1, <3>2 DEF TypeOK
    <3> QED
      BY <2>2, <3>3 DEF DedupMount, files, descs, remote, TypeOK
  <2>3. CASE DedupMiss(i)
    <3>a. <<"alreadyConverted", i>> \in {"alreadyConverted", "downloaded", "converted"} \X Layers
      OBVIOUS
    <3>b. entry' \in [Layers -> Content \union {"none"}]
      <4>1. entry' = entry \/ entry' = [entry EXCEPT ![i] = "none"]
        BY <2>3 DEF DedupMiss
      <4> QED
        BY <4>1 DEF TypeOK
    <3>c. blobs' \in [Layers -> SUBSET Content]
      <4>1. \/ blobs' = blobs
            \/ \E c \in Elsewhere[i] : blobs' = [blobs EXCEPT ![i] = blobs[i] \union {c}]
        BY <2>3 DEF DedupMiss
      <4>2. Elsewhere[i] \subseteq Content
        BY BuilderAssumption
      <4> QED
        BY <4>1, <4>2 DEF TypeOK
    <3>1. dedup' \in [Layers -> {"none", "check", "send", "done"}]
      BY <2>3, <3>a, <3>b, <3>c DEF DedupMiss, files, descs, remote, TypeOK
    <3>2. closed' \subseteq {"alreadyConverted", "downloaded", "converted"} \X Layers
      BY <2>3, <3>a, <3>b, <3>c DEF DedupMiss, files, descs, remote, TypeOK
    <3> QED
      BY <2>3, <3>b, <3>c, <3>1, <3>2 DEF DedupMiss, files, descs, remote, TypeOK
  <2>4. CASE DedupSend(i)
    BY <2>4, BuilderAssumption DEF DedupSend, files, descs, remote, TypeOK, Content,
        NoImage, Layers
  <2>5. CASE DownloadUncached(i)
    BY <2>5, BuilderAssumption DEF DownloadUncached, files, descs, remote, TypeOK, Content,
        NoImage, Layers
  <2>6. CASE DownloadConvertedLayer(i)
    <3>1. commit' \in [Layers -> Content \union {"none"}]
      <4>1. PICK x : x \in {found[i], "none", "partial", commit[i]}
                     /\ commit' = [commit EXCEPT ![i] = x]
        BY <2>6 DEF DownloadConvertedLayer
      <4>2. x \in Content \union {"none"}
        BY <4>1 DEF TypeOK, Content
      <4> QED
        BY <4>1, <4>2 DEF TypeOK
    <3>2. desc' \in [Layers -> Content \union {"none"}]
      BY <2>6 DEF DownloadConvertedLayer, files, descs, remote, TypeOK, Content
    <3>3. fromDedup' \subseteq Layers /\ stray' \subseteq Layers
      BY <2>6 DEF DownloadConvertedLayer, files, descs, remote, TypeOK
    <3>4. download' \in [Layers -> {"none", "wait", "cached", "plain", "send", "failing", "done"}]
      BY <2>6 DEF DownloadConvertedLayer, files, descs, remote, TypeOK
    <3> QED
      BY <2>6, <3>1, <3>2, <3>3, <3>4 DEF DownloadConvertedLayer, files, descs, remote,
          TypeOK
  <2>7. CASE DownloadLayer(i)
    <3>a. <<"downloaded", i>> \in {"alreadyConverted", "downloaded", "converted"} \X Layers
      OBVIOUS
    <3>b. <<"converted", i>> \in {"alreadyConverted", "downloaded", "converted"} \X Layers
      OBVIOUS
    <3>1. tar' \in [Layers -> {"none", "partial", "whole"}]
      BY <2>7, <3>a DEF DownloadLayer, files, descs, remote, TypeOK
    <3>2. download' \in [Layers -> {"none", "wait", "cached", "plain", "send", "failing", "done"}]
      BY <2>7, <3>a DEF DownloadLayer, files, descs, remote, TypeOK
    <3>3. closed' \subseteq {"alreadyConverted", "downloaded", "converted"} \X Layers
      BY <2>7, <3>a DEF DownloadLayer, files, descs, remote, TypeOK
    <3> QED
      BY <2>7, <3>1, <3>2, <3>3 DEF DownloadLayer, files, descs, remote, TypeOK
  <2>8. CASE DownloadSend(i)
    <3>a. <<"downloaded", i>> \in {"alreadyConverted", "downloaded", "converted"} \X Layers
      OBVIOUS
    <3>b. <<"converted", i>> \in {"alreadyConverted", "downloaded", "converted"} \X Layers
      OBVIOUS
    <3>c. AfterDownload(i) \in {"waitLower", "build", "failing"}
      BY DEF AfterDownload, Woken
    <3>d. ConvertCloses(i, AfterDownload(i)) \subseteq closed \union {<<"converted", i>>}
      BY DEF ConvertCloses
    <3>1. convert' \in [Layers -> {"none", "waitDownload", "waitLower", "build", "send",
                                   "sendAgain", "failing", "done"}]
      BY <2>8, <3>a, <3>b, <3>c, <3>d DEF DownloadSend, files, descs, remote, TypeOK
    <3>2. closed' \subseteq {"alreadyConverted", "downloaded", "converted"} \X Layers
      BY <2>8, <3>a, <3>b, <3>c, <3>d DEF DownloadSend, files, descs, remote, TypeOK
    <3>3. download' \in [Layers -> {"none", "wait", "cached", "plain", "send", "failing", "done"}]
      BY <2>8, <3>a, <3>b, <3>c, <3>d DEF DownloadSend, files, descs, remote, TypeOK
    <3> QED
      BY <2>8, <3>1, <3>2, <3>3 DEF DownloadSend, files, descs, remote, TypeOK
  <2>9. CASE ConvertWaitDownload(i)
    BY <2>9, BuilderAssumption DEF ConvertWaitDownload, AfterDownload, Woken, ConvertCloses,
        files, descs, remote, TypeOK, Content, NoImage, Layers
  <2>10. CASE ConvertWaitLower(i)
    BY <2>10, BuilderAssumption DEF ConvertWaitLower, Woken, ConvertCloses, files, descs,
        remote, TypeOK, Content, NoImage, Layers
  <2>11. CASE BuildLayer(i)
    <3>a. Applied(i) \in Content
      BY DEF Applied, Content
    <3>b. <<"converted", i>> \in {"alreadyConverted", "downloaded", "converted"} \X Layers
      OBVIOUS
    <3>1. convert' \in [Layers -> {"none", "waitDownload", "waitLower", "build", "send",
                                   "sendAgain", "failing", "done"}]
      BY <2>11 DEF BuildLayer, Converted, BuildFails, TypeOK
    <3>2. lowers' \in Seq(Layers)
      <4>1. lowers' = lowers \/ lowers' = Append(lowers, i)
        BY <2>11 DEF BuildLayer, Converted, BuildFails
      <4>2. lowers \in Seq(Layers)
        BY DEF TypeOK
      <4>3. Append(lowers, i) \in Seq(Layers)
        BY <4>2
      <4> QED
        BY <4>1, <4>2, <4>3
    <3>3. closed' \subseteq {"alreadyConverted", "downloaded", "converted"} \X Layers
      <4>1. closed' = closed \/ closed' = closed \union {<<"converted", i>>}
        BY <2>11 DEF BuildLayer, Converted, BuildFails
      <4> QED
        BY <3>b, <4>1 DEF TypeOK
    <3>4. commit' \in [Layers -> Content \union {"none"}]
      <4>1. PICK x \in Content : commit' = commit \/ commit' = [commit EXCEPT ![i] = x]
        BY <2>11, <3>a DEF BuildLayer, Content
      <4>2. x \in Content \union {"none"}
        OBVIOUS
      <4> QED
        BY <4>1, <4>2 DEF TypeOK
    <3>5. tar' \in [Layers -> {"none", "partial", "whole"}]
      <4>1. tar' = tar \/ tar' = [tar EXCEPT ![i] = "none"]
        BY <2>11 DEF BuildLayer
      <4> QED
        BY <4>1 DEF TypeOK
    <3> QED
      BY <2>11, <3>1, <3>2, <3>3, <3>4, <3>5 DEF BuildLayer, descs, remote, TypeOK
  <2>12. CASE ConvertSend(i)
    <3>a. Sent(i) \in {"sendAgain", "done"} /\ Woken(i, "upload") \in {"upload", "failing"}
      BY DEF Sent, Woken
    <3>b. Woken(i + 1, "build") \in {"build", "failing"}
      BY DEF Woken
    <3>c. <<"converted", i>> \in {"alreadyConverted", "downloaded", "converted"} \X Layers
      OBVIOUS
    <3>d. i + 1 < N => /\ i + 1 \in Layers
                       /\ <<"converted", i + 1>> \in
                            {"alreadyConverted", "downloaded", "converted"} \X Layers
      BY BuilderAssumption DEF Layers
    <3>e. ConvertCloses(i + 1, Woken(i + 1, "build"))
            \subseteq closed \union {<<"converted", i + 1>>}
      BY DEF ConvertCloses
    <3>1. upload' \in [Layers -> {"none", "wait", "upload", "store", "failing", "done"}]
      BY <2>12, <3>a DEF ConvertSend, TypeOK
    <3>2. convert' \in [Layers -> {"none", "waitDownload", "waitLower", "build", "send",
                                   "sendAgain", "failing", "done"}]
      <4>1. CASE convert' = [convert EXCEPT ![i] = Sent(i)]
        BY <4>1, <3>a DEF TypeOK
      <4>2. CASE /\ i + 1 < N
                 /\ convert' = [convert EXCEPT ![i] = Sent(i), ![i + 1] = Woken(i + 1, "build")]
        BY <4>2, <3>a, <3>b, <3>d DEF TypeOK
      <4> QED
        BY <2>12, <4>1, <4>2 DEF ConvertSend
    <3>3. closed' \subseteq {"alreadyConverted", "downloaded", "converted"} \X Layers
      <4>1. closed' \subseteq closed \union {<<"converted", i>>}
              \/ /\ i + 1 < N
                 /\ closed' \subseteq closed \union {<<"converted", i>>, <<"converted", i + 1>>}
        BY <2>12, <3>e DEF ConvertSend
      <4> QED
        BY <3>c, <3>d, <4>1 DEF TypeOK
    <3> QED
      BY <2>12, <3>1, <3>2, <3>3 DEF ConvertSend, files, descs, remote, TypeOK
  <2>13. CASE UploadWait(i)
    BY <2>13, BuilderAssumption DEF UploadWait, Woken, files, descs, remote, TypeOK,
        Content, NoImage, Layers
  <2>14. CASE UploadLayer(i)
    <3>1. desc' \in [Layers -> Content \union {"none"}]
      BY <2>14 DEF UploadLayer, files, descs, remote, TypeOK, Content
    <3>2. upload' \in [Layers -> {"none", "wait", "upload", "store", "failing", "done"}]
      BY <2>14 DEF UploadLayer, files, descs, remote, TypeOK
    <3>3. blobs' \in [Layers -> SUBSET Content]
      <4>1. \/ blobs' = blobs
            \/ commit[i] # "none" /\ blobs' = [blobs EXCEPT ![i] = blobs[i] \union {commit[i]}]
        BY <2>14 DEF UploadLayer
      <4>2. commit[i] # "none" => commit[i] \in Content
        BY DEF TypeOK
      <4> QED
        BY <4>1, <4>2 DEF TypeOK
    <3> QED
      BY <2>14, <3>1, <3>2, <3>3 DEF UploadLayer, files, descs, remote, TypeOK
  <2>15. CASE StoreConvertedLayerDetails(i)
    <3>1. entry' \in [Layers -> Content \union {"none"}]
      <4>1. entry' = entry \/ entry' = [entry EXCEPT ![i] = desc[i]]
        BY <2>15 DEF StoreConvertedLayerDetails
      <4>2. desc[i] \in Content \union {"none"}
        BY DEF TypeOK
      <4> QED
        BY <4>1, <4>2 DEF TypeOK
    <3>2. upload' \in [Layers -> {"none", "wait", "upload", "store", "failing", "done"}]
      BY <2>15 DEF StoreConvertedLayerDetails, TypeOK
    <3> QED
      BY <2>15, <3>1, <3>2 DEF StoreConvertedLayerDetails, files, descs, TypeOK
  <2>16. CASE Report(i)
    <3>1. download' \in [Layers -> {"none", "wait", "cached", "plain", "send", "failing", "done"}]
      BY <2>16 DEF Report, files, descs, remote, TypeOK
    <3>2. convert' \in [Layers -> {"none", "waitDownload", "waitLower", "build", "send",
                                   "sendAgain", "failing", "done"}]
      BY <2>16 DEF Report, files, descs, remote, TypeOK
    <3>3. upload' \in [Layers -> {"none", "wait", "upload", "store", "failing", "done"}]
      BY <2>16 DEF Report, files, descs, remote, TypeOK
    <3> QED
      BY <2>16, <3>1, <3>2, <3>3 DEF Report, files, descs, remote, TypeOK
  <2> QED
    BY <1>7, <2>1, <2>2, <2>3, <2>4, <2>5, <2>6, <2>7, <2>8, <2>9, <2>10, <2>11, <2>12,
        <2>13, <2>14, <2>15, <2>16 DEF LayerStep
<1> QED
  BY <1>1, <1>2, <1>3, <1>4, <1>5, <1>6, <1>7 DEF Next, Build

\* A failure is never forgotten before the errgroup has it.
LEMMA FailureStays ==
  ASSUME TypeOK, Phases, AnyFailure, [Next]_vars
  PROVE  AnyFailure'
<1>1. CASE Cancel
  BY <1>1, TypeOK, Phases, AnyFailure DEF Cancel, files, descs, remote, Goroutines, TypeOK,
      Phases, AnyFailure
<1>2. CASE AlreadyConverted
  BY <1>2, TypeOK, Phases, AnyFailure DEF AlreadyConverted, files, descs, remote,
      Goroutines, TypeOK, Phases, AnyFailure
<1>3. CASE Spawn
  BY <1>3, TypeOK, Phases, AnyFailure DEF Spawn, files, descs, remote, Goroutines, TypeOK,
      Phases, AnyFailure
<1>4. CASE Wait
  BY <1>4, TypeOK, Phases, AnyFailure DEF Wait, AllDone, files, descs, remote, Goroutines,
      TypeOK, Phases, AnyFailure
<1>5. CASE UploadImage
  BY <1>5, TypeOK, Phases, AnyFailure DEF UploadImage, files, descs, remote, Goroutines,
      TypeOK, Phases, AnyFailure
<1>6. CASE UNCHANGED vars
  BY <1>6, TypeOK, Phases, AnyFailure DEF vars, files, descs, remote, TypeOK, Phases,
      AnyFailure
<1>7. ASSUME NEW i \in Layers, LayerStep(i)
       PROVE  AnyFailure'
  <2>1. CASE DedupHit(i)
    BY <2>1, TypeOK, Phases, AnyFailure DEF DedupHit, files, descs, remote, TypeOK, Phases,
        AnyFailure
  <2>2. CASE DedupMount(i)
    BY <2>2, TypeOK, Phases, AnyFailure DEF DedupMount, files, descs, remote, TypeOK,
        Phases, AnyFailure
  <2>3. CASE DedupMiss(i)
    BY <2>3, TypeOK, Phases, AnyFailure DEF DedupMiss, files, descs, remote, TypeOK, Phases,
        AnyFailure
  <2>4. CASE DedupSend(i)
    BY <2>4, TypeOK, Phases, AnyFailure DEF DedupSend, files, descs, remote, TypeOK, Phases,
        AnyFailure
  <2>5. CASE DownloadUncached(i)
    BY <2>5, TypeOK, Phases, AnyFailure DEF DownloadUncached, files, descs, remote, TypeOK,
        Phases, AnyFailure
  <2>6. CASE DownloadConvertedLayer(i)
    BY <2>6, TypeOK, Phases, AnyFailure DEF DownloadConvertedLayer, files, descs, remote,
        TypeOK, Phases, AnyFailure
  <2>7. CASE DownloadLayer(i)
    BY <2>7, TypeOK, Phases, AnyFailure DEF DownloadLayer, files, descs, remote, TypeOK,
        Phases, AnyFailure
  <2>8. CASE DownloadSend(i)
    BY <2>8, TypeOK, Phases, AnyFailure DEF DownloadSend, AfterDownload, Woken,
        ConvertCloses, files, descs, remote, TypeOK, Phases, AnyFailure
  <2>9. CASE ConvertWaitDownload(i)
    BY <2>9, TypeOK, Phases, AnyFailure DEF ConvertWaitDownload, AfterDownload, Woken,
        ConvertCloses, files, descs, remote, TypeOK, Phases, AnyFailure
  <2>10. CASE ConvertWaitLower(i)
    BY <2>10, TypeOK, Phases, AnyFailure DEF ConvertWaitLower, Woken, ConvertCloses, files,
        descs, remote, TypeOK, Phases, AnyFailure
  <2>11. CASE BuildLayer(i)
    BY <2>11, TypeOK, Phases, AnyFailure DEF BuildLayer, Converted, BuildFails, files,
        descs, remote, TypeOK, Phases, AnyFailure
  <2>12. CASE ConvertSend(i)
    BY <2>12, TypeOK, Phases, AnyFailure DEF ConvertSend, Sent, Woken, ConvertCloses, files,
        descs, remote, TypeOK, Phases, AnyFailure
  <2>13. CASE UploadWait(i)
    BY <2>13, TypeOK, Phases, AnyFailure DEF UploadWait, Woken, files, descs, remote,
        TypeOK, Phases, AnyFailure
  <2>14. CASE UploadLayer(i)
    BY <2>14, TypeOK, Phases, AnyFailure DEF UploadLayer, files, descs, remote, TypeOK,
        Phases, AnyFailure
  <2>15. CASE StoreConvertedLayerDetails(i)
    BY <2>15, TypeOK, Phases, AnyFailure DEF StoreConvertedLayerDetails, files, descs,
        remote, TypeOK, Phases, AnyFailure
  <2>16. CASE Report(i)
    BY <2>16, TypeOK, Phases, AnyFailure DEF Report, files, descs, remote, TypeOK, Phases,
        AnyFailure
  <2> QED
    BY <1>7, <2>1, <2>2, <2>3, <2>4, <2>5, <2>6, <2>7, <2>8, <2>9, <2>10, <2>11, <2>12,
        <2>13, <2>14, <2>15, <2>16 DEF LayerStep
<1> QED
  BY <1>1, <1>2, <1>3, <1>4, <1>5, <1>6, <1>7 DEF Next, Build

\* Goroutines only run while Build() waits for them.
LEMMA LayersRun ==
  ASSUME TypeOK, Phases, NEW i \in Layers, LayerStep(i)
  PROVE  main # "check" /\ main # "image" /\ main' = main /\ image = NoImage /\ image' = image
<1>1. \/ dedup[i] \notin {"none", "done"} \/ download[i] \notin {"none", "done"}
      \/ convert[i] \notin {"none", "done"} \/ upload[i] \notin {"none", "done"}
  BY DEF LayerStep, DedupHit, DedupMount, DedupMiss, DedupSend, DownloadUncached,
      DownloadConvertedLayer, DownloadLayer, DownloadSend, ConvertWaitDownload,
      ConvertWaitLower, BuildLayer, ConvertSend, UploadWait, UploadLayer,
      StoreConvertedLayerDetails, Report
<1>2. main' = main /\ image' = image
  BY DEF LayerStep, DedupHit, DedupMount, DedupMiss, DedupSend, DownloadUncached,
      DownloadConvertedLayer, DownloadLayer, DownloadSend, ConvertWaitDownload,
      ConvertWaitLower, BuildLayer, ConvertSend, UploadWait, UploadLayer,
      StoreConvertedLayerDetails, Report
<1>3. main # "check"
  BY <1>1 DEF Phases
<1>4. main # "image"
  BY <1>1 DEF Phases, AllDone
<1>5. image = NoImage
  BY <1>1 DEF Phases, AllDone
<1> QED
  BY <1>2, <1>3, <1>4, <1>5

\* Build() goes on when all goroutines have ended.
LEMMA PhasesStep ==
  ASSUME TypeOK, Phases, [Next]_vars
  PROVE  Phases'
<1>1. CASE Cancel
  BY <1>1 DEF Cancel, files, descs, remote, Goroutines, Phases, AllDone
<1>2. CASE AlreadyConverted
  BY <1>2 DEF AlreadyConverted, files, descs, remote, Goroutines, Phases, AllDone
<1>3. CASE Spawn
  BY <1>3 DEF Spawn, files, descs, remote, Goroutines, Phases, AllDone
<1>4. CASE Wait
  BY <1>4 DEF Wait, AllDone, files, descs, remote, Goroutines, Phases
<1>5. CASE UploadImage
  BY <1>5 DEF UploadImage, files, descs, remote, Goroutines, Phases, AllDone
<1>6. CASE UNCHANGED vars
  BY <1>6 DEF vars, Phases, AllDone
<1>7. ASSUME NEW i \in Layers, LayerStep(i)
       PROVE  Phases'
  BY <1>7, LayersRun DEF Phases
<1> QED
  BY <1>1, <1>2, <1>3, <1>4, <1>5, <1>6, <1>7 DEF Next, Build

\* What holds of a layer whatever has failed.
LEMMA AlwaysStep ==
  ASSUME TypeOK, Phases, NEW j \in Layers, Always(j), [Next]_vars
  PROVE  Always(j)'
<1>1. CASE Cancel
  BY <1>1, TypeOK, Phases, Always(j) DEF Cancel, files, descs, remote, Goroutines, TypeOK,
      Phases, Always, Based
<1>2. CASE AlreadyConverted
  BY <1>2, TypeOK, Phases, Always(j) DEF AlreadyConverted, files, descs, remote, Goroutines,
      TypeOK, Phases, Always, Based
<1>3. CASE Spawn
  BY <1>3, TypeOK, Phases, Always(j) DEF Spawn, files, descs, remote, Goroutines, TypeOK,
      Phases, Always, Based
<1>4. CASE Wait
  BY <1>4, TypeOK, Phases, Always(j) DEF Wait, AllDone, files, descs, remote, Goroutines,
      TypeOK, Phases, Always, Based
<1>5. CASE UploadImage
  BY <1>5, TypeOK, Phases, Always(j) DEF UploadImage, files, descs, remote, Goroutines,
      TypeOK, Phases, Always, Based
<1>6. CASE UNCHANGED vars
  BY <1>6, TypeOK, Phases, Always(j) DEF vars, files, descs, remote, TypeOK, Phases, Always, Based
<1>7. ASSUME NEW i \in Layers, LayerStep(i)
       PROVE  Always(j)'
  <2>1. CASE DedupHit(i)
    BY <2>1, TypeOK, Phases, Always(j) DEF DedupHit, files, descs, remote, TypeOK, Phases,
        Always, Based
  <2>2. CASE DedupMount(i)
    BY <2>2, TypeOK, Phases, Always(j) DEF DedupMount, files, descs, remote, TypeOK, Phases,
        Always, Based
  <2>3. CASE DedupMiss(i)
    BY <2>3, TypeOK, Phases, Always(j) DEF DedupMiss, files, descs, remote, TypeOK, Phases,
        Always, Based
  <2>4. CASE DedupSend(i)
    BY <2>4, TypeOK, Phases, Always(j) DEF DedupSend, files, descs, remote, TypeOK, Phases,
        Always, Based
  <2>5. CASE DownloadUncached(i)
    BY <2>5, TypeOK, Phases, Always(j) DEF DownloadUncached, files, descs, remote, TypeOK,
        Phases, Always, Based
  <2>6. CASE DownloadConvertedLayer(i)
    BY <2>6, TypeOK, Phases, Always(j) DEF DownloadConvertedLayer, files, descs, remote,
        TypeOK, Phases, Always, Based
  <2>7. CASE DownloadLayer(i)
    BY <2>7, TypeOK, Phases, Always(j) DEF DownloadLayer, files, descs, remote, TypeOK,
        Phases, Always, Based
  <2>8. CASE DownloadSend(i)
    BY <2>8, TypeOK, Phases, Always(j) DEF DownloadSend, AfterDownload, Woken,
        ConvertCloses, files, descs, remote, TypeOK, Phases, Always, Based
  <2>9. CASE ConvertWaitDownload(i)
    BY <2>9, TypeOK, Phases, Always(j) DEF ConvertWaitDownload, AfterDownload, Woken,
        ConvertCloses, files, descs, remote, TypeOK, Phases, Always, Based
  <2>10. CASE ConvertWaitLower(i)
    BY <2>10, TypeOK, Phases, Always(j) DEF ConvertWaitLower, Woken, ConvertCloses, files,
        descs, remote, TypeOK, Phases, Always, Based
  <2>11. CASE BuildLayer(i)
    <3>2. Based(j)' => Based(j) \/ (j = i /\ Converted(i))
      <4>1. lowers' = lowers \/ (Converted(i) /\ lowers' = Append(lowers, i))
        BY <2>11 DEF BuildLayer, Converted, BuildFails
      <4>2. ASSUME lowers' = Append(lowers, i), NEW k \in 1..Len(lowers'), lowers'[k] = j, j # i
            PROVE  k \in 1..Len(lowers) /\ lowers[k] = j
        BY <4>2 DEF TypeOK
      <4> QED
        BY <4>1, <4>2 DEF Based
    <3>3. Converted(i) /\ j = i => j \notin stray
      BY <2>11, Always(j) DEF BuildLayer, Always, Converted, BuildFails, TypeOK
    <3>4. Based(j)' => download[j] \in {"failing", "done"} /\ j \notin stray
      BY <2>11, <3>2, <3>3, Always(j) DEF BuildLayer, Always
    <3> QED
      BY <2>11, <3>4, Always(j) DEF BuildLayer, Converted, BuildFails, TypeOK, Always
  <2>12. CASE ConvertSend(i)
    BY <2>12, TypeOK, Phases, Always(j) DEF ConvertSend, Sent, Woken, ConvertCloses, files,
        descs, remote, TypeOK, Phases, Always, Based
  <2>13. CASE UploadWait(i)
    BY <2>13, TypeOK, Phases, Always(j) DEF UploadWait, Woken, files, descs, remote, TypeOK,
        Phases, Always, Based
  <2>14. CASE UploadLayer(i)
    BY <2>14, TypeOK, Phases, Always(j) DEF UploadLayer, files, descs, remote, TypeOK,
        Phases, Always, Based
  <2>15. CASE StoreConvertedLayerDetails(i)
    BY <2>15, TypeOK, Phases, Always(j) DEF StoreConvertedLayerDetails, files, descs,
        remote, TypeOK, Phases, Always, Based
  <2>16. CASE Report(i)
    BY <2>16, TypeOK, Phases, Always(j) DEF Report, files, descs, remote, TypeOK, Phases,
        Always, Based
  <2> QED
    BY <1>7, <2>1, <2>2, <2>3, <2>4, <2>5, <2>6, <2>7, <2>8, <2>9, <2>10, <2>11, <2>12,
        <2>13, <2>14, <2>15, <2>16 DEF LayerStep
<1> QED
  BY <1>1, <1>2, <1>3, <1>4, <1>5, <1>6, <1>7 DEF Next, Build

\* Facts about the sequence of the first layers.
LEMMA BelowNext ==
  ASSUME NEW n \in Nat, NEW s, s = Below(n)
  PROVE  Len(s) = n /\ Append(s, n) = Below(n + 1) /\ Len(Append(s, n)) = n + 1
<1>1. s \in Seq(Nat) /\ Len(s) = n
  BY DEF Below
<1>2. Append(s, n) \in Seq(Nat) /\ Len(Append(s, n)) = n + 1
  BY <1>1
<1>3. ASSUME NEW k \in 1..(n + 1) PROVE Append(s, n)[k] = Below(n + 1)[k]
  BY <1>1 DEF Below
<1>4. Below(n + 1) \in Seq(Nat) /\ Len(Below(n + 1)) = n + 1
  BY DEF Below
<1> QED
  BY <1>1, <1>2, <1>3, <1>4

\* A layer that came from a wrong record stays one: its record is not read
\* again.
LEMMA MisledStays ==
  ASSUME TypeOK, Phases, AllAlways, Clean, Unfailed, [Next]_vars,
         NEW k \in Layers, Misled(k)
  PROVE  Misled(k)'
<1>1. PICK j \in 0..k : Misrecorded(j)
  BY DEF Misled
<1>2. j \in Layers
  BY BuilderAssumption DEF Layers
<1>3. Supplied(j) /\ Deduplicated(j)
  BY <1>2 DEF Clean
<1>4. j \in fromDedup'
  BY <1>1 DEF Next, Build, Cancel, AlreadyConverted, Spawn, Wait, UploadImage, vars, files,
      Misrecorded, LayerStep, DedupHit, DedupMount, DedupMiss, DedupSend, DownloadUncached,
      DownloadConvertedLayer, DownloadLayer, DownloadSend, ConvertWaitDownload,
      ConvertWaitLower, BuildLayer, ConvertSend, UploadWait, UploadLayer,
      StoreConvertedLayerDetails, Report
<1>5. found'[j] = found[j]
  <2>1. CASE found' = found
    BY <2>1
  <2>2. ASSUME NEW i \in Layers, DedupHit(i) \/ DedupMount(i) PROVE found'[j] = found[j]
    <3>1. dedup[i] = "check" /\ ~ctx
      BY <2>2 DEF DedupHit, DedupMount, Cancelled
    <3>2. i # j
      BY <1>1, <1>3, <3>1 DEF Deduplicated, Supplied, Misrecorded
    <3> QED
      BY <1>2, <2>2, <3>2 DEF DedupHit, DedupMount, TypeOK
  <2> QED
    BY <2>1, <2>2 DEF Next, Build, Cancel, AlreadyConverted, Spawn, Wait, UploadImage, vars,
        descs, LayerStep, DedupMiss, DedupSend, DownloadUncached,
        DownloadConvertedLayer, DownloadLayer, DownloadSend, ConvertWaitDownload,
        ConvertWaitLower, BuildLayer, ConvertSend, UploadWait, UploadLayer,
        StoreConvertedLayerDetails, Report
<1> QED
  BY <1>1, <1>4, <1>5 DEF Misled, Misrecorded

\* The lowers stay the first layers, in order, and good.
LEMMA PrefixStep ==
  ASSUME TypeOK, Phases, AllAlways, Clean, Unfailed, NEW j \in Layers, [Next]_vars
  PROVE  Prefix'
<1>0. /\ Always(j) /\ InOrder(j) /\ Supplied(j) /\ Deduplicated(j) /\ Uploaded(j) /\ Prefix
      /\ Sound(j) /\ Sound(j)' /\ j \in Nat /\ j < N /\ Len(lowers) \in Nat
  BY BuilderAssumption DEF Clean, Unfailed, AllAlways, Layers, TypeOK
<1>m. ASSUME NEW k \in 0..(Len(lowers) - 1), Misled(k) PROVE Misled(k)'
  <2>1. k \in Layers
    BY <1>0, BuilderAssumption DEF Prefix, Layers
  <2> QED
    BY <1>m, <2>1, MisledStays
<1>1. CASE Cancel
  BY <1>1, <1>0, <1>m DEF Cancel, files, descs, remote, Goroutines, Prefix
<1>2. CASE AlreadyConverted
  BY <1>2, <1>0, <1>m DEF AlreadyConverted, files, descs, remote, Goroutines, Prefix
<1>3. CASE Spawn
  BY <1>3, <1>0, <1>m DEF Spawn, files, descs, remote, Goroutines, Prefix
<1>4. CASE Wait
  BY <1>4, <1>0, <1>m DEF Wait, AllDone, files, descs, remote, Goroutines, Prefix
<1>5. CASE UploadImage
  BY <1>5, <1>0, <1>m DEF UploadImage, files, descs, remote, Goroutines, Prefix
<1>6. CASE UNCHANGED vars
  BY <1>6, <1>0, <1>m DEF vars, files, descs, remote, Prefix
<1>7. ASSUME NEW i \in Layers, LayerStep(i)
       PROVE  Prefix'
  <2>0. /\ Always(i) /\ InOrder(i) /\ Supplied(i) /\ Deduplicated(i) /\ Uploaded(i)
        /\ Sound(i) /\ Sound(i)' /\ i \in Nat /\ i < N
    BY BuilderAssumption DEF Clean, Unfailed, AllAlways, Layers
  <2>1. CASE DedupHit(i)
    BY <2>1, <1>0, <2>0, <1>m DEF DedupHit, Cancelled, files, descs, remote, Prefix
  <2>2. CASE DedupMount(i)
    BY <2>2, <1>0, <2>0, <1>m DEF DedupMount, files, descs, remote, Prefix
  <2>3. CASE DedupMiss(i)
    BY <2>3, <1>0, <2>0, <1>m DEF DedupMiss, files, descs, remote, Prefix
  <2>4. CASE DedupSend(i)
    BY <2>4, <1>0, <2>0, <1>m DEF DedupSend, Cancelled, files, descs, remote, Prefix
  <2>5. CASE DownloadUncached(i)
    BY <2>5, <1>0, <2>0, <1>m DEF DownloadUncached, Cancelled, files, descs, remote, Prefix
  <2>6. CASE DownloadConvertedLayer(i)
    <3>1. ~(i < Len(lowers))
      BY <2>0, <2>6 DEF DownloadConvertedLayer, Supplied, InOrder
    <3>2. ASSUME NEW k \in 0..(Len(lowers) - 1) PROVE commit'[k] = commit[k]
      <4>1. k \in Layers /\ k # i
        BY <1>0, <2>0, <3>1, BuilderAssumption DEF Layers, Prefix
      <4> QED
        BY <2>6, <4>1 DEF DownloadConvertedLayer, TypeOK
    <3> QED
      BY <1>0, <2>6, <3>2, <1>m DEF DownloadConvertedLayer, Prefix
  <2>7. CASE DownloadLayer(i)
    BY <2>7, <1>0, <2>0, <1>m DEF DownloadLayer, files, descs, remote, Prefix
  <2>8. CASE DownloadSend(i)
    BY <2>8, <1>0, <2>0, <1>m DEF DownloadSend, AfterDownload, Woken, ConvertCloses, Cancelled,
        files, descs, remote, Prefix
  <2>9. CASE ConvertWaitDownload(i)
    BY <2>9, <1>0, <2>0, <1>m DEF ConvertWaitDownload, AfterDownload, Woken, ConvertCloses,
        Cancelled, files, descs, remote, Prefix
  <2>10. CASE ConvertWaitLower(i)
    BY <2>10, <1>0, <2>0, <1>m DEF ConvertWaitLower, Woken, ConvertCloses, Cancelled, files,
        descs, remote, Prefix
  <2>11. CASE BuildLayer(i)
    <3>1. i = Len(lowers) /\ Ready(i) /\ lowers = Below(i)
      BY <1>0, <2>0, <2>11 DEF BuildLayer, InOrder, Supplied, Always, Sound, Prefix
    <3>2. convert'[i] # "failing" /\ ~failed
      BY <2>0 DEF Sound
    <3>3. Converted(i)
      BY <2>11, <3>2 DEF BuildLayer, BuildFails, TypeOK
    <3>4. lowers' = Append(lowers, i)
      BY <3>3 DEF Converted
    <3>5. lowers' = Below(i + 1) /\ Len(lowers') = i + 1
      BY <2>0, <3>1, <3>4, BelowNext
    <3>6. commit'[i] = "good" \/ Misled(i)
      <4>1. CASE i \in fromDedup
        <5>1. commit'[i] = found[i]
          BY <2>11, <3>1, <4>1 DEF BuildLayer, Ready
        <5>2. found[i] = "good" \/ Misrecorded(i)
          BY <4>1 DEF Misrecorded
        <5> QED
          BY <2>0, <5>1, <5>2 DEF Misled
      <4>2. CASE i \notin fromDedup
        <5>1. commit' = [commit EXCEPT ![i] = Applied(i)]
          BY <2>11, <3>2, <4>2 DEF BuildLayer, BuildFails, TypeOK
        <5>2. CASE \A k \in 0..(i - 1) : commit[k] = "good"
          <6>1. Applied(i) = "good"
            BY <1>0, <3>1, <4>2, <5>2 DEF Applied, Ready
          <6> QED
            BY <5>1, <6>1 DEF TypeOK
        <5>3. CASE \E k \in 0..(i - 1) : commit[k] # "good"
          <6>1. PICK k \in 0..(i - 1) : Misled(k)
            BY <1>0, <3>1, <5>3 DEF Prefix
          <6> QED
            BY <2>0, <6>1 DEF Misled
        <5> QED
          BY <5>2, <5>3
      <4> QED
        BY <4>1, <4>2
    <3>7. ASSUME NEW k \in 0..(Len(lowers') - 1), k # i
          PROVE  commit'[k] = "good" \/ Misled(k)
      <4>1. k \in 0..(Len(lowers) - 1) /\ k \in Layers
        BY <2>0, <3>1, <3>5, <3>7, BuilderAssumption DEF Layers
      <4>2. commit'[k] = commit[k]
        BY <2>11, <3>7, <4>1 DEF BuildLayer, TypeOK
      <4> QED
        BY <1>0, <4>1, <4>2 DEF Prefix
    <3>8. ASSUME NEW k \in 0..(Len(lowers') - 1)
          PROVE  commit'[k] = "good" \/ Misled(k)'
      <4>1. k \in Layers
        BY <2>0, <3>5, BuilderAssumption DEF Layers
      <4> QED
        BY <3>6, <3>7, <4>1, MisledStays
    <3> QED
      BY <2>0, <3>5, <3>8, BuilderAssumption DEF Prefix
  <2>12. CASE ConvertSend(i)
    BY <2>12, <1>0, <2>0, <1>m DEF ConvertSend, Sent, Woken, ConvertCloses, Cancelled, files,
        descs, remote, Prefix
  <2>13. CASE UploadWait(i)
    BY <2>13, <1>0, <2>0, <1>m DEF UploadWait, Woken, Cancelled, files, descs, remote, Prefix
  <2>14. CASE UploadLayer(i)
    BY <2>14, <1>0, <2>0, <1>m DEF UploadLayer, files, descs, remote, Prefix
  <2>15. CASE StoreConvertedLayerDetails(i)
    BY <2>15, <1>0, <2>0, <1>m DEF StoreConvertedLayerDetails, files, descs, remote, Prefix
  <2>16. CASE Report(i)
    BY <2>16, <2>0 DEF Report, Sound
  <2> QED
    BY <1>7, <2>1, <2>2, <2>3, <2>4, <2>5, <2>6, <2>7, <2>8, <2>9, <2>10, <2>11, <2>12,
        <2>13, <2>14, <2>15, <2>16 DEF LayerStep
<1> QED
  BY <1>1, <1>2, <1>3, <1>4, <1>5, <1>6, <1>7 DEF Next, Build

\* The convert goroutines stay where the lowers say.
LEMMA InOrderStep ==
  ASSUME TypeOK, Phases, AllAlways, Clean, Unfailed, NEW j \in Layers, [Next]_vars
  PROVE  InOrder(j)'
<1>0. /\ Always(j) /\ InOrder(j) /\ Supplied(j) /\ Deduplicated(j) /\ Uploaded(j) /\ Prefix
      /\ Sound(j) /\ Sound(j)' /\ j \in Nat /\ j < N /\ Len(lowers) \in Nat
  BY BuilderAssumption DEF Clean, Unfailed, AllAlways, Layers, TypeOK
<1>1. CASE Cancel
  BY <1>1, <1>0 DEF Cancel, files, descs, remote, Goroutines, InOrder, Phases, TypeOK, Sound
<1>2. CASE AlreadyConverted
  BY <1>2, <1>0 DEF AlreadyConverted, files, descs, remote, Goroutines, InOrder, Phases,
      TypeOK, Sound
<1>3. CASE Spawn
  BY <1>3, <1>0 DEF Spawn, files, descs, remote, Goroutines, InOrder, Phases, TypeOK, Sound
<1>4. CASE Wait
  BY <1>4, <1>0 DEF Wait, AllDone, files, descs, remote, Goroutines, InOrder, Phases,
      TypeOK, Sound
<1>5. CASE UploadImage
  BY <1>5, <1>0 DEF UploadImage, files, descs, remote, Goroutines, InOrder, Phases, TypeOK,
      Sound
<1>6. CASE UNCHANGED vars
  BY <1>6, <1>0 DEF vars, files, descs, remote, InOrder, Phases, TypeOK, Sound
<1>7. ASSUME NEW i \in Layers, LayerStep(i)
       PROVE  InOrder(j)'
  <2>0. /\ Always(i) /\ InOrder(i) /\ Supplied(i) /\ Deduplicated(i) /\ Uploaded(i)
        /\ Sound(i) /\ Sound(i)' /\ i \in Nat /\ i < N
    BY BuilderAssumption DEF Clean, Unfailed, AllAlways, Layers
  <2>1. CASE DedupHit(i)
    BY <2>1, <1>0, <2>0 DEF DedupHit, Cancelled, files, descs, remote, InOrder, Phases,
        TypeOK, Sound
  <2>2. CASE DedupMount(i)
    BY <2>2, <1>0, <2>0 DEF DedupMount, files, descs, remote, InOrder, Phases, TypeOK, Sound
  <2>3. CASE DedupMiss(i)
    BY <2>3, <1>0, <2>0 DEF DedupMiss, files, descs, remote, InOrder, Phases, TypeOK, Sound
  <2>4. CASE DedupSend(i)
    BY <2>4, <1>0, <2>0 DEF DedupSend, Cancelled, files, descs, remote, InOrder, Phases,
        TypeOK, Sound
  <2>5. CASE DownloadUncached(i)
    BY <2>5, <1>0, <2>0 DEF DownloadUncached, Cancelled, files, descs, remote, InOrder,
        Phases, TypeOK, Sound
  <2>6. CASE DownloadConvertedLayer(i)
    BY <2>6, <1>0, <2>0 DEF DownloadConvertedLayer, files, descs, remote, InOrder, Phases,
        TypeOK, Sound
  <2>7. CASE DownloadLayer(i)
    BY <2>7, <1>0, <2>0 DEF DownloadLayer, files, descs, remote, InOrder, Phases, TypeOK,
        Sound
  <2>8. CASE DownloadSend(i)
    <3>1. ~Cancelled => AfterDownload(i) = IF i > 0 THEN "waitLower" ELSE "build"
      BY DEF AfterDownload, Woken
    <3>2. Cancelled => AfterDownload(i) = "failing"
      BY DEF AfterDownload, Woken
    <3>3. <<"converted", j>> \in closed' => <<"converted", j>> \in closed
      BY <2>0, <2>8, <3>1, <3>2 DEF DownloadSend, ConvertCloses, Sound, TypeOK
    <3> QED
      BY <1>0, <2>0, <2>8, <3>1, <3>2, <3>3 DEF DownloadSend, files, InOrder, Sound, TypeOK
  <2>9. CASE ConvertWaitDownload(i)
    <3>1. ~Cancelled => AfterDownload(i) = IF i > 0 THEN "waitLower" ELSE "build"
      BY DEF AfterDownload, Woken
    <3>2. Cancelled => AfterDownload(i) = "failing"
      BY DEF AfterDownload, Woken
    <3>3. closed' = closed
      BY <2>0, <2>9, <3>1, <3>2 DEF ConvertWaitDownload, ConvertCloses, Sound, TypeOK
    <3> QED
      BY <1>0, <2>0, <2>9, <3>1, <3>2, <3>3 DEF ConvertWaitDownload, files, InOrder, Sound, TypeOK
  <2>10. CASE ConvertWaitLower(i)
    <3>1. ~Cancelled /\ convert' = [convert EXCEPT ![i] = "build"] /\ closed' = closed
      BY <2>0, <2>10 DEF ConvertWaitLower, ConvertCloses, Woken, Sound, TypeOK
    <3>2. i - 1 \in Layers /\ InOrder(i - 1)
      BY <2>0, <2>10, BuilderAssumption DEF ConvertWaitLower, InOrder, Layers, Clean
    <3>3. i = Len(lowers)
      BY <1>0, <2>0, <2>10, <3>1, <3>2 DEF ConvertWaitLower, InOrder
    <3> QED
      BY <1>0, <2>0, <2>10, <3>1, <3>3 DEF ConvertWaitLower, files, InOrder, TypeOK
  <2>11. CASE BuildLayer(i)
    <3>1. convert'[i] # "failing"
      BY <2>0 DEF Sound
    <3>2. Converted(i)
      BY <2>11, <3>1 DEF BuildLayer, BuildFails, TypeOK
    <3>3. i = Len(lowers)
      BY <2>0, <2>11 DEF BuildLayer, InOrder
    <3>4. Len(lowers') = i + 1 /\ closed' = closed
      BY <1>0, <2>0, <3>2, <3>3, BelowNext DEF Converted, Prefix
    <3> QED
      BY <1>0, <2>0, <2>11, <3>2, <3>3, <3>4 DEF BuildLayer, Converted, InOrder, TypeOK
  <2>12. CASE ConvertSend(i)
    <3>1. Sent(i) \in {"sendAgain", "done"}
      BY DEF Sent
    <3>2. i < Len(lowers) /\ lowers' = lowers
      BY <2>0, <2>12 DEF ConvertSend, InOrder, files
    <3>3. CASE /\ convert' = [convert EXCEPT ![i] = Sent(i)]
               /\ closed' = IF Sent(i) = "done" THEN closed \union {<<"converted", i>>} ELSE closed
      <4>1. closed' \subseteq closed \union {<<"converted", i>>}
        BY <3>3
      <4>2. <<"converted", i>> \in closed' => Sent(i) = "done"
        BY <2>12, <3>3, <2>0 DEF ConvertSend, InOrder
      <4> QED
        BY <1>0, <2>0, <2>12, <3>1, <3>2, <3>3, <4>1, <4>2 DEF InOrder, TypeOK, ConvertSend
    <3>4. CASE /\ i + 1 < N /\ convert[i + 1] = "waitLower"
               /\ convert' = [convert EXCEPT ![i] = Sent(i), ![i + 1] = Woken(i + 1, "build")]
               /\ closed' = ConvertCloses(i + 1, Woken(i + 1, "build"))
                              \union (IF Sent(i) = "done" THEN {<<"converted", i>>} ELSE {})
      <4>1. i + 1 \in Layers /\ InOrder(i + 1) /\ Sound(i + 1)'
        BY <2>0, <3>4, BuilderAssumption DEF Layers, Clean, Unfailed
      <4>2. Woken(i + 1, "build") = "build"
        BY <3>4, <4>1 DEF Woken, Sound, TypeOK
      <4>3. closed' = closed \union (IF Sent(i) = "done" THEN {<<"converted", i>>} ELSE {})
        BY <3>4, <4>2 DEF ConvertCloses
      <4>4. i + 1 = Len(lowers)
        BY <1>0, <2>0, <3>2, <3>4, <4>1 DEF InOrder
      <4>5. convert'[i] = Sent(i) /\ convert'[i + 1] = "build"
        BY <2>0, <3>4, <4>1, <4>2 DEF TypeOK
      <4>6. j # i /\ j # i + 1 => convert'[j] = convert[j]
        BY <3>4 DEF TypeOK
      <4> QED
        BY <1>0, <2>0, <2>12, <3>1, <3>2, <3>4, <4>1, <4>3, <4>4, <4>5,
             <4>6
          DEF InOrder, ConvertSend
    <3> QED
      BY <2>12, <3>3, <3>4 DEF ConvertSend
  <2>13. CASE UploadWait(i)
    BY <2>13, <1>0, <2>0 DEF UploadWait, Woken, Cancelled, files, descs, remote, InOrder,
        Phases, TypeOK, Sound
  <2>14. CASE UploadLayer(i)
    BY <2>14, <1>0, <2>0 DEF UploadLayer, files, descs, remote, InOrder, Phases, TypeOK,
        Sound
  <2>15. CASE StoreConvertedLayerDetails(i)
    BY <2>15, <1>0, <2>0 DEF StoreConvertedLayerDetails, files, descs, remote, InOrder,
        Phases, TypeOK, Sound
  <2>16. CASE Report(i)
    BY <2>16, <2>0 DEF Report, Sound
  <2> QED
    BY <1>7, <2>1, <2>2, <2>3, <2>4, <2>5, <2>6, <2>7, <2>8, <2>9, <2>10, <2>11, <2>12,
        <2>13, <2>14, <2>15, <2>16 DEF LayerStep
<1> QED
  BY <1>1, <1>2, <1>3, <1>4, <1>5, <1>6, <1>7 DEF Next, Build

\* A conversion finds what it needs.
LEMMA SuppliedStep ==
  ASSUME TypeOK, Phases, AllAlways, Clean, Unfailed, NEW j \in Layers, [Next]_vars
  PROVE  Supplied(j)'
<1>0. /\ Always(j) /\ InOrder(j) /\ Supplied(j) /\ Deduplicated(j) /\ Uploaded(j) /\ Prefix
      /\ Sound(j) /\ Sound(j)' /\ j \in Nat /\ j < N /\ Len(lowers) \in Nat
  BY BuilderAssumption DEF Clean, Unfailed, AllAlways, Layers, TypeOK
<1>1. CASE Cancel
  BY <1>1, <1>0 DEF Cancel, files, descs, remote, Goroutines, Supplied, Ready, InOrder,
      Always, Deduplicated, Uploaded, Phases, TypeOK, Sound
<1>2. CASE AlreadyConverted
  BY <1>2, <1>0 DEF AlreadyConverted, files, descs, remote, Goroutines, Supplied, Ready,
      InOrder, Always, Deduplicated, Uploaded, Phases, TypeOK, Sound
<1>3. CASE Spawn
  BY <1>3, <1>0 DEF Spawn, files, descs, remote, Goroutines, Supplied, Ready, InOrder,
      Always, Deduplicated, Uploaded, Phases, TypeOK, Sound
<1>4. CASE Wait
  BY <1>4, <1>0 DEF Wait, AllDone, files, descs, remote, Goroutines, Supplied, Ready,
      InOrder, Always, Deduplicated, Uploaded, Phases, TypeOK, Sound
<1>5. CASE UploadImage
  BY <1>5, <1>0 DEF UploadImage, files, descs, remote, Goroutines, Supplied, Ready, InOrder,
      Always, Deduplicated, Uploaded, Phases, TypeOK, Sound
<1>6. CASE UNCHANGED vars
  BY <1>6, <1>0 DEF vars, files, descs, remote, Supplied, Ready, InOrder, Always,
      Deduplicated, Uploaded, Phases, TypeOK, Sound
<1>7. ASSUME NEW i \in Layers, LayerStep(i)
       PROVE  Supplied(j)'
  <2>0. /\ Always(i) /\ InOrder(i) /\ Supplied(i) /\ Deduplicated(i) /\ Uploaded(i)
        /\ Sound(i) /\ Sound(i)' /\ i \in Nat /\ i < N
    BY BuilderAssumption DEF Clean, Unfailed, AllAlways, Layers
  <2>1. CASE DedupHit(i)
    BY <2>1, <1>0, <2>0 DEF DedupHit, Cancelled, files, descs, remote, Supplied, Ready,
        InOrder, Always, Deduplicated, Uploaded, Phases, TypeOK, Sound
  <2>2. CASE DedupMount(i)
    BY <2>2, <1>0, <2>0 DEF DedupMount, Cancelled, files, descs, remote, Supplied, Ready,
        InOrder, Always, Deduplicated, Uploaded, Phases, TypeOK, Sound
  <2>3. CASE DedupMiss(i)
    BY <2>3, <1>0, <2>0 DEF DedupMiss, files, descs, remote, Supplied, Ready, InOrder,
        Always, Deduplicated, Uploaded, Phases, TypeOK, Sound
  <2>4. CASE DedupSend(i)
    BY <2>4, <1>0, <2>0 DEF DedupSend, Cancelled, files, descs, remote, Supplied, Ready,
        InOrder, Always, Deduplicated, Uploaded, Phases, TypeOK, Sound
  <2>5. CASE DownloadUncached(i)
    BY <2>5, <1>0, <2>0 DEF DownloadUncached, Cancelled, files, descs, remote, Supplied,
        Ready, InOrder, Always, Deduplicated, Uploaded, Phases, TypeOK, Sound
  <2>6. CASE DownloadConvertedLayer(i)
    BY <2>6, <1>0, <2>0 DEF DownloadConvertedLayer, files, descs, remote, Supplied, Ready,
        InOrder, Always, Deduplicated, Uploaded, Phases, TypeOK, Sound
  <2>7. CASE DownloadLayer(i)
    BY <2>7, <1>0, <2>0 DEF DownloadLayer, files, descs, remote, Supplied, Ready, InOrder,
        Always, Deduplicated, Uploaded, Phases, TypeOK, Sound
  <2>8. CASE DownloadSend(i)
    BY <2>8, <1>0, <2>0 DEF DownloadSend, AfterDownload, Woken, ConvertCloses, Cancelled,
        files, descs, remote, Supplied, Ready, InOrder, Always, Deduplicated, Uploaded,
        Phases, TypeOK, Sound
  <2>9. CASE ConvertWaitDownload(i)
    BY <2>9, <1>0, <2>0 DEF ConvertWaitDownload, AfterDownload, Woken, ConvertCloses,
        Cancelled, files, descs, remote, Supplied, Ready, InOrder, Always, Deduplicated,
        Uploaded, Phases, TypeOK, Sound
  <2>10. CASE ConvertWaitLower(i)
    BY <2>10, <1>0, <2>0 DEF ConvertWaitLower, Woken, ConvertCloses, Cancelled, files,
        descs, remote, Supplied, Ready, InOrder, Always, Deduplicated, Uploaded, Phases,
        TypeOK, Sound
  <2>11. CASE BuildLayer(i)
    BY <2>11, <1>0, <2>0 DEF BuildLayer, Converted, BuildFails, files, descs, remote,
        Supplied, Ready, InOrder, Always, Deduplicated, Uploaded, Phases, TypeOK, Sound
  <2>12. CASE ConvertSend(i)
    BY <2>12, <1>0, <2>0 DEF ConvertSend, Sent, Woken, ConvertCloses, Cancelled, files,
        descs, remote, Supplied, Ready, InOrder, Always, Deduplicated, Uploaded, Phases,
        TypeOK, Sound
  <2>13. CASE UploadWait(i)
    BY <2>13, <1>0, <2>0 DEF UploadWait, Woken, Cancelled, files, descs, remote, Supplied,
        Ready, InOrder, Always, Deduplicated, Uploaded, Phases, TypeOK, Sound
  <2>14. CASE UploadLayer(i)
    BY <2>14, <1>0, <2>0 DEF UploadLayer, files, descs, remote, Supplied, Ready, InOrder,
        Always, Deduplicated, Uploaded, Phases, TypeOK, Sound
  <2>15. CASE StoreConvertedLayerDetails(i)
    BY <2>15, <1>0, <2>0 DEF StoreConvertedLayerDetails, files, descs, remote, Supplied,
        Ready, InOrder, Always, Deduplicated, Uploaded, Phases, TypeOK, Sound
  <2>16. CASE Report(i)
    BY <2>16, <2>0 DEF Report, Sound
  <2> QED
    BY <1>7, <2>1, <2>2, <2>3, <2>4, <2>5, <2>6, <2>7, <2>8, <2>9, <2>10, <2>11, <2>12,
        <2>13, <2>14, <2>15, <2>16 DEF LayerStep
<1> QED
  BY <1>1, <1>2, <1>3, <1>4, <1>5, <1>6, <1>7 DEF Next, Build

\* What the database offers is good.
LEMMA DeduplicatedStep ==
  ASSUME TypeOK, Phases, AllAlways, Clean, Unfailed, NEW j \in Layers, [Next]_vars
  PROVE  Deduplicated(j)'
<1>0. /\ Always(j) /\ InOrder(j) /\ Supplied(j) /\ Deduplicated(j) /\ Uploaded(j) /\ Prefix
      /\ Sound(j) /\ Sound(j)' /\ j \in Nat /\ j < N /\ Len(lowers) \in Nat
  BY BuilderAssumption DEF Clean, Unfailed, AllAlways, Layers, TypeOK
<1>1. CASE Cancel
  BY <1>1, <1>0 DEF Cancel, files, descs, remote, Goroutines, Deduplicated, Supplied,
      InOrder, Uploaded, Phases, TypeOK, Sound
<1>2. CASE AlreadyConverted
  BY <1>2, <1>0 DEF AlreadyConverted, files, descs, remote, Goroutines, Deduplicated,
      Supplied, InOrder, Uploaded, Phases, TypeOK, Sound
<1>3. CASE Spawn
  BY <1>3, <1>0 DEF Spawn, files, descs, remote, Goroutines, Deduplicated, Supplied,
      InOrder, Uploaded, Phases, TypeOK, Sound
<1>4. CASE Wait
  BY <1>4, <1>0 DEF Wait, AllDone, files, descs, remote, Goroutines, Deduplicated, Supplied,
      InOrder, Uploaded, Phases, TypeOK, Sound
<1>5. CASE UploadImage
  BY <1>5, <1>0 DEF UploadImage, files, descs, remote, Goroutines, Deduplicated, Supplied,
      InOrder, Uploaded, Phases, TypeOK, Sound
<1>6. CASE UNCHANGED vars
  BY <1>6, <1>0 DEF vars, files, descs, remote, Deduplicated, Supplied, InOrder, Uploaded,
      Phases, TypeOK, Sound
<1>7. ASSUME NEW i \in Layers, LayerStep(i)
       PROVE  Deduplicated(j)'
  <2>0. /\ Always(i) /\ InOrder(i) /\ Supplied(i) /\ Deduplicated(i) /\ Uploaded(i)
        /\ Sound(i) /\ Sound(i)' /\ i \in Nat /\ i < N
    BY BuilderAssumption DEF Clean, Unfailed, AllAlways, Layers
  <2>1. CASE DedupHit(i)
    BY <2>1, <1>0, <2>0 DEF DedupHit, Cancelled, files, descs, remote, Deduplicated,
        Supplied, InOrder, Uploaded, Phases, TypeOK, Sound
  <2>2. CASE DedupMount(i)
    BY <2>2, <1>0, <2>0 DEF DedupMount, files, descs, remote, Deduplicated, Supplied,
        InOrder, Uploaded, Phases, TypeOK, Sound
  <2>3. CASE DedupMiss(i)
    BY <2>3, <1>0, <2>0 DEF DedupMiss, files, descs, remote, Deduplicated, Supplied,
        InOrder, Uploaded, Phases, TypeOK, Sound
  <2>4. CASE DedupSend(i)
    BY <2>4, <1>0, <2>0 DEF DedupSend, Cancelled, files, descs, remote, Deduplicated,
        Supplied, InOrder, Uploaded, Phases, TypeOK, Sound
  <2>5. CASE DownloadUncached(i)
    BY <2>5, <1>0, <2>0 DEF DownloadUncached, Cancelled, files, descs, remote, Deduplicated,
        Supplied, InOrder, Uploaded, Phases, TypeOK, Sound
  <2>6. CASE DownloadConvertedLayer(i)
    BY <2>6, <1>0, <2>0 DEF DownloadConvertedLayer, files, descs, remote, Deduplicated,
        Supplied, InOrder, Uploaded, Phases, TypeOK, Sound
  <2>7. CASE DownloadLayer(i)
    BY <2>7, <1>0, <2>0 DEF DownloadLayer, files, descs, remote, Deduplicated, Supplied,
        InOrder, Uploaded, Phases, TypeOK, Sound
  <2>8. CASE DownloadSend(i)
    BY <2>8, <1>0, <2>0 DEF DownloadSend, AfterDownload, Woken, ConvertCloses, Cancelled,
        files, descs, remote, Deduplicated, Supplied, InOrder, Uploaded, Phases, TypeOK,
        Sound
  <2>9. CASE ConvertWaitDownload(i)
    BY <2>9, <1>0, <2>0 DEF ConvertWaitDownload, AfterDownload, Woken, ConvertCloses,
        Cancelled, files, descs, remote, Deduplicated, Supplied, InOrder, Uploaded, Phases,
        TypeOK, Sound
  <2>10. CASE ConvertWaitLower(i)
    BY <2>10, <1>0, <2>0 DEF ConvertWaitLower, Woken, ConvertCloses, Cancelled, files,
        descs, remote, Deduplicated, Supplied, InOrder, Uploaded, Phases, TypeOK, Sound
  <2>11. CASE BuildLayer(i)
    BY <2>11, <1>0, <2>0 DEF BuildLayer, Converted, BuildFails, files, descs, remote,
        Deduplicated, Supplied, InOrder, Uploaded, Phases, TypeOK, Sound
  <2>12. CASE ConvertSend(i)
    BY <2>12, <1>0, <2>0 DEF ConvertSend, Sent, Woken, ConvertCloses, Cancelled, files,
        descs, remote, Deduplicated, Supplied, InOrder, Uploaded, Phases, TypeOK, Sound
  <2>13. CASE UploadWait(i)
    BY <2>13, <1>0, <2>0 DEF UploadWait, Woken, Cancelled, files, descs, remote,
        Deduplicated, Supplied, InOrder, Uploaded, Phases, TypeOK, Sound
  <2>14. CASE UploadLayer(i)
    BY <2>14, <1>0, <2>0 DEF UploadLayer, files, descs, remote, Deduplicated, Supplied,
        InOrder, Uploaded, Phases, TypeOK, Sound
  <2>15. CASE StoreConvertedLayerDetails(i)
    BY <2>15, <1>0, <2>0 DEF StoreConvertedLayerDetails, files, descs, remote, Deduplicated,
        Supplied, InOrder, Uploaded, Phases, TypeOK, Sound
  <2>16. CASE Report(i)
    BY <2>16, <2>0 DEF Report, Sound
  <2> QED
    BY <1>7, <2>1, <2>2, <2>3, <2>4, <2>5, <2>6, <2>7, <2>8, <2>9, <2>10, <2>11, <2>12,
        <2>13, <2>14, <2>15, <2>16 DEF LayerStep
<1> QED
  BY <1>1, <1>2, <1>3, <1>4, <1>5, <1>6, <1>7 DEF Next, Build

\* An upload follows its conversion.
LEMMA UploadedStep ==
  ASSUME TypeOK, Phases, AllAlways, Clean, Unfailed, NEW j \in Layers, [Next]_vars
  PROVE  Uploaded(j)'
<1>0. /\ Always(j) /\ InOrder(j) /\ Supplied(j) /\ Deduplicated(j) /\ Uploaded(j) /\ Prefix
      /\ Sound(j) /\ Sound(j)' /\ j \in Nat /\ j < N /\ Len(lowers) \in Nat
  BY BuilderAssumption DEF Clean, Unfailed, AllAlways, Layers, TypeOK
<1>1. CASE Cancel
  BY <1>1, <1>0 DEF Cancel, files, descs, remote, Goroutines, Uploaded, Deduplicated,
      Supplied, InOrder, Prefix, Phases, TypeOK, Sound
<1>2. CASE AlreadyConverted
  BY <1>2, <1>0 DEF AlreadyConverted, files, descs, remote, Goroutines, Uploaded,
      Deduplicated, Supplied, InOrder, Prefix, Phases, TypeOK, Sound
<1>3. CASE Spawn
  BY <1>3, <1>0 DEF Spawn, files, descs, remote, Goroutines, Uploaded, Deduplicated,
      Supplied, InOrder, Prefix, Phases, TypeOK, Sound
<1>4. CASE Wait
  BY <1>4, <1>0 DEF Wait, AllDone, files, descs, remote, Goroutines, Uploaded, Deduplicated,
      Supplied, InOrder, Prefix, Phases, TypeOK, Sound
<1>5. CASE UploadImage
  BY <1>5, <1>0 DEF UploadImage, files, descs, remote, Goroutines, Uploaded, Deduplicated,
      Supplied, InOrder, Prefix, Phases, TypeOK, Sound
<1>6. CASE UNCHANGED vars
  BY <1>6, <1>0 DEF vars, files, descs, remote, Uploaded, Deduplicated, Supplied, InOrder,
      Prefix, Phases, TypeOK, Sound
<1>7. ASSUME NEW i \in Layers, LayerStep(i)
       PROVE  Uploaded(j)'
  <2>0. /\ Always(i) /\ InOrder(i) /\ Supplied(i) /\ Deduplicated(i) /\ Uploaded(i)
        /\ Sound(i) /\ Sound(i)' /\ i \in Nat /\ i < N
    BY BuilderAssumption DEF Clean, Unfailed, AllAlways, Layers
  <2>1. CASE DedupHit(i)
    BY <2>1, <1>0, <2>0 DEF DedupHit, Cancelled, files, descs, remote, Uploaded,
        Deduplicated, Supplied, InOrder, Prefix, Phases, TypeOK, Sound
  <2>2. CASE DedupMount(i)
    BY <2>2, <1>0, <2>0 DEF DedupMount, files, descs, remote, Uploaded, Deduplicated,
        Supplied, InOrder, Prefix, Phases, TypeOK, Sound
  <2>3. CASE DedupMiss(i)
    BY <2>3, <1>0, <2>0 DEF DedupMiss, files, descs, remote, Uploaded, Deduplicated,
        Supplied, InOrder, Prefix, Phases, TypeOK, Sound
  <2>4. CASE DedupSend(i)
    BY <2>4, <1>0, <2>0 DEF DedupSend, Cancelled, files, descs, remote, Uploaded,
        Deduplicated, Supplied, InOrder, Prefix, Phases, TypeOK, Sound
  <2>5. CASE DownloadUncached(i)
    BY <2>5, <1>0, <2>0 DEF DownloadUncached, Cancelled, files, descs, remote, Uploaded,
        Deduplicated, Supplied, InOrder, Prefix, Phases, TypeOK, Sound
  <2>6. CASE DownloadConvertedLayer(i)
    BY <2>6, <1>0, <2>0 DEF DownloadConvertedLayer, files, descs, remote, Uploaded,
        Deduplicated, Supplied, InOrder, Prefix, Phases, TypeOK, Sound
  <2>7. CASE DownloadLayer(i)
    BY <2>7, <1>0, <2>0 DEF DownloadLayer, files, descs, remote, Uploaded, Deduplicated,
        Supplied, InOrder, Prefix, Phases, TypeOK, Sound
  <2>8. CASE DownloadSend(i)
    BY <2>8, <1>0, <2>0 DEF DownloadSend, AfterDownload, Woken, ConvertCloses, Cancelled,
        files, descs, remote, Uploaded, Deduplicated, Supplied, InOrder, Prefix, Phases,
        TypeOK, Sound
  <2>9. CASE ConvertWaitDownload(i)
    BY <2>9, <1>0, <2>0 DEF ConvertWaitDownload, AfterDownload, Woken, ConvertCloses,
        Cancelled, files, descs, remote, Uploaded, Deduplicated, Supplied, InOrder, Prefix,
        Phases, TypeOK, Sound
  <2>10. CASE ConvertWaitLower(i)
    BY <2>10, <1>0, <2>0 DEF ConvertWaitLower, Woken, ConvertCloses, Cancelled, files,
        descs, remote, Uploaded, Deduplicated, Supplied, InOrder, Prefix, Phases, TypeOK,
        Sound
  <2>11. CASE BuildLayer(i)
    BY <2>11, <1>0, <2>0 DEF BuildLayer, Converted, BuildFails, files, descs, remote,
        Uploaded, Deduplicated, Supplied, InOrder, Prefix, Phases, TypeOK, Sound
  <2>12. CASE ConvertSend(i)
    BY <2>12, <1>0, <2>0 DEF ConvertSend, Sent, Woken, ConvertCloses, Cancelled, files,
        descs, remote, Uploaded, Deduplicated, Supplied, InOrder, Prefix, Phases, TypeOK,
        Sound
  <2>13. CASE UploadWait(i)
    BY <2>13, <1>0, <2>0 DEF UploadWait, Woken, Cancelled, files, descs, remote, Uploaded,
        Deduplicated, Supplied, InOrder, Prefix, Phases, TypeOK, Sound
  <2>14. CASE UploadLayer(i)
    BY <2>14, <1>0, <2>0 DEF UploadLayer, files, descs, remote, Uploaded, Deduplicated,
        Supplied, InOrder, Prefix, Phases, TypeOK, Sound
  <2>15. CASE StoreConvertedLayerDetails(i)
    BY <2>15, <1>0, <2>0 DEF StoreConvertedLayerDetails, files, descs, remote, Uploaded,
        Deduplicated, Supplied, InOrder, Prefix, Phases, TypeOK, Sound
  <2>16. CASE Report(i)
    BY <2>16, <2>0 DEF Report, Sound
  <2> QED
    BY <1>7, <2>1, <2>2, <2>3, <2>4, <2>5, <2>6, <2>7, <2>8, <2>9, <2>10, <2>11, <2>12,
        <2>13, <2>14, <2>15, <2>16 DEF LayerStep
<1> QED
  BY <1>1, <1>2, <1>3, <1>4, <1>5, <1>6, <1>7 DEF Next, Build

\* A manifest is pushed when everything in it has been uploaded.
LEMMA ImageStep ==
  ASSUME Inv, [Next]_vars
  PROVE  ImageComplete'
<1>0. TypeOK /\ ImageComplete
  BY DEF Inv
<1>1. CASE Cancel
  BY <1>1, <1>0 DEF Cancel, files, descs, remote, Goroutines, ImageComplete, Misled, Misrecorded
<1>2. CASE AlreadyConverted
  BY <1>2, <1>0 DEF AlreadyConverted, files, descs, remote, Goroutines, ImageComplete, Misled, Misrecorded
<1>3. CASE Spawn
  BY <1>3, <1>0 DEF Spawn, files, descs, remote, Goroutines, ImageComplete, Misled, Misrecorded
<1>4. CASE Wait
  BY <1>4, <1>0 DEF Wait, AllDone, files, descs, remote, Goroutines, ImageComplete, Misled, Misrecorded
<1>5. CASE UploadImage
  <2>1. AllDone /\ ~failed
    BY <1>5 DEF Inv, Phases, UploadImage
  <2>2. ~AnyFailure
    BY <2>1 DEF AnyFailure, AllDone
  <2>3. ASSUME NEW i \in Layers
        PROVE  (desc[i] = "good" \/ Misled(i)) /\ (noUpload \/ desc[i] \in blobs[i])
    <3>1. Clean /\ upload[i] = "done"
      BY <2>1, <2>2 DEF Inv, AllDone
    <3>2. i < Len(lowers) /\ desc[i] = commit[i] /\ (noUpload \/ desc[i] \in blobs[i])
      BY <3>1 DEF Clean, Uploaded
    <3>3. i \in 0..(Len(lowers) - 1)
      BY <1>0, <3>2, BuilderAssumption DEF Layers, TypeOK
    <3> QED
      BY <3>1, <3>2, <3>3 DEF Clean, Prefix
  <2>m. ASSUME NEW i \in Layers, Misled(i) PROVE Misled(i)'
    BY <1>5, <2>m DEF UploadImage, files, descs, Misled, Misrecorded
  <2>4. CASE image' = image
    BY <1>0, <1>5, <2>4, <2>m DEF UploadImage, ImageComplete, remote
  <2>5. CASE ~noUpload /\ image' = [i \in Layers |-> desc[i]]
    BY <1>5, <2>3, <2>5, <2>m DEF UploadImage, ImageComplete, remote
  <2>6. CASE image' = NoImage
    BY <2>6 DEF ImageComplete
  <2> QED
    BY <1>5, <2>4, <2>5, <2>6 DEF UploadImage
<1>6. CASE UNCHANGED vars
  BY <1>6, <1>0 DEF vars, files, descs, remote, ImageComplete, Misled, Misrecorded
<1>7. ASSUME NEW i \in Layers, LayerStep(i)
       PROVE  ImageComplete'
  BY <1>7, LayersRun DEF Inv, ImageComplete
<1> QED
  BY <1>1, <1>2, <1>3, <1>4, <1>5, <1>6, <1>7 DEF Next, Build

\* Initially no layer is there; files of the work directory are stray ones.
LEMMA InitInv ==
  Init => Inv
<1> SUFFICES ASSUME Init PROVE Inv
  OBVIOUS
<1>0. Len(lowers) = 0 /\ lowers = Below(Len(lowers))
  BY DEF Init, Below
<1>1. TypeOK
  <2>0. lowers \in Seq(Layers)
    BY DEF Init
  <2>1. {ctx, failed} \subseteq BOOLEAN
    BY Zenon DEF Init
  <2>2. blobs \in [Layers -> SUBSET Content] /\ entry \in [Layers -> Content \union {"none"}]
    BY BuilderAssumption DEF Init
  <2> QED
    BY <2>0, <2>1, <2>2 DEF Init, TypeOK
<1>2. Phases /\ ImageComplete
  BY DEF Init, Phases, ImageComplete
<1>3. AllAlways
  BY <1>0 DEF Init, AllAlways, Always, Based
<1>4. Prefix
  BY <1>0, BuilderAssumption DEF Prefix
<1>5. ASSUME NEW i \in Layers
      PROVE  InOrder(i) /\ Supplied(i) /\ Deduplicated(i) /\ Uploaded(i)
  BY <1>0 DEF Init, InOrder, Supplied, Deduplicated, Uploaded, Layers
<1> QED
  BY <1>1, <1>2, <1>3, <1>4, <1>5 DEF Inv, Clean

\* Inv is inductive: a failure stays until Build() has it, and without one the
\* layers stay clean.
LEMMA InvStep ==
  ASSUME Inv, [Next]_vars
  PROVE  Inv'
<1>1. TypeOK /\ Phases /\ AllAlways /\ (~AnyFailure => Clean)
  BY DEF Inv
<1>2. TypeOK' /\ Phases'
  BY <1>1, TypeStep, PhasesStep
<1>3. AllAlways'
  BY <1>1, AlwaysStep DEF AllAlways
<1>4. ImageComplete'
  BY ImageStep
<1>5. ASSUME ~AnyFailure' PROVE Clean'
  <2>1. ~AnyFailure
    BY <1>1, <1>5, FailureStays
  <2>2. Unfailed
    BY <1>5, <2>1 DEF Unfailed, Sound, AnyFailure
  <2>3. Clean
    BY <1>1, <2>1
  <2>4. PICK l \in Layers : TRUE
    BY BuilderAssumption DEF Layers
  <2>5. Prefix'
    BY <1>1, <2>2, <2>3, <2>4, PrefixStep
  <2>6. \A j \in Layers : InOrder(j)'
    BY <1>1, <2>2, <2>3, InOrderStep
  <2>7. \A j \in Layers : Supplied(j)'
    BY <1>1, <2>2, <2>3, SuppliedStep
  <2>8. \A j \in Layers : Deduplicated(j)'
    BY <1>1, <2>2, <2>3, DeduplicatedStep
  <2>9. \A j \in Layers : Uploaded(j)'
    BY <1>1, <2>2, <2>3, UploadedStep
  <2> QED
    BY <2>5, <2>6, <2>7, <2>8, <2>9 DEF Clean
<1> QED
  BY <1>2, <1>3, <1>4, <1>5 DEF Inv

LEMMA Invariance ==
  Spec => []Inv
  BY InitInv, InvStep, PTL DEF Spec

-----------------------------------------------------------------------------
(* The theorems *)

\* Every variable of the conversion keeps its type.
THEOREM BuilderTypes ==
  Spec => []TypeOK
<1>1. Inv => TypeOK
  BY DEF Inv
<1> QED
  BY <1>1, Invariance, PTL

\* A manifest that overlaybdBuilder.Build() pushes names, for each of any
\* number of layers, what the repository holds, and that is the whole
\* conversion on top of the right layers unless a wrong record of the database
\* was used for the layer or one below: whatever fails in its four goroutines
\* and whenever, whatever the database names and the work directory holds.
THEOREM PushedImageComplete ==
  Spec => []ImageComplete
<1>1. Inv => ImageComplete
  BY DEF Inv
<1> QED
  BY <1>1, Invariance, PTL

\* Until a goroutine has failed, the layers are converted in order, each on
\* good files of all the layers below it, up to one from a wrong record.
THEOREM FailuresContained ==
  Spec => []ErrorsContained
<1>1. Inv => ErrorsContained
  BY DEF Inv, ErrorsContained, Clean, Prefix
<1> QED
  BY <1>1, Invariance, PTL

\* BuildLayer() of a layer that was not deduplicated meets no commit file but
\* one of an earlier run or of a failed removal, and never builds on those.
THEOREM CommitFileFresh ==
  Spec => []NoStrayCommit
<1>1. Inv => NoStrayCommit
  <2> SUFFICES ASSUME Inv PROVE NoStrayCommit
    OBVIOUS
  <2>1. ASSUME NEW i \in Layers, convert[i] = "build", i \notin fromDedup, commit[i] # "none"
        PROVE  i \in stray
    BY <2>1 DEF Inv, AllAlways, Always
  <2>2. ASSUME NEW k \in 1..Len(lowers) PROVE lowers[k] \notin stray
    <3>1. lowers[k] \in Layers
      BY DEF Inv, TypeOK
    <3>2. Based(lowers[k])
      BY DEF Based
    <3> QED
      BY <3>1, <3>2 DEF Inv, AllAlways, Always
  <2> QED
    BY <2>1, <2>2 DEF NoStrayCommit
<1> QED
  BY <1>1, Invariance, PTL

=============================================================================
