--------------------------- MODULE BkDownload_proofs ---------------------------
(***************************************************************************)
(* For any number of devices, layers and blocks, any failures of registry  *)
(* and disk, any number of crashes, and devices that come and go: one      *)
(* thread at a time downloads a layer, and a commit file is the verified   *)
(* blob, except where the destructor of a download that waited unlocked    *)
(* the directory under the one that was at work.                           *)
(***************************************************************************)
EXTENDS BkDownload, FiniteSetTheorems, TLAPS

-----------------------------------------------------------------------------
(* The inductive invariant *)

Working == {"download", "block", "fetch", "verify", "matched", "mismatched"}

\* A thread runs while its device is open or being removed.
Alive(d) ==
  /\ step[d] # "exit" => status[d] \in {"running", "exiting"}
  /\ step[d] = "pick" => dl_list[d] # << >>

\* A thread works on a download whose directory is locked, or was.
Locks(d) ==
  /\ item[d] # NoItem <=> step[d] \in Working
  /\ item[d] # NoItem => item[d].dir \in lock_files \union exposed

\* The file it writes to is there; it is the temporary file, which is verified before
\* it is renamed, unless the directory is exposed.
Fills(d) ==
  /\ fd[d] # "none" => step[d] \in {"block", "fetch"}
  /\ fd[d] = "tmp" => tmp[item[d].dir] # Absent
  /\ fd[d] = "commit" => commit[item[d].dir] # Absent /\ item[d].dir \in mixed
  /\ step[d] = "fetch" => offset[d] < NBlocks
  /\ step[d] = "matched" => Verified(tmp[item[d].dir]) \/ item[d].dir \in exposed

\* OneDownloader for two devices.
Apart(d, e) ==
  item[d] # NoItem /\ item[e] # NoItem /\ item[d].dir = item[e].dir =>
    d = e \/ item[d].dir \in exposed

\* CommitVerified for one directory, and for the layer of a device in it.
Genuine(r) == commit[r] # Absent => Verified(commit[r]) \/ r \in mixed
Backed(d, r) == sw[d][r] = "local" => commit[r] # Absent

DevicesInv == \A d \in Devices : Alive(d) /\ Locks(d) /\ Fills(d)
OthersInv == \A d, e \in Devices : Apart(d, e)
FilesInv == \A r \in Dirs : Genuine(r) /\ \A d \in Devices : Backed(d, r)

Inv == TypeOK /\ DevicesInv /\ OthersInv /\ FilesInv

-----------------------------------------------------------------------------
(* Proofs *)

\* The list that open_lowers() makes.
LEMMA OpenList ==
  ASSUME NEW S \in SUBSET Dirs, NEW order \in SetToSeqs(S)
  PROVE  [i \in 1..Len(order) |-> [dir |-> order[i], try_cnt |-> TryCnt, force |-> FALSE]]
           \in Seq(Items)
<1>1. IsFiniteSet(S) /\ Cardinality(S) \in Nat
  BY DownloadAssumption, FS_Subset, FS_CardinalityType
<1>2. order \in [1..Cardinality(S) -> S]
  BY DEF SetToSeqs
<1>3. Len(order) = Cardinality(S)
  BY <1>1, <1>2
<1>4. ASSUME NEW i \in 1..Len(order)
      PROVE  [dir |-> order[i], try_cnt |-> TryCnt, force |-> FALSE] \in Items
  BY <1>2, <1>3, DownloadAssumption DEF Items
<1> QED
  BY <1>1, <1>3, <1>4

\* What Finish() leaves.
LEMMA FinishTypes ==
  ASSUME TypeOK, NEW d \in Devices, NEW used \in Items, NEW success, Finish(d, used, success)
  PROVE  /\ lock_files' \subseteq Dirs /\ dl_list' \in [Devices -> Seq(Items)]
         /\ item' \in [Devices -> Items \union {NoItem}]
         /\ fd' \in [Devices -> {"none", "tmp", "commit"}]
         /\ step' \in [Devices -> {"exit", "loop", "pick", "drain", "download", "block", "fetch",
                             "verify", "matched", "mismatched"}]
         /\ exposed' \subseteq Dirs
<1>1. dl_list' = dl_list \/ dl_list' = [dl_list EXCEPT ![d] = Append(dl_list[d], used)]
  BY DEF Finish
<1>2. dl_list[d] \in Seq(Items)
  BY DEF TypeOK
<1>3. Append(dl_list[d], used) \in Seq(Items)
  BY <1>2
<1>4. dl_list' \in [Devices -> Seq(Items)]
  BY <1>1, <1>3 DEF TypeOK
<1> QED
  BY <1>4 DEF Finish, Goto, Leave, TypeOK

\* A thread at work has a download.
LEMMA ItemFacts ==
  ASSUME TypeOK, NEW d \in Devices, item[d] # NoItem
  PROVE  /\ item[d] \in Items /\ item[d].dir \in Dirs
         /\ [item[d] EXCEPT !.try_cnt = item[d].try_cnt - 1] \in Items
         /\ [item[d] EXCEPT !.force = TRUE] \in Items
         /\ [item[d] EXCEPT !.try_cnt = item[d].try_cnt - 1].dir = item[d].dir
         /\ [item[d] EXCEPT !.force = TRUE].dir = item[d].dir
<1>1. item[d] \in Items
  BY DEF TypeOK
<1>2. item[d].dir \in Dirs /\ item[d].try_cnt \in Int /\ item[d].force \in BOOLEAN
  BY <1>1 DEF Items
<1>3. ASSUME NEW n \in Int
      PROVE  [item[d] EXCEPT !.try_cnt = n]
               = [dir |-> item[d].dir, try_cnt |-> n, force |-> item[d].force]
  BY <1>1 DEF Items
<1>9. ASSUME NEW b
      PROVE  [item[d] EXCEPT !.force = b]
               = [dir |-> item[d].dir, try_cnt |-> item[d].try_cnt, force |-> b]
  BY <1>1 DEF Items
<1>4. [item[d] EXCEPT !.force = TRUE]
        = [dir |-> item[d].dir, try_cnt |-> item[d].try_cnt, force |-> TRUE]
  BY <1>9, Zenon
<1>5. item[d].try_cnt - 1 \in Int
  BY <1>2
<1>6. [dir |-> item[d].dir, try_cnt |-> item[d].try_cnt - 1, force |-> item[d].force] \in Items
  BY <1>2, <1>5 DEF Items
<1>7. [dir |-> item[d].dir, try_cnt |-> item[d].try_cnt, force |-> TRUE] \in Items
  BY <1>2 DEF Items
<1>8. [item[d] EXCEPT !.try_cnt = item[d].try_cnt - 1]
        = [dir |-> item[d].dir, try_cnt |-> item[d].try_cnt - 1, force |-> item[d].force]
  BY <1>3, <1>5
<1> QED
  BY <1>1, <1>2, <1>4, <1>6, <1>7, <1>8

\* A directory stays exposed while somebody else works there.
Stays(d) ==
  /\ mixed \subseteq mixed'
  /\ \A e \in Devices \ {d} : item'[e] = item[e] /\ step'[e] = step[e]
  /\ \/ exposed \subseteq exposed'
     \/ /\ item'[d] = NoItem
        /\ \A e \in Devices \ {d} :
             item[e] # NoItem /\ item[e].dir \in exposed => item[e].dir \in exposed'

LEMMA FinishStays ==
  ASSUME TypeOK, NEW d \in Devices, NEW used, NEW success, Finish(d, used, success), mixed' = mixed
  PROVE  Stays(d)
<1>1. item' = [item EXCEPT ![d] = NoItem] /\ Leave(d, used.dir)
  BY DEF Finish
<1>2. \A e \in Devices \ {d} : item'[e] = item[e] /\ step'[e] = step[e]
  BY <1>1 DEF Finish, Goto, TypeOK
<1>3. item'[d] = NoItem
  BY <1>1 DEF TypeOK
<1>4. \A e \in Devices \ {d} :
        item[e] # NoItem /\ item[e].dir \in exposed => item[e].dir \in exposed'
  BY <1>1 DEF Leave, WorksOn, Dir
<1> QED
  BY <1>2, <1>3, <1>4 DEF Stays

LEMMA FinishLeaves ==
  ASSUME TypeOK, NEW d \in Devices, NEW used, NEW success, Finish(d, used, success),
         used.dir = item[d].dir
  PROVE  /\ lock_files' = lock_files \ {item[d].dir} /\ item'[d] = NoItem /\ fd'[d] = "none"
         /\ step'[d] \in {"loop", "drain"} /\ \A e \in Devices \ {d} : fd'[e] = fd[e]
BY DEF Finish, Goto, TypeOK

LEMMA ThreadStays ==
  ASSUME TypeOK, NEW d \in Devices, Open(d) \/ CloseDevice(d) \/ Joined(d) \/ Thread(d)
  PROVE  Stays(d)
<1>1. CASE \E used, success : Finish(d, used, success) /\ mixed' = mixed
  BY <1>1, FinishStays
<1>2. CASE AlreadyDownloaded(d) \/ FetchFails(d) \/ Mismatch(d) \/ CommitFails(d)
  <2>1. \E used, success : Finish(d, used, success) /\ mixed' = mixed
    BY <1>2 DEF AlreadyDownloaded, FetchFails, Mismatch, CommitFails
  <2> QED
    BY <2>1, <1>1
<1>3. CASE OpenTmp(d)
  <2>1. CASE \E used : item' = [item EXCEPT ![d] = used] /\ exposed' = exposed /\ Goto(d, "block")
    BY <1>3, <2>1 DEF OpenTmp, Goto, Stays, TypeOK
  <2> QED
    BY <1>3, <1>1, <2>1 DEF OpenTmp
<1>4. CASE NextBlock(d)
  <2>1. CASE UNCHANGED <<item, exposed>>
    BY <1>4, <2>1 DEF NextBlock, Finish, Goto, Stays, TypeOK
  <2> QED
    BY <1>4, <1>1, <2>1 DEF NextBlock
<1>5. CASE Commit(d)
  <2>1. item' = [item EXCEPT ![d] = NoItem] /\ Leave(d, Dir(d)) /\ mixed \subseteq mixed'
    BY <1>5 DEF Commit
  <2>2. \A e \in Devices \ {d} : item'[e] = item[e] /\ step'[e] = step[e]
    BY <1>5 DEF Commit, Goto, TypeOK
  <2>3. item'[d] = NoItem
    BY <2>1 DEF TypeOK
  <2>4. \A e \in Devices \ {d} :
          item[e] # NoItem /\ item[e].dir \in exposed => item[e].dir \in exposed'
    BY <2>1 DEF Leave, WorksOn, Dir
  <2> QED
    BY <2>1, <2>2, <2>3, <2>4 DEF Stays
<1>6. CASE \/ Open(d) \/ CloseDevice(d) \/ Joined(d) \/ Loop(d) \/ Pick(d) \/ Drain(d)
           \/ Fetch(d) \/ Verify(d)
  BY <1>6 DEF Open, CloseDevice, Joined, Loop, Pick, Drain, Fetch, Verify, Goto, Stays, TypeOK
<1> QED
  BY <1>2, <1>3, <1>4, <1>5, <1>6 DEF Thread

\* Every step keeps the types.
LEMMA TypeStep ==
  ASSUME TypeOK, DevicesInv, OthersInv, [Next]_vars
  PROVE  TypeOK'
<1>1. CASE Crash /\ UNCHANGED flaky
  BY <1>1, DownloadAssumption DEF Crash, TypeOK
<1>2. CASE UNCHANGED vars
  BY <1>2 DEF vars, deviceVars, boundVars, TypeOK
<1>3. ASSUME NEW d \in Devices, UNCHANGED flaky,
             Open(d) \/ CloseDevice(d) \/ Joined(d) \/ Thread(d)
      PROVE  TypeOK'
  <2>0. Alive(d) /\ Locks(d) /\ Fills(d)
    BY DEF DevicesInv
  <2>1. CASE Open(d)
    <3>1. dl_list' \in [Devices -> Seq(Items)]
      <4>1. PICK S \in SUBSET Dirs : \E order \in SetToSeqs(S) :
              dl_list' = [dl_list EXCEPT ![d] = [i \in 1..Len(order) |->
                            [dir |-> order[i], try_cnt |-> TryCnt, force |-> FALSE]]]
        BY <2>1 DEF Open
      <4>2. PICK order \in SetToSeqs(S) :
              dl_list' = [dl_list EXCEPT ![d] = [i \in 1..Len(order) |->
                            [dir |-> order[i], try_cnt |-> TryCnt, force |-> FALSE]]]
        BY <4>1
      <4>3. [i \in 1..Len(order) |-> [dir |-> order[i], try_cnt |-> TryCnt, force |-> FALSE]]
              \in Seq(Items)
        BY OpenList
      <4> QED
        BY <4>2, <4>3 DEF TypeOK
    <3>2. sw' \in [Devices -> [Dirs -> {"remote", "local"}]]
      BY <2>1 DEF Open, TypeOK
    <3>3. step' \in [Devices -> {"exit", "loop", "pick", "drain", "download", "block", "fetch",
                             "verify", "matched", "mismatched"}]
      BY <2>1 DEF Open, TypeOK
    <3>4. reopens' \in 0..MaxReopens
      BY <2>1, DownloadAssumption DEF Open, TypeOK
    <3> QED
      BY <1>3, <2>1, <3>1, <3>2, <3>3, <3>4 DEF Open, TypeOK
  <2>2. CASE CloseDevice(d)
    BY <1>3, <2>2 DEF CloseDevice, boundVars, TypeOK
  <2>3. CASE Joined(d)
    BY <1>3, <2>3, <2>0 DEF Joined, Dir, boundVars, TypeOK
  <2>4. CASE Loop(d)
    BY <1>3, <2>4, <2>0 DEF Loop, Goto, Dir, boundVars, TypeOK
  <2>5. CASE Pick(d)
    <3>1. dl_list[d] \in Seq(Items) /\ dl_list[d] # << >>
      BY <2>0, <2>5 DEF Pick, Alive, TypeOK
    <3>2. Head(dl_list[d]) \in Items /\ Tail(dl_list[d]) \in Seq(Items)
      BY <3>1
    <3>3. Append(Tail(dl_list[d]), Head(dl_list[d])) \in Seq(Items) /\ Head(dl_list[d]).dir \in Dirs
      BY <3>2 DEF Items
    <3>4. \/ dl_list' = [dl_list EXCEPT ![d] = Append(Tail(dl_list[d]), Head(dl_list[d]))]
          \/ dl_list' = [dl_list EXCEPT ![d] = Tail(dl_list[d])]
      BY <2>5 DEF Pick
    <3>5. dl_list' \in [Devices -> Seq(Items)]
      BY <3>2, <3>3, <3>4 DEF TypeOK
    <3>6. item' \in [Devices -> Items \union {NoItem}] /\ lock_files' \subseteq Dirs
      <4>1. \/ item' = item /\ lock_files' = lock_files
            \/ /\ item' = [item EXCEPT ![d] = Head(dl_list[d])]
               /\ lock_files' = lock_files \union {Head(dl_list[d]).dir}
        BY <2>5 DEF Pick
      <4> QED
        BY <3>2, <3>3, <4>1 DEF TypeOK
    <3> QED
      BY <1>3, <2>5, <3>5, <3>6 DEF Pick, Goto, boundVars, TypeOK
  <2>6. CASE Drain(d)
    <3>1. dl_list' \in [Devices -> Seq(Items)] /\ lock_files' \subseteq Dirs
      BY <2>6 DEF Drain, TypeOK
    <3>2. exposed' \subseteq Dirs
      <4> DEFINE left == {dl_list[d][i].dir : i \in 1..Len(dl_list[d])}
      <4>0. dl_list[d] \in Seq(Items)
        BY DEF TypeOK
      <4>1. \A i \in 1..Len(dl_list[d]) : dl_list[d][i].dir \in Dirs
        <5>1. \A i \in 1..Len(dl_list[d]) : dl_list[d][i] \in Items
          BY <4>0
        <5> QED
          BY <5>1 DEF Items
      <4>2. left \subseteq Dirs
        BY <4>1
      <4>3. exposed' = exposed \union {r \in left : \E e \in Devices : WorksOn(e, r)}
        BY <2>6 DEF Drain
      <4> HIDE DEF left
      <4> QED
        BY <4>2, <4>3 DEF TypeOK
    <3> QED
      BY <1>3, <2>6, <3>1, <3>2 DEF Drain, Goto, boundVars, TypeOK
  <2>7. CASE AlreadyDownloaded(d)
    <3>0. item[d] # NoItem
      BY <2>0, <2>7 DEF AlreadyDownloaded, Locks, Working
    <3>1. /\ item[d] \in Items /\ item[d].dir \in Dirs
          /\ [item[d] EXCEPT !.try_cnt = item[d].try_cnt - 1] \in Items
          /\ [item[d] EXCEPT !.force = TRUE] \in Items
      BY <3>0, ItemFacts
    <3>2. sw' \in [Devices -> [Dirs -> {"remote", "local"}]]
      <4>1. sw' = sw \/ sw' = [sw EXCEPT ![d] = [sw[d] EXCEPT ![item[d].dir] = "local"]]
        BY <2>7 DEF AlreadyDownloaded, Switch, Dir
      <4>2. [sw[d] EXCEPT ![item[d].dir] = "local"] \in [Dirs -> {"remote", "local"}]
        BY DEF TypeOK
      <4> QED
        BY <4>1, <4>2 DEF TypeOK
    <3> QED
      BY <1>3, <2>7, <3>1, <3>2, FinishTypes DEF AlreadyDownloaded, boundVars, TypeOK
  <2>8. CASE OpenTmp(d)
    <3>0. item[d] # NoItem
      BY <2>0, <2>8 DEF OpenTmp, Locks, Working
    <3>1. /\ item[d] \in Items /\ item[d].dir \in Dirs
          /\ [item[d] EXCEPT !.try_cnt = item[d].try_cnt - 1] \in Items
          /\ [item[d] EXCEPT !.force = TRUE] \in Items
      BY <3>0, ItemFacts
    <3>2. Empty \in Contents
      BY DEF Empty, Contents, Blocks
    <3>3. CASE Finish(d, [item[d] EXCEPT !.try_cnt = item[d].try_cnt - 1], FALSE)
               /\ UNCHANGED <<tmp, offset>>
      BY <1>3, <2>8, <3>1, <3>3, FinishTypes DEF OpenTmp, boundVars, TypeOK
    <3>4. CASE /\ tmp' = [tmp EXCEPT ![Dir(d)] =
                              IF tmp[Dir(d)] = Absent THEN Empty ELSE tmp[Dir(d)]]
               /\ item' = [item EXCEPT ![d] = [item[d] EXCEPT !.try_cnt = item[d].try_cnt - 1]]
               /\ offset' = [offset EXCEPT ![d] = 0]
               /\ fd' = [fd EXCEPT ![d] = "tmp"]
               /\ Goto(d, "block")
               /\ UNCHANGED <<dl_list, lock_files, exposed>>
      <4>1. tmp' \in [Dirs -> Contents \union {Absent}]
        BY <3>1, <3>2, <3>4 DEF Dir, TypeOK
      <4>2. item' \in [Devices -> Items \union {NoItem}]
        BY <3>1, <3>4 DEF TypeOK
      <4>3. offset' \in [Devices -> 0..NBlocks]
        BY <3>4, DownloadAssumption DEF TypeOK
      <4> QED
        BY <1>3, <2>8, <3>4, <4>1, <4>2, <4>3 DEF OpenTmp, Goto, boundVars, TypeOK
    <3> QED
      BY <2>8, <3>3, <3>4 DEF OpenTmp
  <2>9. CASE NextBlock(d)
    <3>0. item[d] # NoItem
      BY <2>0, <2>9 DEF NextBlock, Locks, Working
    <3>1. /\ item[d] \in Items /\ item[d].dir \in Dirs
          /\ [item[d] EXCEPT !.try_cnt = item[d].try_cnt - 1] \in Items
          /\ [item[d] EXCEPT !.force = TRUE] \in Items
      BY <3>0, ItemFacts
    <3>2. CASE Finish(d, item[d], FALSE) /\ UNCHANGED offset
      BY <1>3, <2>9, <3>1, <3>2, FinishTypes DEF NextBlock, boundVars, TypeOK
    <3>3. CASE UNCHANGED <<item, dl_list, lock_files, exposed>>
      <4>1. offset' \in [Devices -> 0..NBlocks]
        <5>1. \/ offset' = offset
              \/ offset[d] < NBlocks /\ offset' = [offset EXCEPT ![d] = offset[d] + 1]
          BY <2>9 DEF NextBlock
        <5>2. offset[d] < NBlocks => offset[d] + 1 \in 0..NBlocks
          BY DownloadAssumption DEF TypeOK
        <5> QED
          BY <5>1, <5>2 DEF TypeOK
      <4>2. step' \in [Devices -> {"exit", "loop", "pick", "drain", "download", "block", "fetch",
                             "verify", "matched", "mismatched"}]
        <5>1. step' = step \/ \E s \in {"verify", "fetch", "loop", "drain"} :
                                step' = [step EXCEPT ![d] = s]
          BY <2>9 DEF NextBlock, Finish, Goto
        <5> QED
          BY <5>1 DEF TypeOK
      <4>3. fd' \in [Devices -> {"none", "tmp", "commit"}]
        BY <2>9, <3>3 DEF NextBlock, Finish, TypeOK
      <4> QED
        BY <1>3, <2>9, <3>3, <4>1, <4>2, <4>3 DEF NextBlock, boundVars, TypeOK
    <3> QED
      BY <2>9, <3>2, <3>3 DEF NextBlock
  <2>10. CASE Fetch(d)
    <3>0. item[d] # NoItem
      BY <2>0, <2>10 DEF Fetch, Locks, Working
    <3>1. /\ item[d] \in Items /\ item[d].dir \in Dirs
          /\ [item[d] EXCEPT !.try_cnt = item[d].try_cnt - 1] \in Items
          /\ [item[d] EXCEPT !.force = TRUE] \in Items
      BY <3>0, ItemFacts
    <3>2. /\ offset[d] < NBlocks
          /\ fd[d] = "tmp" => tmp[item[d].dir] \in Contents
          /\ fd[d] = "commit" => commit[item[d].dir] \in Contents
      BY <2>0, <2>10, <3>1 DEF Fetch, Fills, Working, TypeOK
    <3>3. /\ tmp' \in [Dirs -> Contents \union {Absent}]
          /\ commit' \in [Dirs -> Contents \union {Absent}]
      <4>1. PICK x \in {"good", "bad"} : Overwrite(d, offset[d], x)
        BY <2>10 DEF Fetch
      <4>2. ASSUME NEW c \in Contents PROVE [c EXCEPT ![offset[d]] = x] \in Contents
        BY DEF Contents
      <4>3. tmp' = tmp \/ (fd[d] = "tmp" /\ tmp' = [tmp EXCEPT ![item[d].dir] =
                                                [tmp[item[d].dir] EXCEPT ![offset[d]] = x]])
        BY <4>1 DEF Overwrite, Dir
      <4>4. \/ commit' = commit
            \/ fd[d] = "commit" /\ commit' = [commit EXCEPT ![item[d].dir] =
                                                [commit[item[d].dir] EXCEPT ![offset[d]] = x]]
        BY <4>1 DEF Overwrite, Dir
      <4>5. tmp' \in [Dirs -> Contents \union {Absent}]
        BY <3>2, <4>2, <4>3 DEF TypeOK
      <4>6. commit' \in [Dirs -> Contents \union {Absent}]
        BY <3>2, <4>2, <4>4 DEF TypeOK
      <4> QED
        BY <4>5, <4>6
    <3>4. offset' \in [Devices -> 0..NBlocks] /\ faults' \in 0..MaxFaults
      <4>1. offset[d] + 1 \in 0..NBlocks
        BY <3>2, DownloadAssumption DEF TypeOK
      <4>2. offset' = [offset EXCEPT ![d] = offset[d] + 1]
        BY <2>10 DEF Fetch
      <4>3. faults' = faults \/ (faults < MaxFaults /\ faults' = faults + 1)
        BY <2>10 DEF Fetch
      <4>4. faults' \in 0..MaxFaults
        BY <4>3, DownloadAssumption DEF TypeOK
      <4> QED
        BY <4>1, <4>2, <4>4 DEF TypeOK
    <3> QED
      BY <1>3, <2>10, <3>3, <3>4 DEF Fetch, Goto, TypeOK
  <2>11. CASE FetchFails(d)
    <3>0. item[d] # NoItem
      BY <2>0, <2>11 DEF FetchFails, Locks, Working
    <3>1. /\ item[d] \in Items /\ item[d].dir \in Dirs
          /\ [item[d] EXCEPT !.try_cnt = item[d].try_cnt - 1] \in Items
          /\ [item[d] EXCEPT !.force = TRUE] \in Items
      BY <3>0, ItemFacts
    <3>2. faults' \in 0..MaxFaults
      BY <2>11, DownloadAssumption DEF FetchFails, TypeOK
    <3> QED
      BY <1>3, <2>11, <3>1, <3>2, FinishTypes DEF FetchFails, TypeOK
  <2>12. CASE Verify(d)
    BY <1>3, <2>12, <2>0 DEF Verify, Goto, Dir, boundVars, TypeOK
  <2>13. CASE Mismatch(d)
    <3>0. item[d] # NoItem
      BY <2>0, <2>13 DEF Mismatch, Locks, Working
    <3>1. /\ item[d] \in Items /\ item[d].dir \in Dirs
          /\ [item[d] EXCEPT !.try_cnt = item[d].try_cnt - 1] \in Items
          /\ [item[d] EXCEPT !.force = TRUE] \in Items
      BY <3>0, ItemFacts
    <3> QED
      BY <1>3, <2>13, <3>1, FinishTypes DEF Mismatch, boundVars, TypeOK
  <2>14. CASE Commit(d)
    <3>0. item[d] # NoItem
      BY <2>0, <2>14 DEF Commit, Locks, Working
    <3>1. /\ item[d] \in Items /\ item[d].dir \in Dirs
          /\ [item[d] EXCEPT !.try_cnt = item[d].try_cnt - 1] \in Items
          /\ [item[d] EXCEPT !.force = TRUE] \in Items
      BY <3>0, ItemFacts
    <3>2. sw' \in [Devices -> [Dirs -> {"remote", "local"}]]
      <4>1. sw' = sw \/ sw' = [sw EXCEPT ![d] = [sw[d] EXCEPT ![item[d].dir] = "local"]]
        BY <2>14 DEF Commit, Switch, Dir
      <4>2. [sw[d] EXCEPT ![item[d].dir] = "local"] \in [Dirs -> {"remote", "local"}]
        BY DEF TypeOK
      <4> QED
        BY <4>1, <4>2 DEF TypeOK
    <3>3. /\ commit' \in [Dirs -> Contents \union {Absent}]
          /\ tmp' \in [Dirs -> Contents \union {Absent}]
      BY <2>14, <3>1 DEF Commit, Dir, TypeOK
    <3>4. fd' \in [Devices -> {"none", "tmp", "commit"}]
      BY <2>14 DEF Commit, TypeOK
    <3>5. exposed' \subseteq Dirs /\ mixed' \subseteq Dirs /\ lock_files' \subseteq Dirs
      BY <2>14, <3>1 DEF Commit, Leave, Dir, TypeOK
    <3> QED
      BY <1>3, <2>14, <3>2, <3>3, <3>4, <3>5 DEF Commit, Goto, boundVars, TypeOK
  <2>15. CASE CommitFails(d)
    <3>0. item[d] # NoItem
      BY <2>0, <2>15 DEF CommitFails, Locks, Working
    <3>1. /\ item[d] \in Items /\ item[d].dir \in Dirs
          /\ [item[d] EXCEPT !.try_cnt = item[d].try_cnt - 1] \in Items
          /\ [item[d] EXCEPT !.force = TRUE] \in Items
      BY <3>0, ItemFacts
    <3> QED
      BY <1>3, <2>15, <3>1, FinishTypes DEF CommitFails, boundVars, TypeOK
  <2> QED
    BY <1>3, <2>1, <2>2, <2>3, <2>4, <2>5, <2>6, <2>7, <2>8, <2>9, <2>10, <2>11, <2>12,
        <2>13, <2>14, <2>15 DEF Thread
<1> QED
  BY <1>1, <1>2, <1>3 DEF Next

\* Threads go on until their list is empty.
LEMMA AliveStep ==
  ASSUME TypeOK, DevicesInv, OthersInv, NEW e \in Devices, [Next]_vars
  PROVE  Alive(e)'
<1>0. /\ Alive(e) /\ Locks(e) /\ Fills(e)
      /\ item[e] # NoItem => item[e] \in Items /\ item[e].dir \in Dirs
  BY ItemFacts DEF DevicesInv
<1>1. CASE Crash /\ UNCHANGED flaky
  BY <1>1, <1>0 DEF Crash, Alive, Running, TypeOK
<1>2. CASE UNCHANGED vars
  BY <1>2, <1>0 DEF vars, deviceVars, Alive, Running, TypeOK
<1>3. ASSUME NEW d \in Devices, UNCHANGED flaky,
             Open(d) \/ CloseDevice(d) \/ Joined(d) \/ Thread(d)
      PROVE  Alive(e)'
  <2>0. /\ Alive(d) /\ Locks(d) /\ Fills(d) /\ Apart(d, e)
        /\ item[d] # NoItem =>
             /\ item[d] \in Items /\ item[d].dir \in Dirs
             /\ [item[d] EXCEPT !.try_cnt = item[d].try_cnt - 1].dir = item[d].dir
             /\ [item[d] EXCEPT !.force = TRUE].dir = item[d].dir
    BY ItemFacts DEF DevicesInv, OthersInv
  <2>1. CASE Open(d)
    BY <1>3, <2>1, <1>0, <2>0 DEF Open, Dir, Alive, Running, TypeOK
  <2>2. CASE CloseDevice(d)
    BY <1>3, <2>2, <1>0, <2>0 DEF CloseDevice, Dir, Alive, Running, TypeOK
  <2>3. CASE Joined(d)
    BY <1>3, <2>3, <1>0, <2>0 DEF Joined, Dir, Alive, Running, TypeOK
  <2>4. CASE Loop(d)
    BY <1>3, <2>4, <1>0, <2>0 DEF Loop, Goto, Dir, Alive, Running, TypeOK
  <2>5. CASE Pick(d)
    BY <1>3, <2>5, <1>0, <2>0 DEF Pick, Goto, Dir, Alive, Running, TypeOK
  <2>6. CASE Drain(d)
    BY <1>3, <2>6, <1>0, <2>0 DEF Drain, Goto, Dir, Alive, Running, TypeOK
  <2>7. CASE AlreadyDownloaded(d)
    BY <1>3, <2>7, <1>0, <2>0 DEF AlreadyDownloaded, Finish, Goto, Switch, Dir, Alive,
        Running, TypeOK
  <2>8. CASE OpenTmp(d)
    BY <1>3, <2>8, <1>0, <2>0 DEF OpenTmp, Finish, Goto, Dir, Alive, Running, TypeOK
  <2>9. CASE NextBlock(d)
    BY <1>3, <2>9, <1>0, <2>0 DEF NextBlock, Finish, Goto, Dir, Alive, Running, TypeOK
  <2>10. CASE Fetch(d)
    BY <1>3, <2>10, <1>0, <2>0 DEF Fetch, Goto, Overwrite, Dir, Alive, Running, TypeOK
  <2>11. CASE FetchFails(d)
    BY <1>3, <2>11, <1>0, <2>0 DEF FetchFails, Finish, Goto, Dir, Alive, Running, TypeOK
  <2>12. CASE Verify(d)
    BY <1>3, <2>12, <1>0, <2>0 DEF Verify, Goto, Dir, Alive, Running, TypeOK
  <2>13. CASE Mismatch(d)
    BY <1>3, <2>13, <1>0, <2>0 DEF Mismatch, Finish, Goto, Dir, Alive, Running, TypeOK
  <2>14. CASE Commit(d)
    BY <1>3, <2>14, <1>0, <2>0 DEF Commit, Goto, Switch, Dir, Alive, Running, TypeOK
  <2>15. CASE CommitFails(d)
    BY <1>3, <2>15, <1>0, <2>0 DEF CommitFails, Finish, Goto, Dir, Alive, Running, TypeOK
  <2> QED
    BY <1>3, <2>1, <2>2, <2>3, <2>4, <2>5, <2>6, <2>7, <2>8, <2>9, <2>10, <2>11, <2>12,
        <2>13, <2>14, <2>15 DEF Thread
<1> QED
  BY <1>1, <1>2, <1>3 DEF Next

\* A thread that is done unlocks its own directory.
LEMMA LeaveLocks ==
  ASSUME TypeOK, NEW d \in Devices, NEW e \in Devices, Locks(d), Locks(e), Apart(d, e), Stays(d),
         item[d] # NoItem, item'[d] = NoItem, step'[d] \notin Working,
         lock_files' = lock_files \ {item[d].dir}
  PROVE  Locks(e)'
<1>1. CASE e = d
  BY <1>1 DEF Locks
<1>2. CASE e # d
  <2>1. item'[e] = item[e] /\ step'[e] = step[e]
    BY <1>2 DEF Stays
  <2>2. item[e] # NoItem /\ item[e].dir \in exposed => item[e].dir \in exposed'
    BY <1>2 DEF Stays
  <2>3. item[e] # NoItem => item[e].dir \in lock_files' \union exposed'
    BY <1>2, <2>2 DEF Locks, Apart
  <2> QED
    BY <2>1, <2>3 DEF Locks
<1> QED
  BY <1>1, <1>2

\* A directory stays locked while somebody downloads to it.
LEMMA LocksStep ==
  ASSUME TypeOK, DevicesInv, OthersInv, NEW e \in Devices, [Next]_vars
  PROVE  Locks(e)'
<1>0. /\ Alive(e) /\ Locks(e) /\ Fills(e)
      /\ item[e] # NoItem => item[e] \in Items /\ item[e].dir \in Dirs
  BY ItemFacts DEF DevicesInv
<1>1. CASE Crash /\ UNCHANGED flaky
  BY <1>1, <1>0 DEF Crash, Locks, Working, Alive, Running, Apart, TypeOK
<1>2. CASE UNCHANGED vars
  BY <1>2, <1>0 DEF vars, deviceVars, Locks, Working, Alive, Running, Apart, TypeOK
<1>3. ASSUME NEW d \in Devices, UNCHANGED flaky,
             Open(d) \/ CloseDevice(d) \/ Joined(d) \/ Thread(d)
      PROVE  Locks(e)'
  <2>s. Stays(d)
    BY <1>3, ThreadStays
  <2>0. /\ Alive(d) /\ Locks(d) /\ Fills(d) /\ Apart(d, e)
        /\ item[d] # NoItem =>
             /\ item[d] \in Items /\ item[d].dir \in Dirs
             /\ [item[d] EXCEPT !.try_cnt = item[d].try_cnt - 1].dir = item[d].dir
             /\ [item[d] EXCEPT !.force = TRUE].dir = item[d].dir
    BY ItemFacts DEF DevicesInv, OthersInv
  <2>1. CASE Open(d)
    BY <1>3, <2>1, <1>0, <2>0 DEF Open, Dir, Locks, Working, Alive, Running, Apart, TypeOK
  <2>2. CASE CloseDevice(d)
    BY <1>3, <2>2, <1>0, <2>0 DEF CloseDevice, Dir, Locks, Working, TypeOK
  <2>3. CASE Joined(d)
    BY <1>3, <2>3, <1>0, <2>0 DEF Joined, Dir, Locks, Working, TypeOK
  <2>4. CASE Loop(d)
    BY <1>3, <2>4, <1>0, <2>0 DEF Loop, Goto, Dir, Locks, Working, Alive, Running, Apart,
        TypeOK
  <2>5. CASE Pick(d)
    <3>1. Head(dl_list[d]) \in Items /\ NoItem \notin Items
      BY <2>0, <2>5, DownloadAssumption DEF Pick, Alive, TypeOK
    <3> QED
      BY <1>0, <2>0, <2>5, <3>1 DEF Pick, Goto, Locks, Working, TypeOK
  <2>6. CASE Drain(d)
    <3> DEFINE left == {dl_list[d][i].dir : i \in 1..Len(dl_list[d])}
    <3>1. /\ lock_files' = lock_files \ left
          /\ exposed' = exposed \union {r \in left : \E k \in Devices : WorksOn(k, r)}
          /\ item' = item /\ step' = [step EXCEPT ![d] = "exit"] /\ step[d] = "drain"
      BY <2>6 DEF Drain, Goto
    <3> HIDE DEF left
    <3>2. item[e] # NoItem => item[e].dir \in lock_files' \union exposed'
      BY <1>0, <3>1 DEF Locks, WorksOn, Dir
    <3>3. step'[e] \in Working <=> step[e] \in Working
      BY <3>1 DEF Working, TypeOK
    <3> QED
      BY <1>0, <3>1, <3>2, <3>3 DEF Locks
  <2>7. CASE AlreadyDownloaded(d)
    <3>1. item[d] # NoItem /\ Finish(d, item[d], TRUE)
      BY <2>0, <2>7 DEF AlreadyDownloaded, Locks, Working
    <3>2. /\ lock_files' = lock_files \ {item[d].dir} /\ item'[d] = NoItem
          /\ step'[d] \notin Working
      BY <2>0, <3>1, FinishLeaves DEF Working
    <3> QED
      BY <1>0, <2>0, <2>s, <3>1, <3>2, LeaveLocks
  <2>8. CASE OpenTmp(d)
    <3>1. item[d] # NoItem
      BY <2>0, <2>8 DEF OpenTmp, Locks, Working
    <3>2. [item[d] EXCEPT !.try_cnt = item[d].try_cnt - 1] # NoItem
      BY <3>1, ItemFacts, DownloadAssumption
    <3>3. CASE /\ item' = [item EXCEPT ![d] = [item[d] EXCEPT !.try_cnt = item[d].try_cnt - 1]]
               /\ step' = [step EXCEPT ![d] = "block"] /\ lock_files' = lock_files
               /\ exposed' = exposed
      BY <1>0, <2>0, <3>1, <3>2, <3>3 DEF Locks, Working, TypeOK
    <3>4. CASE Finish(d, [item[d] EXCEPT !.try_cnt = item[d].try_cnt - 1], FALSE)
      <4>1. /\ lock_files' = lock_files \ {item[d].dir} /\ item'[d] = NoItem
            /\ step'[d] \notin Working
        BY <2>0, <3>1, <3>4, FinishLeaves DEF Working
      <4> QED
        BY <1>0, <2>0, <2>s, <3>1, <4>1, LeaveLocks
    <3> QED
      BY <2>8, <3>3, <3>4 DEF OpenTmp, Goto
  <2>9. CASE NextBlock(d)
    <3>1. item[d] # NoItem
      BY <2>0, <2>9 DEF NextBlock, Locks, Working
    <3>2. CASE Finish(d, item[d], FALSE)
      <4>1. /\ lock_files' = lock_files \ {item[d].dir} /\ item'[d] = NoItem
            /\ step'[d] \notin Working
        BY <3>2, FinishLeaves DEF Working
      <4> QED
        BY <1>0, <2>0, <2>s, <3>1, <4>1, LeaveLocks
    <3>3. CASE ~Finish(d, item[d], FALSE)
      BY <1>0, <2>0, <2>9, <3>3 DEF NextBlock, Goto, Locks, Working, TypeOK
    <3> QED
      BY <3>2, <3>3
  <2>10. CASE Fetch(d)
    BY <1>3, <2>10, <1>0, <2>0 DEF Fetch, Goto, Overwrite, Dir, Locks, Working, Alive,
        Running, Apart, TypeOK
  <2>11. CASE FetchFails(d)
    <3>1. item[d] # NoItem /\ Finish(d, item[d], FALSE)
      BY <2>0, <2>11 DEF FetchFails, Locks, Working
    <3>2. /\ lock_files' = lock_files \ {item[d].dir} /\ item'[d] = NoItem
          /\ step'[d] \notin Working
      BY <2>0, <3>1, FinishLeaves DEF Working
    <3> QED
      BY <1>0, <2>0, <2>s, <3>1, <3>2, LeaveLocks
  <2>12. CASE Verify(d)
    BY <1>3, <2>12, <1>0, <2>0 DEF Verify, Goto, Dir, Locks, Working, Alive, Running, Apart,
        TypeOK
  <2>13. CASE Mismatch(d)
    <3>1. item[d] # NoItem /\ Finish(d, [item[d] EXCEPT !.force = TRUE], FALSE)
      BY <2>0, <2>13 DEF Mismatch, Locks, Working
    <3>2. /\ lock_files' = lock_files \ {item[d].dir} /\ item'[d] = NoItem
          /\ step'[d] \notin Working
      BY <2>0, <3>1, FinishLeaves DEF Working
    <3> QED
      BY <1>0, <2>0, <2>s, <3>1, <3>2, LeaveLocks
  <2>14. CASE Commit(d)
    <3>1. item[d] # NoItem /\ lock_files' = lock_files \ {item[d].dir}
      BY <2>0, <2>14 DEF Commit, Locks, Working, Dir
    <3>2. item'[d] = NoItem /\ step'[d] \notin Working
      BY <2>14 DEF Commit, Goto, Working, TypeOK
    <3> QED
      BY <1>0, <2>0, <2>s, <3>1, <3>2, LeaveLocks
  <2>15. CASE CommitFails(d)
    <3>1. item[d] # NoItem /\ Finish(d, item[d], FALSE)
      BY <2>0, <2>15 DEF CommitFails, Locks, Working
    <3>2. /\ lock_files' = lock_files \ {item[d].dir} /\ item'[d] = NoItem
          /\ step'[d] \notin Working
      BY <2>0, <3>1, FinishLeaves DEF Working
    <3> QED
      BY <1>0, <2>0, <2>s, <3>1, <3>2, LeaveLocks
  <2> QED
    BY <1>3, <2>1, <2>2, <2>3, <2>4, <2>5, <2>6, <2>7, <2>8, <2>9, <2>10, <2>11, <2>12,
        <2>13, <2>14, <2>15 DEF Thread
<1> QED
  BY <1>1, <1>2, <1>3 DEF Next

\* What the step of another thread leaves of a download and its file.
LEMMA OtherFills ==
  ASSUME NEW d \in Devices, NEW e \in Devices \ {d}, Fills(e), Locks(e), Stays(d),
         offset'[e] = offset[e], fd'[e] = fd[e],
         item[e] # NoItem =>
           /\ tmp[item[e].dir] # Absent => tmp'[item[e].dir] # Absent
           /\ commit[item[e].dir] # Absent => commit'[item[e].dir] # Absent
           /\ Verified(tmp[item[e].dir]) =>
                Verified(tmp'[item[e].dir]) \/ item[e].dir \in exposed'
  PROVE  Fills(e)'
<1>1. item'[e] = item[e] /\ step'[e] = step[e]
  BY DEF Stays
<1>2. item[e] # NoItem /\ item[e].dir \in exposed => item[e].dir \in exposed'
  BY DEF Stays
<1>3. fd[e] # "none" \/ step[e] = "matched" => item[e] # NoItem
  BY DEF Fills, Locks, Working
<1>4. item[e].dir \in mixed => item[e].dir \in mixed'
  BY DEF Stays
<1>5. step[e] = "matched" => Verified(tmp'[item[e].dir]) \/ item[e].dir \in exposed'
  BY <1>2, <1>3 DEF Fills
<1>6. /\ fd[e] = "tmp" => tmp'[item[e].dir] # Absent
      /\ fd[e] = "commit" => commit'[item[e].dir] # Absent /\ item[e].dir \in mixed'
  BY <1>3, <1>4 DEF Fills
<1>7. Verified(tmp[item[e].dir])' <=> Verified(tmp'[item[e].dir])
  BY <1>1 DEF Verified
<1> QED
  BY <1>1, <1>5, <1>6, <1>7 DEF Fills

\* A thread between two downloads has no file.
LEMMA NoFills ==
  ASSUME NEW d \in Devices, fd'[d] = "none", step'[d] \notin {"fetch", "matched"}
  PROVE  Fills(d)'
BY DEF Fills

\* Finish() closes the file of its thread and leaves those of the others.
LEMMA FinishFills ==
  ASSUME TypeOK, NEW d \in Devices, NEW e \in Devices, Fills(e), Locks(e), Stays(d),
         NEW used, NEW success, Finish(d, used, success), used.dir = item[d].dir,
         UNCHANGED <<offset, tmp, commit>>
  PROVE  Fills(e)'
<1>1. /\ fd'[d] = "none" /\ step'[d] \in {"loop", "drain"}
      /\ \A k \in Devices \ {d} : fd'[k] = fd[k]
  BY FinishLeaves
<1>2. CASE e = d
  BY <1>1, <1>2, NoFills
<1>3. CASE e # d
  BY <1>1, <1>3, OtherFills
<1> QED
  BY <1>2, <1>3

\* A download has its temporary file to itself until it renames it, unless the
\* directory is exposed.
LEMMA FillsStep ==
  ASSUME TypeOK, DevicesInv, OthersInv, NEW e \in Devices, [Next]_vars
  PROVE  Fills(e)'
<1>0. /\ Alive(e) /\ Locks(e) /\ Fills(e)
      /\ item[e] # NoItem => item[e] \in Items /\ item[e].dir \in Dirs
  BY ItemFacts DEF DevicesInv
<1>1. CASE Crash /\ UNCHANGED flaky
  BY <1>1, <1>0 DEF Crash, Fills, Locks, Working, Verified, TypeOK
<1>2. CASE UNCHANGED vars
  BY <1>2, <1>0 DEF vars, deviceVars, Fills, Locks, Working, Verified, TypeOK
<1>3. ASSUME NEW d \in Devices, UNCHANGED flaky,
             Open(d) \/ CloseDevice(d) \/ Joined(d) \/ Thread(d)
      PROVE  Fills(e)'
  <2>s. Stays(d)
    BY <1>3, ThreadStays
  <2>0. /\ Alive(d) /\ Locks(d) /\ Fills(d) /\ Apart(d, e)
        /\ item[d] # NoItem =>
             /\ item[d] \in Items /\ item[d].dir \in Dirs
             /\ [item[d] EXCEPT !.try_cnt = item[d].try_cnt - 1].dir = item[d].dir
             /\ [item[d] EXCEPT !.force = TRUE].dir = item[d].dir
    BY ItemFacts DEF DevicesInv, OthersInv
  <2>2. CASE CloseDevice(d)
    <3>1. UNCHANGED <<item, step, fd, tmp, commit, offset, exposed, mixed>>
      BY <2>2 DEF CloseDevice
    <3> QED
      BY <1>0, <3>1 DEF Fills, Verified
  <2>1. CASE Open(d) \/ Joined(d) \/ Loop(d) \/ Drain(d)
    <3>1. UNCHANGED <<item, fd, tmp, commit, offset>>
      BY <2>1 DEF Open, Joined, Loop, Drain
    <3>2. CASE e # d
      BY <1>0, <2>s, <3>1, <3>2, OtherFills
    <3>3. fd[d] = "none" /\ step'[d] \notin {"fetch", "matched"}
      <4>1. step[d] \notin {"block", "fetch", "matched"}
        BY <2>0, <2>1 DEF Open, Joined, Loop, Drain, Alive, Running
      <4> QED
        BY <2>0, <2>1, <4>1 DEF Open, Joined, Loop, Drain, Goto, Fills, TypeOK
    <3> QED
      BY <3>1, <3>2, <3>3, NoFills
  <2>5. CASE Pick(d)
    <3>1. UNCHANGED <<fd, tmp, commit, offset>>
      BY <2>5 DEF Pick
    <3>2. CASE e # d
      BY <1>0, <2>s, <3>1, <3>2, OtherFills
    <3>3. fd[d] = "none" /\ step'[d] \notin {"fetch", "matched"}
      BY <2>0, <2>5 DEF Pick, Goto, Fills, TypeOK
    <3> QED
      BY <3>1, <3>2, <3>3, NoFills
  <2>7. CASE AlreadyDownloaded(d) \/ FetchFails(d) \/ CommitFails(d) \/ Mismatch(d)
    <3>1. item[d] # NoItem /\ UNCHANGED <<offset, tmp, commit>>
      BY <2>0, <2>7 DEF AlreadyDownloaded, FetchFails, CommitFails, Mismatch, Locks, Working
    <3>2. \E used, success : Finish(d, used, success) /\ used.dir = item[d].dir
      BY <2>0, <2>7, <3>1 DEF AlreadyDownloaded, FetchFails, CommitFails, Mismatch
    <3> QED
      BY <1>0, <2>s, <3>1, <3>2, FinishFills
  <2>8. CASE OpenTmp(d)
    <3>1. item[d] # NoItem
      BY <2>0, <2>8 DEF OpenTmp, Locks, Working
    <3>2. Empty # Absent
      <4>1. Empty \in Contents
        BY DEF Empty, Contents, Blocks
      <4> QED
        BY <4>1, DownloadAssumption
    <3> DEFINE used == [item[d] EXCEPT !.try_cnt = item[d].try_cnt - 1]
    <3>3. CASE Finish(d, used, FALSE) /\ UNCHANGED <<tmp, offset>>
      <4>1. UNCHANGED <<offset, tmp, commit>> /\ used.dir = item[d].dir
        BY <2>0, <2>8, <3>1, <3>3 DEF OpenTmp
      <4> QED
        BY <1>0, <2>s, <3>3, <4>1, FinishFills
    <3>4. CASE /\ tmp' = [tmp EXCEPT ![Dir(d)] =
                              IF tmp[Dir(d)] = Absent THEN Empty ELSE tmp[Dir(d)]]
               /\ item' = [item EXCEPT ![d] = used]
               /\ offset' = [offset EXCEPT ![d] = 0]
               /\ fd' = [fd EXCEPT ![d] = "tmp"]
               /\ Goto(d, "block")
               /\ UNCHANGED <<dl_list, lock_files, exposed>>
      <4>0. commit' = commit
        BY <2>8 DEF OpenTmp
      <4>1. \A r \in Dirs : tmp[r] # Absent => tmp'[r] = tmp[r]
        BY <3>4 DEF TypeOK
      <4>2. CASE e # d
        <5>1. offset'[e] = offset[e] /\ fd'[e] = fd[e]
          BY <3>4, <4>2 DEF TypeOK
        <5>2. item[e] # NoItem =>
                /\ tmp[item[e].dir] # Absent => tmp'[item[e].dir] # Absent
                /\ Verified(tmp[item[e].dir]) => Verified(tmp'[item[e].dir])
          BY <1>0, <4>1 DEF Verified
        <5> QED
          BY <1>0, <2>s, <4>0, <4>2, <5>1, <5>2, OtherFills
      <4>3. tmp'[item[d].dir] # Absent
        BY <2>0, <3>1, <3>2, <3>4 DEF Dir, TypeOK
      <4>4. /\ item'[d] = used /\ used.dir = item[d].dir /\ fd'[d] = "tmp"
            /\ step'[d] = "block"
        BY <2>0, <3>1, <3>4 DEF Goto, TypeOK
      <4>5. item'[d].dir = item[d].dir
        BY <4>4
      <4>6. Fills(d)'
        BY <4>3, <4>4, <4>5 DEF Fills
      <4> QED
        BY <4>2, <4>6
    <3> QED
      BY <2>8, <3>3, <3>4 DEF OpenTmp
  <2>9. CASE NextBlock(d)
    <3>1. item[d] # NoItem /\ UNCHANGED <<tmp, commit>>
      BY <2>0, <2>9 DEF NextBlock, Locks, Working
    <3>2. CASE Finish(d, item[d], FALSE) /\ UNCHANGED offset
      BY <1>0, <2>s, <3>1, <3>2, FinishFills
    <3>3. CASE UNCHANGED <<item, dl_list, lock_files, exposed>>
      <4>1. CASE e # d
        <5>1. offset'[e] = offset[e] /\ fd'[e] = fd[e]
          BY <2>9, <4>1 DEF NextBlock, Finish, TypeOK
        <5> QED
          BY <1>0, <2>s, <3>1, <4>1, <5>1, OtherFills
      <4>2. Fills(d)'
        BY <2>0, <2>9, <3>1, <3>3 DEF NextBlock, Finish, Goto, Fills, TypeOK
      <4> QED
        BY <4>1, <4>2
    <3> QED
      BY <2>9, <3>2, <3>3 DEF NextBlock
  <2>10. CASE Fetch(d)
    <3>1. item[d] # NoItem /\ item[d].dir \in Dirs /\ UNCHANGED <<item, fd, exposed, mixed>>
      BY <2>0, <2>10 DEF Fetch, Locks, Working
    <3>2. PICK x \in {"good", "bad"} : Overwrite(d, offset[d], x)
      BY <2>10 DEF Fetch
    <3>3. ASSUME NEW c \in Contents PROVE [c EXCEPT ![offset[d]] = x] \in Contents
      BY DEF Contents
    <3>4. ASSUME NEW r \in Dirs
          PROVE  /\ tmp[r] # Absent => tmp'[r] # Absent
                 /\ commit[r] # Absent => commit'[r] # Absent
                 /\ r # item[d].dir => tmp'[r] = tmp[r]
      <4>1. tmp' = tmp \/ tmp' = [tmp EXCEPT ![item[d].dir] =
                                    [tmp[item[d].dir] EXCEPT ![offset[d]] = x]]
        BY <3>2 DEF Overwrite, Dir
      <4>2. commit' = commit \/ commit' = [commit EXCEPT ![item[d].dir] =
                                              [commit[item[d].dir] EXCEPT ![offset[d]] = x]]
        BY <3>2 DEF Overwrite, Dir
      <4>3. /\ tmp[r] # Absent => tmp[r] \in Contents
            /\ commit[r] # Absent => commit[r] \in Contents
        BY DEF TypeOK
      <4>4. tmp'[r] \in {tmp[r], [tmp[r] EXCEPT ![offset[d]] = x]}
        BY <4>1 DEF TypeOK
      <4>5. commit'[r] \in {commit[r], [commit[r] EXCEPT ![offset[d]] = x]}
        BY <4>2 DEF TypeOK
      <4>6. r # item[d].dir => tmp'[r] = tmp[r]
        BY <4>1 DEF TypeOK
      <4> QED
        BY <3>3, <4>3, <4>4, <4>5, <4>6, DownloadAssumption
    <3>5. CASE e # d
      <4>1. offset'[e] = offset[e]
        BY <2>10, <3>5 DEF Fetch, TypeOK
      <4>2. item[e] # NoItem /\ Verified(tmp[item[e].dir])
              => Verified(tmp'[item[e].dir]) \/ item[e].dir \in exposed'
        BY <1>0, <2>0, <3>1, <3>4, <3>5 DEF Apart, Verified
      <4> QED
        BY <1>0, <2>s, <3>1, <3>4, <3>5, <4>1, <4>2, OtherFills
    <3>6. Fills(d)'
      <4>1. step'[d] = "block"
        BY <2>10 DEF Fetch, Goto, TypeOK
      <4> QED
        BY <2>0, <3>1, <3>4, <4>1 DEF Fills
    <3> QED
      BY <3>5, <3>6
  <2>12. CASE Verify(d)
    <3>1. UNCHANGED <<item, fd, tmp, commit, offset, exposed, mixed>>
      BY <2>12 DEF Verify
    <3>2. CASE e # d
      BY <1>0, <2>s, <3>1, <3>2, OtherFills
    <3>3. Fills(d)'
      BY <2>0, <2>12, <3>1 DEF Verify, Goto, Dir, Fills, Verified, TypeOK
    <3> QED
      BY <3>2, <3>3
  <2>14. CASE Commit(d)
    <3>1. item[d] # NoItem /\ item[d].dir \in Dirs /\ tmp[item[d].dir] # Absent
      BY <2>0, <2>14 DEF Commit, Locks, Working, Dir
    <3>2. /\ commit' = [commit EXCEPT ![item[d].dir] = tmp[item[d].dir]]
          /\ tmp' = [tmp EXCEPT ![item[d].dir] = Absent]
          /\ mixed' = mixed \union ({item[d].dir} \intersect exposed)
      BY <2>14 DEF Commit, Dir
    <3>3. Fills(d)'
      <4>1. fd[d] = "none" /\ step'[d] \in {"loop", "drain"}
        BY <2>0, <2>14 DEF Commit, Goto, Fills, TypeOK
      <4>2. fd'[d] = "none"
        BY <2>14, <4>1 DEF Commit
      <4> QED
        BY <4>1, <4>2, NoFills
    <3>4. CASE e # d /\ ~(item[e] # NoItem /\ item[e].dir = item[d].dir)
      <4>1. fd'[e] = fd[e] /\ offset'[e] = offset[e]
        BY <2>14, <3>4 DEF Commit, Dir
      <4>2. item[e] # NoItem => /\ tmp'[item[e].dir] = tmp[item[e].dir]
                                /\ commit'[item[e].dir] = commit[item[e].dir]
        BY <1>0, <3>2, <3>4 DEF TypeOK
      <4> QED
        BY <1>0, <2>s, <3>4, <4>1, <4>2, OtherFills
    <3>5. CASE e # d /\ item[e] # NoItem /\ item[e].dir = item[d].dir
      <4>1. item[d].dir \in exposed /\ item[d].dir \in mixed'
        BY <2>0, <3>1, <3>2, <3>5 DEF Apart
      <4>2. item'[e] = item[e] /\ step'[e] = step[e] /\ item[e].dir \in exposed'
        BY <2>s, <3>5, <4>1 DEF Stays
      <4>3. commit'[item[e].dir] # Absent
        BY <3>1, <3>2, <3>5 DEF TypeOK
      <4>4. offset' = offset /\ fd'[e] \in {"none", "commit"} /\ (fd'[e] # "none" => fd[e] # "none")
        BY <2>14, <3>5 DEF Commit, Dir, TypeOK
      <4> QED
        BY <1>0, <3>5, <4>1, <4>2, <4>3, <4>4 DEF Fills
    <3> QED
      BY <3>3, <3>4, <3>5
  <2> QED
    BY <1>3, <2>1, <2>2, <2>5, <2>7, <2>8, <2>9, <2>10, <2>12, <2>14 DEF Thread
<1> QED
  BY <1>1, <1>2, <1>3 DEF Next

\* A thread takes the download it works on from its list when the directory is
\* not locked, and keeps it till the end.
Takes(d) ==
  item'[d] # NoItem =>
    \/ item[d] # NoItem /\ item'[d].dir = item[d].dir
    \/ item'[d].dir \notin lock_files /\ exposed' = exposed

LEMMA ThreadTakes ==
  ASSUME TypeOK, NEW d \in Devices, Locks(d),
         Open(d) \/ CloseDevice(d) \/ Joined(d) \/ Thread(d)
  PROVE  Takes(d)
<1>1. CASE \E used, success : Finish(d, used, success)
  BY <1>1 DEF Finish, Takes, TypeOK
<1>2. CASE AlreadyDownloaded(d) \/ FetchFails(d) \/ Mismatch(d) \/ CommitFails(d)
  <2>1. \E used, success : Finish(d, used, success)
    BY <1>2 DEF AlreadyDownloaded, FetchFails, Mismatch, CommitFails
  <2> QED
    BY <2>1, <1>1
<1>3. CASE OpenTmp(d)
  <2>1. item[d] # NoItem
    BY <1>3 DEF OpenTmp, Locks, Working
  <2>2. CASE item' = [item EXCEPT ![d] = [item[d] EXCEPT !.try_cnt = item[d].try_cnt - 1]]
    BY <2>1, <2>2, ItemFacts DEF Takes, TypeOK
  <2> QED
    BY <1>1, <1>3, <2>2 DEF OpenTmp
<1>4. CASE UNCHANGED item
  BY <1>4 DEF Takes
<1>5. CASE NextBlock(d)
  BY <1>1, <1>4, <1>5 DEF NextBlock
<1>6. CASE Commit(d)
  BY <1>6 DEF Commit, Takes, TypeOK
<1>7. CASE Pick(d)
  BY <1>4, <1>7 DEF Pick, Takes, TypeOK
<1>8. CASE \/ Open(d) \/ CloseDevice(d) \/ Joined(d) \/ Loop(d) \/ Drain(d)
           \/ Fetch(d) \/ Verify(d)
  BY <1>4, <1>8 DEF Open, CloseDevice, Joined, Loop, Drain, Fetch, Verify
<1> QED
  BY <1>2, <1>3, <1>5, <1>6, <1>7, <1>8 DEF Thread

\* A directory is locked by one thread at a time, or it is exposed.
LEMMA ApartStep ==
  ASSUME TypeOK, DevicesInv, OthersInv, NEW e \in Devices, NEW f \in Devices,
         [Next]_vars
  PROVE  Apart(e, f)'
<1>0. Apart(e, f) /\ Apart(f, e) /\ Locks(e) /\ Locks(f)
  BY DEF DevicesInv, OthersInv
<1>1. CASE Crash /\ UNCHANGED flaky
  BY <1>1 DEF Crash, Apart
<1>2. CASE UNCHANGED vars
  BY <1>2, <1>0 DEF vars, deviceVars, Apart
<1>3. ASSUME NEW d \in Devices, UNCHANGED flaky,
             Open(d) \/ CloseDevice(d) \/ Joined(d) \/ Thread(d)
      PROVE  Apart(e, f)'
  <2>1. Stays(d) /\ Takes(d) /\ Locks(d)
    BY <1>3, ThreadStays, ThreadTakes DEF DevicesInv
  <2>2. CASE e # d /\ f # d
    BY <1>0, <2>1, <2>2 DEF Apart, Stays
  <2>3. CASE e = d /\ f # d
    BY <1>0, <2>1, <2>3 DEF Apart, Stays, Takes, Locks
  <2>4. CASE e # d /\ f = d
    BY <1>0, <2>1, <2>4 DEF Apart, Stays, Takes, Locks
  <2> QED
    BY <2>2, <2>3, <2>4 DEF Apart
<1> QED
  BY <1>1, <1>2, <1>3 DEF Next

\* A commit file is made of a verified one and never written to, unless its
\* directory was exposed when it was renamed.
LEMMA GenuineStep ==
  ASSUME TypeOK, DevicesInv, FilesInv, NEW r \in Dirs,
         [Next]_vars
  PROVE  Genuine(r)'
<1>0. Genuine(r)
  BY DEF FilesInv
<1>1. CASE Crash /\ UNCHANGED flaky
  BY <1>1, <1>0 DEF Crash, Genuine, Verified
<1>2. CASE UNCHANGED vars
  BY <1>2, <1>0 DEF vars, deviceVars, Genuine, Verified
<1>3. ASSUME NEW d \in Devices, UNCHANGED flaky,
             Open(d) \/ CloseDevice(d) \/ Joined(d) \/ Thread(d)
      PROVE  Genuine(r)'
  <2>0. /\ Alive(d) /\ Locks(d) /\ Fills(d)
        /\ item[d] # NoItem => item[d].dir \in Dirs
    BY ItemFacts DEF DevicesInv
  <2>1. CASE Open(d)
    BY <1>3, <2>1, <1>0, <2>0 DEF Open, Dir, Genuine, Verified
  <2>2. CASE CloseDevice(d)
    BY <1>3, <2>2, <1>0, <2>0 DEF CloseDevice, Dir, Genuine, Verified
  <2>3. CASE Joined(d)
    BY <1>3, <2>3, <1>0, <2>0 DEF Joined, Dir, Genuine, Verified
  <2>4. CASE Loop(d)
    BY <1>3, <2>4, <1>0, <2>0 DEF Loop, Goto, Dir, Genuine, Verified
  <2>5. CASE Pick(d)
    BY <1>3, <2>5, <1>0, <2>0 DEF Pick, Goto, Dir, Genuine, Verified
  <2>6. CASE Drain(d)
    BY <1>3, <2>6, <1>0, <2>0 DEF Drain, Goto, Dir, Genuine, Verified
  <2>7. CASE AlreadyDownloaded(d)
    BY <1>3, <2>7, <1>0, <2>0 DEF AlreadyDownloaded, Finish, Goto, Switch, Dir, Genuine,
        Verified
  <2>8. CASE OpenTmp(d)
    BY <1>3, <2>8, <1>0, <2>0 DEF OpenTmp, Finish, Goto, Dir, Genuine, Verified
  <2>9. CASE NextBlock(d)
    BY <1>3, <2>9, <1>0, <2>0 DEF NextBlock, Finish, Goto, Dir, Genuine, Verified
  <2>10. CASE Fetch(d)
    <3>1. item[d] # NoItem /\ item[d].dir \in Dirs /\ mixed' = mixed
      BY <2>0, <2>10 DEF Fetch, Locks, Working
    <3>2. r \in mixed \/ commit'[r] = commit[r]
      BY <2>0, <2>10, <3>1 DEF Fetch, Overwrite, Fills, Dir, TypeOK
    <3> QED
      BY <1>0, <3>1, <3>2 DEF Genuine, Verified
  <2>11. CASE FetchFails(d)
    BY <1>3, <2>11, <1>0, <2>0 DEF FetchFails, Finish, Goto, Dir, Genuine, Verified
  <2>12. CASE Verify(d)
    BY <1>3, <2>12, <1>0, <2>0 DEF Verify, Goto, Dir, Genuine, Verified
  <2>13. CASE Mismatch(d)
    BY <1>3, <2>13, <1>0, <2>0 DEF Mismatch, Finish, Goto, Dir, Genuine, Verified
  <2>14. CASE Commit(d)
    <3>1. /\ item[d].dir \in Dirs
          /\ Verified(tmp[item[d].dir]) \/ item[d].dir \in exposed
      BY <2>0, <2>14 DEF Commit, Locks, Working, Fills
    <3>2. commit'[r] = IF r = item[d].dir THEN tmp[r] ELSE commit[r]
      BY <2>14, <3>1 DEF Commit, Dir, TypeOK
    <3>3. mixed' = mixed \union ({item[d].dir} \intersect exposed)
      BY <2>14 DEF Commit, Dir
    <3> QED
      BY <1>0, <3>1, <3>2, <3>3 DEF Genuine, Verified
  <2>15. CASE CommitFails(d)
    BY <1>3, <2>15, <1>0, <2>0 DEF CommitFails, Finish, Goto, Dir, Genuine, Verified
  <2> QED
    BY <1>3, <2>1, <2>2, <2>3, <2>4, <2>5, <2>6, <2>7, <2>8, <2>9, <2>10, <2>11, <2>12,
        <2>13, <2>14, <2>15 DEF Thread
<1> QED
  BY <1>1, <1>2, <1>3 DEF Next

\* A layer is switched when its commit file is there.
LEMMA BackedStep ==
  ASSUME TypeOK, DevicesInv, FilesInv, NEW e \in Devices, NEW r \in Dirs,
         [Next]_vars
  PROVE  Backed(e, r)'
<1>0. Backed(e, r)
  BY DEF FilesInv
<1>1. CASE Crash /\ UNCHANGED flaky
  BY <1>1, <1>0 DEF Crash, Backed, TypeOK
<1>2. CASE UNCHANGED vars
  BY <1>2, <1>0 DEF vars, deviceVars, Backed, TypeOK
<1>3. ASSUME NEW d \in Devices, UNCHANGED flaky,
             Open(d) \/ CloseDevice(d) \/ Joined(d) \/ Thread(d)
      PROVE  Backed(e, r)'
  <2>0. /\ Alive(d) /\ Locks(d) /\ Fills(d)
        /\ item[d] # NoItem => item[d].dir \in Dirs
    BY ItemFacts DEF DevicesInv
  <2>1. CASE Open(d)
    BY <1>3, <2>1, <1>0, <2>0 DEF Open, Dir, Backed, TypeOK
  <2>2. CASE CloseDevice(d)
    BY <1>3, <2>2, <1>0, <2>0 DEF CloseDevice, Dir, Backed, TypeOK
  <2>3. CASE Joined(d)
    BY <1>3, <2>3, <1>0, <2>0 DEF Joined, Dir, Backed, TypeOK
  <2>4. CASE Loop(d)
    BY <1>3, <2>4, <1>0, <2>0 DEF Loop, Goto, Dir, Backed, TypeOK
  <2>5. CASE Pick(d)
    BY <1>3, <2>5, <1>0, <2>0 DEF Pick, Goto, Dir, Backed, TypeOK
  <2>6. CASE Drain(d)
    BY <1>3, <2>6, <1>0, <2>0 DEF Drain, Goto, Dir, Backed, TypeOK
  <2>7. CASE AlreadyDownloaded(d)
    <3>1. item[d].dir \in Dirs /\ commit' = commit
      BY <2>0, <2>7 DEF AlreadyDownloaded, Locks, Working
    <3>2. sw'[e][r] = sw[e][r] \/ (e = d /\ r = item[d].dir)
      BY <2>7, <3>1 DEF AlreadyDownloaded, Switch, Dir, TypeOK
    <3> QED
      BY <1>0, <2>7, <3>1, <3>2 DEF AlreadyDownloaded, Dir, Backed
  <2>8. CASE OpenTmp(d)
    BY <1>3, <2>8, <1>0, <2>0 DEF OpenTmp, Finish, Goto, Dir, Backed, TypeOK
  <2>9. CASE NextBlock(d)
    BY <1>3, <2>9, <1>0, <2>0 DEF NextBlock, Finish, Goto, Dir, Backed, TypeOK
  <2>10. CASE Fetch(d)
    <3>1. item[d] # NoItem /\ item[d].dir \in Dirs
      BY <2>0, <2>10 DEF Fetch, Locks, Working
    <3>2. PICK x \in {"good", "bad"} : Overwrite(d, offset[d], x)
      BY <2>10 DEF Fetch
    <3>3. commit'[r] \in {commit[r], [commit[r] EXCEPT ![offset[d]] = x]}
      BY <3>1, <3>2 DEF Overwrite, Dir, TypeOK
    <3>4. ASSUME commit[r] # Absent PROVE commit'[r] # Absent
      <4>1. commit[r] \in Contents
        BY <3>4 DEF TypeOK
      <4>2. [commit[r] EXCEPT ![offset[d]] = x] \in Contents
        BY <4>1 DEF Contents
      <4> QED
        BY <3>3, <4>1, <4>2, DownloadAssumption
    <3> QED
      BY <1>0, <2>10, <3>4 DEF Fetch, Backed
  <2>11. CASE FetchFails(d)
    BY <1>3, <2>11, <1>0, <2>0 DEF FetchFails, Finish, Goto, Dir, Backed, TypeOK
  <2>12. CASE Verify(d)
    BY <1>3, <2>12, <1>0, <2>0 DEF Verify, Goto, Dir, Backed, TypeOK
  <2>13. CASE Mismatch(d)
    BY <1>3, <2>13, <1>0, <2>0 DEF Mismatch, Finish, Goto, Dir, Backed, TypeOK
  <2>14. CASE Commit(d)
    <3>1. item[d].dir \in Dirs
      BY <2>0, <2>14 DEF Commit, Locks, Working
    <3>2. commit'[r] = IF r = item[d].dir THEN tmp[r] ELSE commit[r]
      BY <2>14, <3>1 DEF Commit, Dir, TypeOK
    <3>3. sw'[e][r] = sw[e][r] \/ (e = d /\ r = item[d].dir)
      BY <2>14, <3>1 DEF Commit, Switch, Dir, TypeOK
    <3> QED
      BY <1>0, <2>14, <3>2, <3>3 DEF Commit, Dir, Backed
  <2>15. CASE CommitFails(d)
    BY <1>3, <2>15, <1>0, <2>0 DEF CommitFails, Finish, Goto, Dir, Backed, TypeOK
  <2> QED
    BY <1>3, <2>1, <2>2, <2>3, <2>4, <2>5, <2>6, <2>7, <2>8, <2>9, <2>10, <2>11, <2>12,
        <2>13, <2>14, <2>15 DEF Thread
<1> QED
  BY <1>1, <1>2, <1>3 DEF Next

LEMMA InitInv ==
  Init => Inv
<1> SUFFICES ASSUME Init PROVE Inv
  OBVIOUS
<1>1. TypeOK
  <2>1. flaky \in BOOLEAN
    BY DownloadAssumption DEF Init
  <2>2. dl_list \in [Devices -> Seq(Items)]
    BY DEF Init
  <2> QED
    BY <2>1, <2>2, DownloadAssumption DEF Init, TypeOK
<1>2. DevicesInv
  BY DEF Init, DevicesInv, Alive, Locks, Fills, Working
<1>3. OthersInv /\ FilesInv
  BY DEF Init, OthersInv, Apart, FilesInv, Genuine, Backed
<1> QED
  BY <1>1, <1>2, <1>3 DEF Inv

LEMMA InvStep ==
  ASSUME Inv, [Next]_vars
  PROVE  Inv'
<1>1. TypeOK /\ DevicesInv /\ OthersInv /\ FilesInv
  BY DEF Inv
<1>2. TypeOK'
  BY <1>1, TypeStep
<1>3. DevicesInv'
  <2>1. ASSUME NEW d \in Devices PROVE Alive(d)' /\ Locks(d)' /\ Fills(d)'
    BY <1>1, AliveStep, LocksStep, FillsStep
  <2> QED
    BY <2>1 DEF DevicesInv
<1>4. OthersInv'
  BY <1>1, ApartStep DEF OthersInv
<1>5. FilesInv'
  BY <1>1, GenuineStep, BackedStep DEF FilesInv
<1> QED
  BY <1>2, <1>3, <1>4, <1>5 DEF Inv

LEMMA Invariance == Spec => []Inv
<1>1. Inv /\ [Next]_vars => Inv'
  BY InvStep
<1> QED
  BY <1>1, InitInv, PTL DEF Spec

-----------------------------------------------------------------------------
(* The theorems *)

\* One thread at a time downloads to a directory: lock_file() and unlock_file() exclude
\* the others, for any number of devices, opened, removed and opened again in any
\* order, but for the directories that the destructor of a waiting download of a
\* removed device unlocked under the thread at work.
THEOREM SingleDownloader == Spec => []OneDownloader
<1>1. Inv => OneDownloader
  BY DEF Inv, OthersInv, Apart, OneDownloader, WorksOn, Dir
<1> QED
  BY <1>1, Invariance, PTL

\* A commit file has the verified contents of the blob, whatever failed and however
\* often the process crashed, unless two threads were let into its directory when it
\* was renamed; and a layer is switched only to a commit file that exists.
THEOREM CommitFilesVerified == Spec => []CommitVerified
<1>1. Inv => CommitVerified
  BY DEF Inv, FilesInv, Genuine, Backed, CommitVerified
<1> QED
  BY <1>1, Invariance, PTL

=============================================================================
