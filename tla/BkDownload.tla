------------------------------ MODULE BkDownload ------------------------------
(***************************************************************************)
(* Background download of remote layers (overlaybd/src/bk_download.cpp,    *)
(* switch_file.cpp and the parts of image_file.cpp that drive them).  Each *)
(* device has a photon thread that works through its list of layers: it    *)
(* locks the layer's directory in the set lock_files shared by all         *)
(* devices, fills a temporary file block by block, verifies its sha256,    *)
(* renames it to the commit file and switches the device's layer from the  *)
(* registry to that file.                                                  *)
(*                                                                         *)
(* Threads switch where they sleep, read from the registry or wait for the *)
(* checksum; local file calls block.  An action is what runs in between.   *)
(***************************************************************************)
EXTENDS Integers, Sequences, FiniteSets, SequencesExt

CONSTANTS Devices, Dirs,  \* every device has a layer in each directory
          NBlocks,        \* blocks of a blob
          PartialTail,    \* is the last block shorter than block_size?
          TryCnt,         \* download.tryCnt of the configuration
          MaxFaults,      \* bound on failed or corrupted reads of the registry
          MayFail,        \* may local calls fail? TRUE, FALSE or either
          MaxReopens,     \* bound on removed devices that come back in the same process
          MaxCrashes,     \* bound on crashes of the process
          Absent, NoItem  \* no such file; no download under way

Items == [dir : Dirs, try_cnt : Int, force : BOOLEAN]  \* downloads
Contents == [0..(NBlocks - 1) -> {"hole", "good", "bad"}]

\* tryCnt is a signed configuration value kept in a uint32_t that is
\* decremented before it is compared with 0: 0 would mean 2^32 tries.
ASSUME DownloadAssumption ==
  /\ IsFiniteSet(Dirs) /\ NoItem \notin Items /\ Absent \notin Contents
  /\ NBlocks \in Nat \ {0} /\ TryCnt \in Nat \ {0}
  /\ MaxFaults \in Nat /\ MaxReopens \in Nat /\ MaxCrashes \in Nat
  /\ {PartialTail} \cup MayFail \subseteq BOOLEAN

VARIABLES
  status,     \* ImageFile::m_status, `running` of its downloads
  dl_list,    \* per device, the downloads that wait
  item,       \* the download at work, or NoItem
  step,       \* where the device's thread is
  offset,     \* the block download_blob() is at
  fd,         \* the file behind dst: the "tmp" or, after a rename, the "commit" file
  sw,         \* per device and directory: is the SwitchFile "remote" or "local"?
  lock_files, \* the static set of locked directories
  tmp, commit,\* per directory, the two files
  flaky,      \* do opens, local writes, renames and switches fail now and then?
  \* history
  exposed,    \* directories unlocked under a download that is still at work there
  mixed,      \* directories whose commit file was renamed while they were exposed
  faults, crashes, reopens

deviceVars == <<status, dl_list, item, step, offset, fd, sw>>
boundVars == <<faults, crashes, reopens>>
vars == <<deviceVars, lock_files, tmp, commit, flaky, exposed, mixed, boundVars>>

Blocks == 0..(NBlocks - 1)
Empty == [b \in Blocks |-> "hole"]
Verified(file) == file # Absent /\ \A b \in Blocks : file[b] = "good"
Running(d) == status[d] = "running"
Dir(d) == item[d].dir
WorksOn(d, r) == item[d] # NoItem /\ Dir(d) = r

Init ==
  /\ status = [d \in Devices |-> "new"]
  /\ dl_list = [d \in Devices |-> << >>]
  /\ item = [d \in Devices |-> NoItem]
  /\ step = [d \in Devices |-> "exit"]
  /\ offset = [d \in Devices |-> 0]
  /\ fd = [d \in Devices |-> "none"]
  /\ sw = [d \in Devices |-> [r \in Dirs |-> "remote"]]
  /\ lock_files = {}
  /\ tmp = [r \in Dirs |-> Absent] /\ commit = [r \in Dirs |-> Absent]
  /\ flaky \in MayFail
  /\ exposed = {} /\ mixed = {}
  /\ faults = 0 /\ crashes = 0 /\ reopens = 0

-----------------------------------------------------------------------------
(* The device *)

\* open_lowers() opens the layers in parallel: the commit file where there is
\* one, else the registry, with a download in the list unless the source of
\* the download cannot be opened.  start_bk_dl_thread() starts the thread.
Open(d) ==
  /\ \/ status[d] = "new" /\ UNCHANGED reopens
     \/ status[d] = "gone" /\ reopens < MaxReopens /\ reopens' = reopens + 1
  /\ LET remote == {r \in Dirs : commit[r] = Absent}
         download(r) == [dir |-> r, try_cnt |-> TryCnt, force |-> FALSE]
     IN /\ sw' = [sw EXCEPT ![d] = [r \in Dirs |-> IF r \in remote THEN "remote" ELSE "local"]]
        /\ \E opened \in IF flaky THEN SUBSET remote ELSE {remote} :
             \E order \in SetToSeqs(opened) :
               dl_list' = [dl_list EXCEPT ![d] = [i \in 1..Len(order) |-> download(order[i])]]
  /\ status' = [status EXCEPT ![d] = "running"]
  /\ step' = [step EXCEPT ![d] = IF dl_list'[d] = << >> THEN "exit" ELSE "loop"]
  /\ UNCHANGED <<item, offset, fd, lock_files, tmp, commit, exposed, mixed, faults, crashes>>

\* ~ImageFile() sets m_status and then waits for the thread.
CloseDevice(d) ==
  /\ Running(d)
  /\ status' = [status EXCEPT ![d] = "exiting"]
  /\ UNCHANGED <<dl_list, item, step, offset, fd, sw, lock_files, tmp, commit, exposed, mixed,
                 boundVars>>

Joined(d) ==
  /\ status[d] = "exiting" /\ step[d] = "exit"
  /\ status' = [status EXCEPT ![d] = "gone"]
  /\ UNCHANGED <<dl_list, item, step, offset, fd, sw, lock_files, tmp, commit, exposed, mixed,
                 boundVars>>

\* The process dies and is started again; the files stay.
Crash ==
  /\ crashes < MaxCrashes
  /\ crashes' = crashes + 1
  /\ status' = [d \in Devices |-> "new"]
  /\ dl_list' = [d \in Devices |-> << >>]
  /\ item' = [d \in Devices |-> NoItem]
  /\ step' = [d \in Devices |-> "exit"]
  /\ offset' = [d \in Devices |-> 0]
  /\ fd' = [d \in Devices |-> "none"]
  /\ sw' = [d \in Devices |-> [r \in Dirs |-> "remote"]]
  /\ lock_files' = {} /\ exposed' = {}
  /\ UNCHANGED <<tmp, commit, mixed, faults, reopens>>

-----------------------------------------------------------------------------
(* bk_download_proc() *)

Goto(d, s) == step' = [step EXCEPT ![d] = s]

\* The head of the loop; then the thread sleeps.
Loop(d) ==
  /\ step[d] = "loop"
  /\ Goto(d, CASE dl_list[d] = << >> -> "exit"
               [] dl_list[d] # << >> /\ ~Running(d) -> "drain"
               [] OTHER -> "pick")
  /\ UNCHANGED <<status, dl_list, item, offset, fd, sw, lock_files, tmp, commit, exposed, mixed,
                 boundVars>>

\* Mutant: the directory is not locked.
PickUnlocked(d) ==
  /\ step[d] = "pick"
  /\ item' = [item EXCEPT ![d] = Head(dl_list[d])]
  /\ dl_list' = [dl_list EXCEPT ![d] = Tail(@)]
  /\ Goto(d, "download")
  /\ UNCHANGED <<status, offset, fd, sw, lock_files, tmp, commit, exposed, mixed, boundVars>>

\* The first download of the list; it goes to the end of it when another
\* device has the directory locked.
Pick(d) ==
  /\ step[d] = "pick"
  /\ LET first == Head(dl_list[d])
     IN \/ /\ first.dir \in lock_files
           /\ dl_list' = [dl_list EXCEPT ![d] = Append(Tail(@), first)]
           /\ Goto(d, "loop")
           /\ UNCHANGED <<item, lock_files>>
        \/ /\ first.dir \notin lock_files
           /\ lock_files' = lock_files \union {first.dir}
           /\ dl_list' = [dl_list EXCEPT ![d] = Tail(@)]
           /\ item' = [item EXCEPT ![d] = first]
           /\ Goto(d, "download")
  /\ UNCHANGED <<status, offset, fd, sw, tmp, commit, exposed, mixed, boundVars>>

\* The work of d on a directory ends: nobody is left there who lost his lock.
Leave(d, r) ==
  exposed' = IF \E e \in Devices \ {d} : WorksOn(e, r) THEN exposed ELSE exposed \ {r}

\* Mutant: a download that is tried again keeps its directory locked.
FinishKeepsLock(d, used, success) ==
  /\ lock_files' = IF ~success /\ used.try_cnt > 0 THEN lock_files ELSE lock_files \ {used.dir}
  /\ dl_list' = IF Running(d) /\ ~success /\ used.try_cnt > 0
                THEN [dl_list EXCEPT ![d] = Append(@, used)] ELSE dl_list
  /\ Goto(d, IF Running(d) THEN "loop" ELSE "drain")
  /\ item' = [item EXCEPT ![d] = NoItem]
  /\ fd' = [fd EXCEPT ![d] = "none"]
  /\ Leave(d, used.dir)

\* download() returned: unlock, then try again later or delete the download.
Finish(d, used, success) ==
  /\ lock_files' = lock_files \ {used.dir}
  /\ dl_list' = IF Running(d) /\ ~success /\ used.try_cnt > 0
                THEN [dl_list EXCEPT ![d] = Append(@, used)] ELSE dl_list
  /\ Goto(d, IF Running(d) THEN "loop" ELSE "drain")
  /\ item' = [item EXCEPT ![d] = NoItem]
  /\ fd' = [fd EXCEPT ![d] = "none"]
  /\ Leave(d, used.dir)

\* The thread of a removed device deletes the downloads that are left; the
\* destructor of each unlocks its directory, whoever locked it.
Drain(d) ==
  /\ step[d] = "drain"
  /\ LET left == {dl_list[d][i].dir : i \in 1..Len(dl_list[d])}
     IN /\ lock_files' = lock_files \ left
        /\ exposed' = exposed \union {r \in left : \E e \in Devices : WorksOn(e, r)}
  /\ dl_list' = [dl_list EXCEPT ![d] = << >>]
  /\ Goto(d, "exit")
  /\ UNCHANGED <<status, item, offset, fd, sw, tmp, commit, mixed, boundVars>>

-----------------------------------------------------------------------------
(* download() *)

\* switch_to_local_file(): a commit file that cannot be opened as a tar and
\* zfile leaves the layer remote.
Switch(d, r) ==
  \/ sw' = [sw EXCEPT ![d][r] = "local"]
  \/ flaky /\ UNCHANGED sw

\* check_downloaded() finds the commit file.
AlreadyDownloaded(d) ==
  /\ step[d] = "download"
  /\ commit[Dir(d)] # Absent
  /\ Switch(d, Dir(d))
  /\ Finish(d, item[d], TRUE)
  /\ UNCHANGED <<status, offset, tmp, commit, mixed, boundVars>>

\* download_blob() takes a try and opens or creates the temporary file.
OpenTmp(d) ==
  /\ step[d] = "download"
  /\ commit[Dir(d)] = Absent
  /\ LET used == [item[d] EXCEPT !.try_cnt = @ - 1]
     IN \/ /\ tmp' = [tmp EXCEPT ![Dir(d)] = IF @ = Absent THEN Empty ELSE @]
           /\ item' = [item EXCEPT ![d] = used]
           /\ offset' = [offset EXCEPT ![d] = 0]
           /\ fd' = [fd EXCEPT ![d] = "tmp"]
           /\ Goto(d, "block")
           /\ UNCHANGED <<dl_list, lock_files, exposed>>
        \/ flaky /\ Finish(d, used, FALSE) /\ UNCHANGED <<tmp, offset>>
  /\ UNCHANGED <<status, sw, commit, mixed, boundVars>>

\* What dst shows of block b, and dst with block b overwritten.
Present(d, b) ==
  \/ fd[d] = "tmp" /\ tmp[Dir(d)][b] # "hole"
  \/ fd[d] = "commit" /\ commit[Dir(d)][b] # "hole"
Overwrite(d, b, content) ==
  /\ tmp' = IF fd[d] = "tmp" THEN [tmp EXCEPT ![Dir(d)][b] = content] ELSE tmp
  /\ commit' = IF fd[d] = "commit" THEN [commit EXCEPT ![Dir(d)][b] = content] ELSE commit

\* SEEK_HOLE finds no hole in the block: the end of the file is one, so a
\* short last block never counts as downloaded.
Skippable(d) ==
  /\ ~item[d].force
  /\ Present(d, offset[d])
  /\ ~(PartialTail /\ offset[d] = NBlocks - 1)

\* The head of the loop over the blocks, up to the read of the registry.
NextBlock(d) ==
  /\ step[d] = "block"
  /\ \/ /\ offset[d] = NBlocks
        /\ fd' = [fd EXCEPT ![d] = "none"]
        /\ Goto(d, "verify")
        /\ UNCHANGED <<item, dl_list, lock_files, exposed, offset>>
     \/ /\ offset[d] < NBlocks /\ ~Running(d)
        /\ Finish(d, item[d], FALSE)
        /\ UNCHANGED offset
     \/ /\ offset[d] < NBlocks /\ Running(d) /\ Skippable(d)
        /\ offset' = [offset EXCEPT ![d] = @ + 1]
        /\ UNCHANGED <<item, dl_list, lock_files, exposed, fd, step>>
     \/ /\ offset[d] < NBlocks /\ Running(d) /\ ~Skippable(d)
        /\ Goto(d, "fetch")
        /\ UNCHANGED <<item, dl_list, lock_files, exposed, fd, offset>>
  /\ UNCHANGED <<status, sw, tmp, commit, mixed, boundVars>>

\* The read and its two tries, then the write and its two: the block is
\* stored, stored wrongly (a short read leaves old bytes in the buffer), or
\* the download is given up.
Fetch(d) ==
  /\ step[d] = "fetch"
  /\ \/ /\ Overwrite(d, offset[d], "good")
        /\ UNCHANGED faults
     \/ /\ faults < MaxFaults /\ faults' = faults + 1
        /\ Overwrite(d, offset[d], "bad")
  /\ offset' = [offset EXCEPT ![d] = @ + 1]
  /\ Goto(d, "block")
  /\ UNCHANGED <<status, item, dl_list, lock_files, fd, sw, exposed, mixed, crashes, reopens>>

FetchFails(d) ==
  /\ step[d] = "fetch"
  /\ \/ flaky /\ UNCHANGED faults
     \/ faults < MaxFaults /\ faults' = faults + 1
  /\ Finish(d, item[d], FALSE)
  /\ UNCHANGED <<status, offset, sw, tmp, commit, mixed, crashes, reopens>>

\* Mutant: a complete file is taken for a correct one.
VerifyUnchecked(d) ==
  /\ step[d] = "verify"
  /\ Goto(d, IF tmp[Dir(d)] # Absent THEN "matched" ELSE "mismatched")
  /\ UNCHANGED <<status, dl_list, item, offset, fd, sw, lock_files, tmp, commit, exposed, mixed,
                 boundVars>>

\* The checksum thread is done; the download has yet to wake up.
Verify(d) ==
  /\ step[d] = "verify"
  /\ Goto(d, IF Verified(tmp[Dir(d)]) THEN "matched" ELSE "mismatched")
  /\ UNCHANGED <<status, dl_list, item, offset, fd, sw, lock_files, tmp, commit, exposed, mixed,
                 boundVars>>

\* Mutant: the next try trusts the blocks of this one.
MismatchKeepsBlocks(d) ==
  /\ step[d] = "mismatched"
  /\ Finish(d, item[d], FALSE)
  /\ UNCHANGED <<status, offset, sw, tmp, commit, mixed, boundVars>>

Mismatch(d) ==
  /\ step[d] = "mismatched"
  /\ Finish(d, [item[d] EXCEPT !.force = TRUE], FALSE)
  /\ UNCHANGED <<status, offset, sw, tmp, commit, mixed, boundVars>>

\* rename(); a file that another thread has open goes along.
Commit(d) ==
  /\ step[d] = "matched"
  /\ tmp[Dir(d)] # Absent
  /\ commit' = [commit EXCEPT ![Dir(d)] = tmp[Dir(d)]]
  /\ tmp' = [tmp EXCEPT ![Dir(d)] = Absent]
  /\ fd' = [e \in Devices |->
              IF item[e] = NoItem \/ fd[e] = "none" \/ item[e].dir # Dir(d) THEN fd[e]
              ELSE IF fd[e] = "tmp" THEN "commit" ELSE "none"]
  /\ Switch(d, Dir(d))
  /\ lock_files' = lock_files \ {Dir(d)}
  /\ mixed' = mixed \union ({Dir(d)} \intersect exposed)
  /\ Leave(d, Dir(d))
  /\ item' = [item EXCEPT ![d] = NoItem]
  /\ Goto(d, IF Running(d) THEN "loop" ELSE "drain")
  /\ UNCHANGED <<status, dl_list, offset, boundVars>>

CommitFails(d) ==
  /\ step[d] = "matched"
  /\ flaky \/ tmp[Dir(d)] = Absent
  /\ Finish(d, item[d], FALSE)
  /\ UNCHANGED <<status, offset, sw, tmp, commit, mixed, boundVars>>

-----------------------------------------------------------------------------
Thread(d) ==
  \/ Loop(d) \/ Pick(d) \/ Drain(d)
  \/ AlreadyDownloaded(d) \/ OpenTmp(d) \/ NextBlock(d) \/ Fetch(d) \/ FetchFails(d)
  \/ Verify(d) \/ Mismatch(d) \/ Commit(d) \/ CommitFails(d)

Next ==
  /\ \/ \E d \in Devices : Open(d) \/ CloseDevice(d) \/ Joined(d) \/ Thread(d)
     \/ Crash
  /\ UNCHANGED flaky

Spec == Init /\ [][Next]_vars

\* A thread that can run runs: sleeps end, registry reads return or time out.
FairSpec == Spec /\ \A d \in Devices : WF_vars(Thread(d) /\ UNCHANGED flaky)
-----------------------------------------------------------------------------
(* Properties *)

TypeOK ==
  /\ status \in [Devices -> {"new", "running", "exiting", "gone"}]
  /\ dl_list \in [Devices -> Seq(Items)] /\ item \in [Devices -> Items \union {NoItem}]
  /\ step \in [Devices -> {"exit", "loop", "pick", "drain", "download", "block", "fetch",
                           "verify", "matched", "mismatched"}]
  /\ offset \in [Devices -> 0..NBlocks] /\ fd \in [Devices -> {"none", "tmp", "commit"}]
  /\ sw \in [Devices -> [Dirs -> {"remote", "local"}]]
  /\ lock_files \subseteq Dirs
  /\ tmp \in [Dirs -> Contents \union {Absent}] /\ commit \in [Dirs -> Contents \union {Absent}]
  /\ flaky \in BOOLEAN /\ exposed \subseteq Dirs /\ mixed \subseteq Dirs
  /\ faults \in 0..MaxFaults /\ crashes \in 0..MaxCrashes /\ reopens \in 0..MaxReopens

\* One thread at a time works on a directory: that is what lock_file() is for.  The
\* exception is a directory that the destructor of a download of some removed device,
\* which waited for it, unlocked under the one at work; until they all have left it.
OneDownloader ==
  \A r \in Dirs \ exposed, d, e \in Devices : WorksOn(d, r) /\ WorksOn(e, r) => d = e

\* A commit file has the verified contents of the blob, and stays that way:
\* a layer is served from it, now or by a later process, without another look.
\* Only one that was renamed in an exposed directory may not be.
CommitVerified ==
  /\ \A r \in Dirs \ mixed : commit[r] # Absent => Verified(commit[r])
  /\ \A d \in Devices, r \in Dirs : sw[d][r] = "local" => commit[r] # Absent

\* Every device's thread gets through its list, whatever fails and however
\* often it finds a directory locked.
ListDone == \A d \in Devices : (step[d] # "exit") ~> (step[d] = "exit")

\* With a disk that works and fewer faults of the registry than tries, and even
\* when bad blocks are left from before a crash, each layer of a running device
\* ends up local.  (Where two threads shared the temporary file one of them may use
\* its last try to rename a file that is gone.)
EventuallyLocal ==
  \A d \in Devices :
    (Running(d) /\ ~flaky) ~> (~Running(d) \/ \A r \in Dirs \ mixed : sw[d][r] = "local")
==============================================================================
