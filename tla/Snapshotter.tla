------------------------------ MODULE Snapshotter ------------------------------
(***************************************************************************)
(* The containerd snapshotter (pkg/snapshot/overlay.go, storage.go) for    *)
(* remote overlaybd layers and the root file systems on top of them, in    *)
(* the default mode in which the rootfs is an overlay (or, for a View, a   *)
(* bind mount) over the mounted block device of its parent layer.          *)
(*                                                                         *)
(* Four kinds of state outlive a call, and change one after the other: the *)
(* bolt database, the directories, the devices in configfs and the mounts. *)
(* Prepare, Remove and the scan of Cleanup hold the database's only write  *)
(* transaction; Mounts, the removals of Cleanup, the container runtime and *)
(* a crash come between any two of their steps.                            *)
(*                                                                         *)
(* There is at most one call per snapshot at a time, and one Cleanup:      *)
(* containerd's metadata store sees to it, and removes a layer only when   *)
(* it has no children and none is being prepared.                          *)
(***************************************************************************)
EXTENDS Integers, FiniteSets

CONSTANTS
  Layers,       \* keys prepared with a target reference: committed layers
  Rootfs,       \* keys of the root file systems
  Views,        \* the ones created by View()
  Parent,       \* of every rootfs, its layer
  Confs,        \* configurations: asyncRemove, autoRemoveDev
  MaxId,        \* bound on the ids the database gives
  MaxFaults,    \* bound on failing steps, crashes and reboots
  MaxUndos      \* bound on Prepares that fail and then cannot remove their directory

Keys == Layers \union Rootfs
GC == "gc"                    \* the caller of Cleanup()
Callers == Keys \union {GC}
Ids == 1..MaxId
NoId == 0
NewDir == 0                   \* the temporary directory of a call
StaleDir == -1                \* one that a crash or a failing removal left
Nobody == "nobody"

ASSUME SnapshotterAssumption ==
  /\ Layers \intersect Rootfs = {} /\ {GC, Nobody} \intersect Keys = {}
  /\ Views \subseteq Rootfs /\ Parent \in [Rootfs -> Layers]
  /\ Confs \subseteq [asyncRemove : BOOLEAN, autoRemoveDev : BOOLEAN]
  /\ {MaxId, MaxFaults, MaxUndos} \subseteq Nat /\ IsFiniteSet(Keys)

VARIABLES
  conf,         \* the configuration
  db, seq,      \* committed: the id of every key, and the last id given
  wtx,          \* the caller that holds the write transaction
  dirs,         \* the directories under snapshots/
  dev,          \* per id, its target in configfs
  mnt,          \* the ids with their device mounted on their mountpoint
  ready,        \* rootfs for which a call has returned the mounts
  used,         \* rootfs that the runtime has mounted
  locker,       \* the layers whose lock is held, and by whom
  call,         \* per caller, the call under way
  faults,       \* how many there have been
  \* history
  abandoned,    \* ids whose directory outlived its transaction or its entry
  doomed,       \* keys whose directory went before their entry
  clash,        \* ids that two calls attached at the same time
  stuck,        \* ids whose link a crash or a failing removal left, not mounted
  unseen        \* rootfs whose mounts were out when a Remove found the device unused

store == <<db, seq, wtx>>
kernel == <<dev, mnt>>
client == <<ready, used>>
history == <<abandoned, doomed, clash, stuck, unseen>>
vars == <<conf, store, dirs, kernel, client, locker, call, faults, history>>

Idle == [op |-> "none", pc |-> "idle", id |-> NoId, list |-> {}]
Call(op) == [op |-> op, pc |-> "begin", id |-> NoId, list |-> {}]

Init ==
  /\ conf \in Confs
  /\ db = [k \in Keys |-> NoId] /\ seq = 0 /\ wtx = Nobody
  /\ dirs = {} /\ dev = [i \in Ids |-> "none"] /\ mnt = {}
  /\ ready = {} /\ used = {}
  /\ locker = [l \in Layers |-> Nobody]
  /\ call = [c \in Callers |-> Idle]
  /\ faults = [steps |-> 0, undos |-> 0]
  /\ abandoned = {} /\ doomed = {} /\ clash = {} /\ stuck = {} /\ unseen = {}

Present == {k \in Keys : db[k] # NoId}
IDMap == {db[k] : k \in Present}
At(c, op, pc) == call[c].op = op /\ call[c].pc = pc
Goto(c, pc) == call' = [call EXCEPT ![c].pc = pc]
Return(c) == call' = [call EXCEPT ![c] = Idle]
Fault == faults.steps < MaxFaults /\ faults' = [faults EXCEPT !.steps = @ + 1]
UndoFault == faults.undos < MaxUndos /\ faults' = [faults EXCEPT !.undos = @ + 1]

-----------------------------------------------------------------------------
(* containerd and the runtime *)

\* Prepare() or View() of a snapshot; again when it failed.
RequestPrepare(k) ==
  /\ call[k] = Idle /\ db[k] = NoId
  /\ seq + Cardinality({j \in Keys : call[j].op = "Prepare"}) < MaxId
  /\ k \in Rootfs => db[Parent[k]] # NoId /\ call[Parent[k]].op # "Remove"
  /\ call' = [call EXCEPT ![k] = Call("Prepare")]
  /\ UNCHANGED <<conf, store, dirs, kernel, client, locker, faults, history>>

\* The mounts are asked for again before a container starts.
RequestMounts(k) ==
  /\ k \in Rootfs \ used /\ call[k] = Idle /\ db[k] # NoId
  /\ call' = [call EXCEPT ![k] = Call("Mounts")]
  /\ UNCHANGED <<conf, store, dirs, kernel, client, locker, faults, history>>

RequestRemove(k) ==
  /\ k \notin used /\ call[k] = Idle /\ db[k] # NoId
  /\ \A r \in Rootfs : Parent[r] = k => db[r] = NoId /\ call[r] = Idle
  /\ call' = [call EXCEPT ![k] = Call("Remove")]
  /\ ready' = ready \ {k} /\ unseen' = unseen \ {k}
  /\ UNCHANGED <<conf, store, dirs, kernel, used, locker, faults, abandoned, doomed, clash, stuck>>

RequestCleanup ==
  /\ call[GC] = Idle
  /\ call' = [call EXCEPT ![GC] = Call("Cleanup")]
  /\ UNCHANGED <<conf, store, dirs, kernel, client, locker, faults, history>>

\* The runtime mounts the rootfs where it was told to, and unmounts it.
RuntimeMount(k) ==
  /\ k \in ready /\ call[k] = Idle
  /\ ready' = ready \ {k} /\ used' = used \union {k}
  /\ UNCHANGED <<conf, store, dirs, kernel, locker, call, faults, history>>

RuntimeUnmount(k) ==
  /\ k \in used
  /\ used' = used \ {k}
  /\ UNCHANGED <<conf, store, dirs, kernel, ready, locker, call, faults, history>>

-----------------------------------------------------------------------------
(* Transactions *)

\* Mutant: Cleanup() scans in a read transaction.
TransactionContextCleanupReads(c) ==
  /\ call[c].pc = "begin" /\ call[c].op # "Mounts"
  /\ IF c = GC THEN UNCHANGED wtx ELSE wtx = Nobody /\ wtx' = c
  /\ Goto(c, IF call[c].op = "Prepare" THEN "mkdir" ELSE IF c = GC THEN "scan" ELSE "own")
  /\ UNCHANGED <<conf, db, seq, dirs, kernel, client, locker, faults, history>>

\* The write transaction, of which there is one.
TransactionContext(c) ==
  /\ call[c].pc = "begin" /\ call[c].op # "Mounts"
  /\ wtx = Nobody /\ wtx' = c
  /\ Goto(c, IF call[c].op = "Prepare" THEN "mkdir" ELSE IF c = GC THEN "scan" ELSE "own")
  /\ UNCHANGED <<conf, db, seq, dirs, kernel, client, locker, faults, history>>

\* A commit that has to grow the file waits for the read transactions that
\* are open, and lets no new one in.
Committing == {"commit", "grow"}
Reading(c) == call[c].op = "Mounts" /\ call[c].pc # "begin"
MayCommit(c) ==
  /\ call[c].pc \in Committing
  /\ call[c].pc = "grow" => \A r \in Rootfs : ~Reading(r)
Growing == \E c \in Keys : call[c].pc = "grow"

-----------------------------------------------------------------------------
(* attachAndMountBlockDevice(), for Prepare and Mounts *)

ObdId(c) == db[Parent[c]]

\* In configfs there is a target ("enabled"), a loopback device with its nexus
\* ("loopback"), both ("unlinked"), or the lun of the one linked to the other ("linked").
HasTarget(d) == dev[d] \in {"enabled", "unlinked", "linked"}

\* The deferred clean-up of a call that failed before it had made the loopback
\* directories: the target goes, unless something links to it.
DropTarget(d) ==
  dev' = [dev EXCEPT ![d] = IF @ = "enabled" THEN "none" ELSE IF @ = "unlinked" THEN "loopback"
                            ELSE @]

\* The clean-up of one that failed later: link, loopback directories, target.
DropDevice(d) == dev' = [dev EXCEPT ![d] = "none"] /\ stuck' = stuck \ {d}

\* A removal that fails is only logged: the link, and with it everything; the loopback
\* directories; or the target.
DropFails(d) ==
  \E left \in {"loopback", "enabled"} \union ({"linked"} \intersect {dev[d]}) :
    /\ dev' = [dev EXCEPT ![d] = left]
    /\ stuck' = IF left = "linked" /\ d \notin mnt THEN stuck \union {d} ELSE stuck

\* Where a call goes when its parent's device is mounted; and when attaching
\* it has failed, which undoes a Prepare and ends a Mounts.
Unlocked(c) == [l \in Layers |-> IF locker[l] = c THEN Nobody ELSE locker[l]]

Attached(c) ==
  IF call[c].op = "Prepare"
  THEN /\ \E pc \in Committing : Goto(c, pc)
       /\ UNCHANGED <<ready, locker, unseen>>
  ELSE /\ ready' = ready \union {c} /\ locker' = Unlocked(c)
       /\ unseen' = unseen \ {c}
       /\ Return(c)

AttachFails(c) ==
  IF call[c].op = "Prepare"
  THEN Goto(c, "undo") /\ UNCHANGED locker
  ELSE /\ locker' = Unlocked(c) /\ Return(c)

Lookup(c) ==
  /\ call[c].pc = "lookup"
  /\ \/ ObdId(c) \in mnt /\ Attached(c)
     \/ ObdId(c) \notin mnt /\ Goto(c, "enable") /\ UNCHANGED <<ready, locker, unseen>>
  /\ UNCHANGED <<conf, store, dirs, kernel, used, faults, abandoned, doomed, clash, stuck>>

Attaching(d) == {c \in Rootfs : ObdId(c) = d /\ call[c].pc \in {"enable", "link", "mount"}}
Meets(c) == IF Attaching(ObdId(c)) # {c} THEN clash \union {ObdId(c)} ELSE clash

\* The target is created, configured and enabled; a target that is enabled
\* already refuses, and is then removed if nothing links to it.
Enable(c) ==
  /\ call[c].pc = "enable"
  /\ \/ /\ ~HasTarget(ObdId(c))
        /\ dev' = [dev EXCEPT ![ObdId(c)] = IF @ = "none" THEN "enabled" ELSE "unlinked"]
        /\ Goto(c, "link")
        /\ UNCHANGED <<faults, locker>>
     \/ /\ \/ HasTarget(ObdId(c)) /\ DropTarget(ObdId(c)) /\ UNCHANGED faults
           \/ Fault /\ (DropTarget(ObdId(c)) \/ UNCHANGED dev)
        /\ AttachFails(c)
  /\ clash' = Meets(c)
  /\ UNCHANGED <<conf, store, dirs, mnt, client, abandoned, doomed, stuck, unseen>>

\* The loopback device, its nexus, of which there may be no other, and the link from
\* its lun to the target.
Link(c) ==
  /\ call[c].pc = "link"
  /\ \/ /\ dev[ObdId(c)] = "enabled"
        /\ dev' = [dev EXCEPT ![ObdId(c)] = "linked"]
        /\ Goto(c, "mount")
        /\ UNCHANGED <<faults, locker, stuck>>
     \/ /\ \/ dev[ObdId(c)] # "enabled" /\ DropDevice(ObdId(c)) /\ UNCHANGED faults
           \/ Fault /\ (DropDevice(ObdId(c)) \/ DropFails(ObdId(c)))
        /\ AttachFails(c)
  /\ clash' = Meets(c)
  /\ UNCHANGED <<conf, store, dirs, mnt, client, abandoned, doomed, unseen>>

Mountable(d) == dev[d] = "linked" /\ d \notin mnt /\ d \in dirs

\* Mutant: the link stays when the device could not be mounted.
MountDeviceKeepsLink(c) ==
  /\ call[c].pc = "mount"
  /\ \/ /\ Mountable(ObdId(c))
        /\ mnt' = mnt \union {ObdId(c)}
        /\ Attached(c)
        /\ UNCHANGED faults
     \/ /\ (~Mountable(ObdId(c)) /\ UNCHANGED faults) \/ Fault
        /\ AttachFails(c)
        /\ UNCHANGED <<mnt, ready, unseen>>
  /\ clash' = Meets(c)
  /\ UNCHANGED <<conf, store, dirs, dev, used, abandoned, doomed, stuck>>

\* The device shows up, is recorded in the mark file and mounted, or the
\* attempts are used up.
MountDevice(c) ==
  /\ call[c].pc = "mount"
  /\ \/ /\ Mountable(ObdId(c))
        /\ mnt' = mnt \union {ObdId(c)}
        /\ Attached(c)
        /\ UNCHANGED <<dev, faults, stuck>>
     \/ /\ \/ ~Mountable(ObdId(c)) /\ DropDevice(ObdId(c)) /\ UNCHANGED faults
           \/ Fault /\ (DropDevice(ObdId(c)) \/ DropFails(ObdId(c)))
        /\ AttachFails(c)
        /\ UNCHANGED <<mnt, ready, unseen>>
  /\ clash' = Meets(c)
  /\ UNCHANGED <<conf, store, dirs, used, abandoned, doomed>>

-----------------------------------------------------------------------------
(* Prepare() and View(): createMountPoint() *)

PrepareDirectory(c) ==
  /\ At(c, "Prepare", "mkdir")
  /\ \/ dirs' = dirs \union {NewDir} /\ Goto(c, "create") /\ UNCHANGED <<faults, wtx>>
     \/ /\ Fault /\ wtx' = Nobody /\ Return(c)
        /\ \E stale \in SUBSET {StaleDir} : dirs' = dirs \union stale
  /\ UNCHANGED <<conf, db, seq, kernel, client, locker, history>>

\* The id comes from the transaction; the temporary directory takes its name,
\* unless the parent's directory is gone or the name is taken: then both
\* directories are removed and the transaction rolled back.  A removal that fails
\* leaves its directory.
Orphaned(c) == c \in Rootfs /\ ObdId(c) \notin dirs
CreateSnapshot(c) ==
  /\ At(c, "Prepare", "create")
  /\ \/ /\ ~Orphaned(c) /\ seq + 1 \notin dirs
        /\ dirs' = (dirs \ {NewDir}) \union {seq + 1}
        /\ abandoned' = IF seq + 1 \in call[GC].list THEN abandoned ELSE abandoned \ {seq + 1}
        /\ call' = [call EXCEPT ![c].pc = IF c \in Layers THEN "spec" ELSE "lookup",
                                ![c].id = seq + 1]
        /\ UNCHANGED <<faults, wtx>>
     \/ /\ \/ Orphaned(c) /\ dirs' = dirs \ {NewDir} /\ UNCHANGED faults
           \/ /\ ~Orphaned(c) /\ seq + 1 \in dirs
              /\ dirs' = dirs \ {NewDir, seq + 1} /\ UNCHANGED faults
           \/ /\ Fault
              /\ \E gone \in SUBSET IF Orphaned(c) THEN {} ELSE {seq + 1} :
                   \E stale \in SUBSET {StaleDir} :
                     dirs' = (dirs \ ({NewDir} \union gone)) \union stale
        /\ wtx' = Nobody /\ Return(c)
        /\ UNCHANGED abandoned
  /\ UNCHANGED <<conf, db, seq, kernel, client, locker, doomed, clash, stuck, unseen>>

\* A layer is committed in the transaction and its device specification written.
ConstructOverlayBDSpec(c) ==
  /\ At(c, "Prepare", "spec")
  /\ \/ /\ call[c].id \in dirs
        /\ \E pc \in Committing : Goto(c, pc)
        /\ UNCHANGED faults
     \/ /\ (call[c].id \notin dirs /\ UNCHANGED faults) \/ Fault
        /\ Goto(c, "undo")
  /\ UNCHANGED <<conf, store, dirs, kernel, client, locker, history>>

\* Mutant: the directory of a failed Prepare stays.
UndoPrepareKeepsDirectory(c) ==
  /\ At(c, "Prepare", "undo")
  /\ wtx' = Nobody /\ Return(c)
  /\ UNCHANGED <<conf, db, seq, dirs, kernel, client, locker, faults, history>>

\* The deferred functions: the directory first, if it can be removed, then the
\* transaction.
UndoPrepare(c) ==
  /\ At(c, "Prepare", "undo")
  /\ \/ dirs' = dirs \ {call[c].id} /\ UNCHANGED <<faults, abandoned>>
     \/ UndoFault /\ abandoned' = abandoned \union {call[c].id} /\ UNCHANGED dirs
  /\ wtx' = Nobody /\ Return(c)
  /\ UNCHANGED <<conf, db, seq, kernel, client, locker, doomed, clash, stuck, unseen>>

\* When Commit() fails it is too late to roll back: the directory stays.
CommitPrepare(c) ==
  /\ call[c].op = "Prepare" /\ MayCommit(c)
  /\ \/ /\ db' = [db EXCEPT ![c] = call[c].id] /\ seq' = call[c].id
        /\ ready' = IF c \in Rootfs THEN ready \union {c} ELSE ready
        /\ unseen' = unseen \ {c}
        /\ UNCHANGED <<faults, abandoned>>
     \/ /\ Fault
        /\ abandoned' = abandoned \union {call[c].id}
        /\ UNCHANGED <<db, seq, ready, unseen>>
  /\ wtx' = Nobody /\ Return(c)
  /\ UNCHANGED <<conf, dirs, kernel, used, locker, doomed, clash, stuck>>

-----------------------------------------------------------------------------
(* Mounts() *)

\* A read transaction; with autoRemoveDev the parent's lock is taken too.
BeginMounts(c) ==
  /\ At(c, "Mounts", "begin") /\ ~Growing
  /\ Goto(c, IF conf.autoRemoveDev THEN "lock" ELSE "lookup")
  /\ UNCHANGED <<conf, store, dirs, kernel, client, locker, faults, history>>

Lock(c) ==
  /\ call[c].pc = "lock" /\ locker[Parent[c]] = Nobody
  /\ locker' = [locker EXCEPT ![Parent[c]] = c]
  /\ Goto(c, IF call[c].op = "Mounts" THEN "lookup" ELSE "check")
  /\ UNCHANGED <<conf, store, dirs, kernel, client, faults, history>>

-----------------------------------------------------------------------------
(* Remove() *)

\* checkOverlaybdInUse(): only overlays are seen.
InUse(d) == \E k \in used \ Views : ObdId(k) = d

\* unmountAndDetachBlockDevice(): the mountpoint, then link, lun, loopback device and
\* target.  It stops where one cannot be removed.
Detach(d) == mnt' = mnt \ {d} /\ DropDevice(d)
DetachFails(d) ==
  /\ Fault
  /\ \/ UNCHANGED <<kernel, stuck>>
     \/ \E left \in {"enabled", "unlinked", "linked"} :
          /\ mnt' = mnt \ {d}
          /\ dev' = [dev EXCEPT ![d] = IF @ = "linked" THEN left ELSE @]
          /\ stuck' = IF dev'[d] = "linked" THEN stuck \union {d} ELSE stuck

\* An error ends Remove: the locks are released and the transaction rolled back.
RemoveFails(c) == wtx' = Nobody /\ locker' = Unlocked(c) /\ Return(c)

\* Mutant: a container takes its parent's device along in any case.
RemoveOwnDeviceAndParents(c) ==
  /\ At(c, "Remove", "own")
  /\ \/ /\ c \in Layers /\ ~InUse(db[c])
        /\ Detach(db[c])
     \/ /\ c \in Rootfs \/ InUse(db[c]) \/ db[c] \notin mnt
        /\ UNCHANGED <<kernel, stuck>>
  /\ Goto(c, IF c \in Rootfs \ Views THEN "lock" ELSE "remove")
  /\ UNCHANGED <<conf, store, dirs, client, locker, faults, abandoned, doomed, clash, unseen>>

\* The device of a layer goes first, if its mark file is there: written just
\* before the device is mounted, it may or may not exist for one that is not.
\* With autoRemoveDev a container takes its parent's device along.
RemoveOwnDevice(c) ==
  /\ At(c, "Remove", "own")
  /\ \/ /\ \/ c \in Layers /\ ~InUse(db[c]) /\ Detach(db[c])
           \/ (c \in Rootfs \/ InUse(db[c]) \/ db[c] \notin mnt) /\ UNCHANGED <<kernel, stuck>>
        /\ Goto(c, IF conf.autoRemoveDev /\ c \in Rootfs \ Views THEN "lock" ELSE "remove")
        /\ UNCHANGED <<wtx, locker, faults>>
     \/ c \in Layers /\ ~InUse(db[c]) /\ DetachFails(db[c]) /\ RemoveFails(c)
  /\ UNCHANGED <<conf, db, seq, dirs, client, abandoned, doomed, clash, unseen>>

CheckParentDevice(c) ==
  /\ At(c, "Remove", "check")
  /\ \/ InUse(ObdId(c)) /\ Goto(c, "remove") /\ UNCHANGED unseen
     \/ /\ ~InUse(ObdId(c)) /\ Goto(c, "detach")
        /\ unseen' = unseen \union {k \in ready \union used : ObdId(k) = ObdId(c)}
  /\ UNCHANGED <<conf, store, dirs, kernel, client, locker, faults, abandoned, doomed, clash,
                 stuck>>

DetachParentDevice(c) ==
  /\ At(c, "Remove", "detach")
  /\ \/ Detach(ObdId(c)) /\ Goto(c, "remove") /\ UNCHANGED <<wtx, locker, faults>>
     \/ DetachFails(ObdId(c)) /\ RemoveFails(c)
  /\ UNCHANGED <<conf, db, seq, dirs, client, abandoned, doomed, clash, unseen>>

\* The entry goes from the transaction, unless the device is still mounted,
\* and the directories that have no entry then are listed.
RemoveEntry(c) ==
  /\ At(c, "Remove", "remove")
  /\ \/ db[c] \in mnt /\ RemoveFails(c) /\ UNCHANGED faults
     \/ Fault /\ RemoveFails(c)
     \/ /\ db[c] \notin mnt
        /\ call' = [call EXCEPT ![c].pc = "purge",
                                ![c].list = IF conf.asyncRemove THEN {}
                                            ELSE dirs \ (IDMap \ {db[c]})]
        /\ UNCHANGED <<wtx, locker, faults>>
  /\ UNCHANGED <<conf, db, seq, dirs, kernel, client, history>>

\* The deferred functions: the directories, those that can be removed, the locks, and at
\* last Commit().
Purge(c) ==
  /\ At(c, "Remove", "purge")
  /\ \E kept \in SUBSET call[c].list :
       /\ IF kept = {} THEN UNCHANGED faults ELSE Fault
       /\ dirs' = dirs \ (call[c].list \ kept)
       /\ abandoned' = abandoned \union (kept \intersect {db[c]})
  /\ doomed' = IF db[c] \in call[c].list THEN doomed \union {c} ELSE doomed
  /\ locker' = Unlocked(c)
  /\ \E pc \in Committing : Goto(c, pc)
  /\ UNCHANGED <<conf, store, kernel, client, clash, stuck, unseen>>

\* Nobody looks at the result of Commit().
CommitRemove(c) ==
  /\ call[c].op = "Remove" /\ MayCommit(c)
  /\ \/ db' = [db EXCEPT ![c] = NoId] /\ doomed' = doomed \ {c} /\ UNCHANGED faults
     \/ Fault /\ UNCHANGED <<db, doomed>>
  /\ wtx' = Nobody /\ Return(c)
  /\ UNCHANGED <<conf, seq, dirs, kernel, client, locker, abandoned, clash, stuck, unseen>>

-----------------------------------------------------------------------------
(* Cleanup() *)

\* Mutant: only directories named by an id are looked at.
ScanIgnoresTemporaries(c) ==
  /\ At(c, "Cleanup", "scan")
  /\ call' = [call EXCEPT ![c].list = (dirs \intersect Ids) \ IDMap, ![c].pc = "sweep"]
  /\ wtx' = IF wtx = c THEN Nobody ELSE wtx
  /\ UNCHANGED <<conf, db, seq, dirs, kernel, client, locker, faults, history>>

\* The directories without an entry, and the end of the transaction.
Scan(c) ==
  /\ At(c, "Cleanup", "scan")
  /\ \/ call' = [call EXCEPT ![c].list = dirs \ IDMap, ![c].pc = "sweep"] /\ UNCHANGED faults
     \/ Fault /\ Return(c)
  /\ wtx' = IF wtx = c THEN Nobody ELSE wtx
  /\ UNCHANGED <<conf, db, seq, dirs, kernel, client, locker, history>>

\* One directory after the other is removed, or skipped when that fails.
Sweep(c) ==
  /\ At(c, "Cleanup", "sweep")
  /\ \/ \E d \in call[c].list :
          /\ \/ dirs' = dirs \ {d} /\ UNCHANGED faults
             \/ Fault /\ UNCHANGED dirs
          /\ call' = [call EXCEPT ![c].list = @ \ {d}]
     \/ call[c].list = {} /\ Return(c) /\ UNCHANGED <<dirs, faults>>
  /\ UNCHANGED <<conf, store, kernel, client, locker, history>>

-----------------------------------------------------------------------------
(* Faults *)

\* The process ends.  The directories it had made stay, so do the devices.
Ended ==
  /\ wtx' = Nobody
  /\ call' = [c \in Callers |-> Idle]
  /\ locker' = [l \in Layers |-> Nobody]
  /\ dirs' = IF NewDir \in dirs THEN (dirs \ {NewDir}) \union {StaleDir} ELSE dirs
  /\ abandoned' = abandoned \union {i \in dirs \ IDMap : i > seq}
  /\ UNCHANGED <<conf, db, seq, doomed, clash, unseen>>

Crash ==
  /\ Fault /\ Ended
  /\ stuck' = stuck \union {d \in Ids \ mnt : dev[d] = "linked"}
  /\ UNCHANGED <<kernel, client>>

Reboot ==
  /\ Fault /\ Ended
  /\ stuck' = {}
  /\ dev' = [i \in Ids |-> "none"] /\ mnt' = {}
  /\ ready' = {} /\ used' = {}

-----------------------------------------------------------------------------

Step(c) ==
  \/ TransactionContext(c)
  \/ PrepareDirectory(c) \/ CreateSnapshot(c) \/ ConstructOverlayBDSpec(c)
  \/ Lookup(c) \/ Enable(c) \/ Link(c) \/ MountDevice(c)
  \/ UndoPrepare(c) \/ CommitPrepare(c)
  \/ BeginMounts(c) \/ Lock(c)
  \/ RemoveOwnDevice(c) \/ CheckParentDevice(c) \/ DetachParentDevice(c)
  \/ RemoveEntry(c) \/ Purge(c) \/ CommitRemove(c)
  \/ Scan(c) \/ Sweep(c)

Containerd(k) ==
  \/ RequestPrepare(k) \/ RequestMounts(k) \/ RequestRemove(k)
  \/ RuntimeMount(k) \/ RuntimeUnmount(k)

Next ==
  \/ \E c \in Callers : Step(c)
  \/ \E k \in Keys : Containerd(k)
  \/ RequestCleanup
  \/ Crash \/ Reboot

Spec == Init /\ [][Next]_vars

\* Every call is scheduled, and neither bolt's mutex nor the lock of a layer
\* starves anyone.  containerd asks again for what it could not prepare and
\* collects garbage again and again.
FairSpec ==
  /\ Spec
  /\ \A c \in Callers : SF_vars(Step(c))
  /\ \A k \in Keys : WF_vars(RequestPrepare(k))
  /\ WF_vars(RequestCleanup)

-----------------------------------------------------------------------------
(* Properties *)

TypeOK ==
  /\ conf \in Confs /\ db \in [Keys -> 0..MaxId] /\ seq \in 0..MaxId
  /\ wtx \in Callers \union {Nobody}
  /\ dirs \subseteq Ids \union {NewDir, StaleDir}
  /\ dev \in [Ids -> {"none", "enabled", "loopback", "unlinked", "linked"}] /\ mnt \subseteq Ids
  /\ ready \union used \subseteq Rootfs
  /\ locker \in [Layers -> Rootfs \union {Nobody}]
  /\ faults \in [steps : 0..MaxFaults, undos : 0..MaxUndos]

\* No call removes the directory of a snapshot that the database knows:
\* neither a Prepare that fails, nor a Remove or Cleanup of others, at any
\* interleaving, whichever removals fail.  Two exceptions are in the code: a Remove
\* that ends between the directory and the commit, and an id that is given again while
\* a Cleanup still has it on the list of what an earlier transaction left.
LiveDirSafe ==
  \A k \in Present : k \notin doomed /\ db[k] \notin abandoned => db[k] \in dirs

\* Once the calls have returned, whichever of their steps failed, a directory without
\* an entry was left by a crash, by a failed commit or because its removal failed,
\* which the code only logs; asyncRemove leaves them to Cleanup.
NothingLeft ==
  (\A c \in Callers : call[c] = Idle) /\ ~conf.asyncRemove
    => dirs \subseteq IDMap \union abandoned \union {StaleDir}

\* As long as containerd keeps collecting garbage, what crashes and failed
\* commits leave behind does not stay; and nobody keeps the transaction for
\* ever, least of all by waiting for a reader that waits for a layer's lock.
EventuallyClean == []<>(call[GC] = Idle) /\ []<>(dirs \subseteq IDMap)

\* The mounted device of a layer, under every container that has been started
\* on it.  Two calls that attach it at the same time undo each other.  And with
\* autoRemoveDev another container's Remove may take it away, but only from a rootfs
\* whose mounts were out, and which was not mounted as an overlay, when it checked.
Alive(d) == d \in mnt /\ dev[d] = "linked"
LowerAlive == \A k \in used : Alive(ObdId(k)) \/ ObdId(k) \in clash \/ k \in unseen

\* A snapshot that containerd keeps asking for is prepared in the end, though
\* failures or a crash left its directory or a half-attached device behind.  There are
\* three exceptions: the link of the parent's device was left by a crash between linking
\* and mounting it, or because it could not be removed, and nobody touches it any more;
\* attaches clashed; or the parent is one of the snapshots that lost their directory.
Wedged(d) == d \in stuck /\ dev[d] = "linked" /\ d \notin mnt /\ Attaching(d) = {}
PrepareRetried ==
  []<>(\A k \in Keys :
         \/ db[k] # NoId \/ seq = MaxId
         \/ /\ k \in Rootfs
            /\ \/ ObdId(k) = NoId \/ ObdId(k) \notin dirs
               \/ Wedged(ObdId(k)) \/ ObdId(k) \in clash)

\* "This can be used to recover mounts after calling View or Prepare": without
\* a fault, Mounts does not fail.
MountsRecover ==
  [][\A k \in Rootfs : call[k].op = "Mounts" /\ call'[k] = Idle => k \in ready']_vars
=============================================================================
