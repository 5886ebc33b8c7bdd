------------------------- MODULE Snapshotter_proofs -------------------------
(***************************************************************************)
(* Proofs about Snapshotter, for any finite set of layers and root file    *)
(* systems, every configuration and any number of faults, failing removals *)
(* included: the directories of known snapshots stay, calls that have      *)
(* returned leave none behind that they could remove, and the device under *)
(* a container that runs stays mounted.                                    *)
(***************************************************************************)
EXTENDS Snapshotter, FiniteSetTheorems, TLAPS

(***************************************************************************)
(* The inductive invariant                                                 *)
(***************************************************************************)

AnyDir == Ids \union {NewDir, StaleDir}
Pcs == {"idle", "begin", "mkdir", "create", "spec", "lookup", "enable", "link", "mount",
        "undo", "commit", "grow", "lock", "own", "check", "detach", "remove", "purge",
        "scan", "sweep"}
CallRec == [op : {"none", "Prepare", "Mounts", "Remove", "Cleanup"}, pc : Pcs,
            id : 0..MaxId, list : SUBSET AnyDir]

Types == TypeOK /\ call \in [Callers -> CallRec]

\* Where a call can be.
Attach == {"lookup", "enable", "link", "mount"}
ShapePrepare(c) ==
  call[c].op = "Prepare" =>
    /\ c \in Keys
    /\ call[c].pc \in {"begin", "mkdir", "create", "spec", "undo"} \union Attach \union Committing
    /\ call[c].pc = "spec" => c \in Layers
    /\ call[c].pc \in Attach => c \in Rootfs
ShapeMounts(c) ==
  call[c].op = "Mounts" => c \in Rootfs /\ call[c].pc \in {"begin", "lock"} \union Attach
ShapeRemove(c) ==
  call[c].op = "Remove" =>
    /\ c \in Keys
    /\ call[c].pc \in {"begin", "own", "lock", "check", "detach", "remove", "purge"}
                        \union Committing
    /\ call[c].pc \in {"lock", "check", "detach"} => c \in Rootfs /\ conf.autoRemoveDev
ShapeCleanup(c) ==
  call[c].op = "Cleanup" => c = GC /\ call[c].pc \in {"begin", "scan", "sweep"}
ShapeNone(c) == call[c].op = "none" => call[c] = Idle
Shape(c) ==
  ShapePrepare(c) /\ ShapeMounts(c) /\ ShapeRemove(c) /\ ShapeCleanup(c) /\ ShapeNone(c)
Shapes == \A c \in Callers : Shape(c)

\* Room for the ids of the calls that have been let in.
Preparing == {j \in Keys : call[j].op = "Prepare"}
Room == seq + Cardinality(Preparing) <= MaxId

\* Only the holder of the write transaction is inside one.
InTx(c) ==
  /\ call[c].pc # "begin"
  /\ call[c].op \in {"Prepare", "Remove"} \/ call[c].pc = "scan"
Transactions == \A c \in Callers : InTx(c) => wtx = c

\* Ids are given once, in ascending order.
Entries ==
  /\ \A k \in Keys : db[k] <= seq
  /\ \A j, k \in Keys : db[j] # NoId /\ db[j] = db[k] => j = k

\* A snapshot is prepared when it has no entry, used and removed when it has one.
Timely ==
  \A k \in Keys :
    /\ call[k].op = "Prepare" => db[k] = NoId
    /\ call[k].op \in {"Mounts", "Remove"} => db[k] # NoId
    /\ k \in ready \union used => db[k] # NoId /\ call[k].op # "Remove"

\* A layer has an entry, and is not being removed, under any of its children.
Family ==
  \A r \in Rootfs :
    db[r] # NoId \/ call[r].op # "none"
      => db[Parent[r]] # NoId /\ call[Parent[r]].op # "Remove"

\* A Prepare that has its id: the next one.
Named(c) ==
  /\ call[c].op = "Prepare"
  /\ call[c].pc \in {"spec", "undo"} \union Attach \union Committing
FreshId ==
  \A c \in Keys : Named(c) =>
    /\ call[c].id = seq + 1
    /\ call[c].pc # "undo" => call[c].id \in dirs \union abandoned

\* A directory beyond the last id is of the Prepare under way, or was abandoned.
High ==
  \A d \in dirs : d > seq => d \in abandoned \/ (d = seq + 1 /\ \E c \in Keys : Named(c))

\* Without asyncRemove every directory has an owner.
Owned(d) ==
  \/ d \in IDMap \/ d \in abandoned \/ d = StaleDir
  \/ d = NewDir /\ \E c \in Keys : At(c, "Prepare", "create")
  \/ d = seq + 1 /\ \E c \in Keys : Named(c)
AllOwned == ~conf.asyncRemove => \A d \in dirs : Owned(d)

\* What a Remove and a Cleanup are going to delete.
Purging ==
  \A c \in Keys : At(c, "Remove", "purge") =>
    /\ \A k \in Keys : k # c /\ db[k] # NoId => db[k] \notin call[c].list
    /\ ~conf.asyncRemove /\ db[c] \in dirs => db[c] \in call[c].list
Purged ==
  \A c \in Keys :
    call[c].op = "Remove" /\ call[c].pc \in Committing /\ ~conf.asyncRemove
      => db[c] \notin dirs \/ db[c] \in abandoned
Sweeping ==
  At(GC, "Cleanup", "sweep") =>
    \A d \in call[GC].list : d \in abandoned \/ (d \notin IDMap /\ d <= seq)

\* The device of a layer.
Clean(d) == d \notin clash
Mounted == \A d \in mnt : Clean(d) => dev[d] = "linked"
Attempts ==
  \A c \in Rootfs : Clean(ObdId(c)) =>
    /\ call[c].pc \in {"enable", "link", "mount"} => ObdId(c) \notin mnt
    /\ call[c].pc = "link" => dev[ObdId(c)] \in {"enabled", "unlinked"}
    /\ call[c].pc = "mount" => dev[ObdId(c)] = "linked"
Relies(k) ==
  \/ k \in (ready \union used) \ unseen
  \/ call[k].op = "Prepare" /\ call[k].pc \in Committing
Underneath == \A k \in Rootfs : Relies(k) /\ Clean(ObdId(k)) => Alive(ObdId(k))
Devices == Mounted /\ Attempts /\ Underneath

\* With autoRemoveDev a Mounts that attaches and a Remove that detaches the device of a
\* layer hold its lock; and a Remove that found the device unused has noted who is not
\* going to find it.
Locking ==
  conf.autoRemoveDev =>
    \A c \in Rootfs :
      \/ call[c].op = "Mounts" /\ call[c].pc \in Attach
      \/ call[c].op = "Remove" /\ call[c].pc \in {"check", "detach"}
      => locker[Parent[c]] = c
Warned ==
  \A r \in Rootfs : At(r, "Remove", "detach") =>
    \A k \in ready \union used : ObdId(k) = ObdId(r) => k \in unseen

DirInv ==
  FreshId /\ High /\ AllOwned /\ Purging /\ Purged /\ Sweeping /\ LiveDirSafe

IInv ==
  /\ Types /\ Shapes /\ Room /\ Transactions /\ Entries /\ Timely /\ Family
  /\ DirInv /\ Devices /\ Locking /\ Warned

-----------------------------------------------------------------------------
(* What a step does to the calls, pointwise *)

Rest(c) == call' \in [Callers -> CallRec] /\ \A o \in Callers \ {c} : call'[o] = call[o]
Moved(c, p) ==
  /\ Rest(c)
  /\ call'[c].op = call[c].op /\ call'[c].pc = p
  /\ call'[c].id = call[c].id /\ call'[c].list = call[c].list
Returned(c) == Rest(c) /\ call'[c] = Idle /\ call'[c].op = "none" /\ call'[c].pc = "idle"

\* A Remove that ends with an error, and one that goes on.
Failed(c) == Returned(c) /\ wtx' = Nobody /\ locker' = Unlocked(c)
GoesOn(c, p) == Moved(c, p) /\ UNCHANGED <<wtx, locker>>

\* What it may leave of a device that it detaches.
DevStates == {"none", "enabled", "loopback", "unlinked", "linked"}
Detaches(d) ==
  /\ mnt' = mnt \ {d}
  /\ dev' \in [Ids -> DevStates] /\ \A e \in Ids \ {d} : dev'[e] = dev[e]

LEMMA GotoMoves ==
  ASSUME call \in [Callers -> CallRec], NEW c \in Callers, NEW p \in Pcs, Goto(c, p)
  PROVE  Moved(c, p)
<1> DEFINE rec == [call[c] EXCEPT !.pc = p]
<1>1. call' = [call EXCEPT ![c] = rec]
  BY DEF Goto
<1>2. call[c] \in CallRec
  OBVIOUS
<1>3. /\ rec \in CallRec /\ rec.op = call[c].op /\ rec.pc = p
      /\ rec.id = call[c].id /\ rec.list = call[c].list
  BY <1>2 DEF CallRec
<1> HIDE DEF rec
<1> QED
  BY <1>1, <1>3 DEF Moved, Rest

LEMMA IdleIs ==
  Idle \in CallRec /\ Idle.op = "none" /\ Idle.pc = "idle"
BY SnapshotterAssumption DEF Idle, CallRec, Pcs, NoId

LEMMA ReturnReturns ==
  ASSUME call \in [Callers -> CallRec], NEW c \in Callers, Return(c)
  PROVE  Returned(c)
<1>1. call' = [call EXCEPT ![c] = Idle]
  BY DEF Return
<1>2. Idle \in CallRec /\ Idle.op = "none" /\ Idle.pc = "idle"
  BY IdleIs
<1> QED
  BY <1>1, <1>2 DEF Returned, Rest

\* A call that has got as far as attaching a device.
LEMMA AttachedMoves ==
  ASSUME call \in [Callers -> CallRec], NEW c \in Callers, Attached(c)
  PROVE  \/ /\ call[c].op = "Prepare" /\ \E p \in Committing : Moved(c, p)
            /\ UNCHANGED <<ready, locker, unseen>>
         \/ /\ call[c].op # "Prepare" /\ Returned(c)
            /\ ready' = ready \union {c} /\ locker' = Unlocked(c) /\ unseen' = unseen \ {c}
<1>1. CASE call[c].op = "Prepare"
  <2>1. PICK p \in Committing : Goto(c, p)
    BY <1>1 DEF Attached
  <2>2. p \in Pcs
    BY DEF Committing, Pcs
  <2>3. Moved(c, p)
    BY <2>1, <2>2, GotoMoves
  <2> QED
    BY <1>1, <2>3 DEF Attached
<1>2. CASE call[c].op # "Prepare"
  BY <1>2, ReturnReturns DEF Attached
<1> QED
  BY <1>1, <1>2

LEMMA AttachFailsMoves ==
  ASSUME call \in [Callers -> CallRec], NEW c \in Callers, AttachFails(c)
  PROVE  \/ call[c].op = "Prepare" /\ Moved(c, "undo") /\ locker' = locker
         \/ call[c].op # "Prepare" /\ Returned(c) /\ locker' = Unlocked(c)
<1>1. CASE call[c].op = "Prepare"
  <2>1. "undo" \in Pcs
    BY DEF Pcs
  <2> QED
    BY <1>1, <2>1, GotoMoves DEF AttachFails
<1>2. CASE call[c].op # "Prepare"
  BY <1>2, ReturnReturns DEF AttachFails
<1> QED
  BY <1>1, <1>2

\* The pc of a call tells what it is, in which the guards are brief.
LEMMA CallAt ==
  ASSUME Types, NEW c \in Callers, Shape(c)
  PROVE  /\ call[c].pc = "begin" => call[c].op # "none"
         /\ call[c].pc \in Attach => call[c].op \in {"Prepare", "Mounts"} /\ c \in Rootfs
         /\ call[c].pc = "lock" => call[c].op \in {"Mounts", "Remove"} /\ c \in Rootfs
         /\ call[c].op \in {"Prepare", "Mounts", "Remove"} => c \in Keys
         /\ call[c].op = "Cleanup" => c = GC
         /\ call[c].pc \in Committing => call[c].op \in {"Prepare", "Remove"}
<1>1. call[c].op \in {"none", "Prepare", "Mounts", "Remove", "Cleanup"}
  BY DEF Types, CallRec
<1> QED
  BY <1>1, IdleIs DEF Shape, ShapePrepare, ShapeMounts, ShapeRemove, ShapeCleanup,
                      ShapeNone, Attach, Committing, Keys

-----------------------------------------------------------------------------
(* The effect of each step *)

DoesBegin(c) ==
  /\ call[c].pc = "begin" /\ wtx = Nobody /\ wtx' = c
  /\ \/ call[c].op = "Prepare" /\ Moved(c, "mkdir")
     \/ call[c].op = "Remove" /\ Moved(c, "own")
     \/ call[c].op = "Cleanup" /\ Moved(c, "scan")
  /\ UNCHANGED <<conf, db, seq, dirs, dev, mnt, ready, used, locker, faults,
                 abandoned, doomed, clash, unseen>>

LEMMA Begins ==
  ASSUME Types, NEW c \in Callers, Shape(c), TransactionContext(c)
  PROVE  DoesBegin(c)
<1>1. call \in [Callers -> CallRec] /\ call[c] \in CallRec
  BY DEF Types
<1>2. {"mkdir", "own", "scan"} \subseteq Pcs
  BY DEF Pcs
<1>3. call[c].op \in {"Prepare", "Remove", "Cleanup"}
  BY <1>1, CallAt DEF CallRec, TransactionContext
<1>4. c = GC <=> call[c].op = "Cleanup"
  BY <1>3, CallAt, SnapshotterAssumption
<1>5. UNCHANGED <<conf, db, seq, dirs, dev, mnt, ready, used, locker, faults,
                  abandoned, doomed, clash, unseen>>
  BY DEF TransactionContext, kernel, client, history
<1>6. CASE call[c].op = "Prepare"
  <2>1. Goto(c, "mkdir")
    BY <1>6 DEF TransactionContext
  <2> QED
    BY <1>1, <1>2, <1>5, <1>6, <2>1, GotoMoves DEF DoesBegin, TransactionContext
<1>7. CASE call[c].op = "Remove"
  <2>1. Goto(c, "own")
    BY <1>4, <1>7 DEF TransactionContext
  <2> QED
    BY <1>1, <1>2, <1>5, <1>7, <2>1, GotoMoves DEF DoesBegin, TransactionContext
<1>8. CASE call[c].op = "Cleanup"
  <2>1. Goto(c, "scan")
    BY <1>4, <1>8 DEF TransactionContext
  <2> QED
    BY <1>1, <1>2, <1>5, <1>8, <2>1, GotoMoves DEF DoesBegin, TransactionContext
<1> QED
  BY <1>3, <1>6, <1>7, <1>8

\* Steps that leave the store and the directories alone, and where they go.
LEMMA Attaches ==
  ASSUME Types, NEW c \in Callers, Shape(c),
         Lookup(c) \/ Enable(c) \/ Link(c) \/ MountDevice(c)
  PROVE  /\ c \in Rootfs /\ call[c].op \in {"Prepare", "Mounts"} /\ call[c].pc \in Attach
         /\ \/ /\ \E p \in {"enable", "link", "mount"} : Moved(c, p)
               /\ UNCHANGED <<ready, locker, unseen>>
            \/ /\ call[c].op = "Prepare" /\ UNCHANGED <<ready, locker, unseen>>
               /\ \E p \in Committing \union {"undo"} : Moved(c, p)
            \/ /\ call[c].op = "Mounts" /\ Returned(c) /\ locker' = Unlocked(c)
               /\ \/ UNCHANGED <<ready, unseen>>
                  \/ ready' = ready \union {c} /\ unseen' = unseen \ {c}
         /\ UNCHANGED <<conf, db, seq, wtx, dirs, used, abandoned, doomed>>
<1>1. call \in [Callers -> CallRec]
  BY DEF Types
<1>2. call[c].pc \in Attach
  BY DEF Lookup, Enable, Link, MountDevice, Attach
<1>3. c \in Rootfs /\ call[c].op \in {"Prepare", "Mounts"}
  BY <1>2, CallAt
<1>4. {"enable", "link", "mount"} \subseteq Pcs
  BY DEF Pcs
<1>5. UNCHANGED <<conf, db, seq, wtx, dirs, used, abandoned, doomed>>
  BY DEF Lookup, Enable, Link, MountDevice, store, client, history
<1>6. /\ Attached(c) =>
           \/ /\ call[c].op = "Prepare" /\ \E p \in Committing : Moved(c, p)
              /\ UNCHANGED <<ready, locker, unseen>>
           \/ /\ call[c].op = "Mounts" /\ Returned(c)
              /\ ready' = ready \union {c} /\ locker' = Unlocked(c) /\ unseen' = unseen \ {c}
      /\ AttachFails(c) =>
           \/ call[c].op = "Prepare" /\ Moved(c, "undo") /\ locker' = locker
           \/ call[c].op = "Mounts" /\ Returned(c) /\ locker' = Unlocked(c)
  BY <1>1, <1>3, AttachedMoves, AttachFailsMoves
<1>7. \A p \in {"enable", "link", "mount"} : Goto(c, p) => Moved(c, p)
  BY <1>1, <1>4, GotoMoves
<1>8. \/ Attached(c)
      \/ AttachFails(c) /\ UNCHANGED <<ready, unseen>>
      \/ /\ \E p \in {"enable", "link", "mount"} : Goto(c, p)
         /\ UNCHANGED <<ready, locker, unseen>>
  BY DEF Lookup, Enable, Link, MountDevice, client
<1>9. \/ /\ \E p \in {"enable", "link", "mount"} : Moved(c, p)
         /\ UNCHANGED <<ready, locker, unseen>>
      \/ /\ call[c].op = "Prepare" /\ UNCHANGED <<ready, locker, unseen>>
         /\ \E p \in Committing \union {"undo"} : Moved(c, p)
      \/ /\ call[c].op = "Mounts" /\ Returned(c) /\ locker' = Unlocked(c)
         /\ \/ UNCHANGED <<ready, unseen>>
            \/ ready' = ready \union {c} /\ unseen' = unseen \ {c}
  BY <1>6, <1>7, <1>8, Zenon
<1> QED
  BY <1>2, <1>3, <1>5, <1>9

LEMMA MakesDirectory ==
  ASSUME Types, NEW c \in Callers, Shape(c), PrepareDirectory(c)
  PROVE  /\ c \in Keys /\ At(c, "Prepare", "mkdir")
         /\ \/ dirs' = dirs \union {NewDir} /\ Moved(c, "create") /\ wtx' = wtx
            \/ /\ dirs' \in {dirs, dirs \union {StaleDir}}
               /\ Returned(c) /\ wtx' = Nobody
         /\ UNCHANGED <<conf, db, seq, dev, mnt, ready, used, locker, abandoned,
                        doomed, clash, unseen>>
<1>1. call \in [Callers -> CallRec] /\ "create" \in Pcs
  BY DEF Types, Pcs
<1>2. c \in Keys /\ At(c, "Prepare", "mkdir")
  BY CallAt DEF PrepareDirectory, At
<1>3. \/ dirs' = dirs \union {NewDir} /\ Moved(c, "create") /\ wtx' = wtx
      \/ dirs' \in {dirs, dirs \union {StaleDir}} /\ Returned(c) /\ wtx' = Nobody
  <2>1. CASE dirs' = dirs \union {NewDir} /\ Goto(c, "create") /\ UNCHANGED wtx
    BY <1>1, <2>1, GotoMoves
  <2>2. CASE /\ wtx' = Nobody /\ Return(c)
             /\ \E stale \in SUBSET {StaleDir} : dirs' = dirs \union stale
    <3>1. Returned(c)
      BY <1>1, <2>2, ReturnReturns
    <3>2. dirs' \in {dirs, dirs \union {StaleDir}}
      BY <2>2
    <3> QED
      BY <2>2, <3>1, <3>2
  <2> QED
    BY <2>1, <2>2 DEF PrepareDirectory
<1> QED
  BY <1>2, <1>3 DEF PrepareDirectory, kernel, client, history

\* The next id is within the bound while a Prepare is under way.
LEMMA RoomForOne ==
  ASSUME Types, Room, NEW c \in Keys, call[c].op = "Prepare"
  PROVE  seq + 1 \in Ids /\ seq + 1 \in 0..MaxId
<1>1. IsFiniteSet(Keys) /\ MaxId \in Nat
  BY SnapshotterAssumption
<1>2. Preparing \subseteq Keys /\ c \in Preparing
  BY DEF Preparing
<1>3. IsFiniteSet(Preparing)
  BY <1>1, <1>2, FS_Subset
<1>4. Cardinality(Preparing) \in Nat
  BY <1>3, FS_CardinalityType
<1>5. Cardinality(Preparing) # 0
  BY <1>2, <1>3, FS_EmptySet
<1>6. seq \in Nat
  BY <1>1 DEF Types, TypeOK
<1> QED
  BY <1>1, <1>4, <1>5, <1>6 DEF Room, Ids

LEMMA Creates ==
  ASSUME Types, Room, NEW c \in Callers, Shape(c), CreateSnapshot(c)
  PROVE  /\ c \in Keys /\ At(c, "Prepare", "create")
         /\ seq + 1 \in Ids
         /\ \/ /\ dirs' = (dirs \ {NewDir}) \union {seq + 1}
               /\ Rest(c) /\ call'[c].op = "Prepare" /\ call'[c].id = seq + 1
               /\ call'[c].pc = IF c \in Layers THEN "spec" ELSE "lookup"
               /\ wtx' = wtx
               /\ abandoned' = IF seq + 1 \in call[GC].list THEN abandoned
                               ELSE abandoned \ {seq + 1}
            \/ /\ dirs' \subseteq (dirs \ {NewDir}) \union {StaleDir}
               /\ dirs \ {NewDir, seq + 1} \subseteq dirs'
               /\ Returned(c) /\ wtx' = Nobody /\ abandoned' = abandoned
         /\ UNCHANGED <<conf, db, seq, dev, mnt, ready, used, locker, doomed, clash, unseen>>
<1>1. call \in [Callers -> CallRec]
  BY DEF Types
<1>2. c \in Keys /\ At(c, "Prepare", "create")
  BY CallAt DEF CreateSnapshot, At
<1>3. seq + 1 \in Ids /\ seq + 1 \in 0..MaxId
  BY <1>2, RoomForOne DEF At
<1>4. UNCHANGED <<conf, db, seq, dev, mnt, ready, used, locker, doomed, clash, unseen>>
  BY DEF CreateSnapshot, kernel, client
<1>5. CASE /\ dirs' = (dirs \ {NewDir}) \union {seq + 1}
           /\ call' = [call EXCEPT ![c].pc = IF c \in Layers THEN "spec" ELSE "lookup",
                                   ![c].id = seq + 1]
           /\ abandoned' = IF seq + 1 \in call[GC].list THEN abandoned
                           ELSE abandoned \ {seq + 1}
           /\ UNCHANGED wtx
  <2> DEFINE rec == [call[c] EXCEPT !.pc = IF c \in Layers THEN "spec" ELSE "lookup",
                                    !.id = seq + 1]
  <2>1. call' = [call EXCEPT ![c] = rec]
    BY <1>1, <1>5 DEF CallRec
  <2>2. call[c] \in CallRec
    BY <1>1
  <2>3. /\ rec \in CallRec /\ rec.op = call[c].op /\ rec.id = seq + 1
        /\ rec.pc = IF c \in Layers THEN "spec" ELSE "lookup"
    BY <1>3, <2>2 DEF CallRec, Pcs
  <2> HIDE DEF rec
  <2>4. /\ Rest(c) /\ call'[c].op = "Prepare" /\ call'[c].id = seq + 1
        /\ call'[c].pc = IF c \in Layers THEN "spec" ELSE "lookup"
    BY <1>1, <1>2, <2>1, <2>3 DEF Rest, At
  <2> QED
    BY <1>2, <1>3, <1>4, <1>5, <2>4
<1>6. CASE /\ dirs' \subseteq (dirs \ {NewDir}) \union {StaleDir}
           /\ dirs \ {NewDir, seq + 1} \subseteq dirs'
           /\ wtx' = Nobody /\ Return(c) /\ abandoned' = abandoned
  BY <1>1, <1>2, <1>3, <1>4, <1>6, ReturnReturns
<1>7. ASSUME NEW gone \in SUBSET IF Orphaned(c) THEN {} ELSE {seq + 1},
             NEW stale \in SUBSET {StaleDir},
             dirs' = (dirs \ ({NewDir} \union gone)) \union stale
      PROVE  /\ dirs' \subseteq (dirs \ {NewDir}) \union {StaleDir}
             /\ dirs \ {NewDir, seq + 1} \subseteq dirs'
  BY <1>7
<1>8. CASE wtx' = Nobody /\ Return(c) /\ abandoned' = abandoned
  <2>1. \/ dirs' \in {dirs \ {NewDir}, dirs \ {NewDir, seq + 1}}
        \/ \E gone \in SUBSET IF Orphaned(c) THEN {} ELSE {seq + 1} :
             \E stale \in SUBSET {StaleDir} :
               dirs' = (dirs \ ({NewDir} \union gone)) \union stale
        \/ <1>5!1
    BY DEF CreateSnapshot
  <2> QED
    BY <1>5, <1>6, <1>7, <1>8, <2>1
<1> QED
  BY <1>5, <1>8 DEF CreateSnapshot

LEMMA WritesSpec ==
  ASSUME Types, NEW c \in Callers, Shape(c), ConstructOverlayBDSpec(c)
  PROVE  /\ c \in Keys /\ At(c, "Prepare", "spec")
         /\ \/ \E p \in Committing : Moved(c, p)
            \/ Moved(c, "undo")
         /\ UNCHANGED <<conf, db, seq, wtx, dirs, dev, mnt, ready, used, locker,
                        abandoned, doomed, clash, unseen>>
<1>1. call \in [Callers -> CallRec] /\ "undo" \in Pcs /\ Committing \subseteq Pcs
  BY DEF Types, Pcs, Committing
<1>2. c \in Keys /\ At(c, "Prepare", "spec")
  BY CallAt DEF ConstructOverlayBDSpec, At
<1>3. \A p \in Pcs : Goto(c, p) => Moved(c, p)
  BY <1>1, GotoMoves
<1>4. (\E p \in Committing : Moved(c, p)) \/ Moved(c, "undo")
  BY <1>1, <1>3 DEF ConstructOverlayBDSpec
<1> QED
  BY <1>2, <1>4 DEF ConstructOverlayBDSpec, store, kernel, client, history

LEMMA Undoes ==
  ASSUME Types, NEW c \in Callers, Shape(c), UndoPrepare(c)
  PROVE  /\ c \in Keys /\ At(c, "Prepare", "undo") /\ Returned(c)
         /\ wtx' = Nobody
         /\ \/ dirs' = dirs \ {call[c].id} /\ abandoned' = abandoned
            \/ dirs' = dirs /\ abandoned' = abandoned \union {call[c].id}
         /\ UNCHANGED <<conf, db, seq, dev, mnt, ready, used, locker, doomed, clash, unseen>>
<1>1. call \in [Callers -> CallRec]
  BY DEF Types
<1>2. c \in Keys /\ At(c, "Prepare", "undo")
  BY CallAt DEF UndoPrepare, At
<1> QED
  BY <1>1, <1>2, ReturnReturns DEF UndoPrepare, kernel, client

LEMMA CommitsPrepare ==
  ASSUME Types, NEW c \in Callers, Shape(c), CommitPrepare(c)
  PROVE  /\ c \in Keys /\ call[c].op = "Prepare" /\ call[c].pc \in Committing
         /\ Returned(c)
         /\ \/ /\ db' = [db EXCEPT ![c] = call[c].id] /\ seq' = call[c].id
               /\ ready' = IF c \in Rootfs THEN ready \union {c} ELSE ready
               /\ abandoned' = abandoned
            \/ /\ UNCHANGED <<db, seq, ready>>
               /\ abandoned' = abandoned \union {call[c].id}
         /\ wtx' = Nobody /\ unseen' \in {unseen, unseen \ {c}}
         /\ UNCHANGED <<conf, dirs, dev, mnt, used, locker, doomed, clash>>
<1>1. call \in [Callers -> CallRec]
  BY DEF Types
<1>2. c \in Keys /\ call[c].op = "Prepare" /\ call[c].pc \in Committing
  BY CallAt DEF CommitPrepare, MayCommit
<1>3. Returned(c)
  BY <1>1, ReturnReturns DEF CommitPrepare
<1> QED
  BY <1>2, <1>3 DEF CommitPrepare, kernel

LEMMA BeginsMounts ==
  ASSUME Types, NEW c \in Callers, Shape(c), BeginMounts(c)
  PROVE  /\ c \in Keys /\ At(c, "Mounts", "begin")
         /\ Moved(c, "lock") \/ (Moved(c, "lookup") /\ ~conf.autoRemoveDev)
         /\ UNCHANGED <<conf, db, seq, wtx, dirs, dev, mnt, ready, used, locker,
                        abandoned, doomed, clash, unseen>>
<1>1. call \in [Callers -> CallRec] /\ "lock" \in Pcs /\ "lookup" \in Pcs
  BY DEF Types, Pcs
<1>2. c \in Keys /\ At(c, "Mounts", "begin")
  BY CallAt DEF BeginMounts, At
<1>3. Goto(c, "lock") \/ (Goto(c, "lookup") /\ ~conf.autoRemoveDev)
  BY DEF BeginMounts
<1>4. Moved(c, "lock") \/ (Moved(c, "lookup") /\ ~conf.autoRemoveDev)
  BY <1>1, <1>3, GotoMoves
<1> QED
  BY <1>2, <1>4 DEF BeginMounts, store, kernel, client, history

LEMMA Locks ==
  ASSUME Types, NEW c \in Callers, Shape(c), Lock(c)
  PROVE  /\ c \in Rootfs /\ call[c].pc = "lock"
         /\ \/ call[c].op = "Mounts" /\ Moved(c, "lookup")
            \/ call[c].op = "Remove" /\ Moved(c, "check")
         /\ locker[Parent[c]] = Nobody /\ locker' = [locker EXCEPT ![Parent[c]] = c]
         /\ UNCHANGED <<conf, db, seq, wtx, dirs, dev, mnt, ready, used,
                        abandoned, doomed, clash, unseen>>
<1>1. call \in [Callers -> CallRec] /\ "check" \in Pcs /\ "lookup" \in Pcs
  BY DEF Types, Pcs
<1>2. c \in Rootfs /\ call[c].pc = "lock" /\ call[c].op \in {"Mounts", "Remove"}
  BY CallAt DEF Lock
<1>3. \/ call[c].op = "Mounts" /\ Goto(c, "lookup")
      \/ call[c].op = "Remove" /\ Goto(c, "check")
  BY <1>2 DEF Lock
<1>4. \/ call[c].op = "Mounts" /\ Moved(c, "lookup")
      \/ call[c].op = "Remove" /\ Moved(c, "check")
  BY <1>1, <1>3, GotoMoves
<1> QED
  BY <1>2, <1>4 DEF Lock, store, kernel, client, history

LEMMA DetachDetaches ==
  ASSUME Types, NEW d, Detach(d) \/ DetachFails(d)
  PROVE  UNCHANGED <<dev, mnt>> \/ Detaches(d)
<1>1. dev \in [Ids -> DevStates]
  BY DEF Types, TypeOK, DevStates
<1>2. CASE Detach(d)
  BY <1>1, <1>2 DEF Detach, DropDevice, Detaches, DevStates
<1>3. CASE DetachFails(d)
  <2>1. CASE UNCHANGED kernel
    BY <2>1 DEF kernel
  <2>2. CASE /\ mnt' = mnt \ {d}
             /\ \E left \in {"enabled", "unlinked", "linked"} :
                  dev' = [dev EXCEPT ![d] = IF @ = "linked" THEN left ELSE @]
    BY <1>1, <2>2 DEF Detaches, DevStates
  <2> QED
    BY <1>3, <2>1, <2>2 DEF DetachFails
<1> QED
  BY <1>2, <1>3

LEMMA RemoveFailsFails ==
  ASSUME Types, NEW c \in Callers, RemoveFails(c)
  PROVE  Failed(c)
BY ReturnReturns DEF Types, RemoveFails, Failed

LEMMA RemovesDevice ==
  ASSUME Types, NEW c \in Callers, Shape(c), RemoveOwnDevice(c)
  PROVE  /\ c \in Keys /\ At(c, "Remove", "own")
         /\ \/ conf.autoRemoveDev /\ c \in Rootfs /\ GoesOn(c, "lock")
            \/ GoesOn(c, "remove")
            \/ Failed(c)
         /\ UNCHANGED <<dev, mnt>> \/ (c \in Layers /\ Detaches(db[c]))
         /\ UNCHANGED <<conf, db, seq, dirs, ready, used, abandoned, doomed, clash, unseen>>
<1>1. call \in [Callers -> CallRec] /\ "lock" \in Pcs /\ "remove" \in Pcs
  BY DEF Types, Pcs
<1>2. c \in Keys /\ At(c, "Remove", "own")
  BY CallAt DEF RemoveOwnDevice, At
<1>3. UNCHANGED <<conf, db, seq, dirs, ready, used, abandoned, doomed, clash, unseen>>
  BY DEF RemoveOwnDevice, client
<1>4. \/ conf.autoRemoveDev /\ c \in Rootfs /\ Goto(c, "lock") /\ UNCHANGED <<wtx, locker>>
      \/ Goto(c, "remove") /\ UNCHANGED <<wtx, locker>>
      \/ RemoveFails(c)
  BY DEF RemoveOwnDevice
<1>5. \/ conf.autoRemoveDev /\ c \in Rootfs /\ GoesOn(c, "lock")
      \/ GoesOn(c, "remove")
      \/ Failed(c)
  BY <1>1, <1>4, GotoMoves, RemoveFailsFails DEF GoesOn
<1>6. UNCHANGED <<dev, mnt>> \/ (c \in Layers /\ Detaches(db[c]))
  <2>1. \/ UNCHANGED kernel
        \/ c \in Layers /\ (Detach(db[c]) \/ DetachFails(db[c]))
    BY DEF RemoveOwnDevice
  <2> QED
    BY <2>1, DetachDetaches DEF kernel
<1> QED
  BY <1>2, <1>3, <1>5, <1>6

LEMMA ChecksParent ==
  ASSUME Types, NEW c \in Callers, Shape(c), CheckParentDevice(c)
  PROVE  /\ c \in Rootfs /\ At(c, "Remove", "check") /\ conf.autoRemoveDev
         /\ \/ Moved(c, "remove") /\ unseen' = unseen
            \/ /\ Moved(c, "detach")
               /\ unseen' = unseen \union {k \in ready \union used : ObdId(k) = ObdId(c)}
         /\ UNCHANGED <<conf, db, seq, wtx, dirs, dev, mnt, ready, used, locker, abandoned,
                        doomed, clash>>
<1>1. call \in [Callers -> CallRec] /\ "detach" \in Pcs /\ "remove" \in Pcs
  BY DEF Types, Pcs
<1>2. At(c, "Remove", "check")
  BY DEF CheckParentDevice
<1>3. c \in Rootfs /\ conf.autoRemoveDev
  BY <1>2 DEF Shape, ShapeRemove, At
<1>4. \A p \in {"detach", "remove"} : Goto(c, p) => Moved(c, p)
  BY <1>1, GotoMoves
<1>5. UNCHANGED <<conf, db, seq, wtx, dirs, dev, mnt, ready, used, locker, abandoned, doomed,
                  clash>>
  BY DEF CheckParentDevice, store, kernel, client
<1> QED
  BY <1>2, <1>3, <1>4, <1>5 DEF CheckParentDevice

LEMMA DetachesParent ==
  ASSUME Types, NEW c \in Callers, Shape(c), DetachParentDevice(c)
  PROVE  /\ c \in Rootfs /\ At(c, "Remove", "detach") /\ conf.autoRemoveDev
         /\ GoesOn(c, "remove") \/ Failed(c)
         /\ UNCHANGED <<dev, mnt>> \/ Detaches(ObdId(c))
         /\ UNCHANGED <<conf, db, seq, dirs, ready, used, abandoned, doomed, clash, unseen>>
<1>1. call \in [Callers -> CallRec] /\ "remove" \in Pcs
  BY DEF Types, Pcs
<1>2. At(c, "Remove", "detach")
  BY DEF DetachParentDevice
<1>3. c \in Rootfs /\ conf.autoRemoveDev
  BY <1>2 DEF Shape, ShapeRemove, At
<1>4. GoesOn(c, "remove") \/ Failed(c)
  BY <1>1, GotoMoves, RemoveFailsFails DEF DetachParentDevice, GoesOn
<1>5. UNCHANGED <<dev, mnt>> \/ Detaches(ObdId(c))
  BY DetachDetaches DEF DetachParentDevice
<1> QED
  BY <1>2, <1>3, <1>4, <1>5 DEF DetachParentDevice, client

LEMMA RemovesEntry ==
  ASSUME Types, NEW c \in Callers, Shape(c), RemoveEntry(c)
  PROVE  /\ c \in Keys /\ At(c, "Remove", "remove")
         /\ \/ Failed(c)
            \/ /\ Rest(c) /\ call'[c].op = "Remove" /\ call'[c].pc = "purge"
               /\ call'[c].list = IF conf.asyncRemove THEN {} ELSE dirs \ (IDMap \ {db[c]})
               /\ UNCHANGED <<wtx, locker>>
         /\ UNCHANGED <<conf, db, seq, dirs, dev, mnt, ready, used, abandoned,
                        doomed, clash, unseen>>
<1>1. call \in [Callers -> CallRec] /\ dirs \subseteq AnyDir
  BY DEF Types, TypeOK, AnyDir
<1>2. c \in Keys /\ At(c, "Remove", "remove")
  BY CallAt DEF RemoveEntry, At
<1>3. UNCHANGED <<conf, db, seq, dirs, dev, mnt, ready, used, abandoned, doomed, clash, unseen>>
  BY DEF RemoveEntry, kernel, client, history
<1>4. CASE RemoveFails(c)
  BY <1>2, <1>3, <1>4, RemoveFailsFails
<1>5. CASE ~RemoveFails(c)
  <2> DEFINE gone == IF conf.asyncRemove THEN {} ELSE dirs \ (IDMap \ {db[c]})
             rec == [call[c] EXCEPT !.pc = "purge", !.list = gone]
  <2>1. gone \in SUBSET AnyDir
    BY <1>1
  <2>2. call' = [call EXCEPT ![c].pc = "purge", ![c].list = gone] /\ UNCHANGED <<wtx, locker>>
    BY <1>5 DEF RemoveEntry
  <2> HIDE DEF gone
  <2>3. call' = [call EXCEPT ![c] = rec]
    BY <1>1, <2>2 DEF CallRec
  <2>4. call[c] \in CallRec
    BY <1>1
  <2>5. rec \in CallRec /\ rec.op = call[c].op /\ rec.pc = "purge" /\ rec.list = gone
    BY <2>1, <2>4 DEF CallRec, Pcs
  <2> HIDE DEF rec
  <2>6. Rest(c) /\ call'[c].op = "Remove" /\ call'[c].pc = "purge" /\ call'[c].list = gone
    BY <1>1, <1>2, <2>3, <2>5 DEF Rest, At
  <2> QED
    BY <1>2, <1>3, <2>2, <2>6 DEF gone
<1> QED
  BY <1>4, <1>5

LEMMA Purges ==
  ASSUME Types, NEW c \in Callers, Shape(c), Purge(c)
  PROVE  /\ c \in Keys /\ At(c, "Remove", "purge")
         /\ \E p \in Committing : Moved(c, p)
         /\ \E kept \in SUBSET call[c].list :
              /\ dirs' = dirs \ (call[c].list \ kept)
              /\ abandoned' = abandoned \union (kept \intersect {db[c]})
         /\ doomed' = IF db[c] \in call[c].list THEN doomed \union {c} ELSE doomed
         /\ locker' = Unlocked(c)
         /\ UNCHANGED <<conf, db, seq, wtx, dev, mnt, ready, used, clash, unseen>>
<1>1. call \in [Callers -> CallRec] /\ Committing \subseteq Pcs
  BY DEF Types, Pcs, Committing
<1>2. c \in Keys /\ At(c, "Remove", "purge")
  BY CallAt DEF Purge, At
<1>3. \A p \in Pcs : Goto(c, p) => Moved(c, p)
  BY <1>1, GotoMoves
<1>4. \E p \in Committing : Moved(c, p)
  BY <1>1, <1>3 DEF Purge
<1> QED
  BY <1>2, <1>4 DEF Purge, store, kernel, client

LEMMA CommitsRemove ==
  ASSUME Types, NEW c \in Callers, Shape(c), CommitRemove(c)
  PROVE  /\ c \in Keys /\ call[c].op = "Remove" /\ call[c].pc \in Committing
         /\ Returned(c) /\ wtx' = Nobody
         /\ \/ db' = [db EXCEPT ![c] = NoId] /\ doomed' = doomed \ {c}
            \/ UNCHANGED <<db, doomed>>
         /\ UNCHANGED <<conf, seq, dirs, dev, mnt, ready, used, locker, abandoned, clash, unseen>>
<1>1. call \in [Callers -> CallRec]
  BY DEF Types
<1>2. c \in Keys /\ call[c].op = "Remove" /\ call[c].pc \in Committing
  BY CallAt DEF CommitRemove, MayCommit
<1>3. Returned(c)
  BY <1>1, ReturnReturns DEF CommitRemove
<1> QED
  BY <1>2, <1>3 DEF CommitRemove, kernel, client

LEMMA Scans ==
  ASSUME Types, NEW c \in Callers, Shape(c), Scan(c)
  PROVE  /\ c = GC /\ At(c, "Cleanup", "scan")
         /\ \/ /\ Rest(c) /\ call'[c].op = "Cleanup" /\ call'[c].pc = "sweep"
               /\ call'[c].list = dirs \ IDMap
            \/ Returned(c)
         /\ wtx' = IF wtx = c THEN Nobody ELSE wtx
         /\ UNCHANGED <<conf, db, seq, dirs, dev, mnt, ready, used, locker,
                        abandoned, doomed, clash, unseen>>
<1>1. call \in [Callers -> CallRec] /\ dirs \subseteq AnyDir
  BY DEF Types, TypeOK, AnyDir
<1>2. c = GC /\ At(c, "Cleanup", "scan")
  BY CallAt DEF Scan, At
<1> DEFINE left == dirs \ IDMap
           rec == [call[c] EXCEPT !.list = left, !.pc = "sweep"]
<1>3. left \in SUBSET AnyDir
  BY <1>1
<1>4. call' = [call EXCEPT ![c].list = left, ![c].pc = "sweep"] \/ Return(c)
  BY DEF Scan
<1> HIDE DEF left
<1>5. call' = [call EXCEPT ![c] = rec] \/ Returned(c)
  BY <1>1, <1>4, ReturnReturns DEF CallRec
<1>6. call[c] \in CallRec
  BY <1>1
<1>7. rec \in CallRec /\ rec.op = call[c].op /\ rec.pc = "sweep" /\ rec.list = left
  BY <1>3, <1>6 DEF CallRec, Pcs
<1> HIDE DEF rec
<1>8. \/ Rest(c) /\ call'[c].op = "Cleanup" /\ call'[c].pc = "sweep" /\ call'[c].list = left
      \/ Returned(c)
  BY <1>1, <1>2, <1>5, <1>7 DEF Rest, At
<1> QED
  BY <1>2, <1>8 DEF left, Scan, kernel, client, history

LEMMA Sweeps ==
  ASSUME Types, NEW c \in Callers, Shape(c), Sweep(c)
  PROVE  /\ c = GC /\ At(c, "Cleanup", "sweep")
         /\ \/ \E d \in call[c].list :
                 /\ dirs' \in {dirs, dirs \ {d}}
                 /\ Rest(c) /\ call'[c].op = "Cleanup" /\ call'[c].pc = "sweep"
                 /\ call'[c].list = call[c].list \ {d}
            \/ Returned(c) /\ dirs' = dirs
         /\ UNCHANGED <<conf, db, seq, wtx, dev, mnt, ready, used, locker,
                        abandoned, doomed, clash, unseen>>
<1>1. call \in [Callers -> CallRec]
  BY DEF Types
<1>2. c = GC /\ At(c, "Cleanup", "sweep")
  BY CallAt DEF Sweep, At
<1>3. UNCHANGED <<conf, db, seq, wtx, dev, mnt, ready, used, locker, abandoned,
                  doomed, clash, unseen>>
  BY DEF Sweep, store, kernel, client, history
<1>4. CASE Return(c) /\ UNCHANGED dirs
  BY <1>1, <1>2, <1>3, <1>4, ReturnReturns
<1>5. ASSUME NEW d \in call[c].list, dirs' \in {dirs, dirs \ {d}},
             call' = [call EXCEPT ![c].list = @ \ {d}]
      PROVE  /\ Rest(c) /\ call'[c].op = "Cleanup" /\ call'[c].pc = "sweep"
             /\ call'[c].list = call[c].list \ {d}
  <2> DEFINE rec == [call[c] EXCEPT !.list = @ \ {d}]
  <2>1. call' = [call EXCEPT ![c] = rec]
    BY <1>5
  <2>2. call[c] \in CallRec
    BY <1>1
  <2>3. rec \in CallRec /\ rec.op = call[c].op /\ rec.pc = call[c].pc
        /\ rec.list = call[c].list \ {d}
    BY <2>2 DEF CallRec
  <2> HIDE DEF rec
  <2> QED
    BY <1>1, <1>2, <2>1, <2>3 DEF Rest, At
<1> QED
  BY <1>2, <1>3, <1>4, <1>5 DEF Sweep

-----------------------------------------------------------------------------
(* Types and shapes *)

LEMMA StepRest ==
  ASSUME Types, Room, NEW c \in Callers, Shape(c), Step(c)
  PROVE  /\ Rest(c) /\ conf' = conf /\ used' = used
         /\ call[c].op # "none"
         /\ call'[c].op = call[c].op \/ Returned(c)
<1> USE DEF Moved, Returned, Failed, GoesOn, At
<1>1. CASE TransactionContext(c)
  BY <1>1, Begins DEF DoesBegin
<1>2. CASE PrepareDirectory(c)
  BY <1>2, MakesDirectory
<1>3. CASE CreateSnapshot(c)
  BY <1>3, Creates
<1>4. CASE ConstructOverlayBDSpec(c)
  BY <1>4, WritesSpec
<1>5. CASE Lookup(c) \/ Enable(c) \/ Link(c) \/ MountDevice(c)
  BY <1>5, Attaches
<1>6. CASE UndoPrepare(c)
  BY <1>6, Undoes
<1>7. CASE CommitPrepare(c)
  BY <1>7, CommitsPrepare
<1>8. CASE BeginMounts(c)
  BY <1>8, BeginsMounts
<1>9. CASE Lock(c)
  BY <1>9, Locks
<1>10. CASE RemoveOwnDevice(c)
  BY <1>10, RemovesDevice
<1>11. CASE CheckParentDevice(c) \/ DetachParentDevice(c)
  BY <1>11, ChecksParent, DetachesParent
<1>12. CASE RemoveEntry(c)
  BY <1>12, RemovesEntry
<1>13. CASE Purge(c)
  BY <1>13, Purges
<1>14. CASE CommitRemove(c)
  BY <1>14, CommitsRemove
<1>15. CASE Scan(c)
  BY <1>15, Scans
<1>16. CASE Sweep(c)
  BY <1>16, Sweeps
<1> QED
  BY <1>1, <1>2, <1>3, <1>4, <1>5, <1>6, <1>7, <1>8, <1>9, <1>10, <1>11, <1>12, <1>13,
     <1>14, <1>15, <1>16 DEF Step

\* Whoever returns may be anywhere.
LEMMA ReturnedShape ==
  ASSUME NEW c \in Callers, Returned(c)
  PROVE  Shape(c)'
BY DEF Returned, Shape, ShapePrepare, ShapeMounts, ShapeRemove, ShapeCleanup, ShapeNone, Idle

\* A move within a Prepare, a Mounts, a Remove or a Cleanup.
LEMMA MovedShape ==
  ASSUME Types, Room, NEW c \in Callers, Shape(c), Step(c)
  PROVE  Shape(c)'
<1>0. conf' = conf /\ (Returned(c) => Shape(c)')
  BY StepRest, ReturnedShape
<1> USE DEF Moved, Failed, GoesOn, At, Committing, Attach
<1>1. ASSUME call'[c].op = "Prepare", c \in Keys,
             call'[c].pc \in {"begin", "mkdir", "create", "spec", "undo"}
                               \union Attach \union Committing,
             call'[c].pc = "spec" => c \in Layers, call'[c].pc \in Attach => c \in Rootfs
      PROVE  Shape(c)'
  BY <1>1 DEF Shape, ShapePrepare, ShapeMounts, ShapeRemove, ShapeCleanup, ShapeNone
<1>2. ASSUME call'[c].op = "Mounts", c \in Rootfs,
             call'[c].pc \in {"begin", "lock"} \union Attach
      PROVE  Shape(c)'
  BY <1>2 DEF Shape, ShapePrepare, ShapeMounts, ShapeRemove, ShapeCleanup, ShapeNone
<1>3. ASSUME call'[c].op = "Remove", c \in Keys,
             call'[c].pc \in {"begin", "own", "lock", "check", "detach", "remove", "purge"}
                               \union Committing,
             call'[c].pc \in {"lock", "check", "detach"} => c \in Rootfs /\ conf.autoRemoveDev
      PROVE  Shape(c)'
  BY <1>0, <1>3 DEF Shape, ShapePrepare, ShapeMounts, ShapeRemove, ShapeCleanup, ShapeNone
<1>4. ASSUME call'[c].op = "Cleanup", c = GC, call'[c].pc \in {"begin", "scan", "sweep"}
      PROVE  Shape(c)'
  BY <1>4 DEF Shape, ShapePrepare, ShapeMounts, ShapeRemove, ShapeCleanup, ShapeNone
<1>5. c \in Rootfs \/ c \in Layers => c \in Keys
  BY DEF Keys
<1>6. c \in Keys => c \in Layers \/ c \in Rootfs
  BY DEF Keys
<1>11. CASE TransactionContext(c)
  <2>1. DoesBegin(c)
    BY <1>11, Begins
  <2>2. CASE call[c].op = "Prepare"
    BY <1>1, <2>1, <2>2, CallAt DEF DoesBegin
  <2>3. CASE call[c].op = "Remove"
    BY <1>3, <2>1, <2>3, CallAt DEF DoesBegin
  <2>4. CASE call[c].op = "Cleanup"
    BY <1>4, <2>1, <2>4, CallAt DEF DoesBegin
  <2> QED
    BY <2>1, <2>2, <2>3, <2>4 DEF DoesBegin
<1>12. CASE PrepareDirectory(c)
  BY <1>0, <1>1, <1>12, MakesDirectory
<1>13. CASE CreateSnapshot(c)
  BY <1>0, <1>1, <1>6, <1>13, Creates
<1>14. CASE ConstructOverlayBDSpec(c)
  BY <1>1, <1>14, WritesSpec
<1>15. CASE Lookup(c) \/ Enable(c) \/ Link(c) \/ MountDevice(c)
  <2>1. /\ c \in Rootfs /\ call[c].op \in {"Prepare", "Mounts"}
        /\ \/ Returned(c)
           \/ \E p \in {"enable", "link", "mount"} : Moved(c, p)
           \/ call[c].op = "Prepare" /\ \E p \in Committing \union {"undo"} : Moved(c, p)
    BY <1>15, Attaches
  <2>2. CASE call[c].op = "Prepare"
    BY <1>0, <1>1, <1>5, <2>1, <2>2
  <2>3. CASE call[c].op = "Mounts"
    BY <1>0, <1>2, <2>1, <2>3
  <2> QED
    BY <2>1, <2>2, <2>3
<1>16. CASE UndoPrepare(c)
  BY <1>0, <1>16, Undoes
<1>17. CASE CommitPrepare(c)
  BY <1>0, <1>17, CommitsPrepare
<1>18. CASE BeginMounts(c)
  <2>1. c \in Rootfs
    BY <1>18 DEF BeginMounts, Shape, ShapeMounts
  <2> QED
    BY <1>2, <1>18, <2>1, BeginsMounts
<1>19. CASE Lock(c)
  <2>1. call[c].op = "Remove" => conf.autoRemoveDev
    BY <1>19 DEF Lock, Shape, ShapeRemove
  <2>2. CASE call[c].op = "Mounts"
    BY <1>2, <1>19, <2>2, Locks
  <2>3. CASE call[c].op = "Remove"
    BY <1>3, <1>5, <1>19, <2>1, <2>3, Locks
  <2> QED
    BY <1>19, <2>2, <2>3, Locks
<1>20. CASE RemoveOwnDevice(c)
  BY <1>0, <1>3, <1>20, RemovesDevice
<1>21. CASE CheckParentDevice(c) \/ DetachParentDevice(c)
  BY <1>0, <1>3, <1>5, <1>21, ChecksParent, DetachesParent
<1>22. CASE RemoveEntry(c)
  BY <1>0, <1>3, <1>22, RemovesEntry
<1>23. CASE Purge(c)
  BY <1>3, <1>23, Purges
<1>24. CASE CommitRemove(c)
  BY <1>0, <1>24, CommitsRemove
<1>25. CASE Scan(c)
  BY <1>0, <1>4, <1>25, Scans
<1>26. CASE Sweep(c)
  BY <1>0, <1>4, <1>26, Sweeps
<1> QED
  BY <1>11, <1>12, <1>13, <1>14, <1>15, <1>16, <1>17, <1>18, <1>19, <1>20, <1>21, <1>22,
     <1>23, <1>24, <1>25, <1>26 DEF Step

\* A layer with a call under way on one of its children has an id.
LEMMA ParentHasId ==
  ASSUME Types, Family, NEW c \in Rootfs, call[c].op # "none" \/ db[c] # NoId
  PROVE  ObdId(c) \in Ids /\ Parent[c] \in Layers /\ Parent[c] \in Keys
<1>1. Parent[c] \in Layers /\ Parent[c] \in Keys /\ c \in Keys
  BY SnapshotterAssumption DEF Keys
<1>2. db[Parent[c]] # NoId
  BY DEF Family
<1>3. db[Parent[c]] \in 0..MaxId
  BY <1>1 DEF Types, TypeOK
<1> QED
  BY <1>1, <1>2, <1>3, SnapshotterAssumption DEF ObdId, Ids, NoId

LEMMA UnlockedType ==
  ASSUME locker \in [Layers -> Rootfs \union {Nobody}], NEW c
  PROVE  Unlocked(c) \in [Layers -> Rootfs \union {Nobody}]
BY DEF Unlocked

LEMMA KernelTypes ==
  ASSUME Types, Room, Family, NEW c \in Callers, Shape(c), Step(c)
  PROVE  dev' \in [Ids -> DevStates] /\ mnt' \subseteq Ids
<1>1. dev \in [Ids -> DevStates] /\ mnt \subseteq Ids
  BY DEF Types, TypeOK, DevStates
<1>2. \A d : DropTarget(d) \/ DropDevice(d) \/ DropFails(d) => dev' \in [Ids -> DevStates]
  BY <1>1 DEF DropTarget, DropDevice, DropFails, DevStates
<1>3. CASE Enable(c) \/ Link(c) \/ Lookup(c)
  <2>1. mnt' = mnt
    BY <1>3 DEF Enable, Link, Lookup, kernel
  <2>2. dev' \in [Ids -> DevStates]
    BY <1>1, <1>2, <1>3 DEF Enable, Link, Lookup, kernel, DevStates
  <2> QED
    BY <1>1, <2>1, <2>2
<1>4. CASE MountDevice(c)
  <2>1. dev' \in [Ids -> DevStates]
    BY <1>1, <1>2, <1>4 DEF MountDevice
  <2>2. ObdId(c) \in Ids
    BY <1>4, Attaches, ParentHasId
  <2> QED
    BY <1>1, <1>4, <2>1, <2>2 DEF MountDevice
<1>5. CASE RemoveOwnDevice(c)
  BY <1>1, <1>5, RemovesDevice DEF Detaches
<1>6. CASE CheckParentDevice(c) \/ DetachParentDevice(c)
  BY <1>1, <1>6, ChecksParent, DetachesParent DEF Detaches
<1>7. CASE UNCHANGED <<dev, mnt>>
  BY <1>1, <1>7
<1> QED
  BY <1>3, <1>4, <1>5, <1>6, <1>7
  DEF Step, TransactionContext, PrepareDirectory, CreateSnapshot, ConstructOverlayBDSpec,
      UndoPrepare, CommitPrepare, BeginMounts, Lock, RemoveEntry, Purge, CommitRemove, Scan,
      Sweep, kernel

LEMMA FaultType ==
  ASSUME faults \in [steps : 0..MaxFaults, undos : 0..MaxUndos], Fault \/ UndoFault
  PROVE  faults' \in [steps : 0..MaxFaults, undos : 0..MaxUndos]
<1>1. MaxFaults \in Nat /\ MaxUndos \in Nat
  BY SnapshotterAssumption
<1> QED
  BY <1>1 DEF Fault, UndoFault

LEMMA FaultTypes ==
  ASSUME Types, NEW c \in Callers, Step(c)
  PROVE  faults' \in [steps : 0..MaxFaults, undos : 0..MaxUndos]
<1>1. faults' = faults \/ Fault \/ UndoFault
  BY DEF Step, TransactionContext, PrepareDirectory, CreateSnapshot, ConstructOverlayBDSpec,
         Lookup, Enable, Link, MountDevice, UndoPrepare, CommitPrepare, BeginMounts, Lock,
         RemoveOwnDevice, CheckParentDevice, DetachParentDevice, DetachFails, RemoveEntry,
         Purge, CommitRemove, Scan, Sweep
<1> QED
  BY <1>1, FaultType DEF Types, TypeOK

LEMMA LockTypes ==
  ASSUME Types, Room, NEW c \in Callers, Shape(c), Step(c)
  PROVE  locker' \in [Layers -> Rootfs \union {Nobody}]
<1>1. locker \in [Layers -> Rootfs \union {Nobody}]
  BY DEF Types, TypeOK
<1>2. Unlocked(c) \in [Layers -> Rootfs \union {Nobody}]
  BY <1>1, UnlockedType
<1>3. CASE Lock(c)
  BY <1>1, <1>3, Locks
<1>4. CASE Lookup(c) \/ Enable(c) \/ Link(c) \/ MountDevice(c)
  BY <1>1, <1>2, <1>4, Attaches
<1>5. CASE RemoveEntry(c) \/ RemoveOwnDevice(c) \/ DetachParentDevice(c)
  BY <1>1, <1>2, <1>5, RemovesEntry, RemovesDevice, DetachesParent DEF Failed, GoesOn
<1>6. CASE Purge(c)
  BY <1>2, <1>6, Purges
<1>7. CASE locker' = locker
  BY <1>1, <1>7
<1> QED
  BY <1>3, <1>4, <1>5, <1>6, <1>7
  DEF Step, TransactionContext, PrepareDirectory, CreateSnapshot, ConstructOverlayBDSpec,
      UndoPrepare, CommitPrepare, BeginMounts, CheckParentDevice, CommitRemove, Scan, Sweep

LEMMA StoreTypes ==
  ASSUME Types, Room, NEW c \in Callers, Shape(c), Step(c)
  PROVE  /\ db' \in [Keys -> 0..MaxId] /\ seq' \in 0..MaxId
         /\ wtx' \in Callers \union {Nobody}
<1>1. /\ db \in [Keys -> 0..MaxId] /\ seq \in 0..MaxId /\ wtx \in Callers \union {Nobody}
      /\ call[c].id \in 0..MaxId /\ NoId \in 0..MaxId
  BY SnapshotterAssumption DEF Types, TypeOK, CallRec, NoId
<1>2. CASE CommitPrepare(c)
  BY <1>1, <1>2, CommitsPrepare
<1>3. CASE CommitRemove(c)
  BY <1>1, <1>3, CommitsRemove
<1>4. CASE UNCHANGED <<db, seq>>
  <2>1. wtx' \in {wtx, c, Nobody}
    BY DEF Step, TransactionContext, PrepareDirectory, CreateSnapshot,
           ConstructOverlayBDSpec, Lookup, Enable, Link, MountDevice, UndoPrepare,
           CommitPrepare, BeginMounts, Lock, RemoveOwnDevice, CheckParentDevice,
           DetachParentDevice, RemoveEntry, RemoveFails, Purge, CommitRemove, Scan, Sweep, store
  <2> QED
    BY <1>1, <1>4, <2>1
<1> QED
  BY <1>2, <1>3, <1>4
  DEF Step, TransactionContext, PrepareDirectory, CreateSnapshot, ConstructOverlayBDSpec,
      Lookup, Enable, Link, MountDevice, UndoPrepare, BeginMounts, Lock, RemoveOwnDevice,
      CheckParentDevice, DetachParentDevice, RemoveEntry, Purge, Scan, Sweep, store

LEMMA DirTypes ==
  ASSUME Types, Room, NEW c \in Callers, Shape(c), Step(c)
  PROVE  dirs' \subseteq Ids \union {NewDir, StaleDir}
<1>1. dirs \subseteq Ids \union {NewDir, StaleDir}
  BY DEF Types, TypeOK
<1>2. CASE PrepareDirectory(c)
  BY <1>1, <1>2, MakesDirectory
<1>3. CASE CreateSnapshot(c)
  BY <1>1, <1>3, Creates
<1>4. CASE UndoPrepare(c) \/ Purge(c) \/ Sweep(c)
  BY <1>1, <1>4, Undoes, Purges, Sweeps
<1>5. CASE dirs' = dirs
  BY <1>1, <1>5
<1> QED
  BY <1>2, <1>3, <1>4, <1>5
  DEF Step, TransactionContext, ConstructOverlayBDSpec, Lookup, Enable, Link, MountDevice,
      CommitPrepare, BeginMounts, Lock, RemoveOwnDevice, CheckParentDevice,
      DetachParentDevice, RemoveEntry, CommitRemove, Scan

LEMMA ReadyStep ==
  ASSUME Types, Room, NEW c \in Callers, Shape(c), Step(c)
  PROVE  \/ ready' = ready
         \/ /\ call[c].op \in {"Mounts", "Prepare"} /\ c \in Rootfs /\ Returned(c)
            /\ ready' = ready \union {c}
            /\ call[c].op = "Prepare" => db' = [db EXCEPT ![c] = call[c].id]
            /\ call[c].op = "Mounts" => db' = db
<1>1. CASE CommitPrepare(c)
  BY <1>1, CommitsPrepare
<1>2. CASE Lookup(c) \/ Enable(c) \/ Link(c) \/ MountDevice(c)
  BY <1>2, Attaches
<1>3. CASE ready' = ready
  BY <1>3
<1> QED
  BY <1>1, <1>2, <1>3
  DEF Step, TransactionContext, PrepareDirectory, CreateSnapshot, ConstructOverlayBDSpec,
      UndoPrepare, BeginMounts, Lock, RemoveOwnDevice, CheckParentDevice,
      DetachParentDevice, RemoveEntry, Purge, CommitRemove, Scan, Sweep, client

LEMMA TypesStep ==
  ASSUME Types, Room, Family, NEW c \in Callers, Shape(c), Step(c)
  PROVE  Types'
<1>1. call' \in [Callers -> CallRec] /\ conf' = conf /\ used' = used
  BY StepRest DEF Rest
<1>2. conf' \in Confs /\ ready' \union used' \subseteq Rootfs
  BY <1>1, ReadyStep DEF Types, TypeOK
<1> QED
  BY <1>1, <1>2, FaultTypes, KernelTypes, LockTypes, StoreTypes, DirTypes
  DEF Types, TypeOK, DevStates

LEMMA ShapesStep ==
  ASSUME Types, Room, Shapes, NEW c \in Callers, Step(c)
  PROVE  Shapes'
<1>1. Rest(c) /\ conf' = conf /\ Shape(c)'
  BY StepRest, MovedShape DEF Shapes
<1>2. ASSUME NEW o \in Callers, o # c
      PROVE  Shape(o)'
  <2>1. call'[o] = call[o] /\ Shape(o)
    BY <1>1, <1>2 DEF Rest, Shapes
  <2> QED
    BY <1>1, <2>1
    DEF Shape, ShapePrepare, ShapeMounts, ShapeRemove, ShapeCleanup, ShapeNone
<1> QED
  BY <1>1, <1>2 DEF Shapes

-----------------------------------------------------------------------------
(* The transaction and the database *)

LEMMA TransactionStep ==
  ASSUME Types, Room, Shapes, Transactions, NEW c \in Callers, Step(c)
  PROVE  \/ wtx' = wtx /\ (InTx(c)' => InTx(c))
         \/ wtx = Nobody /\ wtx' = c
         \/ InTx(c) /\ wtx' = Nobody /\ ~InTx(c)'
<1>0. Shape(c) /\ (Returned(c) => ~InTx(c)')
  BY DEF Shapes, Returned, InTx
<1>s. InTx(c) => wtx = c
  BY DEF Transactions
<1> USE DEF Moved, Failed, GoesOn, At
<1>1. CASE TransactionContext(c)
  BY <1>0, <1>1, Begins DEF DoesBegin
<1>2. CASE PrepareDirectory(c)
  BY <1>0, <1>2, MakesDirectory DEF InTx
<1>3. CASE CreateSnapshot(c)
  BY <1>0, <1>3, Creates DEF InTx
<1>4. CASE ConstructOverlayBDSpec(c)
  BY <1>0, <1>4, WritesSpec DEF InTx
<1>5. CASE Lookup(c) \/ Enable(c) \/ Link(c) \/ MountDevice(c)
  <2>1. /\ call[c].op \in {"Prepare", "Mounts"} /\ call[c].pc \in Attach /\ wtx' = wtx
        /\ \/ Returned(c)
           \/ \E p \in {"enable", "link", "mount"} : Moved(c, p)
           \/ call[c].op = "Prepare" /\ \E p \in Committing \union {"undo"} : Moved(c, p)
    BY <1>0, <1>5, Attaches
  <2> QED
    BY <1>0, <2>1 DEF InTx, Attach
<1>6. CASE UndoPrepare(c)
  BY <1>0, <1>6, Undoes DEF InTx
<1>7. CASE CommitPrepare(c)
  BY <1>0, <1>7, CommitsPrepare DEF InTx, Committing
<1>8. CASE BeginMounts(c)
  BY <1>0, <1>8, BeginsMounts DEF InTx
<1>9. CASE Lock(c)
  BY <1>0, <1>9, Locks DEF InTx
<1>10. CASE RemoveOwnDevice(c)
  BY <1>0, <1>10, RemovesDevice DEF InTx
<1>11. CASE CheckParentDevice(c) \/ DetachParentDevice(c)
  BY <1>0, <1>11, ChecksParent, DetachesParent DEF InTx
<1>12. CASE RemoveEntry(c)
  BY <1>0, <1>12, RemovesEntry DEF InTx
<1>13. CASE Purge(c)
  BY <1>0, <1>13, Purges DEF InTx
<1>14. CASE CommitRemove(c)
  BY <1>0, <1>14, CommitsRemove DEF InTx, Committing
<1>15. CASE Scan(c)
  BY <1>0, <1>s, <1>15, Scans DEF InTx
<1>16. CASE Sweep(c)
  BY <1>0, <1>16, Sweeps DEF InTx
<1> QED
  BY <1>1, <1>2, <1>3, <1>4, <1>5, <1>6, <1>7, <1>8, <1>9, <1>10, <1>11, <1>12, <1>13,
     <1>14, <1>15, <1>16 DEF Step

LEMMA TransactionsStep ==
  ASSUME Types, Room, Shapes, Transactions, NEW c \in Callers, Step(c)
  PROVE  Transactions'
<1>1. \/ wtx' = wtx /\ (InTx(c)' => InTx(c))
      \/ wtx = Nobody /\ wtx' = c
      \/ InTx(c) /\ wtx' = Nobody /\ ~InTx(c)'
  BY TransactionStep
<1>2. Rest(c) /\ c # Nobody
  BY StepRest, SnapshotterAssumption DEF Shapes, Callers, GC, Nobody
<1>3. ASSUME NEW o \in Callers, InTx(o)'
      PROVE  wtx' = o
  <2>1. CASE o = c
    BY <1>1, <1>3, <2>1 DEF Transactions
  <2>2. CASE o # c
    <3>1. call'[o] = call[o] /\ o # Nobody
      BY <1>2, <2>2, SnapshotterAssumption DEF Rest, Callers, GC, Nobody
    <3>2. InTx(o)
      BY <1>3, <3>1 DEF InTx
    <3>3. wtx = o
      BY <3>2 DEF Transactions
    <3>4. ~InTx(c)
      BY <2>2, <3>3 DEF Transactions
    <3> QED
      BY <1>1, <3>1, <3>3, <3>4
  <2> QED
    BY <2>1, <2>2
<1> QED
  BY <1>3 DEF Transactions

\* The two steps that write to the database, and all the others.
LEMMA StoreStep ==
  ASSUME NEW c \in Callers, Step(c)
  PROVE  UNCHANGED <<db, seq>> \/ CommitPrepare(c) \/ CommitRemove(c)
BY DEF Step, TransactionContext, PrepareDirectory, CreateSnapshot, ConstructOverlayBDSpec,
       Lookup, Enable, Link, MountDevice, UndoPrepare, BeginMounts, Lock, RemoveOwnDevice,
       CheckParentDevice, DetachParentDevice, RemoveEntry, Purge, Scan, Sweep, store

\* A Prepare that commits takes the next id.
LEMMA NewEntry ==
  ASSUME Types, Shapes, FreshId, NEW c \in Callers, CommitPrepare(c)
  PROVE  /\ c \in Keys /\ Named(c) /\ call[c].id = seq + 1
         /\ \/ /\ db'[c] = seq + 1 /\ seq' = seq + 1 /\ abandoned' = abandoned
               /\ \A k \in Keys \ {c} : db'[k] = db[k]
            \/ db' = db /\ seq' = seq /\ abandoned' = abandoned \union {seq + 1}
<1>1. /\ c \in Keys /\ call[c].op = "Prepare" /\ call[c].pc \in Committing
      /\ \/ /\ db' = [db EXCEPT ![c] = call[c].id] /\ seq' = call[c].id
            /\ abandoned' = abandoned
         \/ db' = db /\ seq' = seq /\ abandoned' = abandoned \union {call[c].id}
  BY CommitsPrepare DEF Shapes
<1>2. Named(c)
  BY <1>1 DEF Named
<1>3. call[c].id = seq + 1
  BY <1>1, <1>2 DEF FreshId
<1>4. db \in [Keys -> 0..MaxId]
  BY DEF Types, TypeOK
<1> QED
  BY <1>1, <1>2, <1>3, <1>4

LEMMA OldEntry ==
  ASSUME Types, Shapes, NEW c \in Callers, CommitRemove(c)
  PROVE  /\ c \in Keys /\ call[c].op = "Remove" /\ call[c].pc \in Committing
         /\ Returned(c) /\ seq' = seq
         /\ \/ db'[c] = NoId /\ doomed' = doomed \ {c} /\ \A k \in Keys \ {c} : db'[k] = db[k]
            \/ db' = db /\ doomed' = doomed
<1>1. db \in [Keys -> 0..MaxId]
  BY DEF Types, TypeOK
<1> QED
  BY <1>1, CommitsRemove DEF Shapes

LEMMA EntriesStep ==
  ASSUME Types, Shapes, FreshId, Entries, NEW c \in Callers, Step(c)
  PROVE  Entries'
<1>1. seq \in Nat /\ \A k \in Keys : db[k] \in Nat /\ db[k] <= seq
  BY SnapshotterAssumption DEF Types, TypeOK, Entries
<1>2. CASE CommitPrepare(c)
  <2>1. CASE db' = db /\ seq' = seq
    BY <2>1 DEF Entries
  <2>2. CASE /\ db'[c] = seq + 1 /\ seq' = seq + 1 /\ c \in Keys
             /\ \A k \in Keys \ {c} : db'[k] = db[k]
    <3>1. \A k \in Keys : db'[k] <= seq'
      BY <1>1, <2>2
    <3>2. ASSUME NEW j \in Keys, NEW k \in Keys, db'[j] # NoId, db'[j] = db'[k]
          PROVE  j = k
      <4>1. CASE j = c \/ k = c
        BY <1>1, <2>2, <3>2, <4>1
      <4>2. CASE j # c /\ k # c
        BY <2>2, <3>2, <4>2 DEF Entries
      <4> QED
        BY <4>1, <4>2
    <3> QED
      BY <3>1, <3>2 DEF Entries
  <2> QED
    BY <1>2, <2>1, <2>2, NewEntry
<1>3. CASE CommitRemove(c)
  <2>1. CASE db' = db /\ seq' = seq
    BY <2>1 DEF Entries
  <2>2. CASE db'[c] = NoId /\ seq' = seq /\ c \in Keys /\ \A k \in Keys \ {c} : db'[k] = db[k]
    BY <1>1, <2>2 DEF Entries, NoId
  <2> QED
    BY <1>3, <2>1, <2>2, OldEntry
<1>4. CASE UNCHANGED <<db, seq>>
  BY <1>4 DEF Entries
<1> QED
  BY <1>2, <1>3, <1>4, StoreStep

LEMMA RoomStep ==
  ASSUME Types, Room, Shapes, FreshId, NEW c \in Callers, Step(c)
  PROVE  Room'
<1>1. IsFiniteSet(Keys) /\ MaxId \in Nat /\ seq \in Nat
  BY SnapshotterAssumption DEF Types, TypeOK
<1>2. Preparing \subseteq Keys
  BY DEF Preparing
<1>3. IsFiniteSet(Preparing)
  BY <1>1, <1>2, FS_Subset
<1>4. Cardinality(Preparing) \in Nat
  BY <1>3, FS_CardinalityType
<1>5. Rest(c) /\ (call'[c].op = call[c].op \/ call'[c].op = "none")
  BY StepRest DEF Shapes, Returned
<1>6. Keys \subseteq Callers
  BY DEF Callers
<1>7. Preparing' \subseteq Preparing
  BY <1>5, <1>6 DEF Preparing, Rest
<1>8. IsFiniteSet(Preparing')
  BY <1>3, <1>7, FS_Subset
<1>9. Cardinality(Preparing') \in Nat /\ Cardinality(Preparing') <= Cardinality(Preparing)
  BY <1>3, <1>7, <1>8, FS_CardinalityType, FS_Subset
<1>10. CASE CommitPrepare(c)
  <2>1. seq' = seq \/ seq' = seq + 1
    BY <1>10, NewEntry
  <2>2. c \in Preparing /\ c \notin Preparing'
    <3>1. c \in Keys /\ call[c].op = "Prepare" /\ call'[c].op = "none"
      BY <1>10, CommitsPrepare DEF Shapes, Returned
    <3> QED
      BY <3>1 DEF Preparing
  <2>3. Preparing' \subseteq Preparing \ {c}
    BY <1>7, <2>2
  <2>4. IsFiniteSet(Preparing \ {c}) /\ Cardinality(Preparing \ {c}) = Cardinality(Preparing) - 1
    BY <1>3, <2>2, FS_RemoveElement
  <2>5. Cardinality(Preparing') <= Cardinality(Preparing \ {c})
    BY <2>3, <2>4, FS_Subset
  <2>6. Cardinality(Preparing') + 1 <= Cardinality(Preparing)
    BY <1>4, <1>9, <2>4, <2>5
  <2> QED
    BY <1>1, <1>4, <1>9, <2>1, <2>6 DEF Room
<1>11. CASE seq' = seq
  BY <1>1, <1>4, <1>9, <1>11 DEF Room
<1> QED
  BY <1>10, <1>11, StoreStep, OldEntry

LEMMA TimelyStep ==
  ASSUME Types, Room, Shapes, FreshId, Timely, NEW c \in Callers, Step(c)
  PROVE  Timely'
<1>1. Rest(c) /\ used' = used /\ (call'[c].op = call[c].op \/ call'[c].op = "none")
  BY StepRest DEF Shapes, Returned
<1>2. seq \in Nat /\ Shape(c)
  BY SnapshotterAssumption DEF Types, TypeOK, Shapes
<1>3. SUFFICES ASSUME NEW k \in Keys
               PROVE  /\ call'[k].op = "Prepare" => db'[k] = NoId
                      /\ call'[k].op \in {"Mounts", "Remove"} => db'[k] # NoId
                      /\ k \in ready' \union used' => db'[k] # NoId /\ call'[k].op # "Remove"
  BY DEF Timely
<1>4. k \in Callers
  BY DEF Callers
<1>5. /\ call[k].op = "Prepare" => db[k] = NoId
      /\ call[k].op \in {"Mounts", "Remove"} => db[k] # NoId
      /\ k \in ready \union used => db[k] # NoId /\ call[k].op # "Remove"
  BY DEF Timely
<1>6. CASE k # c
  <2>1. call'[k] = call[k]
    BY <1>1, <1>4, <1>6 DEF Rest
  <2>2. db'[k] = db[k]
    BY <1>6, StoreStep, NewEntry, OldEntry
  <2>3. k \in ready' => k \in ready
    BY <1>2, <1>6, ReadyStep
  <2> QED
    BY <1>1, <1>5, <2>1, <2>2, <2>3
<1>7. CASE k = c
  <2>1. CASE CommitPrepare(c)
    <3>1. call'[c].op = "none" /\ call[c].op = "Prepare"
      BY <1>2, <2>1, CommitsPrepare DEF Returned
    <3>2. CASE db' = db /\ ready' = ready
      BY <1>1, <1>5, <1>7, <3>1, <3>2
    <3>3. CASE db'[c] = seq + 1
      BY <1>2, <1>7, <3>1, <3>3 DEF NoId
    <3> QED
      BY <1>2, <2>1, <3>2, <3>3, NewEntry, CommitsPrepare
  <2>2. CASE CommitRemove(c)
    <3>1. call'[c].op = "none" /\ call[c].op = "Remove" /\ ready' = ready
      BY <1>2, <2>2, CommitsRemove DEF Returned
    <3> QED
      BY <1>1, <1>5, <1>7, <3>1
  <2>3. CASE db' = db
    <3>1. CASE ready' = ready
      BY <1>1, <1>5, <1>7, <2>3, <3>1
    <3>2. CASE call[c].op = "Mounts" /\ call'[c].op = "none"
      BY <1>1, <1>5, <1>7, <2>3, <3>2
    <3>3. CASE /\ call[c].op = "Prepare" /\ call'[c].op = "none"
               /\ db' = [db EXCEPT ![c] = call[c].id]
      <4>1. CommitPrepare(c) \/ ready' = ready
        <5>1. Lookup(c) \/ Enable(c) \/ Link(c) \/ MountDevice(c) => ready' = ready
          BY <1>2, <3>3, Attaches
        <5> QED
          BY <5>1
          DEF Step, TransactionContext, PrepareDirectory, CreateSnapshot,
              ConstructOverlayBDSpec, UndoPrepare, BeginMounts, Lock, RemoveOwnDevice,
              CheckParentDevice, DetachParentDevice, RemoveEntry, Purge, CommitRemove, Scan,
              Sweep, client
      <4> QED
        BY <2>1, <3>1, <4>1
    <3> QED
      BY <1>2, <3>1, <3>2, <3>3, ReadyStep DEF Returned
  <2> QED
    BY <2>1, <2>2, <2>3, StoreStep
<1> QED
  BY <1>6, <1>7

LEMMA FamilyStep ==
  ASSUME Types, Room, Shapes, FreshId, Timely, Family, NEW c \in Callers, Step(c)
  PROVE  Family'
<1>1. /\ Rest(c) /\ call[c].op # "none"
      /\ call'[c].op = call[c].op \/ call'[c].op = "none"
  BY StepRest DEF Shapes, Returned
<1>2. SUFFICES ASSUME NEW r \in Rootfs, db'[r] # NoId \/ call'[r].op # "none"
               PROVE  db'[Parent[r]] # NoId /\ call'[Parent[r]].op # "Remove"
  BY DEF Family
<1> DEFINE l == Parent[r]
<1>3. l \in Keys /\ l \in Layers /\ r \in Keys /\ l # r /\ l \in Callers /\ r \in Callers
  BY SnapshotterAssumption DEF Keys, Callers
<1> HIDE DEF l
<1>4. db[r] # NoId \/ call[r].op # "none"
  <2>1. CASE r = c
    BY <1>1, <2>1
  <2>2. CASE r # c
    <3>1. call'[r] = call[r]
      BY <1>1, <1>3, <2>2 DEF Rest
    <3>2. db'[r] = db[r]
      BY <1>3, <2>2, StoreStep, NewEntry, OldEntry
    <3> QED
      BY <1>2, <3>1, <3>2
  <2> QED
    BY <2>1, <2>2
<1>5. db[l] # NoId /\ call[l].op # "Remove"
  BY <1>4 DEF Family, l
<1>6. call[l].op # "Prepare"
  BY <1>3, <1>5 DEF Timely
<1>7. call'[l].op # "Remove"
  BY <1>1, <1>3, <1>5 DEF Rest
<1>8. db'[l] = db[l]
  <2>1. CASE l = c
    <3>1. ~CommitPrepare(c) /\ ~CommitRemove(c)
      BY <1>5, <1>6, <2>1 DEF CommitPrepare, CommitRemove
    <3> QED
      BY <3>1, StoreStep
  <2>2. CASE l # c
    BY <1>3, <2>2, StoreStep, NewEntry, OldEntry
  <2> QED
    BY <2>1, <2>2
<1> QED
  BY <1>5, <1>7, <1>8 DEF l

-----------------------------------------------------------------------------
(* The directories *)

LEMMA InIDMap ==
  ASSUME NEW d
  PROVE  d \in IDMap <=> \E k \in Keys : db[k] # NoId /\ db[k] = d
BY DEF IDMap, Present

LEMMA InIDMapNext ==
  ASSUME NEW d
  PROVE  d \in IDMap' <=> \E k \in Keys : db'[k] # NoId /\ db'[k] = d
BY DEF IDMap, Present

LEMMA Numbers ==
  ASSUME Types, Entries
  PROVE  /\ seq \in Nat /\ dirs \subseteq Int
         /\ \A k \in Keys : db[k] \in Nat /\ db[k] <= seq
         /\ \A d \in IDMap : d \in Nat /\ d <= seq /\ d # NewDir
<1>1. seq \in Nat /\ \A k \in Keys : db[k] \in Nat /\ db[k] <= seq
  BY SnapshotterAssumption DEF Types, TypeOK, Entries
<1>2. dirs \subseteq Int
  BY DEF Types, TypeOK, Ids, NewDir, StaleDir
<1> QED
  BY <1>1, <1>2, InIDMap DEF NoId, NewDir

\* While one call is in the write transaction, nobody else is.
LEMMA Alone ==
  ASSUME Transactions, NEW c \in Callers, InTx(c), Rest(c)
  PROVE  \A o \in Keys \ {c} :
           /\ ~Named(o) /\ ~Named(o)'
           /\ ~At(o, "Prepare", "create") /\ ~At(o, "Prepare", "create")'
           /\ ~At(o, "Remove", "purge")'
           /\ ~(call'[o].op = "Remove" /\ call'[o].pc \in Committing)
<1>1. SUFFICES ASSUME NEW o \in Keys, o # c
               PROVE  /\ ~Named(o) /\ ~Named(o)'
                      /\ ~At(o, "Prepare", "create") /\ ~At(o, "Prepare", "create")'
                      /\ ~At(o, "Remove", "purge")'
                      /\ ~(call'[o].op = "Remove" /\ call'[o].pc \in Committing)
  OBVIOUS
<1>2. o \in Callers
  BY DEF Callers
<1>3. ~InTx(o) /\ call'[o] = call[o]
  BY <1>1, <1>2 DEF Transactions, Rest
<1> QED
  BY <1>3 DEF InTx, Named, At, Attach, Committing

\* Directories may go, and new ones are accounted for, in a step in which no
\* Prepare has an id, before or after.
LEMMA NobodyNamed ==
  ASSUME Types, Entries, Transactions, DirInv, NEW c \in Callers, InTx(c), Rest(c),
         ~Named(c), ~Named(c)'
  PROVE  /\ FreshId'
         /\ \A d \in dirs : d > seq => d \in abandoned
<1>1. \A o \in Keys : ~Named(o) /\ ~Named(o)'
  BY Alone
<1> QED
  BY <1>1 DEF FreshId, DirInv, High

\* The list of a Cleanup under way.
LEMMA SweepingKeeps ==
  ASSUME Sweeping, NEW c \in Callers, Rest(c), c # GC, seq \in Nat, seq' \in Nat, seq <= seq',
         call[GC].list \subseteq Int, call[GC].list \intersect abandoned \subseteq abandoned',
         \A d \in IDMap' : d \in IDMap \/ d > seq
  PROVE  Sweeping'
<1>1. call'[GC] = call[GC]
  BY DEF Rest, Callers
<1>2. SUFFICES ASSUME At(GC, "Cleanup", "sweep"), NEW d \in call[GC].list
               PROVE  d \in abandoned' \/ (d \notin IDMap' /\ d <= seq')
  BY <1>1 DEF Sweeping, At
<1>3. d \in abandoned \/ (d \notin IDMap /\ d <= seq)
  BY <1>2 DEF Sweeping
<1> QED
  BY <1>2, <1>3

LEMMA Lists ==
  ASSUME Types
  PROVE  /\ \A c \in Callers : call[c].list \subseteq Int
         /\ call[GC].list \subseteq Int
<1>1. AnyDir \subseteq Int
  BY DEF AnyDir, Ids, NewDir, StaleDir
<1>2. \A c \in Callers : call[c].list \subseteq AnyDir
  BY DEF Types, CallRec
<1> QED
  BY <1>1, <1>2 DEF Callers

LEMMA DirMakes ==
  ASSUME Types, Shapes, Entries, Transactions, DirInv, NEW c \in Callers, PrepareDirectory(c)
  PROVE  DirInv'
<1>1. /\ c \in Keys /\ call[c].op = "Prepare" /\ call[c].pc = "mkdir" /\ Rest(c)
      /\ \/ /\ dirs' = dirs \union {NewDir} /\ call'[c].op = "Prepare"
            /\ call'[c].pc = "create"
         \/ /\ dirs' \in {dirs, dirs \union {StaleDir}}
            /\ call'[c].op = "none" /\ call'[c].pc = "idle"
      /\ UNCHANGED <<conf, db, seq, abandoned, doomed>>
  BY MakesDirectory DEF Shapes, Moved, Returned, At
<1>2. InTx(c) /\ ~Named(c) /\ ~Named(c)'
  BY <1>1 DEF InTx, Named, Attach, Committing
<1>3. FreshId' /\ \A d \in dirs : d > seq => d \in abandoned
  BY <1>1, <1>2, NobodyNamed
<1>4. \A o \in Keys : ~Named(o) /\ ~Named(o)' /\ ~At(o, "Prepare", "create")
  BY <1>1, <1>2, Alone DEF At
<1>5. seq \in Nat /\ IDMap' = IDMap
  BY <1>1, Numbers DEF IDMap, Present
<1>6. High'
  BY <1>1, <1>3, <1>5 DEF High, NewDir, StaleDir
<1>7. AllOwned'
  <2>1. SUFFICES ASSUME ~conf.asyncRemove, NEW d \in dirs'
                 PROVE  \/ d \in IDMap \/ d \in abandoned \/ d = StaleDir
                        \/ d = NewDir /\ \E o \in Keys : At(o, "Prepare", "create")'
    BY <1>1, <1>5 DEF AllOwned, Owned
  <2>2. d \in dirs => d \in IDMap \/ d \in abandoned \/ d = StaleDir
    BY <1>4, <2>1 DEF DirInv, AllOwned, Owned
  <2> QED
    BY <1>1, <2>1, <2>2 DEF At
<1>8. Purging' /\ Purged'
  <2>1. \A o \in Keys : /\ ~At(o, "Remove", "purge")'
                        /\ ~(call'[o].op = "Remove" /\ call'[o].pc \in Committing)
    BY <1>1, <1>2, Alone DEF At
  <2> QED
    BY <2>1 DEF Purging, Purged
<1>9. Sweeping'
  BY <1>1, <1>5, Lists, SnapshotterAssumption, SweepingKeeps DEF DirInv
<1>10. LiveDirSafe'
  BY <1>1 DEF DirInv, LiveDirSafe, Present
<1> QED
  BY <1>3, <1>6, <1>7, <1>8, <1>9, <1>10 DEF DirInv

LEMMA DirCreates ==
  ASSUME Types, Room, Shapes, Entries, Transactions, DirInv, NEW c \in Callers,
         CreateSnapshot(c)
  PROVE  DirInv'
<1>1. /\ c \in Keys /\ call[c].op = "Prepare" /\ call[c].pc = "create" /\ Rest(c)
      /\ \/ /\ dirs' = (dirs \ {NewDir}) \union {seq + 1} /\ call'[c].op = "Prepare"
            /\ call'[c].id = seq + 1 /\ call'[c].pc \in {"spec", "lookup"}
            /\ abandoned' = IF seq + 1 \in call[GC].list THEN abandoned
                            ELSE abandoned \ {seq + 1}
         \/ /\ dirs' \subseteq (dirs \ {NewDir}) \union {StaleDir}
            /\ dirs \ {NewDir, seq + 1} \subseteq dirs' /\ abandoned' = abandoned
            /\ call'[c].op = "none" /\ call'[c].pc = "idle"
      /\ UNCHANGED <<conf, db, seq, doomed>>
  BY Creates DEF Shapes, Returned, At
<1>2. InTx(c) /\ ~Named(c)
  BY <1>1 DEF InTx, Named, Attach, Committing
<1>3. \A o \in Keys \ {c} : ~Named(o) /\ ~Named(o)'
  BY <1>2, <1>1, Alone
<1>4. seq \in Nat /\ IDMap' = IDMap /\ \A d \in IDMap : d <= seq /\ d # NewDir /\ d \in Nat
  BY <1>1, Numbers DEF IDMap, Present
<1>5. \A d \in dirs : d > seq => d \in abandoned
  BY <1>2, <1>3 DEF DirInv, High
<1>6. FreshId'
  <2>1. Named(c)' => call'[c].id = seq' + 1 /\ call'[c].id \in dirs'
    BY <1>1 DEF Named
  <2> QED
    BY <1>3, <2>1 DEF FreshId
<1>7. High'
  <2>1. CASE call'[c].op = "Prepare"
    <3>1. Named(c)'
      BY <1>1, <2>1 DEF Named, Attach
    <3> QED
      BY <1>1, <1>5, <2>1, <3>1 DEF High
  <2>2. CASE call'[c].op = "none"
    BY <1>1, <1>4, <1>5, <2>2 DEF High, StaleDir
  <2> QED
    BY <1>1, <2>1, <2>2
<1>8. AllOwned'
  <2>1. SUFFICES ASSUME ~conf.asyncRemove, NEW d \in dirs'
                 PROVE  \/ d \in IDMap \/ d \in abandoned' \/ d = StaleDir
                        \/ d = seq + 1 /\ \E o \in Keys : Named(o)'
    BY <1>1, <1>4 DEF AllOwned, Owned
  <2>2. d \in dirs /\ d # NewDir => d \in IDMap \/ d \in abandoned \/ d = StaleDir
    BY <1>2, <1>3, <2>1 DEF DirInv, AllOwned, Owned
  <2>3. call'[c].op = "Prepare" => Named(c)'
    BY <1>1 DEF Named, Attach
  <2>4. \/ d \in dirs /\ d # NewDir
        \/ d = seq + 1 /\ call'[c].op = "Prepare"
        \/ d = StaleDir
    BY <1>1, <2>1
  <2> QED
    BY <1>1, <2>2, <2>3, <2>4
<1>9. Purging' /\ Purged'
  <2>1. \A o \in Keys : /\ ~At(o, "Remove", "purge")'
                        /\ ~(call'[o].op = "Remove" /\ call'[o].pc \in Committing)
    BY <1>1, <1>2, Alone DEF At
  <2> QED
    BY <2>1 DEF Purging, Purged
<1>10. Sweeping'
  <2>1. call[GC].list \intersect abandoned \subseteq abandoned'
    BY <1>1
  <2> QED
    BY <1>1, <1>4, <2>1, Lists, SnapshotterAssumption, SweepingKeeps DEF DirInv
<1>11. LiveDirSafe'
  <2>1. SUFFICES ASSUME NEW k \in Keys, db[k] # NoId, k \notin doomed, db[k] \notin abandoned'
                 PROVE  db[k] \in dirs'
    BY <1>1 DEF LiveDirSafe, Present
  <2>3. db[k] \in IDMap /\ db[k] # NewDir /\ db[k] # seq + 1
    BY <1>4, <2>1, InIDMap
  <2>2. db[k] \in dirs
    BY <1>1, <2>1, <2>3 DEF DirInv, LiveDirSafe, Present
  <2> QED
    BY <1>1, <2>2, <2>3
<1> QED
  BY <1>6, <1>7, <1>8, <1>9, <1>10, <1>11 DEF DirInv

LEMMA DirUndoes ==
  ASSUME Types, Shapes, Entries, Transactions, DirInv, NEW c \in Callers, UndoPrepare(c)
  PROVE  DirInv'
<1>1. /\ c \in Keys /\ call[c].op = "Prepare" /\ call[c].pc = "undo" /\ Rest(c)
      /\ call'[c].op = "none" /\ call'[c].pc = "idle"
      /\ \/ dirs' = dirs \ {call[c].id} /\ abandoned' = abandoned
         \/ dirs' = dirs /\ abandoned' = abandoned \union {call[c].id}
      /\ UNCHANGED <<conf, db, seq, doomed>>
  BY Undoes DEF Shapes, Returned, At
<1>2. InTx(c) /\ Named(c) /\ ~Named(c)' /\ ~At(c, "Prepare", "create")
  BY <1>1 DEF InTx, Named, At
<1>3. call[c].id = seq + 1
  BY <1>1, <1>2 DEF DirInv, FreshId
<1>4. \A o \in Keys : ~Named(o)' /\ ~At(o, "Prepare", "create")
  BY <1>2, <1>1, Alone
<1>5. seq \in Nat /\ IDMap' = IDMap /\ \A d \in IDMap : d <= seq /\ d \in Nat
  BY <1>1, Numbers DEF IDMap, Present
<1>6. FreshId' /\ High'
  BY <1>1, <1>3, <1>4 DEF FreshId, DirInv, High
<1>7. AllOwned'
  <2>1. SUFFICES ASSUME ~conf.asyncRemove, NEW d \in dirs'
                 PROVE  d \in IDMap \/ d \in abandoned' \/ d = StaleDir
    BY <1>1, <1>5 DEF AllOwned, Owned
  <2>2. d \in dirs /\ (d # seq + 1 \/ d \in abandoned') /\ abandoned \subseteq abandoned'
    BY <1>1, <1>3, <2>1
  <2> QED
    BY <1>4, <2>1, <2>2 DEF DirInv, AllOwned, Owned
<1>8. Purging' /\ Purged'
  <2>1. \A o \in Keys : /\ ~At(o, "Remove", "purge")'
                        /\ ~(call'[o].op = "Remove" /\ call'[o].pc \in Committing)
    BY <1>1, <1>2, Alone DEF At
  <2> QED
    BY <2>1 DEF Purging, Purged
<1>9. Sweeping'
  BY <1>1, <1>5, Lists, SnapshotterAssumption, SweepingKeeps DEF DirInv
<1>10. LiveDirSafe'
  <2>1. SUFFICES ASSUME NEW k \in Keys, db[k] # NoId, k \notin doomed, db[k] \notin abandoned'
                 PROVE  db[k] \in dirs'
    BY <1>1 DEF LiveDirSafe, Present
  <2>2. db[k] \in dirs /\ db[k] \in IDMap
    BY <1>1, <2>1, InIDMap DEF DirInv, LiveDirSafe, Present
  <2> QED
    BY <1>1, <1>3, <1>5, <2>2
<1> QED
  BY <1>6, <1>7, <1>8, <1>9, <1>10 DEF DirInv

LEMMA DirCommitsPrepare ==
  ASSUME Types, Shapes, Entries, Transactions, Timely, DirInv, NEW c \in Callers, CommitPrepare(c)
  PROVE  DirInv'
<1>1. /\ c \in Keys /\ call[c].op = "Prepare" /\ call[c].pc \in Committing /\ Rest(c)
      /\ call'[c].op = "none" /\ call'[c].pc = "idle"
      /\ UNCHANGED <<conf, dirs, doomed>>
  BY CommitsPrepare DEF Shapes, Returned
<1>2. InTx(c) /\ Named(c) /\ ~Named(c)' /\ ~At(c, "Prepare", "create")
  BY <1>1 DEF InTx, Named, At, Committing
<1>3. seq + 1 \in dirs \union abandoned
  BY <1>1, <1>2 DEF DirInv, FreshId, Committing
<1>4. \A o \in Keys : ~Named(o)' /\ ~At(o, "Prepare", "create")
  BY <1>2, <1>1, Alone
<1>5. /\ seq \in Nat /\ dirs \subseteq Int
      /\ \A k \in Keys : db[k] \in Nat /\ db[k] <= seq
  BY Numbers
<1>6. \/ /\ db'[c] = seq + 1 /\ seq' = seq + 1 /\ abandoned' = abandoned
         /\ \A k \in Keys \ {c} : db'[k] = db[k]
      \/ db' = db /\ seq' = seq /\ abandoned' = abandoned \union {seq + 1}
  BY NewEntry DEF DirInv
<1>7. AllOwned'
  <2>1. db[c] = NoId
    BY <1>1 DEF Timely
  <2>2. SUFFICES ASSUME ~conf.asyncRemove, NEW d \in dirs
                 PROVE  d \in IDMap' \/ d \in abandoned' \/ d = StaleDir
    BY <1>1 DEF AllOwned, Owned
  <2>3. d \in IDMap \/ d \in abandoned \/ d = StaleDir \/ d = seq + 1
    BY <1>4, <2>2 DEF DirInv, AllOwned, Owned
  <2>4. d \in IDMap => d \in IDMap'
    <3>1. SUFFICES ASSUME NEW k \in Keys, db[k] # NoId, db[k] = d
                   PROVE  d \in IDMap'
      BY InIDMap
    <3>2. db'[k] = db[k]
      BY <1>6, <2>1, <3>1
    <3> QED
      BY <3>1, <3>2, InIDMapNext
  <2>5. d = seq + 1 => d \in IDMap' \/ d \in abandoned'
    <3>1. CASE db'[c] = seq + 1
      BY <1>1, <1>5, <3>1, InIDMapNext DEF NoId
    <3>2. CASE abandoned' = abandoned \union {seq + 1}
      BY <3>2
    <3> QED
      BY <1>6, <3>1, <3>2
  <2> QED
    BY <1>6, <2>3, <2>4, <2>5
<1>8. FreshId'
  BY <1>4 DEF FreshId
<1>9. High'
  BY <1>1, <1>5, <1>6 DEF High, DirInv
<1>10. Purging' /\ Purged'
  <2>1. \A o \in Keys : /\ ~At(o, "Remove", "purge")'
                        /\ ~(call'[o].op = "Remove" /\ call'[o].pc \in Committing)
    BY <1>1, <1>2, Alone DEF At
  <2> QED
    BY <2>1 DEF Purging, Purged
<1>11. \A d \in IDMap' : d \in IDMap \/ d > seq
  <2>1. SUFFICES ASSUME NEW k \in Keys, db'[k] # NoId
                 PROVE  db'[k] \in IDMap \/ db'[k] > seq
    BY InIDMapNext
  <2>2. CASE db'[k] = db[k]
    BY <2>1, <2>2, InIDMap
  <2>3. CASE db'[k] = seq + 1
    BY <1>5, <2>3
  <2> QED
    BY <1>6, <2>2, <2>3
<1>12. Sweeping'
  <2>1. seq' \in Nat /\ seq <= seq' /\ abandoned \subseteq abandoned' /\ c # GC
    BY <1>1, <1>5, <1>6, SnapshotterAssumption
  <2> QED
    BY <1>1, <1>5, <1>11, <2>1, Lists, SweepingKeeps DEF DirInv
<1>13. LiveDirSafe'
  <2>1. SUFFICES ASSUME NEW k \in Keys, db'[k] # NoId, k \notin doomed, db'[k] \notin abandoned'
                 PROVE  db'[k] \in dirs
    BY <1>1 DEF LiveDirSafe, Present
  <2>2. CASE db'[k] = db[k]
    BY <1>6, <2>1, <2>2 DEF DirInv, LiveDirSafe, Present
  <2>3. CASE db'[k] = seq + 1
    BY <1>3, <1>6, <2>1, <2>3
  <2> QED
    BY <1>6, <2>2, <2>3
<1> QED
  BY <1>7, <1>8, <1>9, <1>10, <1>12, <1>13 DEF DirInv

\* The steps of a Remove and the scan of a Cleanup: no Prepare is under way,
\* so what the directories rest on is the entries alone.
LEMMA NoPrepare ==
  ASSUME Types, Entries, Transactions, DirInv, NEW c \in Callers, InTx(c), Rest(c),
         call[c].op # "Prepare", call'[c].op # "Prepare"
  PROVE  /\ FreshId'
         /\ \A d \in dirs : d > seq => d \in abandoned
         /\ ~conf.asyncRemove =>
              \A d \in dirs : d \in IDMap \/ d \in abandoned \/ d = StaleDir
<1>1. ~Named(c) /\ ~Named(c)' /\ ~At(c, "Prepare", "create")
  BY DEF Named, At
<1>2. \A o \in Keys : ~Named(o) /\ ~Named(o)' /\ ~At(o, "Prepare", "create")
  BY <1>1, Alone
<1> QED
  BY <1>2 DEF FreshId, DirInv, High, AllOwned, Owned

LEMMA DirRemovesEntry ==
  ASSUME Types, Shapes, Entries, Transactions, DirInv, NEW c \in Callers, RemoveEntry(c)
  PROVE  DirInv'
<1>1. /\ c \in Keys /\ call[c].op = "Remove" /\ call[c].pc = "remove" /\ Rest(c)
      /\ \/ call'[c].op = "none" /\ call'[c].pc = "idle"
         \/ /\ call'[c].op = "Remove" /\ call'[c].pc = "purge"
            /\ call'[c].list = IF conf.asyncRemove THEN {} ELSE dirs \ (IDMap \ {db[c]})
      /\ UNCHANGED <<conf, db, seq, dirs, abandoned, doomed>>
  BY RemovesEntry DEF Shapes, Failed, Returned, At
<1>2. InTx(c)
  BY <1>1 DEF InTx
<1>3. /\ FreshId'
      /\ \A d \in dirs : d > seq => d \in abandoned
      /\ ~conf.asyncRemove => \A d \in dirs : d \in IDMap \/ d \in abandoned \/ d = StaleDir
  BY <1>1, <1>2, NoPrepare
<1>4. IDMap' = IDMap /\ seq \in Nat
  BY <1>1, Numbers DEF IDMap, Present
<1>5. High' /\ AllOwned'
  BY <1>1, <1>3, <1>4 DEF High, AllOwned, Owned
<1>6. \A o \in Keys \ {c} : /\ ~At(o, "Remove", "purge")'
                            /\ ~(call'[o].op = "Remove" /\ call'[o].pc \in Committing)
  BY <1>1, <1>2, Alone
<1>7. Purging'
  <2>1. SUFFICES ASSUME At(c, "Remove", "purge")'
                 PROVE  /\ \A k \in Keys : k # c /\ db[k] # NoId => db[k] \notin call'[c].list
                        /\ ~conf.asyncRemove /\ db[c] \in dirs => db[c] \in call'[c].list
    BY <1>1, <1>6 DEF Purging
  <2>2. call'[c].list = IF conf.asyncRemove THEN {} ELSE dirs \ (IDMap \ {db[c]})
    BY <1>1, <2>1 DEF At
  <2>3. ASSUME NEW k \in Keys, k # c, db[k] # NoId
        PROVE  db[k] \in IDMap /\ db[k] # db[c]
    BY <1>1, <2>3, InIDMap DEF Entries
  <2> QED
    BY <2>2, <2>3
<1>8. Purged'
  BY <1>1, <1>6 DEF Purged, Committing
<1>9. Sweeping'
  BY <1>1, <1>4, Lists, SnapshotterAssumption, SweepingKeeps DEF DirInv
<1>10. LiveDirSafe'
  BY <1>1 DEF DirInv, LiveDirSafe, Present
<1> QED
  BY <1>3, <1>5, <1>7, <1>8, <1>9, <1>10 DEF DirInv

LEMMA DirPurges ==
  ASSUME Types, Shapes, Entries, Transactions, DirInv, NEW c \in Callers, Purge(c)
  PROVE  DirInv'
<1>1. /\ c \in Keys /\ call[c].op = "Remove" /\ call[c].pc = "purge" /\ Rest(c)
      /\ call'[c].op = "Remove" /\ call'[c].pc \in Committing
      /\ doomed' = IF db[c] \in call[c].list THEN doomed \union {c} ELSE doomed
      /\ UNCHANGED <<conf, db, seq>>
  BY Purges DEF Shapes, Moved, At
<1>0. PICK kept \in SUBSET call[c].list :
        /\ dirs' = dirs \ (call[c].list \ kept)
        /\ abandoned' = abandoned \union (kept \intersect {db[c]})
  BY Purges DEF Shapes
<1>2. InTx(c)
  BY <1>1 DEF InTx
<1>3. /\ FreshId'
      /\ \A d \in dirs : d > seq => d \in abandoned
      /\ ~conf.asyncRemove => \A d \in dirs : d \in IDMap \/ d \in abandoned \/ d = StaleDir
  BY <1>1, <1>2, NoPrepare
<1>4. IDMap' = IDMap /\ seq \in Nat
  BY <1>1, Numbers DEF IDMap, Present
<1>5. High' /\ AllOwned'
  BY <1>0, <1>1, <1>3, <1>4 DEF High, AllOwned, Owned
<1>6. \A o \in Keys \ {c} : /\ ~At(o, "Remove", "purge")'
                            /\ ~(call'[o].op = "Remove" /\ call'[o].pc \in Committing)
  BY <1>1, <1>2, Alone
<1>7. /\ \A k \in Keys : k # c /\ db[k] # NoId => db[k] \notin call[c].list
      /\ ~conf.asyncRemove /\ db[c] \in dirs => db[c] \in call[c].list
  BY <1>1 DEF DirInv, Purging, At
<1>8. Purging'
  BY <1>1, <1>6 DEF Purging, At, Committing
<1>9. Purged'
  BY <1>0, <1>1, <1>6, <1>7 DEF Purged
<1>10. Sweeping'
  BY <1>0, <1>1, <1>4, Lists, SnapshotterAssumption, SweepingKeeps DEF DirInv
<1>11. LiveDirSafe'
  <2>1. SUFFICES ASSUME NEW k \in Keys, db[k] # NoId, k \notin doomed', db[k] \notin abandoned'
                 PROVE  db[k] \in dirs'
    BY <1>1 DEF LiveDirSafe, Present
  <2>2. db[k] \in dirs
    BY <1>0, <1>1, <2>1 DEF DirInv, LiveDirSafe, Present
  <2>3. db[k] \notin call[c].list
    BY <1>1, <1>7, <2>1
  <2> QED
    BY <1>0, <2>2, <2>3
<1> QED
  BY <1>3, <1>5, <1>8, <1>9, <1>10, <1>11 DEF DirInv

LEMMA DirCommitsRemove ==
  ASSUME Types, Shapes, Entries, Transactions, DirInv, NEW c \in Callers, CommitRemove(c)
  PROVE  DirInv'
<1>1. /\ c \in Keys /\ call[c].op = "Remove" /\ call[c].pc \in Committing /\ Rest(c)
      /\ call'[c].op = "none" /\ call'[c].pc = "idle"
      /\ UNCHANGED <<conf, seq, dirs, abandoned>>
  BY CommitsRemove DEF Shapes, Returned
<1>2. \/ db'[c] = NoId /\ doomed' = doomed \ {c} /\ \A k \in Keys \ {c} : db'[k] = db[k]
      \/ db' = db /\ doomed' = doomed
  BY OldEntry
<1>3. InTx(c)
  BY <1>1 DEF InTx, Committing
<1>4. /\ FreshId'
      /\ \A d \in dirs : d > seq => d \in abandoned
      /\ ~conf.asyncRemove => \A d \in dirs : d \in IDMap \/ d \in abandoned \/ d = StaleDir
  BY <1>1, <1>3, NoPrepare
<1>5. seq \in Nat
  BY Numbers
<1>6. High'
  BY <1>1, <1>4 DEF High
<1>7. AllOwned'
  <2>1. SUFFICES ASSUME ~conf.asyncRemove, NEW d \in dirs
                 PROVE  d \in IDMap' \/ d \in abandoned \/ d = StaleDir
    BY <1>1 DEF AllOwned, Owned
  <2>2. SUFFICES ASSUME d \in IDMap, d \notin abandoned
                 PROVE  d \in IDMap'
    BY <1>4, <2>1
  <2>3. PICK k \in Keys : db[k] # NoId /\ db[k] = d
    BY <2>2, InIDMap
  <2>4. db[c] # d
    BY <1>1, <2>1, <2>2 DEF DirInv, Purged
  <2>5. db'[k] = db[k]
    BY <1>2, <2>1, <2>3, <2>4
  <2> QED
    BY <2>3, <2>5, InIDMapNext
<1>8. Purging' /\ Purged'
  <2>1. \A o \in Keys : /\ ~At(o, "Remove", "purge")'
                        /\ ~(call'[o].op = "Remove" /\ call'[o].pc \in Committing)
    BY <1>1, <1>3, Alone DEF At
  <2> QED
    BY <2>1 DEF Purging, Purged
<1>9. \A d \in IDMap' : d \in IDMap
  BY <1>2, InIDMap, InIDMapNext
<1>10. Sweeping'
  BY <1>1, <1>5, <1>9, Lists, SnapshotterAssumption, SweepingKeeps DEF DirInv
<1>11. LiveDirSafe'
  <2>1. SUFFICES ASSUME NEW k \in Keys, db'[k] # NoId, k \notin doomed', db'[k] \notin abandoned
                 PROVE  db'[k] \in dirs
    BY <1>1 DEF LiveDirSafe, Present
  <2>2. db'[k] = db[k] /\ k \notin doomed
    BY <1>1, <1>2, <2>1
  <2> QED
    BY <2>1, <2>2 DEF DirInv, LiveDirSafe, Present
<1> QED
  BY <1>4, <1>6, <1>7, <1>8, <1>10, <1>11 DEF DirInv

LEMMA DirScans ==
  ASSUME Types, Shapes, Entries, Transactions, DirInv, NEW c \in Callers, Scan(c)
  PROVE  DirInv'
<1>1. /\ c = GC /\ call[c].op = "Cleanup" /\ call[c].pc = "scan" /\ Rest(c)
      /\ \/ call'[c].op = "Cleanup" /\ call'[c].pc = "sweep" /\ call'[c].list = dirs \ IDMap
         \/ call'[c].op = "none"
      /\ UNCHANGED <<conf, db, seq, dirs, abandoned, doomed>>
  BY Scans DEF Shapes, Returned, At
<1>2. InTx(c) /\ c \notin Keys
  BY <1>1, SnapshotterAssumption DEF InTx
<1>3. /\ FreshId'
      /\ \A d \in dirs : d > seq => d \in abandoned
      /\ ~conf.asyncRemove => \A d \in dirs : d \in IDMap \/ d \in abandoned \/ d = StaleDir
  BY <1>1, <1>2, NoPrepare
<1>4. IDMap' = IDMap /\ seq \in Nat /\ dirs \subseteq Int
  BY <1>1, Numbers DEF IDMap, Present
<1>5. High' /\ AllOwned'
  BY <1>1, <1>3, <1>4 DEF High, AllOwned, Owned
<1>6. Purging' /\ Purged'
  <2>1. \A o \in Keys : /\ ~At(o, "Remove", "purge")'
                        /\ ~(call'[o].op = "Remove" /\ call'[o].pc \in Committing)
    BY <1>1, <1>2, Alone
  <2> QED
    BY <2>1 DEF Purging, Purged
<1>7. Sweeping'
  <2>1. ASSUME NEW d \in dirs, d \notin IDMap
        PROVE  d \in abandoned \/ (d \notin IDMap /\ d <= seq)
    BY <1>3, <1>4, <2>1
  <2>2. At(GC, "Cleanup", "sweep")' => call'[GC].list = dirs \ IDMap
    BY <1>1 DEF At
  <2> QED
    BY <1>1, <1>4, <2>1, <2>2 DEF Sweeping
<1>8. LiveDirSafe'
  BY <1>1 DEF DirInv, LiveDirSafe, Present
<1> QED
  BY <1>3, <1>5, <1>6, <1>7, <1>8 DEF DirInv

\* A Cleanup deletes beside a Prepare or Remove under way.
LEMMA DirSweeps ==
  ASSUME Types, Shapes, Entries, Transactions, DirInv, NEW c \in Callers, Sweep(c)
  PROVE  DirInv'
<1>1. /\ c = GC /\ At(c, "Cleanup", "sweep") /\ Rest(c)
      /\ UNCHANGED <<conf, db, seq, abandoned, doomed>>
  BY Sweeps DEF Shapes, Returned
<1>2. /\ dirs' \subseteq dirs
      /\ \A d \in dirs \ dirs' : d \in abandoned \/ (d \notin IDMap /\ d <= seq)
      /\ At(c, "Cleanup", "sweep")' => call'[c].list \subseteq call[c].list
  <2>1. CASE \E d \in call[c].list :
               dirs' \in {dirs, dirs \ {d}} /\ call'[c].list = call[c].list \ {d}
    BY <1>1, <2>1 DEF DirInv, Sweeping
  <2>2. CASE call'[c].op = "none" /\ dirs' = dirs
    BY <2>2 DEF At
  <2> QED
    BY <2>1, <2>2, Sweeps DEF Shapes, Returned
<1>3. \A o \in Keys : o \in Callers /\ call'[o] = call[o]
  BY <1>1, SnapshotterAssumption DEF Rest, Callers
<1>4. IDMap' = IDMap /\ seq \in Nat
  BY <1>1, Numbers DEF IDMap, Present
<1>5. \A o \in Keys : /\ Named(o)' <=> Named(o)
                      /\ At(o, "Prepare", "create")' <=> At(o, "Prepare", "create")
                      /\ At(o, "Remove", "purge")' <=> At(o, "Remove", "purge")
  BY <1>3 DEF Named, At
<1>6. FreshId'
  <2>1. SUFFICES ASSUME NEW o \in Keys, Named(o)
                 PROVE  /\ call[o].id = seq + 1
                        /\ call[o].pc # "undo" => call[o].id \in dirs' \union abandoned
    BY <1>1, <1>3, <1>5 DEF FreshId
  <2>2. /\ call[o].id = seq + 1
        /\ call[o].pc # "undo" => call[o].id \in dirs \union abandoned
    BY <2>1 DEF DirInv, FreshId
  <2> QED
    BY <1>2, <1>4, <2>2
<1>7. High'
  BY <1>1, <1>2, <1>5 DEF DirInv, High
<1>8. AllOwned'
  BY <1>1, <1>2, <1>4, <1>5 DEF DirInv, AllOwned, Owned
<1>9. Purging'
  BY <1>1, <1>2, <1>3, <1>5 DEF DirInv, Purging
<1>10. Purged'
  BY <1>1, <1>2, <1>3 DEF DirInv, Purged
<1>11. Sweeping'
  BY <1>1, <1>2, <1>4 DEF DirInv, Sweeping
<1>12. LiveDirSafe'
  <2>1. SUFFICES ASSUME NEW k \in Keys, db[k] # NoId, k \notin doomed, db[k] \notin abandoned
                 PROVE  db[k] \in dirs'
    BY <1>1 DEF LiveDirSafe, Present
  <2>2. db[k] \in dirs /\ db[k] \in IDMap
    BY <2>1, InIDMap DEF DirInv, LiveDirSafe, Present
  <2> QED
    BY <1>2, <2>1, <2>2
<1> QED
  BY <1>6, <1>7, <1>8, <1>9, <1>10, <1>11, <1>12 DEF DirInv

\* The other steps change neither the directories nor what rests on them.
Quiet(c) ==
  /\ UNCHANGED <<conf, db, seq, dirs, abandoned, doomed>> /\ Rest(c)
  /\ Named(c)' <=> Named(c)
  /\ Named(c) => call'[c].id = call[c].id /\ (call'[c].pc # "undo" => call[c].pc # "undo")
  /\ ~At(c, "Prepare", "create") /\ ~At(c, "Remove", "purge")'
  /\ ~At(c, "Cleanup", "sweep")'
  /\ ~(call'[c].op = "Remove" /\ call'[c].pc \in Committing)

LEMMA DirQuiet ==
  ASSUME Types, DirInv, NEW c \in Callers, Quiet(c)
  PROVE  DirInv'
<1>1. /\ conf' = conf /\ db' = db /\ seq' = seq /\ dirs' = dirs
      /\ abandoned' = abandoned /\ doomed' = doomed
  BY DEF Quiet
<1>2. \A o \in Callers \ {c} : call'[o] = call[o]
  BY DEF Quiet, Rest
<1>3. IDMap' = IDMap /\ Keys \subseteq Callers /\ GC \in Callers
  BY <1>1 DEF IDMap, Present, Callers
<1>4. \A o \in Keys : Named(o)' <=> Named(o)
  BY <1>2, <1>3 DEF Quiet, Named
<1>5. \A o \in Keys : At(o, "Prepare", "create") => At(o, "Prepare", "create")'
  BY <1>2, <1>3 DEF Quiet, At
<1>6. FreshId'
  <2>1. SUFFICES ASSUME NEW o \in Keys, Named(o)
                 PROVE  /\ call'[o].id = seq + 1
                        /\ call'[o].pc # "undo" => call'[o].id \in dirs \union abandoned
    BY <1>1, <1>4 DEF FreshId
  <2>2. call'[o].id = call[o].id /\ (call'[o].pc # "undo" => call[o].pc # "undo")
    BY <1>2, <1>3, <2>1 DEF Quiet
  <2> QED
    BY <2>1, <2>2 DEF DirInv, FreshId
<1>7. High' /\ AllOwned'
  BY <1>1, <1>3, <1>4, <1>5 DEF DirInv, High, AllOwned, Owned
<1>8. Purging'
  <2>1. SUFFICES ASSUME NEW o \in Keys, At(o, "Remove", "purge")'
                 PROVE  /\ \A k \in Keys : k # o /\ db[k] # NoId => db[k] \notin call'[o].list
                        /\ ~conf.asyncRemove /\ db[o] \in dirs => db[o] \in call'[o].list
    BY <1>1 DEF Purging
  <2>2. call'[o] = call[o]
    BY <1>2, <1>3, <2>1 DEF Quiet
  <2>3. At(o, "Remove", "purge")
    BY <2>1, <2>2 DEF At
  <2> QED
    BY <2>2, <2>3 DEF DirInv, Purging
<1>9. Purged'
  BY <1>1, <1>2, <1>3 DEF DirInv, Purged, Quiet
<1>10. Sweeping'
  <2>1. SUFFICES ASSUME At(GC, "Cleanup", "sweep")'
                 PROVE  \A d \in call'[GC].list : d \in abandoned \/ (d \notin IDMap /\ d <= seq)
    BY <1>1, <1>3 DEF Sweeping
  <2>2. call'[GC] = call[GC]
    BY <1>2, <1>3, <2>1 DEF Quiet
  <2>3. At(GC, "Cleanup", "sweep")
    BY <2>1, <2>2 DEF At
  <2> QED
    BY <2>2, <2>3 DEF DirInv, Sweeping
<1>11. LiveDirSafe'
  BY <1>1 DEF DirInv, LiveDirSafe, Present
<1> QED
  BY <1>6, <1>7, <1>8, <1>9, <1>10, <1>11 DEF DirInv

LEMMA DirStep ==
  ASSUME Types, Room, Shapes, Entries, Transactions, Timely, DirInv, NEW c \in Callers, Step(c)
  PROVE  DirInv'
<1>0. Shape(c) /\ Rest(c)
  BY StepRest DEF Shapes
<1> USE DEF Moved, Named, At, Attach, Committing
<1>1. CASE TransactionContext(c)
  <2>1. Quiet(c)
    BY <1>0, <1>1, Begins DEF DoesBegin, Quiet
  <2> QED
    BY <2>1, DirQuiet
<1>2. CASE ConstructOverlayBDSpec(c)
  <2>1. Quiet(c)
    BY <1>0, <1>2, WritesSpec DEF Quiet
  <2> QED
    BY <2>1, DirQuiet
<1>3. CASE Lookup(c) \/ Enable(c) \/ Link(c) \/ MountDevice(c)
  <2>1. /\ call[c].op \in {"Prepare", "Mounts"} /\ call[c].pc \in Attach
        /\ UNCHANGED <<conf, db, seq, dirs, abandoned, doomed>>
        /\ \/ \E p \in {"enable", "link", "mount"} : Moved(c, p)
           \/ call[c].op = "Prepare" /\ \E p \in Committing \union {"undo"} : Moved(c, p)
           \/ call[c].op = "Mounts" /\ Returned(c)
    BY <1>0, <1>3, Attaches
  <2>2. Quiet(c)
    BY <1>0, <2>1 DEF Quiet, Returned
  <2> QED
    BY <2>2, DirQuiet
<1>4. CASE BeginMounts(c)
  <2>1. Quiet(c)
    BY <1>0, <1>4, BeginsMounts DEF Quiet
  <2> QED
    BY <2>1, DirQuiet
<1>5. CASE Lock(c)
  <2>1. Quiet(c)
    BY <1>0, <1>5, Locks DEF Quiet
  <2> QED
    BY <2>1, DirQuiet
<1>6. CASE RemoveOwnDevice(c)
  <2>1. Quiet(c)
    BY <1>0, <1>6, RemovesDevice DEF Quiet, Failed, GoesOn, Returned
  <2> QED
    BY <2>1, DirQuiet
<1>7. CASE CheckParentDevice(c) \/ DetachParentDevice(c)
  <2>1. Quiet(c)
    BY <1>0, <1>7, ChecksParent, DetachesParent DEF Quiet, Failed, GoesOn, Returned
  <2> QED
    BY <2>1, DirQuiet
<1> QED
  BY <1>1, <1>2, <1>3, <1>4, <1>5, <1>6, <1>7, DirMakes, DirCreates, DirUndoes,
     DirCommitsPrepare, DirRemovesEntry, DirPurges, DirCommitsRemove, DirScans, DirSweeps
  DEF Step

-----------------------------------------------------------------------------
(* The devices *)

\* A step that changes no device, and sends nobody to a place where it relies
\* on one, unless it relied on it before.
Gentle(c) ==
  /\ UNCHANGED <<conf, dev, mnt, clash>> /\ Rest(c)
  /\ ready' \union used' \subseteq ready \union used \union {c}
  /\ unseen \ {c} \subseteq unseen'
  /\ call'[c].pc \notin {"enable", "link", "mount"}
  /\ c \in Rootfs /\ Relies(c)' => Relies(c)

\* Entries of layers stay where a child is known or under way.
LEMMA ParentStays ==
  ASSUME Types, Shapes, FreshId, Timely, Family, NEW c \in Callers, Step(c),
         NEW r \in Rootfs, db[r] # NoId \/ call[r].op # "none"
  PROVE  ObdId(r)' = ObdId(r)
<1> DEFINE l == Parent[r]
<1>1. l \in Keys
  BY SnapshotterAssumption DEF Keys
<1>2. db[l] # NoId /\ call[l].op # "Remove"
  BY DEF Family
<1> HIDE DEF l
<1>3. call[l].op # "Prepare"
  BY <1>1, <1>2 DEF Timely
<1>4. db'[l] = db[l]
  <2>1. CASE l = c
    <3>1. ~CommitPrepare(c) /\ ~CommitRemove(c)
      BY <1>2, <1>3, <2>1 DEF CommitPrepare, CommitRemove
    <3> QED
      BY <3>1, StoreStep
  <2>2. CASE l # c
    BY <1>1, <2>2, StoreStep, NewEntry, OldEntry
  <2> QED
    BY <2>1, <2>2
<1> QED
  BY <1>4 DEF ObdId, l

\* Who relies on a device, or is attaching it, is known or under way.
LEMMA ReliesKnown ==
  ASSUME Types, Shapes, Timely, NEW r \in Rootfs,
         Relies(r) \/ call[r].pc \in {"enable", "link", "mount"}
  PROVE  db[r] # NoId \/ call[r].op # "none"
<1>1. r \in Keys /\ r \in Callers /\ Shape(r)
  BY DEF Keys, Callers, Shapes
<1> QED
  BY <1>1, IdleIs DEF Relies, Timely, Shape, ShapeNone

LEMMA DevGentle ==
  ASSUME Types, Shapes, Timely, Family, Devices, NEW c \in Callers, Gentle(c),
         \A r \in Rootfs : db[r] # NoId \/ call[r].op # "none" => ObdId(r)' = ObdId(r)
  PROVE  Devices'
<1>2. Mounted /\ Attempts /\ Underneath
  BY DEF Devices
<1>3. Mounted'
  BY <1>2 DEF Gentle, Mounted, Clean
<1>4. \A r \in Rootfs : r \in Callers
  BY DEF Callers, Keys
<1>5. Attempts'
  <2>1. SUFFICES ASSUME NEW r \in Rootfs, call'[r].pc \in {"enable", "link", "mount"},
                        Clean(ObdId(r))'
                 PROVE  /\ ObdId(r)' \notin mnt'
                        /\ call'[r].pc = "link" => dev'[ObdId(r)'] \in {"enabled", "unlinked"}
                        /\ call'[r].pc = "mount" => dev'[ObdId(r)'] = "linked"
    BY DEF Attempts
  <2>2. call'[r] = call[r]
    BY <1>4, <2>1 DEF Gentle, Rest
  <2>3. ObdId(r)' = ObdId(r)
    BY <2>1, <2>2, ReliesKnown
  <2>4. Clean(ObdId(r))
    BY <2>1, <2>3 DEF Gentle, Clean
  <2> QED
    BY <1>2, <2>1, <2>2, <2>3, <2>4 DEF Gentle, Attempts
<1>6. Underneath'
  <2>1. SUFFICES ASSUME NEW r \in Rootfs, Relies(r)', Clean(ObdId(r))'
                 PROVE  Alive(ObdId(r))'
    BY DEF Underneath
  <2>2. Relies(r)
    <3>1. CASE r = c
      BY <2>1, <3>1 DEF Gentle, Relies
    <3>2. CASE r # c
      BY <1>4, <2>1, <3>2 DEF Gentle, Relies, Rest
    <3> QED
      BY <3>1, <3>2
  <2>3. ObdId(r)' = ObdId(r)
    BY <2>2, ReliesKnown
  <2>4. Clean(ObdId(r))
    BY <2>1, <2>3 DEF Gentle, Clean
  <2> QED
    BY <1>2, <2>2, <2>3, <2>4 DEF Gentle, Underneath, Alive
<1> QED
  BY <1>3, <1>5, <1>6 DEF Devices

\* Attaching the device of the parent, in the presence of others.
Attacher(c) == c \in Rootfs /\ call[c].pc \in {"enable", "link", "mount"}
Touches(c) ==
  /\ UNCHANGED <<conf, db, used>> /\ Rest(c)
  /\ ready' \subseteq ready \union {c} /\ unseen \ {c} \subseteq unseen'
  /\ clash' = Meets(c)
  /\ \A e \in Ids \ {ObdId(c)} : dev'[e] = dev[e] /\ (e \in mnt' <=> e \in mnt)

\* What it leaves when nobody else has been attaching it.
LeavesUnmounted(c) ==
  /\ ObdId(c) \notin mnt' /\ UNCHANGED <<ready, unseen>>
  /\ call'[c].pc \notin {"enable"} \union Committing
  /\ call'[c].pc = "link" => dev'[ObdId(c)] \in {"enabled", "unlinked"}
  /\ call'[c].pc = "mount" => dev'[ObdId(c)] = "linked"
LeavesMounted(c) ==
  /\ ObdId(c) \in mnt' /\ dev'[ObdId(c)] = "linked"
  /\ call'[c].pc \notin {"enable", "link", "mount"}

LEMMA EnableLinkMount ==
  ASSUME Types, Shapes, Family, Devices, NEW c \in Callers,
         Enable(c) \/ Link(c) \/ MountDevice(c)
  PROVE  /\ Attacher(c) /\ ObdId(c) \in Ids /\ Touches(c)
         /\ Clean(ObdId(c)) => LeavesUnmounted(c) \/ LeavesMounted(c)
<1>1. /\ Shape(c) /\ call \in [Callers -> CallRec] /\ {"link", "mount"} \subseteq Pcs
      /\ dev \in [Ids -> DevStates]
  BY DEF Types, TypeOK, Shapes, Pcs, DevStates
<1>2. call[c].pc \in {"enable", "link", "mount"}
  BY DEF Enable, Link, MountDevice
<1>3. /\ c \in Rootfs /\ call[c].op \in {"Prepare", "Mounts"}
      /\ UNCHANGED <<conf, db, used>> /\ Rest(c)
      /\ ready' \subseteq ready \union {c} /\ unseen \ {c} \subseteq unseen'
  BY <1>1, Attaches DEF Moved, Returned
<1>4. ObdId(c) \in Ids
  BY <1>3, ParentHasId
<1>5. clash' = Meets(c)
  BY DEF Enable, Link, MountDevice
<1>6. ASSUME NEW d \in Ids, DropTarget(d) \/ DropDevice(d) \/ DropFails(d)
      PROVE  \A e \in Ids \ {d} : dev'[e] = dev[e]
  BY <1>1, <1>6 DEF DropTarget, DropDevice, DropFails
<1>7. \A e \in Ids \ {ObdId(c)} : dev'[e] = dev[e]
  <2>1. CASE DropTarget(ObdId(c)) \/ DropDevice(ObdId(c)) \/ DropFails(ObdId(c))
    BY <1>4, <1>6, <2>1
  <2>2. CASE \/ dev' = [dev EXCEPT ![ObdId(c)] = IF @ = "none" THEN "enabled" ELSE "unlinked"]
             \/ dev' = [dev EXCEPT ![ObdId(c)] = "linked"]
    BY <1>1, <2>2
  <2>3. CASE dev' = dev
    BY <2>3
  <2> QED
    BY <2>1, <2>2, <2>3 DEF Enable, Link, MountDevice
<1>8. \A e \in Ids \ {ObdId(c)} : e \in mnt' <=> e \in mnt
  BY DEF Enable, Link, MountDevice
<1>9. Touches(c)
  BY <1>3, <1>5, <1>7, <1>8 DEF Touches
<1>10. AttachFails(c) => call'[c].pc \in {"undo", "idle"}
  BY <1>1, AttachFailsMoves DEF Moved, Returned
<1>11. Attached(c) => call'[c].pc \in Committing \union {"idle"}
  BY <1>1, AttachedMoves DEF Moved, Returned
<1>12. \A p \in {"link", "mount"} : Goto(c, p) => call'[c].pc = p
  BY <1>1, GotoMoves DEF Moved
<1>13. ASSUME Clean(ObdId(c))
       PROVE  LeavesUnmounted(c) \/ LeavesMounted(c)
  <2>1. ObdId(c) \notin mnt
    BY <1>2, <1>3, <1>13 DEF Devices, Attempts
  <2>2. CASE AttachFails(c) /\ mnt' = mnt /\ UNCHANGED <<ready, unseen>>
    BY <1>10, <2>1, <2>2 DEF LeavesUnmounted, Committing
  <2>3. CASE /\ Enable(c) /\ Goto(c, "link")
             /\ dev' = [dev EXCEPT ![ObdId(c)] = IF @ = "none" THEN "enabled" ELSE "unlinked"]
    <3>1. /\ dev'[ObdId(c)] \in {"enabled", "unlinked"} /\ mnt' = mnt
          /\ UNCHANGED <<ready, unseen>> /\ call'[c].pc = "link"
      BY <1>1, <1>4, <1>12, <2>3 DEF Enable, client
    <3> QED
      BY <2>1, <3>1 DEF LeavesUnmounted, Committing
  <2>4. CASE Link(c) /\ Goto(c, "mount") /\ dev' = [dev EXCEPT ![ObdId(c)] = "linked"]
    <3>1. /\ dev'[ObdId(c)] = "linked" /\ mnt' = mnt
          /\ UNCHANGED <<ready, unseen>> /\ call'[c].pc = "mount"
      BY <1>1, <1>4, <1>12, <2>4 DEF Link, client
    <3> QED
      BY <2>1, <3>1 DEF LeavesUnmounted, Committing
  <2>5. CASE MountDevice(c) /\ Mountable(ObdId(c)) /\ Attached(c)
             /\ mnt' = mnt \union {ObdId(c)} /\ dev' = dev
    BY <1>11, <2>5 DEF Mountable, LeavesMounted, Committing
  <2> QED
    BY <2>2, <2>3, <2>4, <2>5 DEF Enable, Link, MountDevice, client
<1> QED
  BY <1>2, <1>3, <1>4, <1>9, <1>13 DEF Attacher

LEMMA DevTouches ==
  ASSUME Types, Shapes, Timely, Family, Devices, NEW c \in Callers, Types',
         Attacher(c), ObdId(c) \in Ids, Touches(c),
         Clean(ObdId(c)) => LeavesUnmounted(c) \/ LeavesMounted(c)
  PROVE  Devices'
<1>2. Mounted /\ Attempts /\ Underneath
  BY DEF Devices
<1>3. clash \subseteq clash' /\ (ObdId(c) \notin clash' => Attaching(ObdId(c)) = {c})
  BY DEF Touches, Meets
<1>4. mnt' \subseteq Ids /\ mnt \subseteq Ids
  BY DEF Types, TypeOK
<1>5. \A r \in Rootfs : ObdId(r)' = ObdId(r) /\ r \in Callers
  BY DEF Touches, ObdId, Callers, Keys
<1>6. ASSUME ObdId(c) \notin clash'
      PROVE  /\ LeavesUnmounted(c) \/ LeavesMounted(c)
             /\ ObdId(c) \notin mnt
  <2>1. Clean(ObdId(c))
    BY <1>3, <1>6 DEF Clean
  <2> QED
    BY <1>2, <2>1 DEF Attempts, Attacher
<1>7. Mounted'
  <2>1. SUFFICES ASSUME NEW e \in mnt', e \notin clash'
                 PROVE  dev'[e] = "linked"
    BY DEF Mounted, Clean
  <2>2. CASE e = ObdId(c)
    BY <1>6, <2>1, <2>2 DEF LeavesUnmounted, LeavesMounted
  <2>3. CASE e # ObdId(c)
    BY <1>2, <1>3, <1>4, <2>1, <2>3 DEF Touches, Mounted, Clean
  <2> QED
    BY <2>2, <2>3
\* Others on the same device, which is clean: there are none.
<1>8. ASSUME NEW r \in Rootfs, r # c, ObdId(r) = ObdId(c), ObdId(c) \notin clash'
      PROVE  call[r].pc \notin {"enable", "link", "mount"} /\ ~Relies(r)
  <2>1. call[r].pc \notin {"enable", "link", "mount"}
    BY <1>3, <1>8 DEF Attaching
  <2>2. ~Alive(ObdId(r)) /\ Clean(ObdId(r))
    BY <1>3, <1>6, <1>8 DEF Alive, Clean
  <2> QED
    BY <1>2, <2>1, <2>2 DEF Underneath
<1>9. ASSUME NEW r \in Rootfs, r # c
      PROVE  call'[r] = call[r] /\ (Relies(r)' => Relies(r))
  BY <1>5, <1>9 DEF Touches, Rest, Relies
<1>10. Attempts'
  <2>1. SUFFICES ASSUME NEW r \in Rootfs, call'[r].pc \in {"enable", "link", "mount"},
                        ObdId(r) \notin clash'
                 PROVE  /\ ObdId(r) \notin mnt'
                        /\ call'[r].pc = "link" => dev'[ObdId(r)] \in {"enabled", "unlinked"}
                        /\ call'[r].pc = "mount" => dev'[ObdId(r)] = "linked"
    BY <1>5 DEF Attempts, Clean
  <2>2. CASE r = c
    BY <1>6, <2>1, <2>2 DEF LeavesUnmounted, LeavesMounted
  <2>3. CASE r # c
    <3>1. ObdId(r) # ObdId(c) /\ call'[r] = call[r]
      BY <1>8, <1>9, <2>1, <2>3
    <3>2. Clean(ObdId(r)) /\ call[r].pc \in {"enable", "link", "mount"}
      BY <1>3, <2>1, <3>1 DEF Clean
    <3>3. ObdId(r) \in Ids
      <4>1. Shape(r) /\ call[r].op # "none"
        BY <1>5, <3>2, IdleIs DEF Shapes, Shape, ShapeNone
      <4> QED
        BY <4>1, ParentHasId
    <3> QED
      BY <1>2, <3>1, <3>2, <3>3 DEF Touches, Attempts
  <2> QED
    BY <2>2, <2>3
<1>11. Underneath'
  <2>1. SUFFICES ASSUME NEW r \in Rootfs, Relies(r)', ObdId(r) \notin clash'
                 PROVE  ObdId(r) \in mnt' /\ dev'[ObdId(r)] = "linked"
    BY <1>5 DEF Underneath, Clean, Alive
  <2>2. CASE r = c
    <3>1. CASE LeavesMounted(c)
      BY <2>2, <3>1 DEF LeavesMounted
    <3>2. CASE LeavesUnmounted(c)
      <4>1. Relies(c)
        BY <2>1, <2>2, <3>2 DEF LeavesUnmounted, Relies, Touches
      <4>2. Alive(ObdId(c))
        BY <1>2, <1>3, <2>1, <2>2, <4>1 DEF Underneath, Clean
      <4> QED
        BY <1>6, <2>1, <2>2, <4>2 DEF Alive
    <3> QED
      BY <1>6, <2>1, <2>2, <3>1, <3>2
  <2>3. CASE r # c
    <3>1. Relies(r) /\ ObdId(r) # ObdId(c)
      BY <1>8, <1>9, <2>1, <2>3
    <3>2. Alive(ObdId(r))
      BY <1>2, <1>3, <2>1, <3>1 DEF Underneath, Clean
    <3>3. ObdId(r) \in Ids
      BY <1>4, <3>2 DEF Alive
    <3> QED
      BY <3>1, <3>2, <3>3 DEF Touches, Alive
  <2> QED
    BY <2>2, <2>3
<1> QED
  BY <1>7, <1>10, <1>11 DEF Devices

\* The device of a layer that is removed has nobody on it.
LEMMA DevRemoves ==
  ASSUME Types, Shapes, Entries, Timely, Family, Devices, NEW c \in Callers,
         c \in Layers, call[c].op = "Remove", Rest(c), Detaches(db[c]),
         UNCHANGED <<conf, db, ready, used, clash, unseen>>
  PROVE  Devices'
<1>2. Mounted /\ Attempts /\ Underneath
  BY DEF Devices
<1>3. mnt \subseteq Ids /\ mnt' = mnt \ {db[c]}
  BY DEF Types, TypeOK, Detaches
<1>4. \A e \in Ids : e # db[c] => dev'[e] = dev[e]
  BY DEF Detaches
<1>5. Mounted'
  BY <1>2, <1>3, <1>4 DEF Mounted, Clean
<1>6. ASSUME NEW r \in Rootfs
      PROVE  /\ r \in Callers /\ r # c /\ call'[r] = call[r] /\ ObdId(r)' = ObdId(r)
             /\ Relies(r)' <=> Relies(r)
  <2>1. r \in Callers /\ r # c
    BY SnapshotterAssumption DEF Callers, Keys
  <2>2. call'[r] = call[r]
    BY <2>1 DEF Rest
  <2> QED
    BY <2>1, <2>2 DEF ObdId, Relies
<1>7. ASSUME NEW r \in Rootfs, Relies(r) \/ call[r].pc \in {"enable", "link", "mount"}
      PROVE  ObdId(r) # db[c] /\ ObdId(r) \in Ids
  <2>1. db[r] # NoId \/ call[r].op # "none"
    BY <1>7, ReliesKnown
  <2>2. db[Parent[r]] # NoId /\ call[Parent[r]].op # "Remove"
    BY <2>1 DEF Family
  <2>3. Parent[r] \in Keys /\ c \in Keys /\ ObdId(r) \in Ids
    BY <2>1, ParentHasId DEF Keys
  <2>4. Parent[r] # c
    BY <2>2
  <2> QED
    BY <2>2, <2>3, <2>4 DEF Entries, ObdId
<1>8. Attempts'
  <2>0. \A r \in Rootfs : Clean(ObdId(r))' <=> Clean(ObdId(r))
    BY <1>6 DEF Clean
  <2>1. SUFFICES ASSUME NEW r \in Rootfs, call[r].pc \in {"enable", "link", "mount"},
                        Clean(ObdId(r))
                 PROVE  /\ ObdId(r) \notin mnt'
                        /\ call[r].pc = "link" => dev'[ObdId(r)] \in {"enabled", "unlinked"}
                        /\ call[r].pc = "mount" => dev'[ObdId(r)] = "linked"
    BY <1>6, <2>0 DEF Attempts
  <2> QED
    BY <1>2, <1>3, <1>4, <1>7, <2>1 DEF Attempts
<1>9. Underneath'
  <2>1. SUFFICES ASSUME NEW r \in Rootfs, Relies(r), Clean(ObdId(r))
                 PROVE  ObdId(r) \in mnt' /\ dev'[ObdId(r)] = "linked"
    BY <1>6 DEF Underneath, Clean, Alive
  <2> QED
    BY <1>2, <1>3, <1>4, <1>7, <2>1 DEF Underneath, Alive
<1> QED
  BY <1>5, <1>8, <1>9 DEF Devices

\* A call finds the device mounted, or sets out to attach it.
LEMMA DevLookup ==
  ASSUME Types, Shapes, Timely, Family, Devices, NEW c \in Callers, Lookup(c)
  PROVE  Devices'
<1>2. Mounted /\ Attempts /\ Underneath
  BY DEF Devices
<1>3. /\ UNCHANGED <<db, dev, mnt, used, clash>> /\ call[c].pc = "lookup"
      /\ call \in [Callers -> CallRec] /\ "enable" \in Pcs /\ Shape(c)
  BY DEF Lookup, store, kernel, history, Types, Pcs, Shapes
<1>4. /\ c \in Rootfs /\ Rest(c)
      /\ ready' \subseteq ready \union {c} /\ unseen \ {c} \subseteq unseen'
  BY <1>3, Attaches DEF Moved, Returned
<1>5. \/ ObdId(c) \in mnt /\ call'[c].pc \in Committing \union {"idle"}
      \/ ObdId(c) \notin mnt /\ call'[c].pc = "enable" /\ UNCHANGED <<ready, unseen>>
  <2>1. Attached(c) => call'[c].pc \in Committing \union {"idle"}
    BY <1>3, AttachedMoves DEF Moved, Returned
  <2>2. Goto(c, "enable") => call'[c].pc = "enable"
    BY <1>3, GotoMoves DEF Moved
  <2> QED
    BY <2>1, <2>2 DEF Lookup
<1>6. \A r \in Rootfs : r \in Callers /\ ObdId(r)' = ObdId(r)
  BY <1>3 DEF Callers, Keys, ObdId
<1>7. Mounted'
  BY <1>2, <1>3 DEF Mounted, Clean
<1>8. ASSUME NEW r \in Rootfs, r # c
      PROVE  call'[r] = call[r] /\ (Relies(r)' => Relies(r))
  BY <1>3, <1>4, <1>6, <1>8 DEF Rest, Relies
<1>9. Attempts'
  <2>1. SUFFICES ASSUME NEW r \in Rootfs, call'[r].pc \in {"enable", "link", "mount"},
                        Clean(ObdId(r))
                 PROVE  /\ ObdId(r) \notin mnt
                        /\ call'[r].pc = "link" => dev[ObdId(r)] \in {"enabled", "unlinked"}
                        /\ call'[r].pc = "mount" => dev[ObdId(r)] = "linked"
    BY <1>3, <1>6 DEF Attempts, Clean
  <2>2. CASE r = c
    BY <1>5, <2>1, <2>2 DEF Committing
  <2>3. CASE r # c
    BY <1>2, <1>8, <2>1, <2>3 DEF Attempts
  <2> QED
    BY <2>2, <2>3
<1>10. Underneath'
  <2>1. SUFFICES ASSUME NEW r \in Rootfs, Relies(r)', Clean(ObdId(r))
                 PROVE  Alive(ObdId(r))
    BY <1>3, <1>6 DEF Underneath, Clean, Alive
  <2>2. CASE Relies(r)
    BY <1>2, <2>1, <2>2 DEF Underneath
  <2>3. CASE ~Relies(r)
    <3>1. r = c
      BY <1>8, <2>1, <2>3
    <3>2. ObdId(r) \in mnt
      BY <1>3, <1>5, <2>1, <2>3, <3>1 DEF Relies, Committing
    <3> QED
      BY <1>2, <2>1, <3>2 DEF Mounted, Alive
  <2> QED
    BY <2>2, <2>3
<1> QED
  BY <1>7, <1>9, <1>10 DEF Devices

\* A Remove that holds the lock of its layer and the write transaction: nobody on the
\* same layer is attaching, and no Prepare on it is about to commit.
LEMMA NobodyAttaches ==
  ASSUME Types, Shapes, Entries, Transactions, Timely, Family, Locking,
         NEW c \in Rootfs, At(c, "Remove", "detach"),
         NEW r \in Rootfs, r # c, call[r].op # "none", ObdId(r) = ObdId(c)
  PROVE  call[r].pc \notin Attach /\ ~(call[r].op = "Prepare" /\ call[r].pc # "begin")
<1>1. c \in Callers /\ c \in Keys /\ r \in Callers /\ r \in Keys /\ Shape(c) /\ Shape(r)
  BY DEF Callers, Keys, Shapes
<1>2. conf.autoRemoveDev /\ call[c].op = "Remove" /\ call[c].pc = "detach"
  BY <1>1 DEF Shape, ShapeRemove, At
<1>3. wtx = c
  BY <1>1, <1>2 DEF Transactions, InTx
<1>4. ~(call[r].op = "Prepare" /\ call[r].pc # "begin")
  BY <1>1, <1>3 DEF Transactions, InTx
<1>5. Parent[r] = Parent[c]
  <2>1. /\ Parent[r] \in Keys /\ Parent[c] \in Keys
        /\ db[Parent[r]] # NoId /\ db[Parent[r]] = db[Parent[c]]
    BY <1>2, SnapshotterAssumption DEF Family, ObdId, Keys
  <2> QED
    BY <2>1 DEF Entries
<1>6. locker[Parent[c]] = c
  BY <1>2 DEF Locking
<1>7. ~(call[r].op = "Mounts" /\ call[r].pc \in Attach)
  BY <1>2, <1>5, <1>6 DEF Locking
<1>8. call[r].pc \in Attach => call[r].op \in {"Prepare", "Mounts"} /\ call[r].pc # "begin"
  BY <1>1, CallAt DEF Attach
<1> QED
  BY <1>4, <1>7, <1>8

\* A container takes the device of its layer along.
LEMMA DevDetaches ==
  ASSUME Types, Shapes, Entries, Transactions, Timely, Family, Devices, Locking, Warned,
         NEW c \in Rootfs, At(c, "Remove", "detach"), Rest(c),
         call'[c].op \in {"Remove", "none"}, call'[c].pc \in {"remove", "idle"},
         Detaches(ObdId(c)), UNCHANGED <<conf, db, ready, used, clash, unseen>>
  PROVE  Devices'
<1>1. Mounted /\ Attempts /\ Underneath /\ mnt \subseteq Ids
  BY DEF Devices, Types, TypeOK
<1>2. /\ mnt' = mnt \ {ObdId(c)}
      /\ \A e \in Ids : e # ObdId(c) => dev'[e] = dev[e]
  BY DEF Detaches
<1>3. Mounted'
  BY <1>1, <1>2 DEF Mounted, Clean
<1>4. ASSUME NEW r \in Rootfs
      PROVE  /\ r \in Callers /\ ObdId(r)' = ObdId(r) /\ (Clean(ObdId(r))' <=> Clean(ObdId(r)))
             /\ r # c => call'[r] = call[r] /\ (Relies(r)' <=> Relies(r))
  <2>1. r \in Callers /\ ObdId(r)' = ObdId(r)
    BY DEF Callers, Keys, ObdId
  <2>2. r # c => call'[r] = call[r]
    BY <2>1 DEF Rest
  <2> QED
    BY <2>1, <2>2 DEF Clean, Relies
<1>5. ASSUME NEW r \in Rootfs, r # c,
             Relies(r) \/ call[r].pc \in {"enable", "link", "mount"}
      PROVE  ObdId(r) # ObdId(c) /\ ObdId(r) \in Ids
  <2>1. db[r] # NoId \/ call[r].op # "none"
    BY <1>5, ReliesKnown
  <2>2. ObdId(r) \in Ids
    BY <2>1, ParentHasId
  <2>3. SUFFICES ASSUME ObdId(r) = ObdId(c)
                 PROVE  FALSE
    BY <2>2
  <2>4. r \notin (ready \union used) \ unseen
    BY <2>3 DEF Warned
  <2>5. \/ call[r].op = "Prepare" /\ call[r].pc \in Committing
        \/ call[r].pc \in {"enable", "link", "mount"}
    BY <1>5, <2>4 DEF Relies
  <2>6. call[r].op # "none"
    BY <1>4, <2>5, IdleIs DEF Shapes, Shape, ShapeNone
  <2> QED
    BY <1>5, <2>3, <2>5, <2>6, NobodyAttaches DEF Attach, Committing
<1>6. Attempts'
  <2>1. SUFFICES ASSUME NEW r \in Rootfs, call'[r].pc \in {"enable", "link", "mount"},
                        Clean(ObdId(r))
                 PROVE  /\ ObdId(r) \notin mnt'
                        /\ call'[r].pc = "link" => dev'[ObdId(r)] \in {"enabled", "unlinked"}
                        /\ call'[r].pc = "mount" => dev'[ObdId(r)] = "linked"
    BY <1>4 DEF Attempts
  <2>2. r # c /\ call'[r] = call[r]
    BY <1>4, <2>1
  <2> QED
    BY <1>1, <1>2, <1>5, <2>1, <2>2 DEF Attempts
<1>7. Underneath'
  <2>1. SUFFICES ASSUME NEW r \in Rootfs, Relies(r)', Clean(ObdId(r))
                 PROVE  ObdId(r) \in mnt' /\ dev'[ObdId(r)] = "linked"
    BY <1>4 DEF Underneath, Alive
  <2>2. r # c
    BY <2>1 DEF Relies, Warned
  <2>3. Relies(r)
    BY <1>4, <2>1, <2>2
  <2> QED
    BY <1>1, <1>2, <1>5, <2>1, <2>2, <2>3 DEF Underneath, Alive
<1> QED
  BY <1>3, <1>6, <1>7 DEF Devices

LEMMA DevStep ==
  ASSUME Types, Room, Shapes, Entries, Transactions, Timely, Family, FreshId, Devices,
         Locking, Warned, NEW c \in Callers, Step(c), Types'
  PROVE  Devices'
<1>0. Shape(c) /\ Rest(c) /\ conf' = conf /\ used' = used
  BY StepRest DEF Shapes
<1>g. Gentle(c) => Devices'
  BY ParentStays, DevGentle
<1>k. c \in Layers => c \notin Rootfs
  BY SnapshotterAssumption
<1> USE DEF Moved, Failed, GoesOn, At, Committing
<1>1. CASE TransactionContext(c)
  BY <1>g, <1>0, <1>1, Begins DEF DoesBegin, Gentle, Relies
<1>2. CASE PrepareDirectory(c)
  BY <1>g, <1>0, <1>2, MakesDirectory DEF Gentle, Relies, Returned
<1>3. CASE CreateSnapshot(c)
  BY <1>g, <1>0, <1>3, Creates DEF Gentle, Relies, Returned
<1>4. CASE ConstructOverlayBDSpec(c)
  <2>1. c \in Layers
    BY <1>0, <1>4 DEF ConstructOverlayBDSpec, Shape, ShapePrepare
  <2> QED
    BY <1>g, <1>0, <1>k, <1>4, <2>1, WritesSpec DEF Gentle
<1>5. CASE Lookup(c)
  BY <1>5, DevLookup
<1>6. CASE Enable(c) \/ Link(c) \/ MountDevice(c)
  BY <1>6, EnableLinkMount, DevTouches
<1>7. CASE UndoPrepare(c)
  BY <1>g, <1>0, <1>7, Undoes DEF Gentle, Relies, Returned
<1>8. CASE CommitPrepare(c)
  <2>1. Relies(c)
    BY <1>0, <1>8, CommitsPrepare DEF Relies
  <2> QED
    BY <1>g, <1>0, <1>8, <2>1, CommitsPrepare DEF Gentle, Returned
<1>9. CASE BeginMounts(c)
  BY <1>g, <1>0, <1>9, BeginsMounts DEF Gentle, Relies
<1>10. CASE Lock(c)
  BY <1>g, <1>0, <1>10, Locks DEF Gentle, Relies
<1>11. CASE RemoveOwnDevice(c)
  <2>1. CASE UNCHANGED <<dev, mnt>>
    BY <1>g, <1>0, <1>11, <2>1, RemovesDevice DEF Gentle, Relies, Returned
  <2>2. CASE c \in Layers /\ Detaches(db[c])
    <3>1. call[c].op = "Remove" /\ UNCHANGED <<conf, db, ready, used, clash, unseen>>
      BY <1>0, <1>11, RemovesDevice
    <3> QED
      BY <1>0, <2>2, <3>1, DevRemoves
  <2> QED
    BY <1>0, <1>11, <2>1, <2>2, RemovesDevice
<1>12. CASE CheckParentDevice(c) \/ DetachParentDevice(c)
  <2>1. CASE CheckParentDevice(c)
    BY <1>g, <1>0, <2>1, ChecksParent DEF Gentle, Relies
  <2>2. CASE DetachParentDevice(c)
    <3>1. /\ c \in Rootfs /\ At(c, "Remove", "detach")
          /\ call'[c].op \in {"Remove", "none"} /\ call'[c].pc \in {"remove", "idle"}
          /\ UNCHANGED <<dev, mnt>> \/ Detaches(ObdId(c))
          /\ UNCHANGED <<conf, db, ready, used, clash, unseen>>
      BY <1>0, <2>2, DetachesParent DEF Returned
    <3>2. CASE UNCHANGED <<dev, mnt>>
      BY <1>g, <1>0, <3>1, <3>2 DEF Gentle, Relies
    <3>3. CASE Detaches(ObdId(c))
      BY <1>0, <3>1, <3>3, DevDetaches
    <3> QED
      BY <3>1, <3>2, <3>3
  <2> QED
    BY <1>12, <2>1, <2>2
<1>13. CASE RemoveEntry(c)
  BY <1>g, <1>0, <1>13, RemovesEntry DEF Gentle, Relies, Returned
<1>14. CASE Purge(c)
  BY <1>g, <1>0, <1>14, Purges DEF Gentle, Relies
<1>15. CASE CommitRemove(c)
  BY <1>g, <1>0, <1>15, CommitsRemove DEF Gentle, Relies, Returned
<1>16. CASE Scan(c)
  BY <1>g, <1>0, <1>16, Scans DEF Gentle, Relies, Returned
<1>17. CASE Sweep(c)
  BY <1>g, <1>0, <1>17, Sweeps DEF Gentle, Relies, Returned
<1> QED
  BY <1>1, <1>2, <1>3, <1>4, <1>5, <1>6, <1>7, <1>8, <1>9, <1>10, <1>11, <1>12, <1>13,
     <1>14, <1>15, <1>16, <1>17 DEF Step

\* Who takes and gives back the lock of a layer.
LEMMA LockStep ==
  ASSUME Types, Room, NEW c \in Callers, Shape(c), Step(c)
  PROVE  \/ Lock(c)
         \/ /\ locker' \in {locker, Unlocked(c)}
            /\ locker' = locker \/ call'[c].op = "none" \/ call'[c].pc \in Committing
            /\ \/ call'[c].op = "Mounts" /\ call'[c].pc \in Attach
               \/ call'[c].op = "Remove" /\ call'[c].pc \in {"check", "detach"}
               => \/ ~conf.autoRemoveDev
                  \/ call[c].op = "Mounts" /\ call[c].pc \in Attach
                  \/ call[c].op = "Remove" /\ call[c].pc \in {"check", "detach"}
<1> USE DEF Moved, Failed, GoesOn, Returned, At
<1>1. CASE TransactionContext(c)
  BY <1>1, Begins DEF DoesBegin, Attach
<1>2. CASE PrepareDirectory(c)
  BY <1>2, MakesDirectory
<1>3. CASE CreateSnapshot(c)
  BY <1>3, Creates
<1>4. CASE ConstructOverlayBDSpec(c)
  BY <1>4, WritesSpec
<1>5. CASE Lookup(c) \/ Enable(c) \/ Link(c) \/ MountDevice(c)
  BY <1>5, Attaches
<1>6. CASE UndoPrepare(c)
  BY <1>6, Undoes
<1>7. CASE CommitPrepare(c)
  BY <1>7, CommitsPrepare
<1>8. CASE BeginMounts(c)
  BY <1>8, BeginsMounts DEF Attach
<1>9. CASE RemoveOwnDevice(c)
  BY <1>9, RemovesDevice
<1>10. CASE CheckParentDevice(c) \/ DetachParentDevice(c)
  BY <1>10, ChecksParent, DetachesParent
<1>11. CASE RemoveEntry(c)
  BY <1>11, RemovesEntry
<1>12. CASE Purge(c)
  BY <1>12, Purges DEF Committing
<1>13. CASE CommitRemove(c)
  BY <1>13, CommitsRemove
<1>14. CASE Scan(c)
  BY <1>14, Scans
<1>15. CASE Sweep(c)
  BY <1>15, Sweeps
<1> QED
  BY <1>1, <1>2, <1>3, <1>4, <1>5, <1>6, <1>7, <1>8, <1>9, <1>10, <1>11, <1>12, <1>13,
     <1>14, <1>15 DEF Step

LEMMA LockingStep ==
  ASSUME Types, Room, Shapes, Locking, NEW c \in Callers, Step(c)
  PROVE  Locking'
<1>1. Shape(c) /\ Rest(c) /\ conf' = conf
  BY StepRest DEF Shapes
<1> DEFINE Holds(r) == \/ call[r].op = "Mounts" /\ call[r].pc \in Attach
                       \/ call[r].op = "Remove" /\ call[r].pc \in {"check", "detach"}
<1>2. SUFFICES ASSUME conf.autoRemoveDev, NEW r \in Rootfs, Holds(r)'
               PROVE  locker'[Parent[r]] = r
  BY <1>1 DEF Locking
<1>3. /\ r \in Callers /\ Parent[r] \in Layers /\ r # Nobody
      /\ locker \in [Layers -> Rootfs \union {Nobody}]
  BY SnapshotterAssumption DEF Callers, Keys, Types, TypeOK
<1>4. Holds(r) => locker[Parent[r]] = r
  BY <1>2 DEF Locking
<1>5. CASE r # c
  <2>1. locker[Parent[r]] = r
    BY <1>1, <1>2, <1>3, <1>4, <1>5 DEF Rest
  <2>2. CASE Lock(c)
    BY <1>1, <1>3, <2>1, <2>2, Locks
  <2>3. CASE locker' \in {locker, Unlocked(c)}
    BY <1>3, <1>5, <2>1, <2>3 DEF Unlocked
  <2> QED
    BY <1>1, <2>2, <2>3, LockStep
<1>6. CASE r = c
  <2>1. CASE Lock(c)
    BY <1>1, <1>3, <1>6, <2>1, Locks
  <2>2. CASE ~Lock(c)
    <3>1. Holds(c)
      BY <1>1, <1>2, <1>6, <2>2, LockStep
    <3>2. locker' = locker
      BY <1>1, <1>2, <1>6, <2>2, LockStep DEF Attach, Committing
    <3> QED
      BY <1>4, <1>6, <3>1, <3>2
  <2> QED
    BY <2>1, <2>2
<1> QED
  BY <1>5, <1>6

\* The mounts that a call gives out are no longer missed.
LEMMA UnseenStep ==
  ASSUME Types, Room, NEW c \in Callers, Shape(c), Step(c)
  PROVE  \/ ready' = ready /\ unseen \subseteq unseen'
         \/ c \in Rootfs /\ call[c].op = "Mounts" /\ call[c].pc \in Attach
            /\ ready' = ready \union {c} /\ unseen' = unseen \ {c}
         \/ CommitPrepare(c)
<1>1. CASE Lookup(c) \/ Enable(c) \/ Link(c) \/ MountDevice(c)
  BY <1>1, Attaches
<1>2. CASE CheckParentDevice(c)
  BY <1>2, ChecksParent
<1>3. CASE UNCHANGED <<ready, unseen>>
  BY <1>3
<1> QED
  BY <1>1, <1>2, <1>3
  DEF Step, TransactionContext, PrepareDirectory, CreateSnapshot, ConstructOverlayBDSpec,
      UndoPrepare, BeginMounts, Lock, RemoveOwnDevice, DetachParentDevice, RemoveEntry,
      Purge, CommitRemove, Scan, Sweep, client, history

\* Only the check leads to detaching the device of the parent.
LEMMA DetachAfterCheck ==
  ASSUME Types, Room, NEW c \in Callers, Shape(c), Step(c), At(c, "Remove", "detach")'
  PROVE  CheckParentDevice(c)
<1> USE DEF Moved, Failed, GoesOn, Returned, At
<1>1. CASE TransactionContext(c)
  BY <1>1, Begins DEF DoesBegin
<1>2. CASE PrepareDirectory(c) \/ ConstructOverlayBDSpec(c) \/ UndoPrepare(c)
  BY <1>2, MakesDirectory, WritesSpec, Undoes
<1>3. CASE CreateSnapshot(c)
  BY <1>3, Creates
<1>4. CASE Lookup(c) \/ Enable(c) \/ Link(c) \/ MountDevice(c)
  BY <1>4, Attaches
<1>5. CASE CommitPrepare(c) \/ CommitRemove(c)
  BY <1>5, CommitsPrepare, CommitsRemove
<1>6. CASE BeginMounts(c) \/ Lock(c)
  BY <1>6, BeginsMounts, Locks
<1>7. CASE RemoveOwnDevice(c) \/ DetachParentDevice(c)
  BY <1>7, RemovesDevice, DetachesParent
<1>8. CASE RemoveEntry(c)
  BY <1>8, RemovesEntry
<1>9. CASE Purge(c)
  BY <1>9, Purges DEF Committing
<1>10. CASE Scan(c) \/ Sweep(c)
  BY <1>10, Scans, Sweeps
<1> QED
  BY <1>1, <1>2, <1>3, <1>4, <1>5, <1>6, <1>7, <1>8, <1>9, <1>10 DEF Step

LEMMA WarnedStep ==
  ASSUME Types, Room, Shapes, Entries, Transactions, Timely, Family, FreshId, Locking, Warned,
         NEW c \in Callers, Step(c)
  PROVE  Warned'
<1>1. Shape(c) /\ Rest(c) /\ used' = used
  BY StepRest DEF Shapes
<1>2. SUFFICES ASSUME NEW r \in Rootfs, At(r, "Remove", "detach")',
                      NEW k \in ready' \union used', ObdId(k)' = ObdId(r)'
               PROVE  k \in unseen'
  BY DEF Warned
<1>3. CASE r = c
  <2>1. CheckParentDevice(c)
    BY <1>1, <1>2, <1>3, DetachAfterCheck
  <2>2. /\ unseen' = unseen \union {j \in ready \union used : ObdId(j) = ObdId(c)}
        /\ ready' = ready /\ db' = db
    BY <1>1, <1>2, <1>3, <2>1, ChecksParent DEF Moved, At
  <2> QED
    BY <1>1, <1>2, <1>3, <2>2 DEF ObdId
<1>4. CASE r # c
  <2>1. r \in Callers /\ r \in Keys /\ At(r, "Remove", "detach") /\ call[r].op = "Remove"
    BY <1>1, <1>2, <1>4 DEF Callers, Keys, Rest, At
  <2>2. ObdId(r)' = ObdId(r)
    BY <2>1, ParentStays
  <2>3. wtx = r
    BY <2>1 DEF Transactions, InTx, At
  <2>4. ~CommitPrepare(c)
    <3>1. CommitPrepare(c) => InTx(c)
      BY <1>1, CommitsPrepare DEF InTx, Committing
    <3> QED
      BY <1>4, <2>3, <3>1 DEF Transactions
  <2>5. ASSUME c \in Rootfs, call[c].op = "Mounts", call[c].pc \in Attach, k = c
        PROVE  FALSE
    <3>1. ObdId(c)' = ObdId(c)
      BY <2>5, ParentStays
    <3>2. ObdId(c) = ObdId(r)
      BY <1>2, <2>2, <2>5, <3>1
    <3> QED
      BY <1>4, <2>1, <2>5, <3>2, NobodyAttaches
  <2>6. k \in ready \union used /\ (k \in unseen => k \in unseen')
    BY <1>1, <1>2, <2>4, <2>5, UnseenStep
  <2>7. k \in Rootfs /\ db[k] # NoId
    BY <2>6 DEF Types, TypeOK, Timely, Keys
  <2>8. ObdId(k)' = ObdId(k)
    BY <2>7, ParentStays
  <2> QED
    BY <1>2, <2>1, <2>2, <2>6, <2>8 DEF Warned
<1> QED
  BY <1>3, <1>4

-----------------------------------------------------------------------------
(* containerd and the runtime *)

LEMMA StepInv ==
  ASSUME IInv, NEW c \in Callers, Step(c)
  PROVE  IInv'
<1>1. Shape(c) /\ FreshId
  BY DEF IInv, Shapes, DirInv
<1>2. Types'
  BY <1>1, TypesStep DEF IInv
<1>3. Shapes' /\ Room' /\ Transactions' /\ Entries'
  BY <1>1, ShapesStep, RoomStep, TransactionsStep, EntriesStep DEF IInv
<1>4. Timely' /\ Family'
  BY <1>1, TimelyStep, FamilyStep DEF IInv
<1>5. DirInv' /\ Devices' /\ Locking' /\ Warned'
  BY <1>1, <1>2, DirStep, DevStep, LockingStep, WarnedStep DEF IInv
<1> QED
  BY <1>2, <1>3, <1>4, <1>5 DEF IInv

\* A new call is at its beginning.
Begun(k, op) ==
  Rest(k) /\ call'[k].op = op /\ call'[k].pc = "begin"

LEMMA CallBegins ==
  ASSUME Types, NEW k \in Callers, NEW op \in {"Prepare", "Mounts", "Remove", "Cleanup"},
         call' = [call EXCEPT ![k] = Call(op)]
  PROVE  Begun(k, op)
<1>1. Call(op) \in CallRec /\ Call(op).op = op /\ Call(op).pc = "begin"
  BY SnapshotterAssumption DEF Call, CallRec, Pcs, NoId
<1>2. call \in [Callers -> CallRec]
  BY DEF Types
<1> QED
  BY <1>1, <1>2 DEF Begun, Rest

\* What does not depend on which call it is.
LEMMA RequestFrame ==
  ASSUME IInv, NEW k \in Callers, call[k] = Idle,
         NEW op \in {"Prepare", "Mounts", "Remove", "Cleanup"}, Begun(k, op),
         op = "Cleanup" <=> k = GC, op = "Mounts" => k \in Rootfs,
         ready' \subseteq ready,
         unseen' = unseen \/ (unseen' = unseen \ {k} /\ k \notin ready' \union used'),
         UNCHANGED <<conf, store, dirs, kernel, used, locker, faults, abandoned, doomed, clash>>
  PROVE  /\ Types' /\ Shapes' /\ Transactions' /\ Entries' /\ DirInv' /\ Devices'
         /\ Locking' /\ Warned'
<1>1. /\ UNCHANGED <<conf, db, seq, wtx, dirs, dev, mnt, used, locker, faults, abandoned,
                     doomed, clash>>
      /\ call' \in [Callers -> CallRec] /\ \A o \in Callers \ {k} : call'[o] = call[o]
      /\ call'[k].op = op /\ call'[k].pc = "begin"
      /\ call[k].op = "none" /\ call[k].pc = "idle"
  BY IdleIs DEF store, kernel, Begun, Rest
<1>2. k # GC => k \in Keys
  BY DEF Callers
<1>3. Types'
  BY <1>1 DEF IInv, Types, TypeOK
<1>4. Shapes'
  <2>1. Shape(k)'
    BY <1>1, <1>2
    DEF Shape, ShapePrepare, ShapeMounts, ShapeRemove, ShapeCleanup, ShapeNone, Attach,
        Committing
  <2>2. ASSUME NEW o \in Callers, o # k
        PROVE  Shape(o)'
    <3>1. call'[o] = call[o] /\ Shape(o)
      BY <1>1, <2>2 DEF IInv, Shapes
    <3> QED
      BY <1>1, <3>1
      DEF Shape, ShapePrepare, ShapeMounts, ShapeRemove, ShapeCleanup, ShapeNone
  <2> QED
    BY <2>1, <2>2 DEF Shapes
<1>5. Transactions'
  BY <1>1 DEF IInv, Transactions, InTx
<1>6. Entries'
  BY <1>1 DEF IInv, Entries
<1>7. DirInv'
  <2>1. Quiet(k)
    BY <1>1 DEF Quiet, Begun, Named, At, Attach, Committing
  <2> QED
    BY <2>1, DirQuiet DEF IInv
<1>8. Devices'
  <2>1. Gentle(k)
    BY <1>1 DEF Gentle, Begun, Relies, Committing
  <2>2. \A r \in Rootfs : ObdId(r)' = ObdId(r)
    BY <1>1 DEF ObdId
  <2> QED
    BY <2>1, <2>2, DevGentle DEF IInv
<1>9. Locking'
  BY <1>1 DEF IInv, Locking, Attach, Callers, Keys
<1>10. Warned'
  <2>1. SUFFICES ASSUME NEW r \in Rootfs, At(r, "Remove", "detach")',
                        NEW j \in ready' \union used', ObdId(j)' = ObdId(r)'
                 PROVE  j \in unseen'
    BY DEF Warned
  <2>2. r \in Callers /\ r # k
    BY <1>1, <2>1 DEF At, Callers, Keys
  <2>3. At(r, "Remove", "detach")
    BY <1>1, <2>1, <2>2 DEF At
  <2>4. j \in ready \union used /\ ObdId(j) = ObdId(r)
    BY <1>1, <2>1 DEF ObdId
  <2> QED
    BY <2>1, <2>3, <2>4 DEF IInv, Warned
<1> QED
  BY <1>3, <1>4, <1>5, <1>6, <1>7, <1>8, <1>9, <1>10

LEMMA PreparingFinite ==
  IsFiniteSet(Preparing) /\ Cardinality(Preparing) \in Nat
<1>1. IsFiniteSet(Keys) /\ Preparing \subseteq Keys
  BY SnapshotterAssumption DEF Preparing
<1>2. IsFiniteSet(Preparing)
  BY <1>1, FS_Subset
<1> QED
  BY <1>2, FS_CardinalityType

LEMMA RequestPrepareInv ==
  ASSUME IInv, NEW k \in Keys, RequestPrepare(k)
  PROVE  IInv'
<1>1. /\ k \in Callers /\ call[k] = Idle /\ k # GC /\ db[k] = NoId
      /\ UNCHANGED <<conf, store, dirs, kernel, ready, used, locker, faults, abandoned, doomed,
                     clash, unseen>>
  BY SnapshotterAssumption DEF RequestPrepare, Callers, client, history
<1>2. Begun(k, "Prepare")
  BY <1>1, CallBegins DEF IInv, RequestPrepare
<1>3. /\ Types' /\ Shapes' /\ Transactions' /\ Entries' /\ DirInv' /\ Devices'
      /\ Locking' /\ Warned'
  BY <1>1, <1>2, RequestFrame
<1>4. /\ db' = db /\ seq' = seq /\ ready' = ready /\ used' = used
      /\ call'[k].op = "Prepare" /\ call[k].op = "none"
      /\ \A o \in Keys \ {k} : call'[o] = call[o]
  BY <1>1, <1>2, IdleIs DEF Begun, Rest, store, Callers
<1>5. Room'
  <2>1. Preparing' = Preparing \union {k} /\ k \notin Preparing
    BY <1>4 DEF Preparing
  <2>2. IsFiniteSet(Preparing) /\ Cardinality(Preparing) \in Nat /\ seq \in Nat /\ MaxId \in Nat
    BY PreparingFinite, SnapshotterAssumption DEF IInv, Types, TypeOK
  <2>3. Cardinality(Preparing') = Cardinality(Preparing) + 1
    BY <2>1, <2>2, FS_AddElement
  <2>4. seq + Cardinality(Preparing) < MaxId
    BY DEF RequestPrepare, Preparing
  <2> QED
    BY <1>4, <2>2, <2>3, <2>4 DEF Room
<1>6. Timely'
  <2>1. ASSUME NEW j \in Keys
        PROVE  /\ call'[j].op = "Prepare" => db[j] = NoId
               /\ call'[j].op \in {"Mounts", "Remove"} => db[j] # NoId
               /\ j \in ready \union used => db[j] # NoId /\ call'[j].op # "Remove"
    BY <1>1, <1>4 DEF IInv, Timely
  <2> QED
    BY <1>4, <2>1 DEF Timely
<1>7. Family'
  <2>1. ASSUME NEW r \in Rootfs, db[r] # NoId \/ call'[r].op # "none"
        PROVE  db[Parent[r]] # NoId /\ call'[Parent[r]].op # "Remove"
    <3>1. Parent[r] \in Keys /\ r \in Keys
      BY SnapshotterAssumption DEF Keys
    <3>2. db[Parent[r]] # NoId /\ call[Parent[r]].op # "Remove"
      <4>1. CASE r = k
        BY <4>1 DEF RequestPrepare
      <4>2. CASE r # k
        BY <1>4, <2>1, <3>1, <4>2 DEF IInv, Family
      <4> QED
        BY <4>1, <4>2
    <3> QED
      BY <1>4, <3>1, <3>2
  <2> QED
    BY <1>4, <2>1 DEF Family
<1> QED
  BY <1>3, <1>5, <1>6, <1>7 DEF IInv

\* No Prepare begins, so there is room.
LEMMA RoomKeeps ==
  ASSUME IInv, seq' = seq, Preparing' \subseteq Preparing
  PROVE  Room'
<1>1. IsFiniteSet(Preparing) /\ Cardinality(Preparing) \in Nat /\ seq \in Nat /\ MaxId \in Nat
  BY PreparingFinite, SnapshotterAssumption DEF IInv, Types, TypeOK
<1>2. IsFiniteSet(Preparing') /\ Cardinality(Preparing') <= Cardinality(Preparing)
  BY <1>1, FS_Subset
<1>3. Cardinality(Preparing') \in Nat
  BY <1>2, FS_CardinalityType
<1> QED
  BY <1>1, <1>2, <1>3 DEF IInv, Room

LEMMA RequestMountsInv ==
  ASSUME IInv, NEW k \in Keys, RequestMounts(k)
  PROVE  IInv'
<1>1. /\ k \in Callers /\ call[k] = Idle /\ k # GC /\ db[k] # NoId /\ k \in Rootfs
      /\ UNCHANGED <<conf, store, dirs, kernel, ready, used, locker, faults, abandoned, doomed,
                     clash, unseen>>
  BY SnapshotterAssumption DEF RequestMounts, Callers, client, history
<1>2. Begun(k, "Mounts")
  BY <1>1, CallBegins DEF IInv, RequestMounts
<1>3. /\ Types' /\ Shapes' /\ Transactions' /\ Entries' /\ DirInv' /\ Devices'
      /\ Locking' /\ Warned'
  BY <1>1, <1>2, RequestFrame
<1>4. /\ db' = db /\ seq' = seq /\ ready' = ready /\ used' = used
      /\ call'[k].op = "Mounts" /\ call[k].op = "none"
      /\ \A o \in Keys \ {k} : call'[o] = call[o]
  BY <1>1, <1>2, IdleIs DEF Begun, Rest, store, Callers
<1>5. Room'
  <2>1. Preparing' \subseteq Preparing
    BY <1>4 DEF Preparing
  <2> QED
    BY <1>4, <2>1, RoomKeeps
<1>6. Timely'
  <2>1. ASSUME NEW j \in Keys
        PROVE  /\ call'[j].op = "Prepare" => db[j] = NoId
               /\ call'[j].op \in {"Mounts", "Remove"} => db[j] # NoId
               /\ j \in ready \union used => db[j] # NoId /\ call'[j].op # "Remove"
    BY <1>1, <1>4 DEF IInv, Timely
  <2> QED
    BY <1>4, <2>1 DEF Timely
<1>7. Family'
  <2>1. ASSUME NEW r \in Rootfs, db[r] # NoId \/ call'[r].op # "none"
        PROVE  db[Parent[r]] # NoId /\ call'[Parent[r]].op # "Remove"
    <3>1. Parent[r] \in Keys /\ r \in Keys
      BY SnapshotterAssumption DEF Keys
    <3>2. db[r] # NoId \/ call[r].op # "none"
      BY <1>1, <1>4, <2>1, <3>1
    <3> QED
      BY <1>4, <3>1, <3>2 DEF IInv, Family
  <2> QED
    BY <1>4, <2>1 DEF Family
<1> QED
  BY <1>3, <1>5, <1>6, <1>7 DEF IInv

LEMMA RequestRemoveInv ==
  ASSUME IInv, NEW k \in Keys, RequestRemove(k)
  PROVE  IInv'
<1>1. /\ k \in Callers /\ call[k] = Idle /\ k # GC /\ db[k] # NoId /\ k \notin used
      /\ ready' = ready \ {k} /\ unseen' = unseen \ {k}
      /\ \A r \in Rootfs : Parent[r] = k => db[r] = NoId /\ call[r] = Idle
      /\ UNCHANGED <<conf, store, dirs, kernel, used, locker, faults, abandoned, doomed, clash>>
  BY SnapshotterAssumption DEF RequestRemove, Callers
<1>2. Begun(k, "Remove")
  BY <1>1, CallBegins DEF IInv, RequestRemove
<1>3. /\ Types' /\ Shapes' /\ Transactions' /\ Entries' /\ DirInv' /\ Devices'
      /\ Locking' /\ Warned'
  BY <1>1, <1>2, RequestFrame
<1>4. /\ db' = db /\ seq' = seq /\ used' = used
      /\ call'[k].op = "Remove" /\ call[k].op = "none"
      /\ \A o \in Keys \ {k} : call'[o] = call[o]
  BY <1>1, <1>2, IdleIs DEF Begun, Rest, store, Callers
<1>5. Room'
  <2>1. Preparing' \subseteq Preparing
    BY <1>4 DEF Preparing
  <2> QED
    BY <1>4, <2>1, RoomKeeps
<1>6. Timely'
  <2>1. ASSUME NEW j \in Keys
        PROVE  /\ call'[j].op = "Prepare" => db[j] = NoId
               /\ call'[j].op \in {"Mounts", "Remove"} => db[j] # NoId
               /\ j \in ready' \union used => db[j] # NoId /\ call'[j].op # "Remove"
    BY <1>1, <1>4 DEF IInv, Timely
  <2> QED
    BY <1>4, <2>1 DEF Timely
<1>7. Family'
  <2>1. ASSUME NEW r \in Rootfs, db[r] # NoId \/ call'[r].op # "none"
        PROVE  db[Parent[r]] # NoId /\ call'[Parent[r]].op # "Remove"
    <3>1. Parent[r] \in Keys /\ r \in Keys
      BY SnapshotterAssumption DEF Keys
    <3>2. db[r] # NoId \/ call[r].op # "none"
      BY <1>1, <1>4, <2>1, <3>1
    <3>3. Parent[r] # k
      BY <1>1, <3>2, IdleIs
    <3> QED
      BY <1>4, <3>1, <3>2, <3>3 DEF IInv, Family
  <2> QED
    BY <1>4, <2>1 DEF Family
<1> QED
  BY <1>3, <1>5, <1>6, <1>7 DEF IInv

LEMMA RequestCleanupInv ==
  ASSUME IInv, RequestCleanup
  PROVE  IInv'
<1>1. /\ GC \in Callers /\ call[GC] = Idle /\ GC \notin Keys
      /\ UNCHANGED <<conf, store, dirs, kernel, ready, used, locker, faults, abandoned, doomed,
                     clash, unseen>>
  BY SnapshotterAssumption DEF RequestCleanup, Callers, client, history
<1>2. Begun(GC, "Cleanup")
  BY <1>1, CallBegins DEF IInv, RequestCleanup
<1>3. /\ Types' /\ Shapes' /\ Transactions' /\ Entries' /\ DirInv' /\ Devices'
      /\ Locking' /\ Warned'
  BY <1>1, <1>2, RequestFrame
<1>4. /\ db' = db /\ seq' = seq /\ ready' = ready /\ used' = used
      /\ \A o \in Keys : call'[o] = call[o]
  BY <1>1, <1>2 DEF Begun, Rest, store, Callers
<1>5. Room'
  <2>1. Preparing' \subseteq Preparing
    BY <1>4 DEF Preparing
  <2> QED
    BY <1>4, <2>1, RoomKeeps
<1>6. Timely'
  BY <1>4 DEF IInv, Timely
<1>7. Family'
  <2>1. \A r \in Rootfs : r \in Keys /\ Parent[r] \in Keys
    BY SnapshotterAssumption DEF Keys
  <2> QED
    BY <1>4, <2>1 DEF IInv, Family
<1> QED
  BY <1>3, <1>5, <1>6, <1>7 DEF IInv

LEMMA RuntimeInv ==
  ASSUME IInv, NEW k \in Keys, RuntimeMount(k) \/ RuntimeUnmount(k)
  PROVE  IInv'
<1>1. UNCHANGED <<conf, db, seq, wtx, dirs, dev, mnt, locker, call, faults, abandoned,
                  doomed, clash, unseen>>
  BY DEF RuntimeMount, RuntimeUnmount, store, kernel, history
<1>2. ready' \union used' \subseteq ready \union used
  BY DEF RuntimeMount, RuntimeUnmount
<1>3. Types'
  BY <1>1, <1>2 DEF IInv, Types, TypeOK
<1>4. Shapes'
  BY <1>1 DEF IInv, Shapes, Shape, ShapePrepare, ShapeMounts, ShapeRemove, ShapeCleanup, ShapeNone
<1>5. Room' /\ Transactions' /\ Entries'
  BY <1>1 DEF IInv, Room, Preparing, Transactions, InTx, Entries
<1>6. Timely' /\ Family'
  BY <1>1, <1>2 DEF IInv, Timely, Family
<1>7. DirInv'
  BY <1>1 DEF IInv, DirInv, FreshId, Named, High, AllOwned, Owned, IDMap, Present, At, Purging,
              Purged, Sweeping, LiveDirSafe
<1>8. Devices'
  <2>1. GC \in Callers /\ GC \notin Rootfs /\ Shape(GC)
    BY SnapshotterAssumption DEF IInv, Shapes, Callers, Keys
  <2>2. call[GC].pc \notin {"enable", "link", "mount"}
    BY <2>1, CallAt DEF IInv, Attach
  <2>3. Gentle(GC)
    BY <1>1, <1>2, <2>1, <2>2 DEF IInv, Types, Gentle, Rest
  <2>4. \A r \in Rootfs : ObdId(r)' = ObdId(r)
    BY <1>1 DEF ObdId
  <2> QED
    BY <2>1, <2>3, <2>4, DevGentle DEF IInv
<1>9. Locking' /\ Warned'
  BY <1>1, <1>2 DEF IInv, Locking, Warned, At, ObdId
<1> QED
  BY <1>3, <1>4, <1>5, <1>6, <1>7, <1>8, <1>9 DEF IInv

-----------------------------------------------------------------------------
(* Faults *)

LEMMA EndedDirs ==
  ASSUME IInv, Ended, \A c \in Callers : call'[c] = Idle
  PROVE  DirInv'
<1>1. /\ UNCHANGED <<conf, db, seq, doomed>>
      /\ dirs' = IF NewDir \in dirs THEN (dirs \ {NewDir}) \union {StaleDir} ELSE dirs
      /\ abandoned' = abandoned \union {i \in dirs \ IDMap : i > seq}
  BY DEF Ended
<1>2. \A c \in Callers : call'[c].op = "none"
  BY IdleIs
<1>3. /\ \A c \in Keys : /\ ~Named(c)' /\ ~At(c, "Remove", "purge")'
                         /\ call'[c].op # "Remove"
      /\ ~At(GC, "Cleanup", "sweep")'
  BY <1>2 DEF Named, At, Callers
<1>4. FreshId' /\ Purging' /\ Purged' /\ Sweeping'
  BY <1>3 DEF FreshId, Purging, Purged, Sweeping
<1>5. /\ seq \in Nat /\ dirs \subseteq Int /\ IDMap' = IDMap
      /\ \A d \in IDMap : d \in Nat /\ d <= seq /\ d # NewDir
  BY <1>1, Numbers DEF IInv, IDMap, Present
<1>6. \A d \in dirs' : d = StaleDir \/ (d \in dirs /\ d # NewDir)
  BY <1>1
<1>7. \A d \in dirs : d > seq => d \in abandoned'
  BY <1>1, <1>5
<1>8. High'
  BY <1>1, <1>5, <1>6, <1>7 DEF High, StaleDir
<1>9. AllOwned'
  <2>1. SUFFICES ASSUME ~conf.asyncRemove, NEW d \in dirs, d # NewDir
                 PROVE  d \in IDMap \/ d \in abandoned' \/ d = StaleDir
    BY <1>1, <1>5, <1>6 DEF AllOwned, Owned
  <2>2. d \in IDMap \/ d \in abandoned \/ d = StaleDir \/ d = seq + 1
    BY <2>1 DEF IInv, DirInv, AllOwned, Owned
  <2> QED
    BY <1>1, <1>5, <1>7, <2>1, <2>2
<1>10. LiveDirSafe'
  <2>1. SUFFICES ASSUME NEW k \in Keys, db[k] # NoId, k \notin doomed, db[k] \notin abandoned'
                 PROVE  db[k] \in dirs'
    BY <1>1 DEF LiveDirSafe, Present
  <2>2. db[k] \in dirs /\ db[k] \in IDMap
    BY <1>1, <2>1, InIDMap DEF IInv, DirInv, LiveDirSafe, Present
  <2> QED
    BY <1>1, <1>5, <2>2
<1> QED
  BY <1>4, <1>8, <1>9, <1>10 DEF DirInv

LEMMA FaultInv ==
  ASSUME IInv, Crash \/ Reboot
  PROVE  IInv'
<1>1. Ended /\ Fault
  BY DEF Crash, Reboot
<1>2. /\ call' \in [Callers -> CallRec] /\ \A c \in Callers : call'[c] = Idle
      /\ \A c \in Callers : call'[c].op = "none" /\ call'[c].pc = "idle"
  BY <1>1, IdleIs DEF Ended
<1>3. /\ UNCHANGED <<conf, db, seq, clash, unseen>> /\ wtx' = Nobody
      /\ locker' = [l \in Layers |-> Nobody]
      /\ dirs' = IF NewDir \in dirs THEN (dirs \ {NewDir}) \union {StaleDir} ELSE dirs
  BY <1>1 DEF Ended
<1>4. ready' \union used' \subseteq ready \union used
  BY DEF Crash, Reboot, client
<1>5. \/ dev' = dev /\ mnt' = mnt
      \/ dev' = [i \in Ids |-> "none"] /\ mnt' = {} /\ ready' = {} /\ used' = {}
  BY DEF Crash, Reboot, kernel
<1>6. Keys \subseteq Callers /\ Rootfs \subseteq Keys /\ \A r \in Rootfs : Parent[r] \in Keys
  BY SnapshotterAssumption DEF Callers, Keys
<1>7. Types'
  <2>1. /\ conf' \in Confs /\ db' \in [Keys -> 0..MaxId] /\ seq' \in 0..MaxId
        /\ wtx' \in Callers \union {Nobody} /\ ready' \union used' \subseteq Rootfs
    BY <1>3, <1>4 DEF IInv, Types, TypeOK
  <2>2. dirs' \subseteq Ids \union {NewDir, StaleDir}
    BY <1>3 DEF IInv, Types, TypeOK
  <2>3. dev' \in [Ids -> DevStates] /\ mnt' \subseteq Ids
    BY <1>5 DEF IInv, Types, TypeOK, DevStates
  <2>4. locker' \in [Layers -> Rootfs \union {Nobody}]
    BY <1>3
  <2>5. faults' \in [steps : 0..MaxFaults, undos : 0..MaxUndos]
    BY <1>1, FaultType DEF IInv, Types, TypeOK
  <2> QED
    BY <1>2, <2>1, <2>2, <2>3, <2>4, <2>5 DEF Types, TypeOK, DevStates
<1>8. Shapes' /\ Transactions'
  BY <1>2 DEF Shapes, Shape, ShapePrepare, ShapeMounts, ShapeRemove, ShapeCleanup, ShapeNone,
              Transactions, InTx
<1>9. Room'
  <2>1. Preparing' \subseteq Preparing
    BY <1>2, <1>6 DEF Preparing
  <2> QED
    BY <1>3, <2>1, RoomKeeps
<1>10. Entries' /\ Timely' /\ Family'
  BY <1>2, <1>3, <1>4, <1>6 DEF IInv, Entries, Timely, Family
<1>11. DirInv'
  BY <1>1, <1>2, EndedDirs
<1>12. Devices'
  <2>2. Mounted /\ Underneath
    BY DEF IInv, Devices
  <2>3. Mounted'
    BY <1>3, <1>5, <2>2 DEF Mounted, Clean
  <2>4. Attempts'
    BY <1>2, <1>6 DEF Attempts
  <2>5. Underneath'
    <3>1. SUFFICES ASSUME NEW r \in Rootfs, Relies(r)', Clean(ObdId(r))'
                   PROVE  Alive(ObdId(r))'
      BY DEF Underneath
    <3>2. r \in ready' \union used' /\ Relies(r)
      BY <1>2, <1>3, <1>4, <1>6, <3>1 DEF Relies
    <3>3. ObdId(r)' = ObdId(r) /\ Clean(ObdId(r))
      BY <1>3, <3>1 DEF ObdId, Clean
    <3>4. dev' = dev /\ mnt' = mnt
      BY <1>5, <3>2
    <3> QED
      BY <2>2, <3>2, <3>3, <3>4 DEF Underneath, Alive
  <2> QED
    BY <2>3, <2>4, <2>5 DEF Devices
<1>13. Locking' /\ Warned'
  BY <1>2, <1>6 DEF Locking, Warned, At
<1> QED
  BY <1>7, <1>8, <1>9, <1>10, <1>11, <1>12, <1>13 DEF IInv

-----------------------------------------------------------------------------
(* Theorems *)

LEMMA InitInv ==
  ASSUME Init
  PROVE  IInv
<1>1. /\ call \in [Callers -> CallRec]
      /\ \A c \in Callers : call[c] = Idle /\ call[c].op = "none" /\ call[c].pc = "idle"
  BY IdleIs DEF Init
<1>2. Keys \subseteq Callers /\ Rootfs \subseteq Keys /\ GC \in Callers
  BY DEF Callers, Keys
<1>3. \A k \in Keys : db[k] = NoId
  BY DEF Init
<1>4. Types
  BY <1>1, SnapshotterAssumption DEF Init, Types, TypeOK, NoId
<1>5. Shapes /\ Transactions
  BY <1>1 DEF Shapes, Shape, ShapePrepare, ShapeMounts, ShapeRemove, ShapeCleanup, ShapeNone,
              Transactions, InTx
<1>6. Room
  <2>1. Preparing = {}
    BY <1>1, <1>2 DEF Preparing
  <2>2. Cardinality(Preparing) = 0
    BY <2>1, FS_EmptySet
  <2> QED
    BY <2>2, SnapshotterAssumption DEF Room, Init
<1>7. Entries /\ Timely /\ Family
  BY <1>1, <1>2, <1>3 DEF Entries, Timely, Family, Init, NoId
<1>8. DirInv
  BY <1>1, <1>2, <1>3 DEF DirInv, FreshId, Named, High, AllOwned, At, Purging, Purged, Sweeping,
                          LiveDirSafe, Present, Init
<1>9. Devices
  BY <1>1, <1>2 DEF Devices, Mounted, Attempts, Underneath, Relies, Init
<1>10. Locking /\ Warned
  BY <1>1, <1>2 DEF Locking, Warned, At
<1> QED
  BY <1>4, <1>5, <1>6, <1>7, <1>8, <1>9, <1>10 DEF IInv

LEMMA StutterInv ==
  ASSUME IInv, UNCHANGED vars
  PROVE  IInv'
<1>1. UNCHANGED <<conf, db, seq, wtx, dirs, dev, mnt, ready, used, locker, call, faults,
                  abandoned, doomed, clash, unseen>>
  BY DEF vars, store, kernel, client, history
<1>2. Types' /\ Shapes'
  BY <1>1 DEF IInv, Types, TypeOK, Shapes, Shape, ShapePrepare, ShapeMounts, ShapeRemove,
              ShapeCleanup, ShapeNone
<1>3. Room' /\ Transactions' /\ Entries' /\ Timely' /\ Family'
  BY <1>1 DEF IInv, Room, Preparing, Transactions, InTx, Entries, Timely, Family
<1>4. DirInv'
  BY <1>1 DEF IInv, DirInv, FreshId, Named, High, AllOwned, Owned, IDMap, Present, At, Purging,
              Purged, Sweeping, LiveDirSafe
<1>5. Devices'
  BY <1>1 DEF IInv, Devices, Mounted, Attempts, Underneath, Relies, Clean, Alive, ObdId
<1>6. Locking' /\ Warned'
  BY <1>1 DEF IInv, Locking, Warned, At, ObdId
<1> QED
  BY <1>2, <1>3, <1>4, <1>5, <1>6 DEF IInv

\* The invariant holds of every behaviour of the snapshotter.
THEOREM Invariance == Spec => []IInv
<1>1. Init => IInv
  BY InitInv
<1>2. IInv /\ [Next]_vars => IInv'
  <2>1. SUFFICES ASSUME IInv, [Next]_vars
                 PROVE  IInv'
    OBVIOUS
  <2>2. ASSUME NEW c \in Callers, Step(c)
        PROVE  IInv'
    BY <2>1, <2>2, StepInv
  <2>3. ASSUME NEW k \in Keys, Containerd(k)
        PROVE  IInv'
    BY <2>1, <2>3, RequestPrepareInv, RequestMountsInv, RequestRemoveInv, RuntimeInv
    DEF Containerd
  <2>4. CASE RequestCleanup
    BY <2>1, <2>4, RequestCleanupInv
  <2>5. CASE Crash \/ Reboot
    BY <2>1, <2>5, FaultInv
  <2>6. CASE UNCHANGED vars
    BY <2>1, <2>6, StutterInv
  <2> QED
    BY <2>1, <2>2, <2>3, <2>4, <2>5, <2>6 DEF Next
<1> QED
  BY <1>1, <1>2, PTL DEF Spec

\* Every variable of the snapshotter keeps its type; no Prepare that was let
\* in runs out of ids.
THEOREM TypeCorrect == Spec => []TypeOK
<1>1. IInv => TypeOK
  BY DEF IInv, Types
<1> QED
  BY <1>1, Invariance, PTL

\* No call and no Cleanup deletes the directory of a snapshot the database
\* knows, except a Remove that did not commit and an id that an earlier
\* transaction abandoned (overlay.go: Remove, Cleanup, createSnapshot).
THEOREM DirectoriesSafe == Spec => []LiveDirSafe
<1>1. IInv => LiveDirSafe
  BY DEF IInv, DirInv
<1> QED
  BY <1>1, Invariance, PTL

\* When every call has returned, whichever of their steps failed, a directory without an
\* entry was left by a crash, by a commit that failed or by a removal that failed and was
\* only logged (overlay.go: createMountPoint, Remove, createSnapshot).
THEOREM CallsLeaveNothing == Spec => []NothingLeft
<1>1. IInv => NothingLeft
  <2>1. SUFFICES ASSUME IInv, \A c \in Callers : call[c] = Idle, ~conf.asyncRemove,
                        NEW d \in dirs
                 PROVE  d \in IDMap \union abandoned \union {StaleDir}
    BY DEF NothingLeft
  <2>2. \A c \in Keys : call[c].op = "none"
    BY <2>1, IdleIs DEF Callers
  <2>3. \A c \in Keys : ~Named(c) /\ ~At(c, "Prepare", "create")
    BY <2>2 DEF Named, At
  <2> QED
    BY <2>1, <2>3 DEF IInv, DirInv, AllOwned, Owned
<1> QED
  BY <1>1, Invariance, PTL

\* In every configuration the device of its layer stays linked and mounted under a
\* container that runs, unless two calls attached it at once, or the Remove of another
\* container found it unused while the mounts of this one were already out
\* (overlay.go: Remove, checkOverlaybdInUse; storage.go: attachAndMountBlockDevice).
THEOREM LowerStaysAlive == Spec => []LowerAlive
<1>1. IInv => LowerAlive
  <2>1. SUFFICES ASSUME IInv, NEW k \in used, k \notin unseen
                 PROVE  Alive(ObdId(k)) \/ ObdId(k) \in clash
    BY DEF LowerAlive
  <2>2. k \in Rootfs /\ Underneath
    BY <2>1 DEF IInv, Types, TypeOK, Devices
  <2> QED
    BY <2>1, <2>2 DEF Underneath, Relies, Clean
<1> QED
  BY <1>1, Invariance, PTL
=============================================================================
