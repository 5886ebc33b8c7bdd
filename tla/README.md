# A TLA+ verification of CORA's storage core

CORA serves container images as block devices. `src/overlaybd` is a fork of
overlaybd (C++): a TCMU backstore whose devices are stacks of LSMT layers, each
layer usually a compressed ZFile, fetched from a registry through caches and
downloaded in the background. CORA's own addition is FastCDC (content-defined,
variable-length) chunking in ZFile. `src/Accelerated_Container_Image` (Go) is the
containerd snapshotter and image convertor that drive it.

This project models the parts that decide whether data survives and whether an
image is what it says: the two ZFile builders, the compressor and reader of
ZFiles, the LSMT indexes, the writable LSMT layer, the background download and
the file cache in C++; the concurrent image conversion and the snapshotter in Go.
TLC checks small instances; the central safety properties of both builders, the
writable layer, the background download, the file cache, the convertor and the
snapshotter, and that both builders implement their common abstract specification,
are proved with TLAPS for every instance.

## 1. Inventory

| Component (source under `src/`) | State | Operations | Talks to |
|---|---|---|---|
| ZFile parallel builder (`zfile.cpp` `ZFileBuilderMP`) | worker ring: buffers, three semaphores each, `moffset`, `m_block_len` | `write`, `close`, worker loop | any `IFile`; used by overlaybd-commit |
| ZFile sequential builder (`ZFileBuilder`) | one reserved block, `moffset`, block lengths | `write`, `close` | same |
| ZFile one-shot compressor (`zfile_compress`) | batch of chunks, index | one call | FastCDC, compressors |
| ZFile reader (`JumpTable`, `BlockReader`, `CompressionFile`) | jump table, raw sizes, window buffer | `zfile_open_ro`, `pread`, validation | file below (cache, registry) |
| FastCDC chunking (`FastCDC-c`, `fastcdc_wrapper.cpp`) | global parameters | `next_chunk` | compressor |
| Compressors (`compressor.cpp`) | buffers | (de)compress a batch | LZ4, zstd |
| LSMT indexes (`lsmt/index.cpp`) | ordered sets and arrays of mappings | insert, lookup, merge, stack, flatten, compress | LSMT files |
| LSMT writable layer (`lsmt/file.cpp` `LSMTFile`) | data file, index file, memory index, group buffer, mutex | `pwrite`, `fallocate`, `pread`, `fsync`, `vioctl`, `close`, `open_file_rw` | photon threads of the device |
| LSMT stacking and loading (`open_files_ro`, `stack_files`, `merge_files_ro`) | layers | open, stack, merge | index merge |
| Background download (`bk_download.cpp`, `switch_file.cpp`) | per device list, shared lock set, temporary and commit files | download, verify, rename, switch | registry, image file |
| Image file and service (`image_file.cpp`, `image_service.cpp`) | configuration, layers, status | open, close | everything above |
| TCMU backstore (`main.cpp`) | devices, command rings | SCSI commands, add, remove | image file |
| Trace prefetch (`prefetch.cpp`) | trace, lock and ok files | record, replay | image file |
| Registry file systems (`registryfs*.cpp`) | token, URL and size caches | HTTP reads with retries | caches |
| File caches (`cache/full_file_cache`, `cache/store.cpp`) | media files, LRU list, sizes, range locks | read, refill, evict | registry |
| Gzip, tar, EROFS, stream convertor | format state | import | tools |
| Tools (`tools/`) | - | create, commit, apply, merge, zfile | libraries |
| Snapshotter (`pkg/snapshot`, Go) | bolt database, directories, configfs targets, mounts | Prepare, View, Mounts, Remove, Cleanup | containerd, overlaybd by configfs and files |
| Image convertor (`cmd/convertor`, Go) | goroutines and channels per layer, files, deduplication database | Build of an index and of its manifests | registry, overlaybd tools |

Vendored and generated code is left aside: `cache/ocf_cache/ocf`,
`zfile/thirdparty`, `zfile/lz4`, `zfile/crc32`, `_deps`, `CMakeFiles`, `CLI11.hpp`,
`uthash.h`.

What is hard here: OS threads that share a file without a lock (parallel builder);
cooperative threads that switch at each I/O in the middle of a request (LSMT,
download); a log and its data that reach the disk separately; arithmetic at block,
group and window borders that all of reading rests on; retries against caches that
may hold garbage; locks that live in memory while files outlive the process;
eviction of files that are being read; goroutines that learn of a failure by a
closed channel before the context is cancelled; a database, directories, devices
and mounts that change one after the other and must stay in step. The hazards are
listed, line by line, in `PROJECT.json`.

## 2. Modules

| Module | Models | Kind |
|---|---|---|
| `ZFileStream` | what a stream builder promises | abstract specification |
| `ZFileBuilderMP` | the parallel builder | component; implements `ZFileStream` |
| `ZFileBuilderMP_proofs` | its theorems | proofs |
| `ZFileBuilder` | the sequential builder | component; implements `ZFileStream` |
| `ZFileBuilder_proofs` | its theorems | proofs |
| `ZFileCompress` | `zfile_compress()` | component |
| `ZFileRead` | opening and reading what `ZFileCompress` made | composes the two |
| `Segments` | mappings and the pure index algorithms | operators |
| `LSMTIndex` | layers, their indexes, sealing, stacking, merging | component over `Segments` |
| `LSMTFile` | the writable layer with its files and requests | component over `Segments` |
| `LSMTFile_proofs` | its theorems, and those on inserting, looking up and replaying with `Segments` | proofs |
| `BkDownload` | devices, download threads, files, locks | component |
| `BkDownload_proofs` | its theorems | proofs |
| `FileCache` | readers, refills and eviction of the full file cache | component |
| `FileCache_proofs` | its theorems | proofs |
| `OverlaybdBuilder` | the conversion of one manifest | component |
| `OverlaybdBuilder_proofs` | its theorems | proofs |
| `GraphBuilder` | the conversion of an index; a manifest is one step | component over `OverlaybdBuilder` |
| `GraphBuilder_proofs` | its theorems | proofs |
| `Snapshotter` | the calls of the snapshotter, devices, crashes | component |
| `Snapshotter_proofs` | its theorems | proofs |

Each `MC...` module extends a component for TLC; the `.cfg` files give constants
values and replace no definition. Operators under a comment `Mutant:` are broken
variants of the definition that follows; nothing uses them except to show that
each property notices such a bug.

### ZFileBuilderMP

The caller's thread is in `write()` (`pc` = "copy", "start") or in `close()`
("stop" to "header"); each worker `w` is at `wpc[w]`. Variables carry the code's
names: `writable_sem`, `compress_sem`, `write_sem`, `size`, `ibuf`, `cur_id`,
`reserved_size`, `m_stop_flag`. A byte of the stream is its position, so a buffer
is a function to positions and a mixed or lost byte is visible. Compression keeps
contents and picks a length. Semaphore waits are guards. `WorkerCtx::size` is never
initialised in the code, so `Init` picks any value of `UninitSizes`; a worker that takes
the stop signal for a block because of it is `Misled`. A header or trailer of which only
a part was written counts as written (`Torn`), the one of `init()` too: then the file
ends at `start`, before the place the builder counts from.

### ZFileBuilder

One thread: `write()` completes the reserved block, writes whole blocks from the
caller's buffer, reserves the rest; each file write may fail or be short, and a short
write of the header or trailer passes for a whole one.

### ZFileCompress and ZFileRead

`ZFileCompress` reads the source in pieces, cuts chunks (fixed, or any size FastCDC
may return), compresses batches and writes index and trailer. A block is the
interval of the source it was made from, so reading is checked against the source
itself and not against a second copy of the layout. `ZFileRead` builds the jump
table (whole offsets per group, 16-bit distances inside; `%` when building, `&` when
looking up), opens with retries, and reads: `Begin`/`Refill` load a window, `Reload`
handles a bad block, `Decompress` copies. Corruption is either for good (`rotten`)
or transient (counted by `faults`). A read of the wrong place is a corrupted block.
The 16-bit limit, the buffer and the block size are constants. The number of blocks in
a group follows from the limit and the largest block: a power of two with fixed-size
blocks, which the tools check, and any number with FastCDC, whose largest chunk they do
not (`GroupSizeOK`).

### Segments, LSMTIndex, LSMTFile

`Segments` translates the index algorithms: `Insert` with its partial overlaps,
`Lookup0` in a set and `Lookup` in an array with a short result array, `ComboLookup`,
`CompressRawIndex`. The order of a set's iterator is given by `Rank`, the number of
mappings before one. `LSMTIndex`
drives them with histories of writes, discards, seals and stackings and compares
with the last write of each sector.

`LSMTFile` runs requests in photon threads. These are cooperative: an action is
what runs between two points where a thread does I/O or waits for `m_rw_mtx`.
`queue` is the mutex with its waiters. Per sector, `versions` is the history of its
contents; `floor` and `synced` are the oldest version a reopened file may show
after a crash and after a power loss. `Replay` rebuilds the index from the log; after
a `Reopen` the history of a sector goes on behind what the log has of it, so a file may
be lost and opened any number of times. I/O on either file may fail, and the code does
not always tell: a lost mapping marks its sectors as `spoiled`, and so does a discard that
overtakes a write in the index; a group buffer that is left full is `jammed`; using it
beyond its end ends the behaviour (state "overrun"), as the code has no defined outcome
there; a data read that came in two parts leaves a read at "misread". Requests are not
split (`MAX_IO_SIZE`, `Segment::MAX_LENGTH`); a failed data append leaves whole sectors
behind, a failed index append nothing; an `fsync()` that works writes everything; headers
and `vsize` are left out.

### BkDownload

One thread per device works through `dl_list`; `lock_files` is shared. `Fetch` and
`FetchFails` stand for a registry read with its two tries and the local write with
its two. A block of a file is a hole, good or bad; the checksum succeeds iff all are
good. `fd` records that a file opened under the temporary name follows it through
the rename. A device may be removed at any time and opened again in the same process;
the downloads it leaves waiting unlock their directories. `exposed` are the directories
that were unlocked under a download that is still at work, `mixed` those whose commit file
was renamed meanwhile. A crash forgets everything but the files.

### FileCache

Readers and the eviction are photon threads of one vcpu (`image_service.cpp`
refuses the file cache together with `enableThread`), so an action is what runs
between two points where a thread may be switched: a lock it waits for, data it
reads or writes, `thread_yield`. A media file is the set `cached` of its pages that
are no holes and the flag `extended` (its length). A read goes `Try`
(`queryRefillRange`), `PRead`, or `LockRange`, `Fetch`, `Store`, `PWrite` and then
on with the rest; `EvictNext`/`EvictVictim`/`EvictEnd` are the loop of `eviction()`,
run by the timer or by a writer that found the cache full. `victim` is the file
whose lock the eviction waits for and `captured` the size it read before. A truncate or
an unlink may fail; one that is interrupted or busy leaves a closed entry in the index
and off the LRU list (`stuck`), from where only the next `open()` fetches it back, unless
it is the only entry. `stored` are the media files, which a restart finds. Failing
queries, reads, fetches and short writes, a full disk and a restart are modelled;
`fallocate` and the write path are not.

### OverlaybdBuilder and GraphBuilder

Each layer has four goroutines (deduplication, download, conversion, upload) of
one errgroup, at `dedup[i]`, `download[i]`, `convert[i]` and `upload[i]`. Channels
are unbuffered: a send and its receive are one action; a closed channel is in
`closed`. A goroutine that fails closes its channel in one step and is noticed by
the errgroup in another (`Report`), as the deferred functions of the code do. The
content of a converted layer is "good", "bad" or "partial". Constants say what the
database may name for a layer (`Recorded`: good or not, since the code records both), what
the repository holds (`Present`), what may be mounted from another (`Elsewhere`), what an
interrupted run left in the work directory (`Leftovers`) and whether anything is uploaded
(`noUpload`). `stray` are the commit files of earlier runs and of downloads that could not
be removed. `GraphBuilder` has one `process()` per descriptor of a graph, the WaitGroup of
each index and the semaphore, and takes a whole `OverlaybdBuilder` for one step that
converts, and unless `noUpload` is set pushes, or fails: `BuildReturns` of
`OverlaybdBuilder` is what allows it.

### Snapshotter

Four kinds of state outlive a call: `db` (bolt), `dirs`, `dev` (configfs) and `mnt`.
A call is a record in `call` with its position. `wtx` is bolt's one write
transaction; a commit that grows the file waits for readers. `Lookup`, `Enable`,
`Link` and `MountDevice` attach a device; `Lock` is the locker of `Mounts` and
`Remove`. What containerd promises is in the `Request...` actions: one call per
snapshot at a time, no removal of a layer with children. Every step may fail: the
removal of a directory, which is only logged, the clean-up of a device after a failed
attach (`DropFails`) and the detachment of one, which stops half way (`DetachFails`).
That the kernel accepts no second nexus for a loopback device is taken from how the code
uses it. The model covers remote
layers and root file systems in the default mode (an overlay over the device of
the parent, or a bind mount for a View); block-device root file systems, Commit
of writable layers and TurboOCI are left out.

## 3. Runs

| Run | Shows | Result |
|---|---|---|
| `zfile_mp` | order, exclusion, buffer ownership, completeness; calls return while no worker fails or is misled; refinement of `ZFileStream` | pass |
| `zfile_builder` | completeness with failing and short writes, refinement of `ZFileStream` | pass |
| `zfile_read` | jump table; what is read is what was compressed; survival of transient corruption; validation | pass |
| `zfile_read_inblock` | fixed-size files: reads that begin inside a block | violation |
| `lsmt_index` | lookups, merges, flattening, compression, block count | pass |
| `lsmt_file` | crash, power loss, failing I/O, overlapping requests, concurrent reads, group buffer | pass |
| `download` | one downloader per directory; commit files are verified; every list is worked off; the layer becomes local | pass |
| `filecache` | reads return the source under eviction; accounting; no dangling iterator; reads return | pass |
| `convertor` | a pushed manifest is complete; errors stay contained; no stray commit file; `Build()` returns | pass |
| `convertor_entries` | what a failing build records for deduplication | violation |
| `convertor_graph` | success means everything converted; incomplete only on error; `Build()` returns | pass |
| `snapshotter` | directories and entries in step; nothing left behind; devices alive under containers; garbage goes; Prepare succeeds in the end; no deadlock | pass |

**Bounds.** `zfile_mp`: three workers, blocks of two bytes, up to six blocks, so
each buffer is used twice and the ring wraps; write sizes below, at and above a
block; sizes of workers that start with 0 or 1. `zfile_builder`: blocks of three bytes and writes of 0, 1, 2, 3 and 7, hence
every position relative to a block border. `zfile_read`: blocks of up to three
bytes, batches of two, two pieces of source, groups of two blocks and with FastCDC also
of three, windows of one to three blocks, every range and one past the end, one rotten block, one fault. One `pread()`
per behaviour is enough as calls share nothing but the unchanging file. `lsmt_index`:
four sectors, three changes, two sealed layers: the smallest disk on which an insert
can cut a middle out; mappings of at most three sectors, so that two neighbours may be
too long to join. `lsmt_file`: two threads, two sectors, three changes and two
other calls but four in all, group sizes 0, 1 and 2, two losses of the process or of
power, the second one of a file that was opened again; `NLookup` = 1 (16 in the code)
makes every read take several lookups. `download`: two devices that share a layer of two
blocks, two tries, one registry fault (fewer than tries, as `EventuallyLocal` needs),
local calls that always work or fail at any time, one reopening, which takes the place of
a third device, and one crash. `filecache`: two files of up to three
pages, two readers, three reads and two opens, one fault; the water mark of one page
is below any two requests, so eviction always has work and a refill meets it; the
disk may lack a page. `convertor`: a lower and an upper layer, which is all that the
rendezvous between neighbours tells apart; both may be recorded, well or badly, the
lower one is in the repository, the upper one in another, and the work directory may
hold files of the upper one. `convertor_graph`: an
index of three descriptors and an index of one, a limit of two, one descriptor
possibly of a type that cannot be converted. `snapshotter`: a layer, a container and
a view on it, ids up to 3, so that one is given to a second attempt; one fault (a
failing step, removal or detachment, a crash or a reboot), and one Prepare that fails and
then cannot remove its directory; the default configuration and both options on.

**What the passing runs leave out, and what properties except.** One run is restricted
because its property fails otherwise: `zfile_read` begins reads of fixed-size files at a
block's start or in block 0, and `zfile_read_inblock` shows why. Everything else that goes
wrong happens in the passing runs, and the property it would break names it, by a variable
or an operator that is true in that case only:

| Property | Excepts |
|---|---|
| `CloseOkComplete` | a `Torn` header or trailer; `start` before the end of the header |
| `ReturnsUnlessWorkerFails`, `ImplementsStream` | a worker that failed; a `Misled` one |
| `JumpTableSums`, `ReadsSource`, `SurvivesCorruption` | `Misplaced` blocks of groups that are no power of two |
| `NoLostWrite` | `spoiled` sectors |
| `GroupFits` | a `jammed` buffer |
| `ReadsAreRegular` | reads at "misread" |
| `OneDownloader`, `CommitVerified`, `EventuallyLocal` | `exposed` and `mixed` directories |
| `ImageComplete`, `ErrorsContained` | layers on or above one that a wrong record supplied (`Misled`) |
| `NoStrayCommit` | `stray` files |
| `OkMeansConverted` | manifests under `noUpload` |
| `LiveDirSafe`, `NothingLeft` | `doomed` entries and `abandoned` directories |
| `LowerAlive`, `PrepareRetried` | `clash`; `unseen` users; `Wedged` links |
| `NoDangling` | `stuck` entries |
| `ReadReturns` | a `Starved` eviction |

Section 4 explains each.

**Fairness.** Weak fairness of each worker and of the caller inside a call
(`ZFileBuilderMP`), of each download thread (`BkDownload`: sleeps end, registry reads
return or time out), of readers and eviction (`FileCache`: photon runs every ready
thread and I/O completes), of each goroutine (`OverlaybdBuilder`, `GraphBuilder`: the
Go scheduler, and calls to registry and tools end). `Snapshotter` has strong fairness
of each call, as bolt's mutex and the locker are Go mutexes, which do not starve
their waiters, and weak fairness of containerd's repeated Prepare and Cleanup.
Whether a caller writes, opens, reads, starts a container or cancels is never
assumed. The LSMT modules, `ZFileBuilder` and `ZFileRead` are safety only.

**Deadlock** is checked for `snapshotter`, whose callers can always ask again. A
builder that is closed, a build that has returned, a file that cannot be opened and
bounds that are used up really stop, so the other runs do not check it; there,
waiting for ever is what the liveness properties exclude.

## 4. Findings

1. *Reads inside a block of a fixed-size ZFile* (`zfile.cpp:321`, run
   `zfile_read_inblock`): `m_original_begin_idx` is set only for FastCDC.
2. *Deduplication records conversions of failed downloads* (`builder.go:410`, run
   `convertor_entries`): the closed channel wakes the conversion before the context
   is cancelled, and what it makes of a partial layer is recorded for its chain.

Two more, for which a configuration is kept:

- `MCZFileBuilderMP_uninit.cfg`: `WorkerCtx::size` is not initialised
  (`zfile.cpp:825`); a worker that never got a block may take the stop signal for a
  block, and `close()` waits for ever.
- `MCSnapshotter_mounts.cfg`: with `autoRemoveDev`, Mounts of one container may fail
  while another's Remove detaches the shared device, although Mounts is there to
  recover them (`overlay.go:709`).

Met while modelling and excepted by the properties; taking the exception out of the
property makes TLC show it in the passing run:

- *ZFile builders.* `write_header_trailer()` returns what `write()` did, and its callers
  only ask whether it is negative (`zfile.cpp:684`, `731`, `945`): `close()` succeeds with a
  header or trailer cut short, and after a short first header every recorded offset is off
  (`Torn`, `start`). A failing worker leaves the ring without passing the turn, and
  `close()` hangs (`CallReturns` with `MayFail = TRUE`).
- *Jump table.* `&` for `%` (`zfile.cpp:205`) finds the wrong place in FastCDC files whose
  `--cdc_max` gives a group size that is no power of two (`Misplaced`). With checksums the
  read then fails, without them it returns other data.
- *Writable layer.* A discard changes the index outside the mutex (`lsmt/file.cpp:878`), and
  replay puts it after a write that came later; `append_index()` ignores a failed append and
  `close()` a failed flush (`spoiled`). `fsync()` ignores both of its results: of the index
  file's, nothing is promised after a power loss; of the data file's, the log may be ahead of
  the data, and one mapping without data makes the whole file unopenable (`Loadable` in
  state "lost"). The group buffer may be resized to exactly what it holds, or be kept full by
  a failed flush, and the next mapping is stored behind it (`jammed`, "overrun"). A data read
  in two parts is taken for a failure by the callback's log and for success by its caller,
  and what follows is read into the wrong place of the buffer (`file.cpp:581`, "misread").
  `alloc_blk` of a stacked index starts at 0 although the layer holds data
  (`Index0CountsBlocks` without `~stacked`).
- *Download.* `~BkDownload()` unlocks what it never locked (`bk_download.h:41`): two threads
  then share the temporary file, and may rename it while the other still writes (`exposed`,
  `mixed`).
- *Conversion.* What `convertor_entries` shows being recorded is used by the next build, whose
  manifest is then wrong (`Misled` of `OverlaybdBuilder`). The work directory has the same
  name in every run; a commit file left in it fails the conversion of its layer (`stray`). An
  index is pushed also with `--no-upload`, naming manifests that were not (`builder.go:201`). It is
  pushed under its tag, with a manifest of the source in it, before the failure of that child
  is known (`IncompleteOnlyOnError` says no more than that).
- *Snapshotter.* Remove deletes directories before it commits, so a crash or a failed commit
  leaves an entry without its directory (`doomed`). A failed commit, a crash or a removal that
  fails and is only logged leaves the directory of an id without an entry; the id may be given
  again while a Cleanup has it on its list (`abandoned`). Two containers that attach the
  layer's device at the same time undo each other's target (`clash`). A crash between linking
  and mounting the device, or a link that could not be removed, leaves a target that every
  later attach refuses (`stuck`, `Wedged`). With `autoRemoveDev` a Remove takes the device from
  a container whose mounts were handed out and not yet used, or from a View, whose bind mount
  the check does not see (`unseen`).
- *File cache.* An interrupted truncate or a busy unlink leaves a closed entry in the index
  and off the LRU list, so that no eviction finds it again (`cache_pool.cpp:219`, `stuck`).
  `eviction()` has no way out of its loop when the disk lacks more than the files on the list
  hold, and turns over open empty files for ever (`Starved`, `cache_pool.cpp:224`).

## 5. Proofs

Every theorem below holds for all values of the constants that satisfy the named
assumption of its module; TLC evaluates these assumptions in the runs.

### ZFileBuilderMP

`ZFileBuilderMP_proofs` proves, for every number of workers, block size, write
sizes, compressed lengths, failure behaviour and uninitialised sizes:

- `TypeCorrect`: `Spec => []TypeOK`;
- `OneWriter`: `Spec => []ExclusiveWriter`;
- `Ownership`: `Spec => []BufferOwnership`;
- `InOrder`: `Spec => []BlocksInOrder`;
- `CompleteOnSuccess`: `Spec => []CloseOkComplete`.

They use the named assumptions of `ZFileBuilderMP` only (there is a worker, a block
is not empty, sizes are naturals).

None of these is inductive. `ExclusiveWriter` needs that there is one turn: a
semaphore count or a worker past its wait. `BlocksInOrder` needs to know, for each
worker, *which* block it holds. The inductive invariant `IInv` therefore has two
hidden parameters: `F`, the number of blocks dealt so far, and `t`, the worker whose
turn it is. Worker `v` can only hold the block number determined by its distance
from `t` on the ring (`NextToWrite`), and its buffer has the bytes of that block of
the stream (`WorkerOK`); the caller fills block `F` (`FillingInv`); the turn is with
exactly one worker (the turn is given by `Dist`); a worker woken to stop with a
stale size (`Stale`) comes behind all blocks dealt and never gets a whole file
reported (`EndInv`). Each action has a lemma; `Same(v)` and `WorkerFrame` carry over
the workers a step does not touch; `NextInv` combines them, and the theorems follow
from `Invariance`.

A sixth theorem, `Refinement`: `Spec => ImplementsStream`, says that every step of the
caller and of a worker is a step of `ZFileStream` or a stutter. A worker that was never
given a block and whose unset size is not 0 takes the stop signal for one and may write a
block that no stream has. The refinement maps a `close()` in which that happens to one that
has failed, so it must be shown that it does not return 0 after all: such a worker waits
for a turn that does not come, or fails (`FinishedNotMisled`), and once misled the builder
stays so until then (`MisledStays`). A second invariant, `Sized`, says which workers may
have an unset size: those that never had a block (`SizedWorker`), and they are signalled
only to stop (`StopInv`).

### ZFileBuilder

`ZFileBuilder_proofs` proves, for every block size, every sequence of write sizes,
compressed lengths and failures:

- `TypeCorrect`: `Spec => []TypeOK`;
- `CompleteOnSuccess`: `Spec => []CloseOkComplete`;
- `Refinement`: `Spec => ImplementsStream`.

The invariant is claimed until a write was reported to have failed. While the file is
open, the bytes taken from the caller are the whole blocks of the file and then the
reserved ones (`Buffered`); from `fini()` on all are in the file, the last block being
what was left (`Written`); the index in memory describes the blocks (`Indexed`), and
what `close()` has written so far is that index and its position (`Records`).
`Refinement` maps `pc` with `AbstractPhase` and forgets the lengths of the blocks
(`FileBlocks`).

### LSMTFile

`LSMTFile_proofs` proves, for every number of threads, size of the disk, bound, choice
of failures and number of crashes and power losses:

- `OpensAgain`: `Spec => []Reopenable`;
- `NothingLost`: `Spec => []NoLostWrite`;
- `ReadsRegular`: `Spec => []ReadsAreRegular`;
- `BufferFits`: `Spec => []GroupFits`;
- `MutexQueued`: `Spec => []Queued`;
- `Typed`: `Spec => []TypeOK`;

and of the operations of `Index0`:

- `InsertDisjoint`: `Insert` of a mapping keeps any set of mappings disjoint and
  without empty ones;
- `InsertReads`: after it, each sector of the mapping is read where the mapping says,
  and each other sector where it was read before;
- `LookupFinds`: `Lookup0` into an array of any size returns pieces of the mappings in
  order, inside the segment, and leaves out none up to the last it returns, or up to
  the end of the segment when the array was not filled;
- `ReplayShows`: the index rebuilt from a log of any length reads each sector where the
  last mapping of the log that covers it says; padding counts for nothing.

*The log.* `Reopenable` needs what the code does by the order of its steps: the data is
in the file before its mapping starts on its way to the log. `DataFirst` follows a
mapping on that way, through the request, the buffer and the log; data files only grow
while the file is open, and a file that was opened after a power loss was checked. Every
action of a thread is shown to be a `Moves` step, of which the invariant is proved once.

*Reads.* `ReadsAreRegular` speaks of what was returned so far. Inductive is what that
comes from (`RInv`): the index of an open file shows the last entry of each sector's
history (`Shows`); the pieces a read has looked up and not read yet point to contents
that the sectors had since it began, and between the pieces there were zeros (`BatchOK`).
A write adds to the data file and never changes what a piece points to, so a read keeps
its claim while the others go on. That a lookup fetches such pieces is `LookupFinds`.

*Lost writes.* `HInv` relates three records of the same changes, for every sector that is
not `spoiled`: the k-th mapping of the log and the buffer that covers a sector is entry
k + 1 of the sector's history (`LogOK`); the requests that have changed the index and not
yet logged it hold the entries behind these, in the order in which they wait for the mutex
(`Settled`). What was acknowledged is then a number of logged mappings: those in the log or
the buffer for a running file, in the log for a file that is down, in its synced part
after a power loss (`Acked`; `Claims` says so of requests that are about to
acknowledge). By `ReplayShows` a reopened file shows the entry of the last logged mapping,
which is not older. A sector leaves this relation where the code does: when its mapping is
lost to the log, or when a discard enters the index before a write that is ahead of it in
the queue.

*The mutex and the counts.* `TypeOK` contains that nothing must survive a power loss that
need not survive a crash, and nothing need survive that was not acknowledged; `Order` adds
the marks that `fsync()` carries, and `Marked` that they stay behind what is done. The
counts of a spoiled sector are left out, because `Reopen` sets them from a log that is not
in step with its history.

*The buffer.* Unless it is `jammed`, the buffer is full exactly while a thread writes it to
the log (`Filled`), and that thread holds the mutex (`Holder`): so nobody meets a full
buffer whom a resize or a failed flush did not leave it to.

*The index.* The two theorems on `Insert` follow from what it leaves of each mapping
(`LeftBeside`): pieces of it beside the new one, at the same places, which cover all that
the new one does not. That a mapping in the middle lies inside the new one needs that the
set was disjoint before. `LookupFinds` rests on the ranks of a disjoint set
being a bijection to its positions, which is a matter of cardinalities. `ReplayShows` is an
induction over the log; the library's induction theorems cannot be used, so it is proved
from a shortest counterexample, a prefix of the log, which well-foundedness of the
naturals gives.

### FileCache

`FileCache_proofs` proves, for every number of readers and files, length of the files,
refill unit, water marks, failures and restarts:

- `TypeCorrect`: `Spec => []TypeOK`;
- `ReadsTheSource`: `Spec => []ReadsAreSource`;
- `SpaceAccounted`: `Spec => []Accounting`;
- `NobodyDangles`: `Spec => []NoDangling`.

`PoolInv` relates the structures of the pool: open stores and the victim of the
eviction are in the index, the LRU list has each of its entries once and all of the index
but those that are `stuck` (`Listed`), no entry counts more than its file has, and only
files that are stored have pages. A reader that is
not idle has its store open (`Reading`), and what it got and what it still has to read
make up what it asked for; between query and read its pages are in the media file
(`ReaderOK`), because an eviction or truncation needs the lock the reader holds. A
reader that runs the eviction is inside it (`EvictorInv`). The sum of the sizes,
`SumOf`, is stated as the number of pages counted for all entries, so that what a step
does to it follows from the cardinality of disjoint sets.

### OverlaybdBuilder

`OverlaybdBuilder_proofs` proves, for every number of layers, whatever is recorded of
them, rightly or wrongly, is present, to be mounted from elsewhere or left over from earlier
runs, with and without uploads, and for every failure and cancellation:

- `BuilderTypes`: `Spec => []TypeOK`;
- `PushedImageComplete`: `Spec => []ImageComplete`;
- `FailuresContained`: `Spec => []ErrorsContained`;
- `CommitFileFresh`: `Spec => []NoStrayCommit`.

`ImageComplete` speaks of the end, where all goroutines have returned; what holds on
the way holds only until something fails, for a closed channel looks to its receiver
like a message. The inductive invariant `Inv` therefore has a part for all states
(`Phases`: `Build()` pushes only after all goroutines have ended without an error;
`AllAlways`: a conversion follows its download, and a commit file was deduplicated,
made by the conversion or is `stray`) and a part `Clean` that only holds as long as `AnyFailure` is
false: the converted layers are the first ones (`Prefix`), the conversions are where
that says (`InOrder`) and find what they need (`Supplied`), the database is asked
before this build records anything (`Deduplicated`), and an upload follows its
conversion and is in the repository when it is over (`Uploaded`). What it says of contents it
says up to the first layer that a wrong record supplied (`Misled`). A failure is kept until it is
reported to the errgroup, and a reported one keeps `Build()` from pushing: so
`Clean` held whenever a manifest was pushed.

### GraphBuilder

`GraphBuilder_proofs` proves, for every finite tree of descriptors, every limit of
the semaphore, with and without uploads:

- `GraphTypes`: `Spec => []TypeOK`;
- `IncompleteNeedsError`: `Spec => []IncompleteOnlyOnError`;
- `SuccessMeansConverted`: `Spec => []OkMeansConverted`.

The invariant counts: the WaitGroup of an index is the cardinality of the set of its
children that are still open (`Counted`), so that an index that has waited has no
open child (`Joined`), and each child that has ended delivered its descriptor or its
error (`Delivered`, `Excused`, `Ended`). Success of the whole follows because the set of
finished descriptors is then closed under children and contains the root.

### BkDownload

`BkDownload_proofs` proves, for every number of devices, layers, blocks and tries,
every failure of registry and disk and every number of crashes:

- `SingleDownloader`: `Spec => []OneDownloader`;
- `CommitFilesVerified`: `Spec => []CommitVerified`.

Devices may be removed and opened again at any time. The invariant says that a thread has a
download exactly while it is working and that its directory is then locked or `exposed`
(`Locks`), that two threads never have the same directory unless it is exposed (`Apart`),
that the open file is the temporary one and is verified before the rename (`Fills`), that
commit files are verified (`Genuine`), unless `mixed`, and there for a switched layer
(`Backed`), and that a thread only ends on an empty list (`Alive`). `OneDownloader` alone is
not inductive, since what keeps a second thread out is the lock and not the first
thread; `CommitVerified` needs it, as a second writer could change the temporary file
between checksum and rename. A directory stays exposed until all who work there have left
it, so a writer with a file that was renamed under it is always found in a mixed one.

### Snapshotter

`Snapshotter_proofs` proves, for every finite set of layers and root file systems, all
configurations and every number of faults and crashes:

- `TypeCorrect`: `Spec => []TypeOK`;
- `DirectoriesSafe`: `Spec => []LiveDirSafe`;
- `CallsLeaveNothing`: `Spec => []NothingLeft`;
- `LowerStaysAlive`: `Spec => []LowerAlive`.

The assumption of `Snapshotter` says that the keys are finite and each root file
system has a layer for its parent. None of the properties is inductive. They need to
know that only the holder of bolt's write transaction is inside one (`Transactions`);
that a `Prepare` with an id has the one after the last committed (`FreshId`), so that a
directory beyond the last id is that call's or was abandoned (`High`); that what
`Cleanup` read before it deletes, outside of any transaction, had no entry then and an
id that is not given again (`Sweeping`); that what `Remove` deletes belongs to no other
entry (`Purging`, `Purged`); that every directory has an owner as long as removal is not
asynchronous or its removal has failed (`AllOwned`). `LowerAlive` needs that a device is
attached by one call at a time or recorded in `clash` (`Attempts`), that a mounted device is
linked (`Mounted`), that with `autoRemoveDev` the locks keep a Remove that has checked a
device apart from the calls that attach it (`Locking`), that whoever had its mounts out at
that check is `unseen` (`Warned`), and what containerd promises: a layer is not removed below
a child (`Family`), and a snapshot that is used exists (`Timely`). TLC checked this
invariant, on a layer with two root file systems in all configurations and on two layers,
before it was proved.

### Only model-checked

- Liveness: the prover has no fairness and no ENABLED.
- `LSMTIndex`: its merge is a RECURSIVE operator, which the prover does not support;
  `InsertDisjoint`, `InsertReads` and `LookupFinds` are the part of `MappingsDisjoint` and
  `LookupFindsLatest` that is about `Index0`. `Index0CountsBlocks` speaks of a sum over a
  set, a fold for which the prover has no facts.
- `ZFileRead`: it uses `&` of the community modules, which the prover does not support.

## 6. Not modelled, and the plan

Hazards seen and not modelled: a group append to the index file that fails part-way and
leaves whole mappings, which the next flush appends again; an `fsync()` that works after one
that failed and does not write what the kernel has given up; `--cdc_max` beyond the
documented 64; a try counter of 0 that wraps (`bk_download.cpp:131`);
the rename of a download without fsync; a 64K block that does not compress and is
longer than `m_buf` (`zfile.cpp:438`); the raw sizes of a FastCDC file, which have no
checksum; `overlaybd-commit`, which ignores the result of `close()`; the hole punching
of the cache by `fallocate` (`cached_fs.cpp:307`); whether TurboOCI conversion is
reproducible enough to be deduplicated.

Order of further work:

1. Proofs: the arithmetic of the jump table of `ZFileRead` as operators of a module
   without `&`; the merge of `LSMTIndex` as a recursive function, with its `Lookup` on a
   sorted array.
2. `LSMTFile`: `commit()`/`compact()`, `close_seal()`, `LSMTSparseFile`,
   `LSMTWarpFile`, parallel loading of layers; power loss in `BkDownload`.
3. Registry file systems: token and URL caches with retries; prefetch: lock and ok
   files; `fallocate` of the file cache.
4. TCMU command dispatch and device removal; block-device root file systems and
   Commit of the snapshotter; the TurboOCI builder.

Left out for good: byte formats (tar, EROFS, gzip), compression itself, the rolling
hash, metrics, the HTTP servers around the import, the OCF binding, configuration
parsing. They are sequential transformations of bytes or plain I/O without state
that a model checker would tell apart. Most of the repository's lines are such code
or vendored: OCF, isa-l, lz4, CLI11 and generated build files alone exceed half of
them, so the share of all lines that the models stand for is small by nature.
