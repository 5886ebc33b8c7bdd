----------------------------- MODULE FileCache -----------------------------
(***************************************************************************)
(* The full file cache of remote layers: FileCachePool (cache_pool.cpp),   *)
(* its stores (cache_store.cpp) and the read path they share with the      *)
(* other caches (store.cpp, ICacheStore::preadv2).                         *)
(*                                                                         *)
(* A layer file is cached page by page in a sparse media file; what is     *)
(* missing is seen from the holes of that file, fetched from the source    *)
(* and written into it. When the cache is above its water mark, or the     *)
(* disk is short, eviction truncates whole files, open ones included, from *)
(* the tail of an LRU list. Nothing but the holes tells a page that was    *)
(* cached from one that reads as zeros.                                    *)
(*                                                                         *)
(* Readers and the eviction are Photon threads of one vcpu (the service    *)
(* refuses the file cache together with enableThread): a step of the model *)
(* is what a thread does between two points where it may be switched, that *)
(* is waiting for a lock, reading or writing data, thread_yield. The pool  *)
(* has no thread pool (ICachePool(0)), so refills are synchronous.         *)
(***************************************************************************)
EXTENDS Integers, FiniteSets, Sequences, SequencesExt, FiniteSetsExt

CONSTANTS
    Files,       \* layer files
    Readers,     \* threads that read
    Length,      \* pages of a file (actual_size_)
    RefillUnit,  \* pages a refill is aligned to (refillUnit_)
    WaterMark,   \* waterMark_, in pages
    RiskMark,    \* riskMark_, in pages
    Requests,    \* what readers ask for: <<file, first page, last page>>
    Shortages,   \* how much the disk may lack: diskAvailInBytes_ - available
    MaxReads,    \* bound: reads begun
    MaxOpens,    \* bound: times a store is made
    MaxFaults,   \* bound: failing media and source operations, restarts
    NoOne

ASSUME CacheAssumption ==
    /\ Length \in Nat \ {0} /\ RefillUnit \in Nat \ {0}
    /\ WaterMark \in Nat /\ RiskMark \in Nat /\ WaterMark < RiskMark
    /\ Requests \subseteq {q \in Files \X (0..Length - 1) \X (0..Length - 1) :
                           q[2] <= q[3]}
    /\ Shortages \subseteq Nat
    /\ MaxReads \in Nat /\ MaxOpens \in Nat /\ MaxFaults \in Nat
    /\ NoOne \notin Readers \cup Files \cup {"timer"} /\ "timer" \notin Readers

VARIABLES
    index,      \* files of fileIndex_
    stuck,      \* ghost: entries whose truncate or unlink was put off after
                \* mark_key_cleared had taken them off the list
    open,       \* files with a store, whose entry has openCount 1
    size,       \* LruEntry::size, in pages
    sized,      \* files with LruEntry::truncate_done
    lru,        \* lru_, most recent first
    totalUsed,  \* totalUsed_
    isFull,     \* isFull_
    cached,     \* pages of a media file that are not holes
    extended,   \* media files whose length is that of the source (else 0)
    stored,     \* media files there are
    evictor,    \* who runs eviction() (running_), or NoOne
    amount,     \* actualEvict of the running eviction
    victim,     \* file whose rw_lock_ the eviction waits for, or NoOne
    captured,   \* fileSize, read before that wait
    pc,         \* where a reader is
    req,        \* its request: file, first and last page, what was read
    rest,       \* the pages it still has to read, <<first, last>>
    refill,     \* the range it refills, <<first, last>>
    reads,      \* number of reads begun
    opens,      \* number of stores made
    faults      \* number of faults so far

pool    == <<index, stuck, open, size, sized, lru, totalUsed, isFull>>
media   == <<cached, extended, stored>>
evict   == <<evictor, amount, victim, captured>>
readers == <<pc, req, rest, refill, reads>>
vars    == <<pool, media, evict, readers, opens, faults>>

Pages == 0..Length - 1
Span(range) == range[1]..range[2]
Overlap(a, b) == Span(a) \cap Span(b) # {}
NoRange == <<0, -1>>

Idle == [file |-> NoOne, asked |-> NoRange, got |-> {}, result |-> "none"]

Init ==
    /\ index = {} /\ stuck = {} /\ open = {} /\ sized = {} /\ lru = <<>>
    /\ size = [f \in Files |-> 0] /\ totalUsed = 0 /\ isFull = FALSE
    /\ cached = [f \in Files |-> {}] /\ extended = {} /\ stored = {}
    /\ evictor = NoOne /\ amount = 0 /\ victim = NoOne /\ captured = 0
    /\ pc = [r \in Readers |-> "idle"]
    /\ req = [r \in Readers |-> Idle]
    /\ rest = [r \in Readers |-> NoRange]
    /\ refill = [r \in Readers |-> NoRange]
    /\ reads = 0 /\ opens = 0 /\ faults = 0

-----------------------------------------------------------------------------
(* Locks and lists                                                         *)

\* Mutant: try_preadv2 does not hold the lock while it reads.
ReadLockedByWriters(f) == {r \in Readers : pc[r] = "pwrite" /\ req[r].file = f}

\* Readers that hold rw_lock_ of f for reading: they read the media file or
\* write to it. The lock queues readers behind a waiting writer.
ReadLocked(f) == {r \in Readers : pc[r] \in {"pread", "pwrite"} /\ req[r].file = f}
MayReadLock(f) == victim # f

\* range_lock_: the refills under way, from the lock to the unlock.
Refilling(r) == pc[r] \in {"fetch", "store", "pwrite", "evict"}

\* LRU::push_front.
PushFront(list, f) == <<f>> \o RemoveFirst(list, f)
\* LRU::access: move an entry to the front, or put it there if it was off the
\* list; nothing is done when it is the only one (m_size counts those off).
Access(list, f) == IF index = {f} THEN list ELSE PushFront(list, f)
\* LRU::mark_key_cleared, LRU::remove.
Drop(list, f) == RemoveFirst(list, f)

\* The sum of the sizes of some entries, counted page by page.
SumOf(sizes, files) ==
    Cardinality({p \in files \X (1..Length) : p[2] <= sizes[p[1]]})

Go(r, label) == pc' = [pc EXCEPT ![r] = label]

\* A thread that leaves range_lock_ wakes those that wait for an overlapping
\* range: their try_lock_wait returns -1, do_refill_range -EAGAIN, and
\* preadv2 starts again.
Unlock(r, label) ==
    pc' = [q \in Readers |->
             IF q = r THEN label
             ELSE IF pc[q] = "wait" /\ req[q].file = req[r].file
                     /\ Overlap(refill[q], refill[r])
                  THEN "try" ELSE pc[q]]

Fault == faults < MaxFaults /\ faults' = faults + 1

-----------------------------------------------------------------------------
(* Stores                                                                  *)

\* do_open: open the media file, find or make its entry.
Open(f) ==
    /\ f \notin open /\ opens < MaxOpens
    /\ opens' = opens + 1
    /\ open' = open \cup {f}
    /\ index' = index \cup {f} /\ stored' = stored \cup {f}
    /\ lru' = IF f \in index THEN Access(lru, f) ELSE PushFront(lru, f)
    /\ UNCHANGED <<stuck, size, sized, totalUsed, isFull, cached, extended, evict,
                   readers, faults>>

\* The last reader released the store and it expired (removeOpenFile).
Close(f) ==
    /\ f \in open
    /\ \A r \in Readers : pc[r] = "idle" \/ req[r].file # f
    /\ open' = open \ {f}
    /\ UNCHANGED <<index, stuck, size, sized, lru, totalUsed, isFull, media, evict,
                   readers, opens, faults>>

\* preadv2: a read within the file.
Begin(r, f, range) ==
    /\ pc[r] = "idle" /\ f \in open /\ reads < MaxReads
    /\ req' = [req EXCEPT ![r] = [file |-> f, asked |-> range, got |-> {},
                                  result |-> "none"]]
    /\ rest' = [rest EXCEPT ![r] = range]
    /\ reads' = reads + 1
    /\ Go(r, "try")
    /\ UNCHANGED <<pool, media, evict, refill, opens, faults>>

-----------------------------------------------------------------------------
(* Reading                                                                 *)

\* The holes among the pages asked for; a write under way to one of them
\* holds rangeLock_, which the query waits for.
Missing(f, range) == Span(range) \ cached[f]
WriteInFlight(f, range) ==
    \E q \in Readers : /\ pc[q] = "pwrite" /\ req[q].file = f
                       /\ Overlap(refill[q], range)

\* queryRefillRange: strip what is cached at both ends and align the rest.
RefillRange(f, range) ==
    <<(Min(Missing(f, range)) \div RefillUnit) * RefillUnit,
      Min({(Max(Missing(f, range)) \div RefillUnit + 1) * RefillUnit, Length}) - 1>>

\* try_preadv2, with rw_lock_ held for reading: query, then either go on to
\* read the media file under the same lock, or give it back and refill. The
\* second try, after a refill, does not refill again.
Try(r) ==
    LET f == req[r].file IN
    /\ pc[r] \in {"try", "again"}
    /\ MayReadLock(f) /\ ~WriteInFlight(f, rest[r])
    /\ IF Missing(f, rest[r]) = {}
         THEN Go(r, "pread") /\ lru' = Access(lru, f) /\ UNCHANGED refill
         ELSE IF pc[r] = "again"
           THEN Go(r, "source") /\ UNCHANGED <<lru, refill>>
           ELSE /\ Go(r, "refill")
                /\ refill' = [refill EXCEPT ![r] = RefillRange(f, rest[r])]
                /\ UNCHANGED lru
    /\ UNCHANGED <<index, stuck, open, size, sized, totalUsed, isFull, media, evict,
                   req, rest, reads, opens, faults>>

\* fiemap fails or returns too many extents: read the source itself.
QueryFails(r) ==
    /\ pc[r] \in {"try", "again"}
    /\ MayReadLock(req[r].file)
    /\ Fault
    /\ Go(r, "source")
    /\ UNCHANGED <<pool, media, evict, req, rest, refill, reads, opens>>

\* The read of the media file returns: pages that became holes meanwhile come
\* as zeros, and a file truncated meanwhile gives a short read, which sends
\* the reader to the source.
PRead(r) ==
    LET f == req[r].file IN
    /\ pc[r] = "pread"
    /\ IF f \in extended
         THEN /\ Go(r, "done")
              /\ req' = [req EXCEPT ![r].got = @ \cup (Span(rest[r]) \cap cached[f]),
                                    ![r].result = "ok"]
         ELSE Go(r, "source") /\ UNCHANGED req
    /\ UNCHANGED <<pool, media, evict, rest, refill, reads, opens, faults>>

PReadFails(r) ==
    /\ pc[r] = "pread"
    /\ Fault
    /\ Go(r, "source")
    /\ UNCHANGED <<pool, media, evict, req, rest, refill, reads, opens>>

\* The source is read directly into what is left of the caller's buffer.
Source(r) ==
    /\ pc[r] = "source"
    /\ Go(r, "done")
    /\ req' = [req EXCEPT ![r].got = @ \cup Span(rest[r]), ![r].result = "ok"]
    /\ UNCHANGED <<pool, media, evict, rest, refill, reads, opens, faults>>

SourceFails(r) ==
    /\ pc[r] = "source"
    /\ Fault
    /\ Go(r, "done")
    /\ req' = [req EXCEPT ![r].result = "error"]
    /\ UNCHANGED <<pool, media, evict, rest, refill, reads, opens>>

\* preadv2 returns to its caller.
Return(r) ==
    /\ pc[r] = "done"
    /\ Go(r, "idle")
    /\ req' = [req EXCEPT ![r] = Idle]
    /\ rest' = [rest EXCEPT ![r] = NoRange]
    /\ refill' = [refill EXCEPT ![r] = NoRange]
    /\ UNCHANGED <<pool, media, evict, reads, opens, faults>>

-----------------------------------------------------------------------------
(* Refilling                                                               *)

Conflicts(r) == {q \in Readers \ {r} : /\ Refilling(q)
                                       /\ req[q].file = req[r].file
                                       /\ Overlap(refill[q], refill[r])}

\* range_lock_.try_lock_wait: take the range, or wait for the thread that
\* has it and then look at the cache again.
LockRange(r) ==
    /\ pc[r] = "refill"
    /\ Go(r, IF Conflicts(r) = {} THEN "fetch" ELSE "wait")
    /\ UNCHANGED <<pool, media, evict, req, rest, refill, reads, opens, faults>>

\* What of the pages still wanted the refill covers: a prefix or a suffix of
\* them, or nothing when it lies strictly inside.
Copied(r) ==
    LET want == rest[r]  have == refill[r] IN
    CASE have[1] <= want[1] -> Span(<<want[1], Min({want[2], have[2]})>>)
      [] have[1] > want[1] /\ have[2] >= want[2] -> Span(<<have[1], want[2]>>)
      [] OTHER -> {}

Remainder(r) ==
    LET left == Span(rest[r]) \ Copied(r) IN
    IF left = {} THEN NoRange ELSE <<Min(left), Max(left)>>

\* The range is read from the source and copied to the caller's buffer.
Fetch(r) ==
    /\ pc[r] = "fetch"
    /\ req' = [req EXCEPT ![r].got = @ \cup Copied(r)]
    /\ rest' = [rest EXCEPT ![r] = Remainder(r)]
    /\ Go(r, "store")
    /\ UNCHANGED <<pool, media, evict, refill, reads, opens, faults>>

\* Mutant: the early return leaves range_lock_ without waking anyone.
FetchFailsSilently(r) ==
    /\ pc[r] = "fetch"
    /\ Fault
    /\ Go(r, "done")
    /\ req' = [req EXCEPT ![r].result = "error"]
    /\ UNCHANGED <<pool, media, evict, rest, refill, reads, opens>>

FetchFails(r) ==
    /\ pc[r] = "fetch"
    /\ Fault
    /\ Unlock(r, "done")
    /\ req' = [req EXCEPT ![r].result = "error"]
    /\ UNCHANGED <<pool, media, evict, rest, refill, reads, opens>>

\* The end of do_refill_range: the caller has everything, or reads the
\* pages the refill did not cover.
AfterRefill(r) ==
    IF rest[r] = NoRange
      THEN Unlock(r, "done") /\ req' = [req EXCEPT ![r].result = "ok"]
      ELSE Unlock(r, "again") /\ UNCHANGED req

\* do_pwritev2 when the cache is full: the data is not kept.
SkipStore(r) ==
    /\ pc[r] = "store" /\ isFull
    /\ AfterRefill(r)
    /\ UNCHANGED <<pool, media, evict, rest, refill, reads, opens, faults>>

\* do_pwritev: under rw_lock_, give the file its length and start to write.
Store(r) ==
    LET f == req[r].file IN
    /\ pc[r] = "store" /\ ~isFull
    /\ MayReadLock(f)
    /\ sized' = sized \cup {f}
    /\ extended' = IF f \in sized THEN extended ELSE extended \cup {f}
    /\ Go(r, "pwrite")
    /\ UNCHANGED <<index, stuck, open, size, lru, totalUsed, isFull, cached, stored,
                   evict, req, rest, refill, reads, opens, faults>>

-----------------------------------------------------------------------------
(* Eviction                                                                *)

\* eviction() up to its loop: how much to free is computed once. Someone who
\* finds running_ set, or nothing to free, goes on at once.
ToEvict(total, shortage) ==
    Max({shortage, IF total >= WaterMark THEN total - WaterMark ELSE 0})

Recycle(who, total, shortage) ==
    /\ isFull' = (ToEvict(total, shortage) > 0)
    /\ evictor' = IF ToEvict(total, shortage) > 0 THEN who ELSE NoOne
    /\ amount' = ToEvict(total, shortage)
    /\ UNCHANGED <<victim, captured>>

\* The write is done (written: the pages that made it). Its lock is given
\* back, the entry is made the most recent, its size and the total are
\* updated; above the risk mark, or when the disk was full, the writer runs
\* the eviction itself unless one is running.
\* do_pwritev2 after do_pwritev, updateLru, updateSpace.
Wrote(r, written) ==
    LET f     == req[r].file
        pages == cached[f] \cup written
        used  == totalUsed + IF Cardinality(pages) > size[f]
                             THEN Cardinality(pages) - size[f] ELSE 0
        risky == used >= RiskMark
    IN
    /\ pc[r] = "pwrite"
    /\ cached' = [cached EXCEPT ![f] = pages]
    /\ IF written = {}
         THEN UNCHANGED <<size, totalUsed, lru>>
         ELSE /\ size' = [size EXCEPT ![f] = Cardinality(pages)]
              /\ totalUsed' = used
              /\ lru' = Access(lru, f)
    /\ IF (written = {} \/ risky) /\ evictor = NoOne
         THEN \E s \in Shortages :
                /\ Recycle(r, IF written = {} THEN totalUsed ELSE used, s)
                /\ IF evictor' = r THEN Go(r, "evict") /\ UNCHANGED req
                                   ELSE AfterRefill(r)
         ELSE /\ isFull' = (isFull \/ (written # {} /\ risky))
              /\ AfterRefill(r)
              /\ UNCHANGED evict
    /\ UNCHANGED <<index, stuck, open, sized, extended, stored, rest, refill, reads,
                   opens>>

PWrite(r) == Wrote(r, Span(refill[r])) /\ UNCHANGED faults

\* The disk is full: the write stops after some pages, or fails.
PWriteShort(r) ==
    /\ Fault
    /\ \E last \in refill[r][1] - 1..refill[r][2] - 1 :
         Wrote(r, Span(<<refill[r][1], last>>))

\* The timer.
Timer ==
    /\ evictor = NoOne
    /\ \E s \in Shortages : ToEvict(totalUsed, s) > 0 /\ Recycle("timer", totalUsed, s)
    /\ UNCHANGED <<index, stuck, open, size, sized, lru, totalUsed, media, readers,
                   opens, faults>>

\* How a truncate or an unlink ends. "again" is EINTR of the truncate and
\* EBUSY of the unlink; another error counts as done.
Endings == {"ok", "again", "error"}
Unless(ok) == IF ok THEN UNCHANGED faults ELSE Fault

\* Mutant: the size read before waiting for the lock leaves the total.
AfterFtruncateStaleSize(f, emptied, unlinked) ==
    LET gone   == f \notin open /\ unlinked # "again"
        erased == f \notin open /\ unlinked = "ok"
    IN
    /\ totalUsed' = Max({totalUsed - (IF f = victim THEN captured ELSE size[f]), 0})
    /\ size' = [size EXCEPT ![f] = 0]
    /\ cached' = IF emptied \/ erased THEN [cached EXCEPT ![f] = {}] ELSE cached
    /\ extended' = IF emptied \/ erased THEN extended \ {f} ELSE extended
    /\ stored' = IF erased THEN stored \ {f} ELSE stored
    /\ index' = IF gone THEN index \ {f} ELSE index
    /\ stuck' = IF gone THEN stuck \ {f}
                ELSE IF f \in open THEN stuck ELSE stuck \cup {f}
    /\ UNCHANGED <<open, isFull>>

\* Mutant: a truncated file is always unlinked and forgotten.
AfterFtruncateForgets(f, emptied, unlinked) ==
    /\ totalUsed' = Max({totalUsed - size[f], 0})
    /\ size' = [size EXCEPT ![f] = 0]
    /\ cached' = [cached EXCEPT ![f] = {}]
    /\ extended' = extended \ {f}
    /\ stored' = stored \ {f}
    /\ index' = index \ {f}
    /\ stuck' = stuck \ {f}
    /\ UNCHANGED <<open, isFull>>

\* afterFtrucate: the entry's size at this moment leaves the total, and a file
\* nobody has open is unlinked and forgotten; one that is busy stays in the
\* index.
AfterFtruncate(f, emptied, unlinked) ==
    LET gone   == f \notin open /\ unlinked # "again"
        erased == f \notin open /\ unlinked = "ok"
    IN
    /\ totalUsed' = Max({totalUsed - size[f], 0})
    /\ size' = [size EXCEPT ![f] = 0]
    /\ cached' = IF emptied \/ erased THEN [cached EXCEPT ![f] = {}] ELSE cached
    /\ extended' = IF emptied \/ erased THEN extended \ {f} ELSE extended
    /\ stored' = IF erased THEN stored \ {f} ELSE stored
    /\ index' = IF gone THEN index \ {f} ELSE index
    /\ stuck' = IF gone THEN stuck \ {f}
                ELSE IF f \in open THEN stuck ELSE stuck \cup {f}
    /\ UNCHANGED <<open, isFull>>

\* truncate(0) of a file with its lock held, and afterFtrucate unless it was
\* interrupted: then the file is left as it is, off the list if closed.
Truncate(f, taken) ==
    \E truncated \in Endings, unlinked \in Endings :
      /\ sized' = sized \ {f}
      /\ IF truncated = "again"
           THEN /\ stuck' = IF f \in open THEN stuck ELSE stuck \cup {f}
                /\ UNCHANGED <<index, open, size, totalUsed, isFull, media, amount>>
           ELSE /\ AfterFtruncate(f, truncated = "ok", unlinked)
                /\ amount' = amount - taken
      /\ Unless(truncated = "ok" /\ (f \in open \/ unlinked = "ok"))

\* An empty file: nothing to truncate, but a closed one is unlinked.
TurnOver(f) ==
    IF f \in open
      THEN UNCHANGED <<index, stuck, open, size, sized, totalUsed, isFull, media, faults>>
      ELSE \E unlinked \in Endings :
             /\ AfterFtruncate(f, FALSE, unlinked)
             /\ sized' = IF unlinked = "again" THEN sized ELSE sized \ {f}
             /\ Unless(unlinked = "ok")

\* One turn of the loop: the least recent file is put first again if it is
\* open, else taken off the list (mark_key_cleared), and then truncated; a
\* file being read or written is waited for.
EvictNext ==
    LET f == Last(lru) IN
    /\ evictor # NoOne /\ victim = NoOne /\ amount > 0 /\ lru # <<>>
    /\ lru' = IF f \in open THEN Access(lru, f) ELSE Drop(lru, f)
    /\ \/ /\ size[f] = 0
          /\ TurnOver(f)
          /\ UNCHANGED <<amount, victim, captured>>
       \/ /\ size[f] > 0 /\ ReadLocked(f) = {}
          /\ Truncate(f, size[f])
          /\ UNCHANGED <<victim, captured>>
       \/ /\ size[f] > 0 /\ ReadLocked(f) # {}
          /\ victim' = f /\ captured' = size[f]
          /\ UNCHANGED <<index, stuck, open, size, sized, totalUsed, isFull, media,
                         amount, faults>>
    /\ UNCHANGED <<evictor, readers, opens>>

\* The readers of the victim are gone, and perhaps its store as well.
EvictVictim ==
    /\ victim # NoOne /\ ReadLocked(victim) = {}
    /\ Truncate(victim, captured)
    /\ lru' = IF victim \in index' THEN lru ELSE Drop(lru, victim)
    /\ victim' = NoOne /\ captured' = 0
    /\ UNCHANGED <<evictor, readers, opens>>

\* The loop ends; a reader that ran it goes on with its read.
EvictEnd ==
    /\ evictor # NoOne /\ victim = NoOne /\ (amount <= 0 \/ lru = <<>>)
    /\ isFull' = FALSE
    /\ evictor' = NoOne /\ amount' = 0
    /\ IF evictor \in Readers THEN AfterRefill(evictor) ELSE UNCHANGED <<pc, req>>
    /\ UNCHANGED <<index, stuck, open, size, sized, lru, totalUsed, media, victim,
                   captured, rest, refill, reads, opens, faults>>

\* The service is restarted: insertFile for every media file, in the order
\* of the walk.
Restart ==
    /\ Fault
    /\ index' = stored /\ stuck' = {}
    /\ open' = {} /\ sized' = {} /\ isFull' = FALSE
    /\ size' = [f \in Files |-> Cardinality(cached[f])]
    /\ totalUsed' = SumOf(size', stored)
    /\ lru' \in SetToSeqs(stored)
    /\ evictor' = NoOne /\ amount' = 0 /\ victim' = NoOne /\ captured' = 0
    /\ pc' = [r \in Readers |-> "idle"]
    /\ req' = [r \in Readers |-> Idle]
    /\ rest' = [r \in Readers |-> NoRange]
    /\ refill' = [r \in Readers |-> NoRange]
    /\ UNCHANGED <<media, reads, opens>>

-----------------------------------------------------------------------------
Step(r) ==
    \/ Try(r) \/ PRead(r) \/ Source(r) \/ Return(r)
    \/ LockRange(r) \/ Fetch(r) \/ SkipStore(r) \/ Store(r) \/ PWrite(r)

Fails(r) ==
    \/ QueryFails(r) \/ PReadFails(r) \/ SourceFails(r)
    \/ FetchFails(r) \/ PWriteShort(r)

Eviction == EvictNext \/ EvictVictim \/ EvictEnd

Next ==
    \/ \E f \in Files : Open(f) \/ Close(f)
    \/ \E r \in Readers, q \in Requests : Begin(r, q[1], <<q[2], q[3]>>)
    \/ \E r \in Readers : Step(r) \/ Fails(r)
    \/ Timer \/ Eviction \/ Restart

Spec == Init /\ [][Next]_vars

\* Photon runs every thread that is ready, and I/O completes.
Fairness ==
    /\ \A r \in Readers : WF_vars(Step(r))
    /\ WF_vars(Eviction)

FairSpec == Spec /\ Fairness

-----------------------------------------------------------------------------
(* Properties                                                              *)

TypeOK ==
    /\ index \subseteq Files /\ stuck \subseteq Files
    /\ open \subseteq Files /\ sized \subseteq Files
    /\ size \in [Files -> 0..Length] /\ totalUsed \in Nat /\ isFull \in BOOLEAN
    /\ lru \in Seq(Files)
    /\ cached \in [Files -> SUBSET Pages]
    /\ extended \subseteq Files /\ stored \subseteq Files
    /\ evictor \in Readers \cup {"timer", NoOne} /\ amount \in Int
    /\ victim \in Files \cup {NoOne} /\ captured \in 0..Length
    /\ pc \in [Readers -> {"idle", "try", "again", "pread", "source", "refill",
                           "wait", "fetch", "store", "pwrite", "evict", "done"}]

\* A read that succeeds (preadv2 returns the bytes asked for) has filled
\* every page of the caller's buffer with the source's data: no page comes
\* from a hole that a concurrent eviction made after queryRefillRange found it
\* cached, and none is left out between a refill and the read of the rest.
ReadsAreSource ==
    \A r \in Readers : req[r].result = "ok" => req[r].got = Span(req[r].asked)

\* totalUsed_, by which eviction decides how much to free and updateSpace
\* whether the cache is full, is the sum of the entries' sizes, whatever
\* writes finish while the eviction waits for a file's lock.
Accounting == totalUsed = SumOf(size, index)

\* Comment of fileIndex_ (cache_pool.h): "nobody hold erased iterator". A
\* store that is open, and a file the eviction waits for, has its entry in
\* the index; the LRU list holds entries only, each once, and every entry is
\* there, where eviction finds it, unless mark_key_cleared took it off and
\* the truncate was interrupted or the unlink busy.
NoDangling ==
    /\ open \subseteq index
    /\ victim # NoOne => victim \in index
    /\ Len(lru) = Cardinality(Range(lru)) /\ Range(lru) \subseteq index
    /\ index \ Range(lru) \subseteq stuck

\* The running eviction cannot free what is still wanted: the disk is short
\* of more than the files on the list hold.
Starved == evictor # NoOne /\ amount > SumOf(size, Range(lru))

\* Every read returns: neither a refill it waits for (range_lock_), nor the
\* eviction it runs itself or whose WLOCK it queues behind, holds it for ever.
\* An eviction that wants more than there is turns over open empty files
\* until they are closed, and a reader that runs it is held as long.
ReadReturns ==
    \A r \in Readers : (pc[r] # "idle") ~> (pc[r] = "idle" \/ Starved)

=============================================================================
