------------------------------- MODULE LSMTFile -------------------------------
(***************************************************************************)
(* LSMTFile of overlaybd/src/overlaybd/lsmt/file.cpp: the append-only      *)
(* writable layer of a device.  Data is appended to one file, the mapping  *)
(* of each write or discard to another (at once, or in groups), and kept   *)
(* in a memory index that is rebuilt from that log when the file is opened *)
(* again.                                                                  *)
(*                                                                         *)
(* Requests run in photon threads, which switch where they do I/O or wait  *)
(* for m_rw_mtx: an action is what runs between two such points.           *)
(***************************************************************************)
EXTENDS Segments

CONSTANTS Threads,      \* photon threads that serve requests
          NSectors,     \* size of the virtual disk
          MaxOps,       \* bound on the writes and discards of a behaviour
          MaxCalls,     \* bound on its reads, fsyncs and changes of the group size
          MaxRequests,  \* bound on both together
          MaxCrashes,   \* bound on crashes and closes
          GroupSizes,   \* mappings per buffer given to set_index_group_commit
          DataMayFail,  \* may I/O on the data file fail?
          IndexMayFail, \* may I/O on the index file fail?
          PowerLoss,    \* may power be lost, and with it what was not fsynced?
          NLookup       \* NMAPPING of foreach_segments (16)

ASSUME FileAssumption ==
  /\ NSectors \in Nat \ {0} /\ NLookup \in Nat \ {0}
  /\ MaxOps \in Nat /\ MaxCalls \in Nat /\ MaxRequests \in Nat /\ MaxCrashes \in Nat
  /\ GroupSizes \subseteq Nat
  /\ {DataMayFail, IndexMayFail, PowerLoss} \subseteq BOOLEAN

VARIABLES
  state,        \* "open"; "down": closed or crashed; "lost": power was lost;
                \* "broken": it cannot be opened; "overrun": the group buffer was
                \* used beyond its end, which has no defined outcome to follow
  mapping,      \* m_index
  data, data_synced,     \* sectors of m_files[m_rw_tag], and how many are on disk
  findex, findex_synced, \* mappings in m_findex, and how many are on disk
  stacked,      \* the first nmapping entries of m_stacked_mappings
  group,        \* m_stacked_mappings.size()
  queue,        \* m_rw_mtx: its holder, then those waiting for it
  op,           \* the request each thread serves
  \* history
  versions,     \* per sector, its contents over time
  done,         \* per sector, the version of the last request that returned
  floor,        \* per sector, the oldest version a reopened file may show
  synced,       \* per sector, the oldest version it may show after a power loss
  spoiled,      \* sectors whose log is not in step with their history any more
  jammed,       \* the group buffer was left full, by a resize or a failed flush
  nops, ncalls, ncrashes

memVars == <<mapping, stacked, group, queue>>
diskVars == <<data, data_synced, findex, findex_synced>>
histVars == <<versions, done, floor, synced, spoiled, jammed>>
boundVars == <<nops, ncalls, ncrashes>>
vars == <<state, memVars, diskVars, op, histVars, boundVars>>

Sectors == 0..(NSectors - 1)
HeaderSectors == 8
DataEnd == HeaderSectors + Len(data)
Zeros == <<0, 0>>
Idle == [step |-> "idle"]

\* SegmentMapping::invalid_mapping(), which pads a group.
Invalid == Mapping(-1, 0, 0, FALSE, 0)

\* What a sector reads through a set of mappings; pread() fills what lies behind
\* the end of the data file with zeros.
Content(ms, s) ==
  LET hits == {m \in ms : Covers(m, s) /\ ~m.zeroed}
      at(m) == m.moffset + (s - m.offset) - HeaderSectors + 1
  IN IF hits = {} THEN Zeros
     ELSE LET m == CHOOSE m \in hits : TRUE
          IN IF at(m) \in DOMAIN data THEN data[at(m)] ELSE Zeros

\* Replaying a log, as Index0's constructor does with the mappings
\* do_load_index() keeps.
Replay(log) ==
  LET index[i \in 0..Len(log)] ==
        IF i = 0 THEN {}
        ELSE IF log[i] = Invalid THEN index[i - 1] ELSE Insert(index[i - 1], log[i])
  IN index[Len(log)]

Init ==
  /\ state = "open" /\ mapping = {}
  /\ data = << >> /\ data_synced = 0 /\ findex = << >> /\ findex_synced = 0
  /\ stacked = << >> /\ group = 0 /\ queue = << >>
  /\ op = [t \in Threads |-> Idle]
  /\ versions = [s \in Sectors |-> <<Zeros>>]
  /\ done = [s \in Sectors |-> 1] /\ floor = done /\ synced = done
  /\ spoiled = {} /\ jammed = FALSE
  /\ nops = 0 /\ ncalls = 0 /\ ncrashes = 0

-----------------------------------------------------------------------------
(* Helpers *)

\* Taking the mutex is joining the queue; its head may go on.
Locked(t) == queue # << >> /\ Head(queue) = t
Lock(t) == queue' = Append(queue, t)
Unlock == queue' = Tail(queue)

At(t, step) == state = "open" /\ op[t].step = step
Goto(t, step) == op' = [op EXCEPT ![t].step = step]
Return(t) == op' = [op EXCEPT ![t] = Idle]

CountCall ==
  /\ ncalls < MaxCalls /\ nops + ncalls < MaxRequests
  /\ ncalls' = ncalls + 1
  /\ UNCHANGED <<nops, ncrashes>>

\* A request that changes the disk, and its range.
MayChange(offset, length) ==
  offset + length <= NSectors /\ nops < MaxOps /\ nops + ncalls < MaxRequests

\* m_index->insert(m) and, for the history, the new contents of its sectors.
InsertMapping(m, content) ==
  /\ mapping' = Insert(mapping, m)
  /\ versions' = [s \in Sectors |-> IF Covers(m, s) THEN Append(versions[s], content[s])
                                    ELSE versions[s]]

\* A write or discard returns success: until a crash, and without group commit
\* also after one that spares the page cache, its effect is there to stay.
Acknowledge(t, grouped) ==
  LET latest(s) == IF Covers(op[t].m, s) /\ op[t].version[s] > done[s]
                   THEN op[t].version[s] ELSE done[s]
  IN /\ done' = [s \in Sectors |-> latest(s)]
     /\ floor' = [s \in Sectors |->
                    IF Covers(op[t].m, s) /\ ~grouped /\ latest(s) > floor[s]
                    THEN latest(s) ELSE floor[s]]
     /\ UNCHANGED <<versions, synced>>

\* Sectors of these mappings are lost to the log, though acknowledged.
Spoil(ms) == spoiled' = spoiled \union {s \in Sectors : \E m \in ms : Covers(m, s)}

-----------------------------------------------------------------------------
(* append_index() and do_group_commit_mappings() *)

Padded == stacked \o [i \in 1..(group - Len(stacked)) |-> Invalid]

\* A buffer of this size is left full with these mappings.
Jam(ms, size) == jammed' = (ms # << >> /\ Len(ms) = size)

\* do_group_commit_mappings() returning 0: the padded buffer is in the file.
CommitGroup ==
  /\ findex' = IF stacked = << >> THEN findex ELSE findex \o Padded
  /\ stacked' = << >>
  /\ jammed' = FALSE

\* ... and returning -1: the buffer, of a new size perhaps, stays, now padded.
CommitGroupFails(size) ==
  /\ IndexMayFail /\ stacked # << >>
  /\ stacked' = Padded
  /\ Jam(Padded, size)
  /\ UNCHANGED findex

\* Mutant: the full buffer is noticed one mapping too late.
AppendIndexLate(t) ==
  /\ At(t, "index") /\ Locked(t)
  /\ \/ /\ group = 0
        /\ Goto(t, "log")
        /\ UNCHANGED <<stacked, queue, histVars>>
     \/ /\ group > 0 /\ Len(stacked) < group
        /\ stacked' = Append(stacked, op[t].m)
        /\ Return(t) /\ Unlock /\ Acknowledge(t, TRUE)
        /\ UNCHANGED <<spoiled, jammed>>
  /\ UNCHANGED <<state, mapping, group, diskVars, boundVars>>

\* append_index(), the lock held, up to its I/O.  When the buffer is not yet
\* full the request is over.
AppendIndex(t) ==
  /\ At(t, "index") /\ Locked(t)
  /\ \/ /\ group = 0
        /\ Goto(t, "log")
        /\ UNCHANGED <<stacked, queue, histVars>>
     \/ /\ group > 0 /\ Len(stacked) + 1 = group
        /\ stacked' = Append(stacked, op[t].m)
        /\ Goto(t, "flush")
        /\ UNCHANGED <<queue, histVars>>
     \/ /\ group > 0 /\ Len(stacked) + 1 < group
        /\ stacked' = Append(stacked, op[t].m)
        /\ Return(t) /\ Unlock /\ Acknowledge(t, TRUE)
        /\ UNCHANGED <<spoiled, jammed>>
  /\ UNCHANGED <<state, mapping, group, diskVars, boundVars>>

\* The mapping reaches the index file, or not: append_index() ignores a failure.
LogMapping(t) ==
  /\ At(t, "log")
  /\ \/ findex' = Append(findex, op[t].m) /\ UNCHANGED spoiled
     \/ IndexMayFail /\ UNCHANGED findex /\ Spoil({op[t].m})
  /\ Return(t) /\ Unlock /\ Acknowledge(t, FALSE)
  /\ UNCHANGED <<state, mapping, stacked, group, data, data_synced, findex_synced, jammed,
                 boundVars>>

\* The group that AppendIndex found complete, and copied, reaches the file, or
\* stays in the buffer.
FlushGroup(t) ==
  /\ At(t, "flush")
  /\ \/ findex' = findex \o stacked /\ stacked' = << >> /\ jammed' = FALSE
     \/ IndexMayFail /\ UNCHANGED <<findex, stacked>> /\ Jam(stacked, group)
  /\ Return(t) /\ Unlock /\ Acknowledge(t, TRUE)
  /\ UNCHANGED <<state, mapping, group, data, data_synced, findex_synced, spoiled, boundVars>>

-----------------------------------------------------------------------------
(* pwrite() *)

PwriteCall(t, offset, length) ==
  /\ At(t, "idle")
  /\ MayChange(offset, length)
  /\ Lock(t)
  /\ op' = [op EXCEPT ![t] =
              [step |-> "append", m |-> Mapping(offset, length, 0, FALSE, 0), id |-> nops + 1,
               version |-> [s \in Sectors |-> 0]]]
  /\ nops' = nops + 1
  /\ UNCHANGED <<state, mapping, stacked, group, diskVars, histVars, ncalls, ncrashes>>

\* Mutant: the request goes on whether or not its data was written.
PwriteAppendUnchecked(t) ==
  /\ At(t, "append") /\ Locked(t)
  /\ LET m == [op[t].m EXCEPT !.moffset = DataEnd]
         content == [s \in Sectors |-> <<op[t].id, s>>]
     IN /\ \E n \in 0..m.length : data' = data \o [i \in 1..n |-> content[m.offset + i - 1]]
        /\ InsertMapping(m, content)
        /\ op' = [op EXCEPT ![t].step = "index", ![t].m = m,
                            ![t].version = [s \in Sectors |-> Len(versions'[s])]]
  /\ UNCHANGED <<state, stacked, group, queue, data_synced, findex, findex_synced, done, floor,
                 synced, spoiled, jammed, boundVars>>

\* append() of the data and, when it succeeds, the insert into the index.  A
\* failed append leaves a part of the data, whole sectors, behind.
PwriteAppend(t) ==
  /\ At(t, "append") /\ Locked(t)
  /\ LET m == [op[t].m EXCEPT !.moffset = DataEnd]
         content == [s \in Sectors |-> <<op[t].id, s>>]
     IN \/ /\ data' = data \o [i \in 1..m.length |-> content[m.offset + i - 1]]
           /\ InsertMapping(m, content)
           /\ op' = [op EXCEPT ![t].step = "index", ![t].m = m,
                               ![t].version = [s \in Sectors |-> Len(versions'[s])]]
           /\ UNCHANGED queue
        \/ /\ DataMayFail
           /\ \E n \in 0..(m.length - 1) :
                data' = data \o [i \in 1..n |-> content[m.offset + i - 1]]
           /\ Return(t) /\ Unlock
           /\ UNCHANGED <<mapping, versions>>
  /\ UNCHANGED <<state, stacked, group, data_synced, findex, findex_synced, done, floor,
                 synced, spoiled, jammed, boundVars>>

-----------------------------------------------------------------------------
(* fallocate() and discard() *)

\* The index takes the discard before the mutex is asked for.  A write that waits
\* for the mutex to append its data will enter the index behind it but the log
\* before it: from then on the log says otherwise than the index.
DiscardCall(t, offset, length) ==
  /\ At(t, "idle")
  /\ MayChange(offset, length)
  /\ LET m == Mapping(offset, length, DataEnd, TRUE, 0)
     IN /\ InsertMapping(m, [s \in Sectors |-> Zeros])
        /\ op' = [op EXCEPT ![t] =
                    [step |-> "index", m |-> m, id |-> nops + 1,
                     version |-> [s \in Sectors |-> Len(versions'[s])]]]
        /\ spoiled' = spoiled \union {s \in Sectors : Covers(m, s) /\ \E u \in Threads :
                                       op[u].step = "append" /\ Covers(op[u].m, s)}
  /\ Lock(t)
  /\ nops' = nops + 1
  /\ UNCHANGED <<state, stacked, group, diskVars, done, floor, synced, jammed, ncalls, ncrashes>>

-----------------------------------------------------------------------------
(* fsync() *)

Later(v, w) == IF v > w THEN v ELSE w

FsyncCall(t) ==
  /\ At(t, "idle")
  /\ CountCall
  /\ Lock(t)
  /\ op' = [op EXCEPT ![t] = [step |-> "fsync", mark |-> done]]
  /\ UNCHANGED <<state, mapping, stacked, group, diskVars, histVars>>

FsyncFlush(t) ==
  /\ At(t, "fsync") /\ Locked(t)
  /\ \/ CommitGroup /\ Goto(t, "fsync_data")
     \/ CommitGroupFails(group) /\ Return(t)
  /\ Unlock
  /\ UNCHANGED <<state, mapping, group, data, data_synced, findex_synced, versions, done, floor,
                 synced, spoiled, boundVars>>

\* The result of the data file's fsync() is ignored; so is that of the index file's.
FsyncData(t) ==
  /\ At(t, "fsync_data")
  /\ data_synced' = Len(data) \/ (DataMayFail /\ UNCHANGED data_synced)
  /\ Goto(t, "fsync_index")
  /\ UNCHANGED <<state, memVars, data, findex, findex_synced, histVars, boundVars>>

\* Mutant: only the data file is synced.
FsyncIndexSkipped(t) ==
  /\ At(t, "fsync_index")
  /\ floor' = [s \in Sectors |-> Later(op[t].mark[s], floor[s])]
  /\ synced' = [s \in Sectors |-> Later(op[t].mark[s], synced[s])]
  /\ Return(t)
  /\ UNCHANGED <<state, memVars, diskVars, versions, done, spoiled, jammed, boundVars>>

\* fsync() returns 0: what had returned before it was called must now survive a
\* crash and, when the index file really was synced, a power loss.
FsyncIndex(t) ==
  /\ At(t, "fsync_index")
  /\ floor' = [s \in Sectors |-> Later(op[t].mark[s], floor[s])]
  /\ \/ /\ findex_synced' = Len(findex)
        /\ synced' = [s \in Sectors |-> Later(op[t].mark[s], synced[s])]
     \/ IndexMayFail /\ UNCHANGED <<findex_synced, synced>>
  /\ Return(t)
  /\ UNCHANGED <<state, memVars, data, data_synced, findex, versions, done, spoiled, jammed,
                 boundVars>>

-----------------------------------------------------------------------------
(* vioctl(Index_Group_Commit) *)

\* nmapping is compared, and the buffer resized, without the mutex.
GroupCall(t, size) ==
  /\ At(t, "idle")
  /\ CountCall
  /\ size # group
  /\ \/ /\ size < Len(stacked)
        /\ Lock(t)
        /\ op' = [op EXCEPT ![t] = [step |-> "regroup", size |-> size]]
        /\ UNCHANGED <<group, jammed>>
     \/ /\ size >= Len(stacked)
        /\ group' = size
        /\ Jam(stacked, size)
        /\ UNCHANGED <<queue, op>>
  /\ UNCHANGED <<state, mapping, stacked, diskVars, versions, done, floor, synced, spoiled>>

\* The buffer is flushed, and resized whether or not that worked.
GroupFlush(t) ==
  /\ At(t, "regroup") /\ Locked(t)
  /\ CommitGroup \/ (CommitGroupFails(op[t].size) /\ Len(Padded) <= op[t].size)
  /\ group' = op[t].size
  /\ Return(t) /\ Unlock
  /\ UNCHANGED <<state, mapping, data, data_synced, findex_synced, versions, done, floor, synced,
                 spoiled, boundVars>>

-----------------------------------------------------------------------------
(* pread() *)

\* Up to NLookup mappings are copied out of the index, without the mutex.
PreadCall(t, offset, length) ==
  /\ At(t, "idle")
  /\ offset + length <= NSectors
  /\ CountCall
  /\ op' = [op EXCEPT ![t] =
              [step |-> "read", from |-> offset, to |-> offset + length, got |-> << >>,
               batch |-> Lookup0(mapping, offset, offset + length, NLookup), left |-> NLookup,
               since |-> [s \in Sectors |-> Len(versions[s])]]]
  /\ UNCHANGED <<state, memVars, diskVars, histVars>>

\* The sectors of the buffer up to the end of mapping m: zeros before it.
ReadUpto(t, m) ==
  op[t].got \o [i \in 1..(End(m) - (op[t].from + Len(op[t].got))) |->
                  Content({m}, op[t].from + Len(op[t].got) + i - 1)]

\* The callback for one mapping: its part of the data file is read.
PreadSegment(t) ==
  /\ At(t, "read") /\ op[t].batch # << >>
  /\ op' = [op EXCEPT ![t].got = ReadUpto(t, Head(op[t].batch)),
                      ![t].batch = Tail(@), ![t].left = @ - 1]
  /\ UNCHANGED <<state, memVars, diskVars, histVars, boundVars>>

\* The data file fails the callback, and the read; or it reads short and the rest
\* on a second try, which the callback takes for the end of it: the buffer is not
\* moved on, later mappings are read into the wrong place, and pread() succeeds.
PreadSegmentFails(t) ==
  /\ DataMayFail
  /\ At(t, "read") /\ op[t].batch # << >> /\ ~Head(op[t].batch).zeroed
  /\ Return(t) \/ Goto(t, "misread")
  /\ UNCHANGED <<state, memVars, diskVars, histVars, boundVars>>

\* The array was full, there may be more mappings: look up the rest.
PreadMore(t) ==
  /\ At(t, "read") /\ op[t].batch = << >> /\ op[t].left = 0
  /\ op' = [op EXCEPT ![t].left = NLookup,
                      ![t].batch = Lookup0(mapping, op[t].from + Len(op[t].got), op[t].to,
                                           NLookup)]
  /\ UNCHANGED <<state, memVars, diskVars, histVars, boundVars>>

PreadReturn(t) ==
  /\ \/ At(t, "read") /\ op[t].batch = << >> /\ op[t].left > 0
     \/ At(t, "misread")
  /\ Return(t)
  /\ UNCHANGED <<state, memVars, diskVars, histVars, boundVars>>

-----------------------------------------------------------------------------
(* close(), crash, open_file_rw() *)

Forget ==
  /\ mapping' = {} /\ stacked' = << >> /\ group' = 0 /\ queue' = << >>
  /\ op' = [t \in Threads |-> Idle]

Down ==
  /\ ncrashes < MaxCrashes /\ ncrashes' = ncrashes + 1
  /\ jammed' = FALSE
  /\ Forget
  /\ UNCHANGED <<nops, ncalls>>

\* Nobody is told that the last flush failed.
Close ==
  /\ state = "open" /\ \A t \in Threads : op[t] = Idle
  /\ state' = "down"
  /\ \/ /\ findex' = IF stacked = << >> THEN findex ELSE findex \o Padded
        /\ UNCHANGED spoiled
     \/ /\ IndexMayFail /\ stacked # << >>
        /\ UNCHANGED findex
        /\ Spoil({stacked[i] : i \in 1..Len(stacked)})
  /\ floor' = done
  /\ Down
  /\ UNCHANGED <<data, data_synced, findex_synced, versions, done, synced>>

\* The process dies; the page cache keeps what it wrote.
Crash ==
  /\ state = "open"
  /\ state' = "down"
  /\ Down
  /\ UNCHANGED <<diskVars, versions, done, floor, synced, spoiled>>

\* Each file keeps what was synced and any part of what was not.
LosePower ==
  /\ PowerLoss /\ state = "open"
  /\ state' = "lost"
  /\ Down
  /\ \E n \in data_synced..Len(data) : data' = SubSeq(data, 1, n)
  /\ \E n \in findex_synced..Len(findex) : findex' = SubSeq(findex, 1, n)
  /\ floor' = synced
  /\ UNCHANGED <<data_synced, findex_synced, versions, done, synced, spoiled>>

\* append_index() stores a mapping behind a buffer that is full already.
StoreOverruns(t) ==
  /\ At(t, "index") /\ Locked(t) /\ group > 0 /\ Len(stacked) >= group
  /\ state' = "overrun"
  /\ Forget
  /\ UNCHANGED <<diskVars, histVars, boundVars>>

\* The buffer shrinks to less than the mappings that could not be flushed.
ResizeOverruns(t) ==
  /\ At(t, "regroup") /\ Locked(t)
  /\ IndexMayFail /\ stacked # << >> /\ Len(Padded) > op[t].size
  /\ state' = "overrun" /\ jammed' = TRUE
  /\ Forget
  /\ UNCHANGED <<diskVars, versions, done, floor, synced, spoiled, boundVars>>

\* verify_mapping_moffset() of everything in the log.
Loadable ==
  \A i \in 1..Len(findex) :
    findex[i] # Invalid => Within(findex[i], HeaderSectors, DataEnd)

\* How many mappings of a log cover a sector.
Logs(log, s) == Cardinality({i \in 1..Len(log) : Covers(log[i], s)})

\* Open: the index is rebuilt, or the file refused.  The history of a sector
\* goes on where the log ends; what was not synced is still not.
Reopen ==
  /\ state \in {"down", "lost"}
  /\ \/ /\ Loadable
        /\ state' = "open"
        /\ mapping' = Replay(findex)
        /\ versions' = [s \in Sectors |-> Append(FirstN(versions[s], Logs(findex, s)),
                                                Content(mapping', s))]
        /\ done' = [s \in Sectors |-> Len(versions'[s])] /\ floor' = done'
        /\ UNCHANGED <<synced, spoiled, jammed>>
     \/ /\ ~Loadable
        /\ state' = "broken"
        /\ UNCHANGED <<mapping, histVars>>
  /\ UNCHANGED <<stacked, group, queue, diskVars, op, boundVars>>

-----------------------------------------------------------------------------
Next ==
  \/ \E t \in Threads, offset \in Sectors, length \in 1..NSectors :
       \/ PwriteCall(t, offset, length) \/ DiscardCall(t, offset, length)
       \/ PreadCall(t, offset, length)
  \/ \E t \in Threads :
       \/ PwriteAppend(t) \/ AppendIndex(t) \/ LogMapping(t) \/ FlushGroup(t)
       \/ FsyncCall(t) \/ FsyncFlush(t) \/ FsyncData(t) \/ FsyncIndex(t)
       \/ \E size \in GroupSizes : GroupCall(t, size)
       \/ GroupFlush(t)
       \/ PreadSegment(t) \/ PreadSegmentFails(t) \/ PreadMore(t) \/ PreadReturn(t)
       \/ StoreOverruns(t) \/ ResizeOverruns(t)
  \/ Close
  \/ Crash
  \/ LosePower
  \/ Reopen

Spec == Init /\ [][Next]_vars
-----------------------------------------------------------------------------
(* Properties *)

\* The state keeps its types; the holder of m_rw_mtx is a thread at a step
\* that needs it, and no thread is in the queue twice.
TypeOK ==
  /\ state \in {"open", "down", "lost", "broken", "overrun"}
  /\ \A t \in Threads :
       Cardinality({i \in 1..Len(queue) : queue[i] = t}) =
         IF op[t].step \in {"append", "index", "log", "flush", "fsync", "regroup"} THEN 1 ELSE 0
  /\ data_synced \in Nat /\ findex_synced \in Nat /\ group \in Nat
  /\ spoiled \subseteq Sectors /\ jammed \in BOOLEAN
  /\ \A s \in Sectors \ spoiled :
       1 <= synced[s] /\ synced[s] <= floor[s] /\ floor[s] <= done[s] /\ done[s] <= Len(versions[s])

\* A file that was closed, or whose server died, can be opened again.
Reopenable == state = "down" => Loadable

\* What open finds is, of every sector, the contents it had when the last
\* acknowledged request (after fsync() or close(), or without group commit
\* right away) was served, or newer: no acknowledged write is lost and no
\* older contents come back.  The exceptions, which the code hides from its
\* caller, are the sectors of a mapping that append_index() or close() could not
\* write to the index file, and those of a discard that overtook a write of them;
\* and after a power loss an fsync() of the index file that did not work.
NoLostWrite ==
  (state \in {"down", "lost"} /\ Loadable) =>
    \A s \in Sectors \ spoiled :
      Content(Replay(findex), s) \in {versions[s][k] : k \in floor[s]..Len(versions[s])}

\* pread() takes no lock: each sector it returns, the zeros it puts behind the
\* last mapping included, has contents the sector had at some time since the read
\* began, however writes and discards interleave.  (Of a read that the data file
\* cut short, "misread", nothing is said.)
ReadsAreRegular ==
  \A t \in Threads : op[t].step = "read" =>
    LET seen(s) == {versions[s][k] : k \in op[t].since[s]..Len(versions[s])}
        next == op[t].from + Len(op[t].got)
    IN /\ \A i \in 1..Len(op[t].got) : op[t].got[i] \in seen(op[t].from + i - 1)
       /\ (op[t].batch = << >> /\ op[t].left > 0) =>
            \A s \in next..(op[t].to - 1) : Zeros \in seen(s)

\* nmapping exceeds the size of the buffer it indexes only where
\* set_index_group_commit() made it as small as what it held, or where a flush had
\* failed and left it full: in any other case a full buffer is emptied before the
\* next mapping comes.
GroupFits == state = "overrun" => jammed
==============================================================================
