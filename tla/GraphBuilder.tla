----------------------------- MODULE GraphBuilder -----------------------------
(***************************************************************************)
(* Conversion of an image index (graphBuilder in                           *)
(* cmd/convertor/builder/builder.go).  process() runs once for every       *)
(* manifest and every index of the graph, each below the root in a         *)
(* goroutine of one errgroup; an index waits on a WaitGroup for its        *)
(* children, puts their new descriptors in its slots and is pushed.  A    *)
(* semaphore bounds the manifests under conversion.  Converting a          *)
(* manifest, OverlaybdBuilder in detail, is one step which pushes it (or    *)
(* not, with noUpload) or fails.                                           *)
(*                                                                         *)
(* A child that fails leaves the WaitGroup first (its deferred Done) and   *)
(* is noticed by the errgroup, which cancels the context, in a later step. *)
(***************************************************************************)
EXTENDS Integers, FiniteSets

CONSTANTS
  Nodes, Root,       \* the descriptors of the graph
  Parent,            \* the index that lists a descriptor; the root is its own
  MediaTypes,        \* the media types the descriptors may have
  ConcurrencyLimit   \* 0: no limit

Children(n) == {c \in Nodes \ {Root} : Parent[c] = n}

\* The graph is a finite tree below the root: a set that holds the root and,
\* with a descriptor, its children, holds everything.
ASSUME GraphAssumption ==
  /\ IsFiniteSet(Nodes)
  /\ \A S \in SUBSET Nodes :
       Root \in S /\ (\A n \in S : Children(n) \subseteq S) => S = Nodes
  /\ Parent \in [Nodes -> Nodes] /\ Root \in Nodes /\ Parent[Root] = Root
  /\ MediaTypes \subseteq [Nodes -> {"manifest", "index", "other"}]
  /\ \A t \in MediaTypes : \A c \in Nodes \ {Root} : t[Parent[c]] = "index"
  /\ ConcurrencyLimit \in Nat

VARIABLES
  noUpload, \* the option of that name
  mediaType,\* of every descriptor
  ctx,      \* is gctx cancelled?
  err,      \* has the errgroup recorded an error?
  pc,       \* per descriptor, where its process() is
  wg,       \* per index, the counter of its WaitGroup
  sem,      \* tokens in the semaphore
  slot,     \* the descriptors whose slot in the index holds the converted one
  built,    \* per converted descriptor, the converted children it names
  pushed,   \* the descriptors the target repository has been given
  result    \* of Build()

vars == <<noUpload, mediaType, ctx, err, pc, wg, sem, slot, built, pushed, result>>

Goto(n, where) == pc' = [pc EXCEPT ![n] = where]

Init ==
  /\ noUpload \in BOOLEAN /\ mediaType \in MediaTypes
  /\ ctx = FALSE /\ err = FALSE
  /\ pc = [n \in Nodes |-> IF n = Root THEN "start" ELSE "idle"]
  /\ wg = [n \in Nodes |-> 0]
  /\ sem = 0 /\ slot = {}
  /\ built = << >> /\ pushed = {}
  /\ result = "none"

Convert(n) == built' = [m \in DOMAIN built \union {n} |->
                         IF m = n THEN slot \intersect Children(n) ELSE built[m]]

-----------------------------------------------------------------------------
(* buildOne() *)

\* Mutant: only a token is waited for.
AcquireBlindly(n) ==
  /\ mediaType[n] = "manifest" /\ pc[n] = "start"
  /\ \/ /\ ConcurrencyLimit > 0 /\ sem < ConcurrencyLimit
        /\ sem' = sem + 1
     \/ ConcurrencyLimit = 0 /\ UNCHANGED sem
  /\ Goto(n, "build")
  /\ UNCHANGED <<noUpload, mediaType, ctx, err, wg, slot, built, pushed, result>>

\* A token, or the end of the context, whichever select finds.
Acquire(n) ==
  /\ mediaType[n] = "manifest" /\ pc[n] = "start"
  /\ \/ /\ ConcurrencyLimit > 0 /\ sem < ConcurrencyLimit
        /\ sem' = sem + 1
        /\ Goto(n, "build")
     \/ ConcurrencyLimit = 0 /\ Goto(n, "build") /\ UNCHANGED sem
     \/ ConcurrencyLimit > 0 /\ ctx /\ Goto(n, "err") /\ UNCHANGED sem
  /\ UNCHANGED <<noUpload, mediaType, ctx, err, wg, slot, built, pushed, result>>

\* The deferred select takes a token out, or finds the context done.
Release(n) ==
  \/ ConcurrencyLimit > 0 /\ sem' = sem - 1
  \/ (ConcurrencyLimit = 0 \/ ctx) /\ UNCHANGED sem

BuildOne(n) ==
  /\ pc[n] = "build"
  /\ \/ /\ ~ctx /\ Convert(n) /\ Goto(n, "ok")
        /\ pushed' = IF noUpload THEN pushed ELSE pushed \union {n}
     \/ Goto(n, "err") /\ UNCHANGED <<built, pushed>>
  /\ Release(n)
  /\ UNCHANGED <<noUpload, mediaType, ctx, err, wg, slot, result>>

-----------------------------------------------------------------------------
(* process() of an index *)

\* Every descriptor of the index is given to a goroutine of the group.
FetchIndex(n) ==
  /\ mediaType[n] = "index" /\ pc[n] = "start"
  /\ \/ /\ ~ctx
        /\ wg' = [wg EXCEPT ![n] = Cardinality(Children(n))]
        /\ pc' = [m \in Nodes |->
                    IF m = n THEN "wait" ELSE IF m \in Children(n) THEN "start" ELSE pc[m]]
     \/ Goto(n, "err") /\ UNCHANGED wg
  /\ UNCHANGED <<noUpload, mediaType, ctx, err, sem, slot, built, pushed, result>>

Unsupported(n) ==
  /\ mediaType[n] = "other" /\ pc[n] = "start"
  /\ Goto(n, "err")
  /\ UNCHANGED <<noUpload, mediaType, ctx, err, wg, sem, slot, built, pushed, result>>

\* Mutant: the index does not wait for its children.
WaitNobody(n) ==
  /\ pc[n] = "wait"
  /\ Goto(n, IF ctx THEN "err" ELSE "push")
  /\ UNCHANGED <<noUpload, mediaType, ctx, err, wg, sem, slot, built, pushed, result>>

\* wg.Wait(), then the test of the context.
WaitChildren(n) ==
  /\ pc[n] = "wait" /\ wg[n] = 0
  /\ Goto(n, IF ctx THEN "err" ELSE "push")
  /\ UNCHANGED <<noUpload, mediaType, ctx, err, wg, sem, slot, built, pushed, result>>

\* The index is pushed as its slots are, under the tag when it is the root, with
\* noUpload too.
UploadIndex(n) ==
  /\ pc[n] = "push"
  /\ \/ ~ctx /\ Convert(n) /\ Goto(n, "ok") /\ pushed' = pushed \union {n}
     \/ Goto(n, "err") /\ UNCHANGED <<built, pushed>>
  /\ UNCHANGED <<noUpload, mediaType, ctx, err, wg, sem, slot, result>>

-----------------------------------------------------------------------------
(* The goroutines and the errgroup *)

\* Mutant: the slot is filled whether or not the conversion worked.
ReturnUnchecked(n) ==
  /\ pc[n] \in {"ok", "err"}
  /\ slot' = slot \union {n}
  /\ wg' = IF n = Root THEN wg ELSE [wg EXCEPT ![Parent[n]] = @ - 1]
  /\ Goto(n, "done")
  /\ UNCHANGED <<noUpload, mediaType, ctx, err, sem, built, pushed, result>>

\* A result goes to the slot; then wg.Done() of the parent, and only then does
\* the errgroup learn of an error.
Return(n) ==
  /\ pc[n] \in {"ok", "err"}
  /\ slot' = IF pc[n] = "ok" THEN slot \union {n} ELSE slot
  /\ wg' = IF n = Root THEN wg ELSE [wg EXCEPT ![Parent[n]] = @ - 1]
  /\ Goto(n, IF pc[n] = "ok" THEN "done" ELSE "failing")
  /\ UNCHANGED <<noUpload, mediaType, ctx, err, sem, built, pushed, result>>

Report(n) ==
  /\ pc[n] = "failing"
  /\ err' = TRUE /\ ctx' = TRUE
  /\ Goto(n, "done")
  /\ UNCHANGED <<noUpload, mediaType, wg, sem, slot, built, pushed, result>>

\* The program is interrupted.
Cancel ==
  /\ ~ctx /\ result = "none"
  /\ ctx' = TRUE
  /\ UNCHANGED <<noUpload, mediaType, err, pc, wg, sem, slot, built, pushed, result>>

\* g.Wait(): every goroutine that was started has returned.
BuildWait ==
  /\ result = "none" /\ \A n \in Nodes : pc[n] \in {"idle", "done"}
  /\ result' = IF err THEN "error" ELSE "ok"
  /\ UNCHANGED <<noUpload, mediaType, ctx, err, pc, wg, sem, slot, built, pushed>>

Process(n) ==
  \/ Acquire(n) \/ BuildOne(n)
  \/ FetchIndex(n) \/ Unsupported(n) \/ WaitChildren(n) \/ UploadIndex(n)
  \/ Return(n) \/ Report(n)

Next == Cancel \/ BuildWait \/ \E n \in Nodes : Process(n)

Spec == Init /\ [][Next]_vars

\* Go schedules every goroutine; a conversion ends (OverlaybdBuilder), and so
\* do the calls to the registry.  A goroutine at the semaphore may be
\* overtaken any number of times, but there are finitely many others.
FairSpec == Spec /\ WF_vars(BuildWait) /\ \A n \in Nodes : WF_vars(Process(n))

-----------------------------------------------------------------------------
(* Properties *)

TypeOK ==
  /\ noUpload \in BOOLEAN /\ mediaType \in MediaTypes
  /\ {ctx, err} \subseteq BOOLEAN
  /\ pc \in [Nodes -> {"idle", "start", "build", "wait", "push", "ok", "err", "failing", "done"}]
  /\ wg \in [Nodes -> Int] /\ sem \in Int
  /\ slot \subseteq Nodes /\ pushed \subseteq Nodes
  /\ result \in {"none", "ok", "error"}

\* A Build() that succeeds has converted every manifest, and every index with
\* nothing but converted descriptors in its slots; all of them are pushed,
\* except the manifests when noUpload is set (the indexes that name them are).
OkMeansConverted ==
  result = "ok" =>
    \A n \in Nodes : /\ n \in DOMAIN built /\ built[n] = Children(n)
                     /\ n \in pushed \/ (noUpload /\ mediaType[n] = "manifest")

\* An index is pushed with a descriptor of the source in it only if a failure
\* is known to the errgroup or one of its children is about to report one:
\* wg.Done() comes before the cancellation, so the push may be under way.
IncompleteOnlyOnError ==
  \A n \in pushed :
    built[n] # Children(n) => err \/ \E c \in Children(n) : pc[c] = "failing"

\* Build() returns, whatever fails.
BuildReturns == <>(result # "none")

=============================================================================
