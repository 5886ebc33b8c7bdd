-------------------------- MODULE GraphBuilder_proofs --------------------------
(***************************************************************************)
(* For every tree of indexes and manifests, every limit of concurrent      *)
(* conversions and every failure: a Build() that succeeds has converted    *)
(* and listed everything.                                                  *)
(***************************************************************************)
EXTENDS GraphBuilder, FiniteSetTheorems, TLAPS

-----------------------------------------------------------------------------
(* The inductive invariant *)

\* Children that hold up the WaitGroup of their index.
Open(n) ==
  {c \in Children(n) : pc[c] \in {"start", "build", "wait", "push", "ok", "err"}}

\* Only manifests are converted and only indexes have children.
Kinds(n) ==
  /\ pc[n] = "build" => mediaType[n] = "manifest"
  /\ pc[n] \in {"wait", "push"} => mediaType[n] = "index"

\* Children start after their index is fetched, ...
Started(n) ==
  /\ pc[n] \in {"idle", "start"} => \A c \in Children(n) : pc[c] = "idle"
  /\ pc[n] \in {"wait", "push"} \/ n \in DOMAIN built => \A c \in Children(n) : pc[c] # "idle"

\* ... are counted while they run, ...
Counted(n) == wg[n] = Cardinality(Open(n))

\* ... and have returned when it is pushed.
Joined(n) == pc[n] = "push" => \A c \in Children(n) : pc[c] \in {"failing", "done"}

\* A result in a slot is a descriptor that was converted and, unless it is a
\* manifest and noUpload is set, pushed; without one there is an error.
Given(n) == n \in pushed \/ (noUpload /\ mediaType[n] = "manifest")
Delivered(n) ==
  /\ pc[n] = "ok" \/ n \in slot => n \in DOMAIN built /\ Given(n)
  /\ pc[n] = "done" => n \in slot \/ err

\* IncompleteOnlyOnError for one descriptor.
Excused(n) ==
  n \in DOMAIN built /\ built[n] # Children(n)
    => err \/ \E c \in Children(n) : pc[c] = "failing"

\* Build() returns when everybody has.
Ended ==
  /\ pc[Root] # "idle"
  /\ DOMAIN built \subseteq Nodes /\ pushed \subseteq DOMAIN built
  /\ result # "none" => \A n \in Nodes : pc[n] \in {"idle", "done"}
  /\ result = "ok" => ~err

NodeInv(n) == Kinds(n) /\ Started(n) /\ Counted(n) /\ Joined(n) /\ Delivered(n) /\ Excused(n)
NodesInv == \A n \in Nodes : NodeInv(n)

Inv == TypeOK /\ Ended /\ NodesInv

-----------------------------------------------------------------------------
(* Proofs *)

\* What a conversion adds.
LEMMA ConvertFacts ==
  ASSUME NEW n, Convert(n)
  PROVE  /\ DOMAIN built' = DOMAIN built \union {n}
         /\ built'[n] = slot \intersect Children(n)
         /\ \A m \in DOMAIN built : m # n => built'[m] = built[m]
  BY DEF Convert

\* Sets of children are finite, and a manifest has none.
LEMMA ChildrenFacts ==
  ASSUME TypeOK, NEW n \in Nodes
  PROVE  /\ IsFiniteSet(Children(n)) /\ IsFiniteSet(Open(n))
         /\ Children(n) \subseteq Nodes /\ Root \notin Children(n)
         /\ mediaType[n] # "index" => Children(n) = {}
<1>1. Children(n) \in SUBSET Nodes /\ Open(n) \in SUBSET Nodes /\ Root \notin Children(n)
  BY DEF Children, Open
<1>2. IsFiniteSet(Nodes)
  BY GraphAssumption
<1>3. IsFiniteSet(Children(n)) /\ IsFiniteSet(Open(n))
  BY <1>1, <1>2, FS_Subset
<1>4. ASSUME NEW c \in Children(n) PROVE mediaType[n] = "index"
  BY GraphAssumption DEF Children, TypeOK
<1> QED
  BY <1>1, <1>3, <1>4

\* Every step keeps the types.
LEMMA TypeStep ==
  ASSUME TypeOK, [Next]_vars
  PROVE  TypeOK'
<1>1. CASE Cancel
  BY <1>1 DEF Cancel, TypeOK
<1>2. CASE BuildWait
  BY <1>2 DEF BuildWait, TypeOK
<1>3. CASE UNCHANGED vars
  BY <1>3 DEF vars, TypeOK
<1>4. ASSUME NEW i \in Nodes, Process(i)
      PROVE  TypeOK'
  <2>1. CASE Acquire(i)
    BY <2>1 DEF Acquire, Goto, TypeOK
  <2>2. CASE BuildOne(i)
    BY <2>2 DEF BuildOne, Release, Goto, TypeOK
  <2>3. CASE FetchIndex(i)
    <3>1. Cardinality(Children(i)) \in Int
      BY ChildrenFacts, FS_CardinalityType
    <3>2. wg' \in [Nodes -> Int]
      BY <2>3, <3>1 DEF FetchIndex, TypeOK
    <3>3. pc' \in [Nodes -> {"idle", "start", "build", "wait", "push", "ok", "err", "failing",
                             "done"}]
      BY <2>3 DEF FetchIndex, Goto, TypeOK
    <3> QED
      BY <2>3, <3>2, <3>3 DEF FetchIndex, TypeOK
  <2>4. CASE Unsupported(i)
    BY <2>4 DEF Unsupported, Goto, TypeOK
  <2>5. CASE WaitChildren(i)
    BY <2>5 DEF WaitChildren, Goto, TypeOK
  <2>6. CASE UploadIndex(i)
    BY <2>6 DEF UploadIndex, Goto, TypeOK
  <2>7. CASE Return(i)
    <3>1. wg' \in [Nodes -> Int]
      BY <2>7, GraphAssumption DEF Return, TypeOK
    <3>2. pc' = [pc EXCEPT ![i] = "done"] \/ pc' = [pc EXCEPT ![i] = "failing"]
      BY <2>7 DEF Return, Goto
    <3>3. slot' \subseteq Nodes
      BY <2>7 DEF Return, TypeOK
    <3> QED
      BY <2>7, <3>1, <3>2, <3>3 DEF Return, TypeOK
  <2>8. CASE Report(i)
    BY <2>8 DEF Report, Goto, TypeOK
  <2> QED
    BY <1>4, <2>1, <2>2, <2>3, <2>4, <2>5, <2>6, <2>7, <2>8 DEF Process
<1> QED
  BY <1>1, <1>2, <1>3, <1>4 DEF Next

\* Build() returns last.
LEMMA EndedStep ==
  ASSUME TypeOK, Ended, [Next]_vars
  PROVE  Ended'
<1>0. Root \in Nodes
  BY GraphAssumption
<1>1. CASE Cancel
  BY <1>1, <1>0 DEF Cancel, Ended, TypeOK
<1>2. CASE BuildWait
  BY <1>2, <1>0 DEF BuildWait, Ended, TypeOK
<1>3. CASE UNCHANGED vars
  BY <1>3, <1>0 DEF vars, Ended, TypeOK
<1>4. ASSUME NEW i \in Nodes, Process(i)
      PROVE  Ended'
  <2>0. (pc[i] \notin {"idle", "done"} => result = "none") /\ Root \notin Children(i)
    BY DEF Ended, Children
  <2>1. CASE Acquire(i)
    BY <2>1, <1>0, <2>0 DEF Acquire, Goto, Ended, TypeOK
  <2>2. CASE BuildOne(i)
    <3>0. Convert(i) => DOMAIN built' = DOMAIN built \union {i}
      BY ConvertFacts
    <3> QED
      BY <1>0, <2>0, <2>2, <3>0 DEF BuildOne, Goto, Ended, TypeOK
  <2>3. CASE FetchIndex(i)
    BY <2>3, <1>0, <2>0 DEF FetchIndex, Goto, Ended, TypeOK
  <2>4. CASE Unsupported(i)
    BY <2>4, <1>0, <2>0 DEF Unsupported, Goto, Ended, TypeOK
  <2>5. CASE WaitChildren(i)
    BY <2>5, <1>0, <2>0 DEF WaitChildren, Goto, Ended, TypeOK
  <2>6. CASE UploadIndex(i)
    <3>0. Convert(i) => DOMAIN built' = DOMAIN built \union {i}
      BY ConvertFacts
    <3> QED
      BY <1>0, <2>0, <2>6, <3>0 DEF UploadIndex, Goto, Ended, TypeOK
  <2>7. CASE Return(i)
    BY <2>7, <1>0, <2>0 DEF Return, Goto, Ended, TypeOK
  <2>8. CASE Report(i)
    BY <2>8, <1>0, <2>0 DEF Report, Goto, Ended, TypeOK
  <2> QED
    BY <1>4, <2>1, <2>2, <2>3, <2>4, <2>5, <2>6, <2>7, <2>8 DEF Process
<1> QED
  BY <1>1, <1>2, <1>3, <1>4 DEF Next

\* Only manifests are converted, only indexes wait.
LEMMA KindsStep ==
  ASSUME TypeOK, Ended, NodesInv, NEW n \in Nodes, [Next]_vars
  PROVE  Kinds(n)'
<1>0. NodeInv(n) /\ Children(n) \subseteq Nodes
  BY ChildrenFacts DEF NodesInv
<1>1. CASE Cancel
  BY <1>1, <1>0 DEF Cancel, NodeInv, TypeOK, Kinds
<1>2. CASE BuildWait
  BY <1>2, <1>0 DEF BuildWait, NodeInv, TypeOK, Kinds
<1>3. CASE UNCHANGED vars
  BY <1>3, <1>0 DEF vars, NodeInv, TypeOK, Kinds
<1>4. ASSUME NEW i \in Nodes, Process(i)
      PROVE  Kinds(n)'
  <2>0. NodeInv(i) /\ Children(i) \subseteq Nodes
    BY ChildrenFacts DEF NodesInv
  <2>1. CASE Acquire(i)
    BY <2>1, <1>0, <2>0 DEF Acquire, Goto, NodeInv, TypeOK, Kinds
  <2>2. CASE BuildOne(i)
    BY <2>2, <1>0, <2>0 DEF BuildOne, Goto, NodeInv, TypeOK, Kinds
  <2>3. CASE FetchIndex(i)
    BY <2>3, <1>0, <2>0 DEF FetchIndex, Goto, NodeInv, TypeOK, Kinds
  <2>4. CASE Unsupported(i)
    BY <2>4, <1>0, <2>0 DEF Unsupported, Goto, NodeInv, TypeOK, Kinds
  <2>5. CASE WaitChildren(i)
    BY <2>5, <1>0, <2>0 DEF WaitChildren, Goto, NodeInv, TypeOK, Kinds
  <2>6. CASE UploadIndex(i)
    BY <2>6, <1>0, <2>0 DEF UploadIndex, Goto, NodeInv, TypeOK, Kinds
  <2>7. CASE Return(i)
    BY <2>7, <1>0, <2>0 DEF Return, Goto, NodeInv, TypeOK, Kinds
  <2>8. CASE Report(i)
    BY <2>8, <1>0, <2>0 DEF Report, Goto, NodeInv, TypeOK, Kinds
  <2> QED
    BY <1>4, <2>1, <2>2, <2>3, <2>4, <2>5, <2>6, <2>7, <2>8 DEF Process
<1> QED
  BY <1>1, <1>2, <1>3, <1>4 DEF Next

\* Children start when their index is fetched, and once.
LEMMA StartedStep ==
  ASSUME TypeOK, Ended, NodesInv, NEW n \in Nodes, [Next]_vars
  PROVE  Started(n)'
<1>0. NodeInv(n) /\ Children(n) \subseteq Nodes
  BY ChildrenFacts DEF NodesInv
<1>1. CASE Cancel
  BY <1>1, <1>0 DEF Cancel, NodeInv, TypeOK, Started
<1>2. CASE BuildWait
  BY <1>2, <1>0 DEF BuildWait, NodeInv, TypeOK, Started
<1>3. CASE UNCHANGED vars
  BY <1>3, <1>0 DEF vars, NodeInv, TypeOK, Started
<1>4. ASSUME NEW i \in Nodes, Process(i)
      PROVE  Started(n)'
  <2>0. NodeInv(i) /\ Children(i) \subseteq Nodes
    BY ChildrenFacts DEF NodesInv
  <2>1. CASE Acquire(i)
    BY <2>1, <1>0, <2>0 DEF Acquire, Goto, NodeInv, TypeOK, Started
  <2>2. CASE BuildOne(i)
    <3>0. Convert(i) => DOMAIN built' = DOMAIN built \union {i}
      BY ConvertFacts
    <3> QED
      BY <1>0, <2>0, <2>2, <3>0, ChildrenFacts DEF BuildOne, Goto, NodeInv, Started, Kinds, TypeOK
  <2>3. CASE FetchIndex(i)
    <3>1. CASE pc' = [pc EXCEPT ![i] = "err"]
      BY <1>0, <2>0, <2>3, <3>1 DEF FetchIndex, NodeInv, Started, TypeOK
    <3>2. CASE pc' = [m \in Nodes |->
                         IF m = i THEN "wait" ELSE IF m \in Children(i) THEN "start" ELSE pc[m]]
      <4>1. ASSUME NEW c \in Children(n)
            PROVE  pc'[c] = IF c = i THEN "wait" ELSE IF n = i THEN "start" ELSE pc[c]
        BY <1>0, <3>2 DEF Children
      <4>2. n \in Children(i) => pc[n] = "idle"
        BY <2>0, <2>3 DEF FetchIndex, NodeInv, Started
      <4>3. i \notin Children(i) /\ (i \in Children(n) => pc[n] \notin {"idle", "start"})
        BY <1>0, <2>0, <2>3 DEF FetchIndex, NodeInv, Started
      <4>4. pc'[n] = IF n = i THEN "wait" ELSE IF n \in Children(i) THEN "start" ELSE pc[n]
        BY <3>2
      <4> QED
        BY <1>0, <2>3, <4>1, <4>2, <4>3, <4>4 DEF FetchIndex, NodeInv, Started
    <3> QED
      BY <2>3, <3>1, <3>2 DEF FetchIndex, Goto
  <2>4. CASE Unsupported(i)
    BY <2>4, <1>0, <2>0 DEF Unsupported, Goto, NodeInv, TypeOK, Started
  <2>5. CASE WaitChildren(i)
    BY <2>5, <1>0, <2>0 DEF WaitChildren, Goto, NodeInv, TypeOK, Started
  <2>6. CASE UploadIndex(i)
    <3>0. Convert(i) => DOMAIN built' = DOMAIN built \union {i}
      BY ConvertFacts
    <3> QED
      BY <1>0, <2>0, <2>6, <3>0 DEF UploadIndex, Goto, NodeInv, Started, TypeOK
  <2>7. CASE Return(i)
    BY <2>7, <1>0, <2>0 DEF Return, Goto, NodeInv, TypeOK, Started
  <2>8. CASE Report(i)
    BY <2>8, <1>0, <2>0 DEF Report, Goto, NodeInv, TypeOK, Started
  <2> QED
    BY <1>4, <2>1, <2>2, <2>3, <2>4, <2>5, <2>6, <2>7, <2>8 DEF Process
<1> QED
  BY <1>1, <1>2, <1>3, <1>4 DEF Next

\* The WaitGroup counts the children that have not returned.
LEMMA CountedStep ==
  ASSUME TypeOK, Ended, NodesInv, NEW n \in Nodes, [Next]_vars
  PROVE  Counted(n)'
<1>0. NodeInv(n) /\ Children(n) \subseteq Nodes
  BY ChildrenFacts DEF NodesInv
<1>1. CASE Cancel
  BY <1>1, <1>0 DEF Cancel, NodeInv, Counted, Open, Children
<1>2. CASE BuildWait
  BY <1>2, <1>0 DEF BuildWait, NodeInv, Counted, Open, Children
<1>3. CASE UNCHANGED vars
  BY <1>3, <1>0 DEF vars, NodeInv, Counted, Open, Children
<1>4. ASSUME NEW i \in Nodes, Process(i)
      PROVE  Counted(n)'
  <2>0. NodeInv(i) /\ Children(i) \subseteq Nodes
    BY ChildrenFacts DEF NodesInv
  <2>1. CASE Acquire(i)
    <3>1. Open(n)' = Open(n)
      BY <1>0, <2>0, <2>1 DEF Acquire, Goto, Open, Children, TypeOK
    <3> QED
      BY <1>0, <2>1, <3>1 DEF Acquire, NodeInv, Counted
  <2>2. CASE BuildOne(i)
    <3>1. Open(n)' = Open(n)
      BY <1>0, <2>0, <2>2 DEF BuildOne, Goto, Open, Children, TypeOK
    <3> QED
      BY <1>0, <2>2, <3>1 DEF BuildOne, NodeInv, Counted
  <2>3. CASE FetchIndex(i)
    <3>1. CASE pc' = [pc EXCEPT ![i] = "err"] /\ wg' = wg
      <4>1. Open(n)' = Open(n)
        BY <1>0, <2>0, <2>3, <3>1 DEF FetchIndex, Open, Children, TypeOK
      <4> QED
        BY <1>0, <3>1, <4>1 DEF NodeInv, Counted
    <3>2. CASE /\ wg' = [wg EXCEPT ![i] = Cardinality(Children(i))]
               /\ pc' = [m \in Nodes |->
                           IF m = i THEN "wait" ELSE IF m \in Children(i) THEN "start" ELSE pc[m]]
      <4>1. ASSUME NEW c \in Children(n)
            PROVE  pc'[c] = IF c = i THEN "wait" ELSE IF n = i THEN "start" ELSE pc[c]
        BY <1>0, <3>2 DEF Children
      <4>2. n = i => Open(n)' = Children(n)
        BY <4>1 DEF Open, Children
      <4>3. n # i => Open(n)' = Open(n)
        BY <2>3, <4>1 DEF FetchIndex, Open, Children
      <4> QED
        BY <1>0, <3>2, <4>2, <4>3 DEF NodeInv, Counted, TypeOK
    <3> QED
      BY <2>3, <3>1, <3>2 DEF FetchIndex, Goto
  <2>4. CASE Unsupported(i)
    <3>1. Open(n)' = Open(n)
      BY <1>0, <2>0, <2>4 DEF Unsupported, Goto, Open, Children, TypeOK
    <3> QED
      BY <1>0, <2>4, <3>1 DEF Unsupported, NodeInv, Counted
  <2>5. CASE WaitChildren(i)
    <3>1. Open(n)' = Open(n)
      BY <1>0, <2>0, <2>5 DEF WaitChildren, Goto, Open, Children, TypeOK
    <3> QED
      BY <1>0, <2>5, <3>1 DEF WaitChildren, NodeInv, Counted
  <2>6. CASE UploadIndex(i)
    <3>1. Open(n)' = Open(n)
      BY <1>0, <2>0, <2>6 DEF UploadIndex, Goto, Open, Children, TypeOK
    <3> QED
      BY <1>0, <2>6, <3>1 DEF UploadIndex, NodeInv, Counted
  <2>7. CASE Return(i)
    <3>1. pc'[i] \in {"failing", "done"} /\ \A k \in Nodes : k # i => pc'[k] = pc[k]
      BY <2>7 DEF Return, Goto, TypeOK
    <3>2. CASE i \in Children(n)
      <4>1. Open(n)' = Open(n) \ {i} /\ i \in Open(n)
        BY <1>0, <2>7, <3>1, <3>2 DEF Return, Open, Children
      <4>2. i # Root /\ Parent[i] = n
        BY <3>2 DEF Children
      <4>3. wg'[n] = wg[n] - 1
        BY <2>7, <4>2 DEF Return, TypeOK
      <4>4. Cardinality(Open(n) \ {i}) = Cardinality(Open(n)) - 1
        BY <4>1, ChildrenFacts, FS_RemoveElement
      <4> QED
        BY <1>0, <4>1, <4>3, <4>4 DEF NodeInv, Counted
    <3>3. CASE i \notin Children(n)
      <4>1. Open(n)' = Open(n)
        BY <1>0, <3>1, <3>3 DEF Open, Children
      <4>2. i = Root \/ Parent[i] # n
        BY <3>3 DEF Children
      <4>3. wg'[n] = wg[n]
        BY <2>7, <4>2 DEF Return, TypeOK
      <4> QED
        BY <1>0, <4>1, <4>3 DEF NodeInv, Counted
    <3> QED
      BY <3>2, <3>3
  <2>8. CASE Report(i)
    <3>1. Open(n)' = Open(n)
      BY <1>0, <2>0, <2>8 DEF Report, Goto, Open, Children, TypeOK
    <3> QED
      BY <1>0, <2>8, <3>1 DEF Report, NodeInv, Counted
  <2> QED
    BY <1>4, <2>1, <2>2, <2>3, <2>4, <2>5, <2>6, <2>7, <2>8 DEF Process
<1> QED
  BY <1>1, <1>2, <1>3, <1>4 DEF Next

\* An index is pushed after its children have returned.
LEMMA JoinedStep ==
  ASSUME TypeOK, Ended, NodesInv, NEW n \in Nodes, [Next]_vars
  PROVE  Joined(n)'
<1>0. NodeInv(n) /\ Children(n) \subseteq Nodes
  BY ChildrenFacts DEF NodesInv
<1>1. CASE Cancel
  BY <1>1, <1>0 DEF Cancel, NodeInv, TypeOK, Joined, Started
<1>2. CASE BuildWait
  BY <1>2, <1>0 DEF BuildWait, NodeInv, TypeOK, Joined, Started
<1>3. CASE UNCHANGED vars
  BY <1>3, <1>0 DEF vars, NodeInv, TypeOK, Joined, Started
<1>4. ASSUME NEW i \in Nodes, Process(i)
      PROVE  Joined(n)'
  <2>0. NodeInv(i) /\ Children(i) \subseteq Nodes
    BY ChildrenFacts DEF NodesInv
  <2>1. CASE Acquire(i)
    BY <2>1, <1>0, <2>0 DEF Acquire, Goto, NodeInv, TypeOK, Joined, Started
  <2>2. CASE BuildOne(i)
    BY <2>2, <1>0, <2>0 DEF BuildOne, Goto, NodeInv, TypeOK, Joined, Started
  <2>3. CASE FetchIndex(i)
    BY <2>3, <1>0, <2>0 DEF FetchIndex, Goto, NodeInv, TypeOK, Joined, Started
  <2>4. CASE Unsupported(i)
    BY <2>4, <1>0, <2>0 DEF Unsupported, Goto, NodeInv, TypeOK, Joined, Started
  <2>5. CASE WaitChildren(i)
    <3>1. CASE i = n
      <4>1. Open(n) = {}
        BY <1>0, <2>5, <3>1, ChildrenFacts, FS_EmptySet DEF WaitChildren, NodeInv, Counted
      <4>2. ASSUME NEW c \in Children(n) PROVE pc[c] \in {"failing", "done"}
        BY <1>0, <2>5, <3>1, <4>1 DEF WaitChildren, NodeInv, Started, Open, TypeOK
      <4>3. ASSUME NEW c \in Children(n) PROVE pc'[c] = pc[c]
        BY <1>0, <2>5, <3>1, <4>2 DEF WaitChildren, Goto, TypeOK
      <4> QED
        BY <4>2, <4>3 DEF Joined, Children
    <3>2. CASE i # n
      BY <1>0, <2>5, <3>2 DEF WaitChildren, Goto, NodeInv, Joined, Children, TypeOK
    <3> QED
      BY <3>1, <3>2
  <2>6. CASE UploadIndex(i)
    BY <2>6, <1>0, <2>0 DEF UploadIndex, Goto, NodeInv, TypeOK, Joined, Started
  <2>7. CASE Return(i)
    BY <2>7, <1>0, <2>0 DEF Return, Goto, NodeInv, TypeOK, Joined, Started
  <2>8. CASE Report(i)
    BY <2>8, <1>0, <2>0 DEF Report, Goto, NodeInv, TypeOK, Joined, Started
  <2> QED
    BY <1>4, <2>1, <2>2, <2>3, <2>4, <2>5, <2>6, <2>7, <2>8 DEF Process
<1> QED
  BY <1>1, <1>2, <1>3, <1>4 DEF Next

\* Slots hold what was converted.
LEMMA DeliveredStep ==
  ASSUME TypeOK, Ended, NodesInv, NEW n \in Nodes, [Next]_vars
  PROVE  Delivered(n)'
<1>0. NodeInv(n) /\ Children(n) \subseteq Nodes
  BY ChildrenFacts DEF NodesInv
<1>1. CASE Cancel
  BY <1>1, <1>0 DEF Cancel, NodeInv, TypeOK, Delivered, Given
<1>2. CASE BuildWait
  BY <1>2, <1>0 DEF BuildWait, NodeInv, TypeOK, Delivered, Given
<1>3. CASE UNCHANGED vars
  BY <1>3, <1>0 DEF vars, NodeInv, TypeOK, Delivered, Given
<1>4. ASSUME NEW i \in Nodes, Process(i)
      PROVE  Delivered(n)'
  <2>0. NodeInv(i) /\ Children(i) \subseteq Nodes
    BY ChildrenFacts DEF NodesInv
  <2>1. CASE Acquire(i)
    BY <2>1, <1>0, <2>0 DEF Acquire, Goto, NodeInv, TypeOK, Delivered, Given
  <2>2. CASE BuildOne(i)
    <3>0. Convert(i) => DOMAIN built' = DOMAIN built \union {i}
      BY ConvertFacts
    <3> QED
      BY <1>0, <2>0, <2>2, <3>0 DEF BuildOne, Goto, NodeInv, Delivered, Given, Kinds, TypeOK
  <2>3. CASE FetchIndex(i)
    BY <2>3, <1>0, <2>0 DEF FetchIndex, Goto, NodeInv, TypeOK, Delivered, Given
  <2>4. CASE Unsupported(i)
    BY <2>4, <1>0, <2>0 DEF Unsupported, Goto, NodeInv, TypeOK, Delivered, Given
  <2>5. CASE WaitChildren(i)
    BY <2>5, <1>0, <2>0 DEF WaitChildren, Goto, NodeInv, TypeOK, Delivered, Given
  <2>6. CASE UploadIndex(i)
    <3>0. Convert(i) => DOMAIN built' = DOMAIN built \union {i}
      BY ConvertFacts
    <3> QED
      BY <1>0, <2>0, <2>6, <3>0 DEF UploadIndex, Goto, NodeInv, Delivered, Given, TypeOK
  <2>7. CASE Return(i)
    BY <2>7, <1>0, <2>0 DEF Return, Goto, NodeInv, TypeOK, Delivered, Given
  <2>8. CASE Report(i)
    BY <2>8, <1>0, <2>0 DEF Report, Goto, NodeInv, TypeOK, Delivered, Given
  <2> QED
    BY <1>4, <2>1, <2>2, <2>3, <2>4, <2>5, <2>6, <2>7, <2>8 DEF Process
<1> QED
  BY <1>1, <1>2, <1>3, <1>4 DEF Next

\* An incomplete index has a child that failed.
LEMMA ExcusedStep ==
  ASSUME TypeOK, Ended, NodesInv, NEW n \in Nodes, [Next]_vars
  PROVE  Excused(n)'
<1>0. NodeInv(n) /\ Children(n) \subseteq Nodes
  BY ChildrenFacts DEF NodesInv
<1>1. CASE Cancel
  BY <1>1, <1>0 DEF Cancel, NodeInv, TypeOK, Excused, Children
<1>2. CASE BuildWait
  BY <1>2, <1>0 DEF BuildWait, NodeInv, TypeOK, Excused, Children
<1>3. CASE UNCHANGED vars
  BY <1>3, <1>0 DEF vars, NodeInv, TypeOK, Excused, Children
<1>4. ASSUME NEW i \in Nodes, Process(i)
      PROVE  Excused(n)'
  <2>0. NodeInv(i) /\ Children(i) \subseteq Nodes
    BY ChildrenFacts DEF NodesInv
  <2>1. CASE Acquire(i)
    BY <2>1, <1>0, <2>0 DEF Acquire, Goto, NodeInv, TypeOK, Excused, Children
  <2>2. CASE BuildOne(i)
    <3>0. ASSUME NEW c \in Children(n), pc[c] = "failing" PROVE pc'[c] = "failing"
      BY <1>0, <2>2, <3>0 DEF BuildOne, Goto, TypeOK
    <3>1. CASE Convert(i) /\ n = i
      <4>1. Children(n) = {}
        BY <2>0, <2>2, <3>1, ChildrenFacts DEF BuildOne, NodeInv, Kinds
      <4>2. built'[n] = {}
        BY <3>1, <4>1, ConvertFacts
      <4> QED
        BY <4>1, <4>2 DEF Excused, Children
    <3>2. CASE Convert(i) /\ n # i
      <4>0. /\ DOMAIN built' = DOMAIN built \union {i}
            /\ \A m \in DOMAIN built : m # i => built'[m] = built[m]
        BY <3>2, ConvertFacts
      <4>1. n \in DOMAIN built' => n \in DOMAIN built /\ built'[n] = built[n]
        BY <3>2, <4>0
      <4> QED
        BY <1>0, <2>2, <3>0, <4>1 DEF BuildOne, NodeInv, Excused, Children
    <3>3. CASE UNCHANGED built
      BY <1>0, <2>2, <3>0, <3>3 DEF BuildOne, NodeInv, Excused, Children
    <3> QED
      BY <2>2, <3>1, <3>2, <3>3 DEF BuildOne
  <2>3. CASE FetchIndex(i)
    <3>0. ASSUME NEW c \in Children(n), pc[c] = "failing" PROVE pc'[c] = "failing"
      BY <1>0, <2>0, <2>3, <3>0 DEF FetchIndex, Goto, NodeInv, Started, TypeOK
    <3> QED
      BY <1>0, <2>3, <3>0 DEF FetchIndex, NodeInv, Excused, Children
  <2>4. CASE Unsupported(i)
    BY <2>4, <1>0, <2>0 DEF Unsupported, Goto, NodeInv, TypeOK, Excused, Children
  <2>5. CASE WaitChildren(i)
    BY <2>5, <1>0, <2>0 DEF WaitChildren, Goto, NodeInv, TypeOK, Excused, Children
  <2>6. CASE UploadIndex(i)
    <3>0. ASSUME NEW c \in Children(n), pc[c] = "failing" PROVE pc'[c] = "failing"
      BY <1>0, <2>6, <3>0 DEF UploadIndex, Goto, TypeOK
    <3>1. CASE Convert(i) /\ n = i
      <4>1. built'[n] = slot \intersect Children(n)
        BY <3>1, ConvertFacts
      <4>2. ASSUME NEW c \in Children(n), c \notin slot PROVE err \/ pc[c] = "failing"
        BY <1>0, <2>6, <3>1, <4>2 DEF UploadIndex, NodesInv, NodeInv, Joined, Delivered
      <4>3. err' = err
        BY <2>6 DEF UploadIndex
      <4>4. SUFFICES ASSUME built'[n] # Children(n)
                     PROVE  err' \/ \E c \in Children(n) : pc'[c] = "failing"
        BY DEF Excused, Children
      <4>5. PICK c \in Children(n) : c \notin slot
        BY <4>1, <4>4
      <4> QED
        BY <3>0, <4>2, <4>3, <4>5
    <3>2. CASE Convert(i) /\ n # i
      <4>0. /\ DOMAIN built' = DOMAIN built \union {i}
            /\ \A m \in DOMAIN built : m # i => built'[m] = built[m]
        BY <3>2, ConvertFacts
      <4>1. n \in DOMAIN built' => n \in DOMAIN built /\ built'[n] = built[n]
        BY <3>2, <4>0
      <4> QED
        BY <1>0, <2>6, <3>0, <4>1 DEF UploadIndex, NodeInv, Excused, Children
    <3>3. CASE UNCHANGED built
      BY <1>0, <2>6, <3>0, <3>3 DEF UploadIndex, NodeInv, Excused, Children
    <3> QED
      BY <2>6, <3>1, <3>2, <3>3 DEF UploadIndex
  <2>7. CASE Return(i)
    BY <2>7, <1>0, <2>0 DEF Return, Goto, NodeInv, TypeOK, Excused, Children
  <2>8. CASE Report(i)
    BY <2>8, <1>0, <2>0 DEF Report, Goto, NodeInv, TypeOK, Excused, Children
  <2> QED
    BY <1>4, <2>1, <2>2, <2>3, <2>4, <2>5, <2>6, <2>7, <2>8 DEF Process
<1> QED
  BY <1>1, <1>2, <1>3, <1>4 DEF Next

LEMMA InitInv ==
  Init => Inv
<1> SUFFICES ASSUME Init PROVE Inv
  OBVIOUS
<1>1. TypeOK
  <2>1. {ctx, err} \subseteq BOOLEAN
    BY Zenon DEF Init
  <2> QED
    BY <2>1 DEF Init, TypeOK
<1>2. Ended
  BY GraphAssumption DEF Init, Ended
<1>3. ASSUME NEW n \in Nodes PROVE NodeInv(n)
  <2>1. Children(n) \subseteq Nodes /\ Root \notin Children(n)
    BY <1>1, ChildrenFacts
  <2>2. Open(n) = {}
    BY <2>1 DEF Init, Open
  <2>3. Counted(n)
    BY <2>2, FS_EmptySet DEF Init, Counted
  <2> QED
    BY <2>1, <2>3 DEF Init, NodeInv, Kinds, Started, Joined, Delivered, Excused
<1> QED
  BY <1>1, <1>2, <1>3 DEF Inv, NodesInv

LEMMA InvStep ==
  ASSUME Inv, [Next]_vars
  PROVE  Inv'
<1>1. TypeOK /\ Ended /\ NodesInv
  BY DEF Inv
<1>2. TypeOK' /\ Ended'
  BY <1>1, TypeStep, EndedStep
<1>3. ASSUME NEW n \in Nodes PROVE NodeInv(n)'
  BY <1>1, KindsStep, StartedStep, CountedStep, JoinedStep, DeliveredStep, ExcusedStep
     DEF NodeInv
<1> QED
  BY <1>2, <1>3 DEF Inv, NodesInv

LEMMA Invariance ==
  Spec => []Inv
  BY InitInv, InvStep, PTL DEF Spec

-----------------------------------------------------------------------------
(* The theorems *)

\* Every variable of the conversion of an index keeps its type.
THEOREM GraphTypes ==
  Spec => []TypeOK
<1>1. Inv => TypeOK
  BY DEF Inv
<1> QED
  BY <1>1, Invariance, PTL

\* graphBuilder.process() pushes an index with a descriptor of the source in
\* it only after a goroutine has failed: the errgroup knows of a failure, or a
\* child of that index is about to report one.
THEOREM IncompleteNeedsError ==
  Spec => []IncompleteOnlyOnError
<1>1. Inv => IncompleteOnlyOnError
  BY DEF Inv, Ended, NodesInv, NodeInv, Excused, IncompleteOnlyOnError
<1> QED
  BY <1>1, Invariance, PTL

\* graphBuilder.Build() of any tree of indexes returns without an error only
\* when all of the tree is converted and listed in its index, and all of it is
\* pushed, except the manifests when noUpload is set.  By the closure of the set
\* of finished descriptors under children.
THEOREM SuccessMeansConverted ==
  Spec => []OkMeansConverted
<1>1. Inv => OkMeansConverted
  <2>1. SUFFICES ASSUME Inv, result = "ok"
                 PROVE  \A n \in Nodes : n \in DOMAIN built /\ built[n] = Children(n) /\ Given(n)
    BY DEF OkMeansConverted, Given
  <2>2. TypeOK /\ ~err /\ pc[Root] # "idle" /\ \A n \in Nodes : pc[n] \in {"idle", "done"}
    BY <2>1 DEF Inv, Ended
  <2> DEFINE S == {n \in Nodes : pc[n] = "done"}
  <2>3. ASSUME NEW n \in S PROVE n \in DOMAIN built /\ Given(n)
    BY <2>1, <2>2 DEF Inv, NodesInv, NodeInv, Delivered
  <2>4. ASSUME NEW n \in S PROVE Children(n) \subseteq S
    <3>1. Children(n) \subseteq Nodes
      BY DEF Children
    <3>2. \A c \in Children(n) : pc[c] # "idle"
      BY <2>1, <2>3 DEF Inv, NodesInv, NodeInv, Started
    <3> QED
      BY <2>2, <3>1, <3>2
  <2>5. Root \in S
    BY <2>2, GraphAssumption
  <2>6. S = Nodes
    <3>1. S \in SUBSET Nodes
      OBVIOUS
    <3> HIDE DEF S
    <3> QED
      BY <2>4, <2>5, <3>1, GraphAssumption
  <2>7. ASSUME NEW n \in Nodes
        PROVE  n \in DOMAIN built /\ built[n] = Children(n) /\ Given(n)
    <3>1. n \in DOMAIN built /\ Given(n)
      BY <2>3, <2>6
    <3>2. \A c \in Children(n) : pc[c] # "failing"
      BY <2>2 DEF Children
    <3> QED
      BY <2>1, <2>2, <3>1, <3>2 DEF Inv, NodesInv, NodeInv, Excused
  <2> QED
    BY <2>7
<1> QED
  BY <1>1, Invariance, PTL

=============================================================================
