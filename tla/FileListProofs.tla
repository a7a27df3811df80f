--------------------------- MODULE FileListProofs ---------------------------
(***************************************************************************)
(* Proofs about the linked list of tomypeersV2.c: while main's list is the *)
(* one it should be (no connection has found a list that was freed), its   *)
(* nodes hold the listing, freelist returns all of them, and the list      *)
(* implements ListSpec.  For any heap, listings and number of connections. *)
(***************************************************************************)
EXTENDS FileList, DataLemmas, FiniteSetTheorems, FunctionTheorems

\* Address b is one of the nodes c.
In(b, c) == \E i \in 1..Len(c) : c[i] = b

\* In memory h the list that begins at a has the nodes c, all of them in use.
IsList(h, c, a) ==
  /\ a = IF Len(c) = 0 THEN NULL ELSE c[1]
  /\ \A i, j \in 1..Len(c) : c[i] = c[j] => i = j
  /\ \A i \in 1..Len(c) :
       h[c[i]].live /\ h[c[i]].next = IF i < Len(c) THEN c[i + 1] ELSE NULL

(***************************************************************************)
(* The nodes c store the first lines of the listing, the node under way    *)
(* stores the next one, and strtok still has the others.                   *)
(***************************************************************************)
UnderWay == pc \in {"link", "walk"}
Taken(c) == IF UnderWay THEN Len(c) + 1 ELSE Len(c)

Filled(c) ==
  /\ \A i \in 1..Len(c) : heap[c[i]].file = listing[i]
  /\ Len(listing) = Taken(c) + Len(todo)
  /\ \A i \in 1..Len(todo) : todo[i] = listing[Taken(c) + i]

\* The node createNode made and appendNode has not linked yet.
Fresh(c) ==
  UnderWay => /\ new \in Addr /\ ~ In(new, c)
              /\ heap[new] = [live |-> TRUE, file |-> listing[Len(c) + 1], next |-> NULL]

\* The memory in use is that of the list, and of the node under way.
InUse(c) == \A b \in Addr : heap[b].live <=> (In(b, c) \/ (UnderWay /\ b = new))

Built(c) ==
  /\ IsList(heap, c, start)
  /\ Filled(c)
  /\ Fresh(c)
  /\ InUse(c)
  /\ pc = "walk" => In(temp, c)
  /\ pc = "download" => todo = <<>>

\* What freelist has not returned yet is a list; main's start is its head, or
\* was returned.
Freeing(c) ==
  /\ IsList(heap, c, temp)
  /\ InUse(c)
  /\ start # temp => start \in Addr /\ ~ heap[start].live

ListInv ==
  ~ stale =>
    /\ pc \in {"menu", "recv"} => \A b \in Addr : ~ heap[b].live
    /\ pc = "recv" => start = NULL
    /\ pc \in {"append", "link", "walk", "download"} => \E c \in Seq(Addr) : Built(c)
    /\ pc = "free" => \E c \in Seq(Addr) : Freeing(c)
-----------------------------------------------------------------------------
(***************************************************************************)
(* Types.                                                                  *)
(***************************************************************************)
LEMMA ListTypeInit == Init => TypeOK
<1> SUFFICES ASSUME Init
             PROVE  TypeOK
  OBVIOUS
<1>1. heap \in [Addr -> Memory]
  BY DEF Init
<1>2. todo \in Seq(Files) /\ listing \in Seq(Files)
  BY DEF Init
<1>3. pc = "menu" /\ start \in Pointer /\ new \in Pointer /\ temp \in Pointer
  BY DEF Init, Pointer
<1>4. connects \in 0..MaxConnects
  BY HeapAssumption DEF Init
<1>5. stale \in BOOLEAN
  BY DEF Init
<1> QED
  BY <1>1, <1>2, <1>3, <1>4, <1>5 DEF TypeOK

LEMMA ListTypeStep ==
  ASSUME TypeOK, [Next]_vars
  PROVE  TypeOK'
<1> USE DEF TypeOK, Pointer
<1>1. CASE createNode
  <2>1. PICK a \in Addr : new' = a /\ heap' = [heap EXCEPT ![a] = NodeFor(a, Head(todo))]
    BY <1>1 DEF createNode
  <2>2. todo \in Seq(Files) /\ todo # <<>>
    BY <1>1 DEF createNode
  <2>3. Head(todo) \in Files /\ Tail(todo) \in Seq(Files)
    BY <2>2, HeadTailProperties
  <2>4. NodeFor(a, Head(todo)) \in Memory
    BY <2>3 DEF NodeFor, Memory
  <2>5. heap' \in [Addr -> Memory]
    BY <2>1, <2>4
  <2> QED
    BY <1>1, <2>1, <2>3, <2>5 DEF createNode
<1>2. CASE LinkLast
  <2>1. temp \in Addr /\ heap[temp] \in Memory /\ new \in Pointer
    BY <1>2 DEF LinkLast
  <2>2. [heap[temp] EXCEPT !.next = new] \in Memory
    BY <2>1 DEF Memory
  <2>3. heap' = [heap EXCEPT ![temp] = [heap[temp] EXCEPT !.next = new]]
    BY <1>2, <2>1 DEF LinkLast
  <2>4. heap' \in [Addr -> Memory]
    BY <2>1, <2>2, <2>3
  <2> QED
    BY <1>2, <2>4 DEF LinkLast
<1>3. CASE freelist
  <2>1. temp \in Addr /\ heap[temp].next \in Pointer
    BY <1>3 DEF freelist, Memory
  <2>2. heap' \in [Addr -> Memory]
    BY <1>3 DEF freelist
  <2> QED
    BY <1>3, <2>1, <2>2 DEF freelist, NextToFree
<1>4. CASE Walk
  <2>1. temp \in Addr /\ heap[temp].next \in Pointer /\ heap[temp].next # NULL
    BY <1>4 DEF Walk, AtEnd, Memory
  <2> QED
    BY <1>4, <2>1 DEF Walk
<1>5. CASE RecvList
  BY <1>5, HeapAssumption DEF RecvList
<1>6. CASE MallocFails \/ LinkFirst \/ StartWalk \/ PrintList \/ FreeDone \/ UseAfterFree
  BY <1>6 DEF MallocFails, LinkFirst, StartWalk, PrintList, FreeDone, UseAfterFree
<1>7. CASE CommandConnect
  BY <1>7, HeapAssumption DEF CommandConnect
<1>8. CASE CommandOther \/ Leave
  BY <1>8 DEF CommandOther, Leave
<1>9. CASE UNCHANGED vars
  BY <1>9 DEF vars
<1> QED
  BY <1>1, <1>2, <1>3, <1>4, <1>5, <1>6, <1>7, <1>8, <1>9 DEF Next, Program

\* appendNode and freelist never follow a null pointer, even in a list that was
\* freed: for any heap and listings.
THEOREM ListTypes == Spec => []TypeOK
<1>1. TypeOK /\ [Next]_vars => TypeOK'
  BY ListTypeStep
<1> QED
  BY ListTypeInit, <1>1, PTL DEF Spec
-----------------------------------------------------------------------------
(***************************************************************************)
(* Following next.                                                         *)
(***************************************************************************)

\* f is the walk of m steps from a.
IsWalk(f, h, a, m) ==
  f = [k \in 0..m |-> IF k = 0 THEN a ELSE IF f[k - 1] = NULL THEN NULL ELSE h[f[k - 1]].next]

LEMMA Bound == Cardinality(Addr) \in Nat /\ Steps = 0..Cardinality(Addr)
  BY HeapAssumption, FS_CardinalityType DEF Steps

LEMMA WalkExists ==
  ASSUME NEW h, NEW a, NEW n \in Nat
  PROVE  \E f : IsWalk(f, h, a, n)
<1> DEFINE Bad == {m \in Nat : ~ \E f : IsWalk(f, h, a, m)}
<1>1. Bad = {}
  <2> SUFFICES ASSUME Bad # {}
               PROVE  FALSE
    OBVIOUS
  <2>1. Bad \in SUBSET Nat
    OBVIOUS
  <2> HIDE DEF Bad
  <2>2. PICK m \in Bad : \A k \in Bad : m <= k
    BY <2>1, LeastIndex
  <2> USE DEF Bad
  <2>3. m # 0
    <3>1. IsWalk([k \in 0..0 |-> a], h, a, 0)
      BY DEF IsWalk
    <3> QED
      BY <3>1
  <2>4. m \in Nat /\ m - 1 \in Nat /\ m - 1 \notin Bad
    BY <2>2, <2>3
  <2>5. PICK f : IsWalk(f, h, a, m - 1)
    BY <2>4
  <2> DEFINE g == [k \in 0..m |-> IF k = m THEN IF f[m - 1] = NULL THEN NULL ELSE h[f[m - 1]].next
                                  ELSE f[k]]
  <2>6. \A k \in 0..m :
          g[k] = IF k = 0 THEN a ELSE IF g[k - 1] = NULL THEN NULL ELSE h[g[k - 1]].next
    <3> SUFFICES ASSUME NEW k \in 0..m
                 PROVE  g[k] = IF k = 0 THEN a
                               ELSE IF g[k - 1] = NULL THEN NULL ELSE h[g[k - 1]].next
      OBVIOUS
    <3>1. CASE k = m
      <4>1. /\ g[m - 1] = f[m - 1]
            /\ g[m] = IF f[m - 1] = NULL THEN NULL ELSE h[f[m - 1]].next
        BY <2>4
      <4> QED
        BY <2>3, <3>1, <4>1
    <3>2. CASE k # m
      <4>1. k \in 0..(m - 1) /\ g[k] = f[k] /\ (k # 0 => g[k - 1] = f[k - 1])
        BY <2>4, <3>2
      <4>2. f[k] = IF k = 0 THEN a ELSE IF f[k - 1] = NULL THEN NULL ELSE h[f[k - 1]].next
        BY <2>5, <4>1 DEF IsWalk
      <4> QED
        BY <4>1, <4>2
    <3> QED
      BY <3>1, <3>2
  <2>7. IsWalk(g, h, a, m)
    BY <2>6 DEF IsWalk
  <2> QED
    BY <2>2, <2>7
<1> QED
  BY <1>1

\* Follow is that walk, for as many steps as there are addresses.
LEMMA FollowWalks ==
  ASSUME NEW h, NEW a
  PROVE  \A k \in Steps : Follow(h, a)[k] =
           IF k = 0 THEN a
           ELSE IF Follow(h, a)[k - 1] = NULL THEN NULL ELSE h[Follow(h, a)[k - 1]].next
<1> DEFINE f == CHOOSE g : IsWalk(g, h, a, Cardinality(Addr))
<1>1. IsWalk(f, h, a, Cardinality(Addr))
  BY Bound, WalkExists
<1>2. Follow(h, a) = f
  BY Bound DEF Follow, IsWalk
<1>3. \A k \in Steps : f[k] = IF k = 0 THEN a
                              ELSE IF f[k - 1] = NULL THEN NULL ELSE h[f[k - 1]].next
  BY <1>1, Bound DEF IsWalk
<1> QED
  BY <1>2, <1>3

\* A list whose head was freed is dangling.
LEMMA FreedHead ==
  ASSUME NEW h, NEW a \in Addr, ~ h[a].live
  PROVE  Dangling(h, a)
<1>1. 0 \in Steps
  BY Bound
<1>2. Follow(h, a)[0] = a
  BY <1>1, FollowWalks
<1>3. a # NULL
  BY HeapAssumption
<1> QED
  BY <1>1, <1>2, <1>3 DEF Dangling, Visited

\* A list has no more nodes than there are addresses.
LEMMA ListFits ==
  ASSUME NEW h, NEW c \in Seq(Addr), NEW a, IsList(h, c, a)
  PROVE  Len(c) \in Nat /\ Len(c) <= Cardinality(Addr)
<1>1. Len(c) \in Nat /\ c \in [1..Len(c) -> Addr]
  BY LenProperties
<1>2. c \in Injection(1..Len(c), Addr)
  BY <1>1 DEF IsList, Injection, IsInjective
<1>3. Cardinality(1..Len(c)) <= Cardinality(Addr)
  BY <1>2, FS_Injection, HeapAssumption
<1>4. Cardinality(1..Len(c)) = IF 1 > Len(c) THEN 0 ELSE Len(c) - 1 + 1
  BY <1>1, FS_Interval
<1> QED
  BY <1>1, <1>3, <1>4, Bound

\* Following next in a list visits its nodes in order, and ends.
LEMMA ListFollowed ==
  ASSUME NEW h, NEW c \in Seq(Addr), NEW a, IsList(h, c, a)
  PROVE  \A k \in Steps : Follow(h, a)[k] = IF k < Len(c) THEN c[k + 1] ELSE NULL
<1> DEFINE f == Follow(h, a)
           Bad == {k \in Steps : f[k] # IF k < Len(c) THEN c[k + 1] ELSE NULL}
<1>1. \A k \in Steps : f[k] = IF k = 0 THEN a
                              ELSE IF f[k - 1] = NULL THEN NULL ELSE h[f[k - 1]].next
  BY FollowWalks
<1>2. Len(c) \in Nat /\ \A i \in 1..Len(c) : c[i] \in Addr /\ c[i] # NULL
  BY HeapAssumption, LenProperties, ElementOfSeq
<1>3. /\ a = IF Len(c) = 0 THEN NULL ELSE c[1]
      /\ \A i \in 1..Len(c) : h[c[i]].next = IF i < Len(c) THEN c[i + 1] ELSE NULL
  BY DEF IsList
<1> HIDE DEF f
<1>4. Bad = {}
  <2> SUFFICES ASSUME Bad # {}
               PROVE  FALSE
    OBVIOUS
  <2>1. Bad \in SUBSET Nat
    BY Bound
  <2> HIDE DEF Bad
  <2>2. PICK m \in Bad : \A k \in Bad : m <= k
    BY <2>1, LeastIndex
  <2> USE DEF Bad
  <2>3. m # 0
    BY <1>1, <1>2, <1>3
  <2>4. m \in Nat /\ m - 1 \in Steps /\ m - 1 \notin Bad
    BY <2>2, <2>3, Bound
  <2>5. f[m] = IF f[m - 1] = NULL THEN NULL ELSE h[f[m - 1]].next
    BY <1>1, <2>3
  <2>6. f[m - 1] = IF m - 1 < Len(c) THEN c[m] ELSE NULL
    BY <2>4
  <2>7. CASE m - 1 < Len(c)
    <3>1. m \in 1..Len(c) /\ f[m - 1] = c[m] /\ c[m] # NULL
      BY <1>2, <2>3, <2>4, <2>6, <2>7
    <3>2. f[m] = IF m < Len(c) THEN c[m + 1] ELSE NULL
      BY <1>3, <2>5, <3>1
    <3> QED
      BY <3>2
  <2>8. CASE ~ (m - 1 < Len(c))
    BY <1>2, <2>4, <2>5, <2>6, <2>8
  <2> QED
    BY <2>7, <2>8
<1> QED
  BY <1>4 DEF f

\* What the loops over a list find: its end, memory in use, the files in order.
LEMMA ListContents ==
  ASSUME NEW h, NEW c \in Seq(Addr), NEW a, IsList(h, c, a)
  PROVE  /\ Ends(h, a)
         /\ ~ Dangling(h, a)
         /\ Contents(h, a) = [i \in 1..Len(c) |-> h[c[i]].file]
<1> DEFINE f == Follow(h, a)
           N == Cardinality(Addr)
<1>1. \A k \in Steps : f[k] = IF k < Len(c) THEN c[k + 1] ELSE NULL
  BY ListFollowed
<1>2. Len(c) \in Nat /\ Len(c) <= N
  BY ListFits
<1>3. N \in Nat /\ Steps = 0..N
  BY Bound
<1>4. \A i \in 1..Len(c) : c[i] # NULL /\ h[c[i]].live
  BY HeapAssumption, ElementOfSeq DEF IsList
<1> HIDE DEF f, N
<1>5. {k \in Steps : f[k] # NULL} = 0..(Len(c) - 1)
  <2>1. \A k \in Steps : k < Len(c) => k + 1 \in 1..Len(c)
    BY <1>2, <1>3
  <2>2. \A k \in Steps : f[k] # NULL <=> k < Len(c)
    BY <1>1, <1>4, <2>1
  <2>3. \A k : k \in 0..(Len(c) - 1) <=> k \in Steps /\ k < Len(c)
    BY <1>2, <1>3
  <2> QED
    BY <2>2, <2>3
<1>6. Visited(h, a) = 0..(Len(c) - 1)
  BY <1>5 DEF Visited, f
<1>7. Cardinality(0..(Len(c) - 1)) = Len(c)
  <2>1. 0 \in Int /\ Len(c) - 1 \in Int
    BY <1>2
  <2>2. Cardinality(0..(Len(c) - 1)) = IF 0 > Len(c) - 1 THEN 0 ELSE Len(c) - 1 - 0 + 1
    BY <2>1, FS_Interval
  <2> QED
    BY <1>2, <2>2
<1>8. \A k \in 0..(Len(c) - 1) : f[k] = c[k + 1] /\ k + 1 \in 1..Len(c)
  BY <1>1, <1>2, <1>3
<1>9. Ends(h, a)
  <2>1. Len(c) \in Steps /\ f[Len(c)] = NULL
    BY <1>1, <1>2, <1>3
  <2> QED
    BY <2>1 DEF Ends, f
<1>10. ~ Dangling(h, a)
  BY <1>4, <1>6, <1>8 DEF Dangling, f
<1>11. Contents(h, a) = [i \in 1..Len(c) |-> h[f[i - 1]].file]
  BY <1>6, <1>7 DEF Contents, f
<1>12. \A i \in 1..Len(c) : f[i - 1] = c[i]
  BY <1>2, <1>8
<1> QED
  BY <1>9, <1>10, <1>11, <1>12
-----------------------------------------------------------------------------
(***************************************************************************)
(* What createNode, appendNode and freelist do to a list.                  *)
(***************************************************************************)
LEMMA NodesOf ==
  ASSUME NEW c \in Seq(Addr)
  PROVE  /\ Len(c) \in Nat
         /\ \A i \in 1..Len(c) : c[i] \in Addr /\ c[i] # NULL /\ In(c[i], c)
         /\ \A b : In(b, c) => b \in Addr
  BY HeapAssumption, LenProperties, ElementOfSeq DEF In

\* A list stays as it is when other memory changes.
LEMMA ListKept ==
  ASSUME NEW h, NEW g, NEW c \in Seq(Addr), NEW a, IsList(h, c, a),
         \A i \in 1..Len(c) : g[c[i]] = h[c[i]]
  PROVE  IsList(g, c, a)
  BY DEF IsList

\* appendNode: the node b is linked behind the last one, or is the first one.
LEMMA ListAppended ==
  ASSUME NEW h \in [Addr -> Memory], NEW c \in Seq(Addr), NEW a, IsList(h, c, a),
         NEW b \in Addr, ~ In(b, c), h[b].live, h[b].next = NULL, NEW g,
         Len(c) = 0 => g = h,
         Len(c) # 0 => g = [h EXCEPT ![c[Len(c)]].next = b]
  PROVE  /\ Append(c, b) \in Seq(Addr)
         /\ IsList(g, Append(c, b), IF Len(c) = 0 THEN b ELSE a)
         /\ \A x : In(x, Append(c, b)) <=> In(x, c) \/ x = b
         /\ \A x \in Addr : g[x].live = h[x].live /\ g[x].file = h[x].file
<1> DEFINE d == Append(c, b)
<1>1. /\ d \in Seq(Addr) /\ Len(d) = Len(c) + 1 /\ Len(c) \in Nat
      /\ d[Len(c) + 1] = b /\ \A i \in 1..Len(c) : d[i] = c[i]
  BY AppendProperties, LenProperties
<1>2. \A i \in 1..Len(c) : c[i] \in Addr /\ c[i] # b
  BY NodesOf DEF In
<1> HIDE DEF d
<1>3. \A x : In(x, d) <=> In(x, c) \/ x = b
  <2>1. ASSUME NEW i \in 1..Len(d)
        PROVE  In(d[i], c) \/ d[i] = b
    <3>1. i \in 1..Len(c) \/ i = Len(c) + 1
      BY <1>1
    <3> QED
      BY <1>1, <3>1 DEF In
  <2>2. ASSUME NEW i \in 1..Len(c)
        PROVE  In(c[i], d)
    <3>1. i \in 1..Len(d) /\ d[i] = c[i]
      BY <1>1
    <3> QED
      BY <3>1 DEF In
  <2>3. In(b, d)
    <3>1. Len(c) + 1 \in 1..Len(d)
      BY <1>1
    <3> QED
      BY <1>1, <3>1 DEF In
  <2> QED
    BY <2>1, <2>2, <2>3 DEF In
<1>4. /\ \A x \in Addr : g[x].live = h[x].live /\ g[x].file = h[x].file
      /\ \A x \in Addr : (\A i \in 1..Len(c) : i = Len(c) => x # c[i]) => g[x] = h[x]
      /\ Len(c) # 0 => g[c[Len(c)]].next = b
  <2>1. CASE Len(c) = 0
    BY <2>1
  <2>2. CASE Len(c) # 0
    <3>1. Len(c) \in 1..Len(c) /\ c[Len(c)] \in Addr
      BY <1>1, <1>2, <2>2
    <3>2. h[c[Len(c)]] \in Memory
      BY <3>1
    <3>3. /\ g[c[Len(c)]].next = b
          /\ g[c[Len(c)]].live = h[c[Len(c)]].live
          /\ g[c[Len(c)]].file = h[c[Len(c)]].file
      BY <2>2, <3>1, <3>2 DEF Memory
    <3>4. \A x \in Addr : x # c[Len(c)] => g[x] = h[x]
      BY <2>2, <3>1
    <3> QED
      BY <3>1, <3>3, <3>4
  <2> QED
    BY <2>1, <2>2
<1>5. (IF Len(c) = 0 THEN b ELSE a) = IF Len(d) = 0 THEN NULL ELSE d[1]
  BY <1>1 DEF IsList
<1>6. \A i, j \in 1..Len(d) : d[i] = d[j] => i = j
  <2> SUFFICES ASSUME NEW i \in 1..Len(d), NEW j \in 1..Len(d), d[i] = d[j]
               PROVE  i = j
    OBVIOUS
  <2>1. (i \in 1..Len(c) \/ i = Len(c) + 1) /\ (j \in 1..Len(c) \/ j = Len(c) + 1)
    BY <1>1
  <2> QED
    BY <1>1, <1>2, <2>1 DEF IsList
<1>7. ASSUME NEW i \in 1..Len(d)
      PROVE  g[d[i]].live /\ g[d[i]].next = IF i < Len(d) THEN d[i + 1] ELSE NULL
  <2>1. CASE i = Len(c) + 1
    <3>1. g[b] = h[b]
      BY <1>2, <1>4
    <3> QED
      BY <1>1, <2>1, <3>1
  <2>2. CASE i = Len(c) /\ i # Len(c) + 1
    <3>1. i \in 1..Len(c) /\ d[i] = c[i] /\ h[c[i]].live
      BY <1>1, <2>2 DEF IsList
    <3> QED
      BY <1>1, <1>2, <1>4, <2>2, <3>1
  <2>3. CASE i # Len(c) /\ i # Len(c) + 1
    <3>1. i \in 1..Len(c) /\ i + 1 \in 1..Len(c) /\ i < Len(c) /\ i < Len(d)
      BY <1>1, <2>3
    <3>2. \A k \in 1..Len(c) : k = Len(c) => c[i] # c[k]
      BY <2>3, <3>1 DEF IsList
    <3>3. g[c[i]] = h[c[i]]
      BY <1>2, <1>4, <3>1, <3>2
    <3>4. h[c[i]].live /\ h[c[i]].next = c[i + 1]
      BY <3>1 DEF IsList
    <3> QED
      BY <1>1, <3>1, <3>3, <3>4
  <2> QED
    BY <2>1, <2>2, <2>3
<1>8. IsList(g, d, IF Len(c) = 0 THEN b ELSE a)
  BY <1>5, <1>6, <1>7 DEF IsList
<1> QED
  BY <1>1, <1>3, <1>4, <1>8 DEF d

\* freelist: the first node is returned.
LEMMA ListShortened ==
  ASSUME NEW h \in [Addr -> Memory], NEW c \in Seq(Addr), NEW a, IsList(h, c, a), a # NULL,
         NEW m
  PROVE  /\ Tail(c) \in Seq(Addr)
         /\ IsList([h EXCEPT ![a] = m], Tail(c), h[a].next)
         /\ \A x : In(x, Tail(c)) <=> In(x, c) /\ x # a
<1> DEFINE d == Tail(c)
           g == [h EXCEPT ![a] = m]
<1>1. Len(c) \in Nat /\ Len(c) # 0 /\ a = c[1] /\ 1 \in 1..Len(c)
  BY LenProperties DEF IsList
<1>2. c # <<>>
  BY <1>1
<1>3. /\ d \in Seq(Addr) /\ Len(d) = Len(c) - 1
      /\ \A i \in 1..Len(d) : d[i] = c[i + 1]
  BY <1>2, HeadTailProperties
<1> HIDE DEF d
<1>4. \A i \in 1..Len(c) : c[i] \in Addr /\ (c[i] = a <=> i = 1)
  BY <1>1, NodesOf DEF IsList
<1>5. \A x : In(x, d) <=> In(x, c) /\ x # a
  <2>1. \A x : In(x, d) => In(x, c) /\ x # a
    <3> SUFFICES ASSUME NEW i \in 1..Len(d)
                 PROVE  i + 1 \in 1..Len(c) /\ c[i + 1] # a
      BY <1>3 DEF In
    <3>1. i + 1 \in 1..Len(c) /\ i + 1 # 1
      BY <1>1, <1>3
    <3> QED
      BY <1>4, <3>1
  <2>2. ASSUME NEW i \in 1..Len(c), c[i] # a
        PROVE  In(c[i], d)
    <3>1. i - 1 \in 1..Len(d) /\ i = (i - 1) + 1
      BY <1>1, <1>3, <2>2
    <3> QED
      BY <1>3, <3>1 DEF In
  <2> QED
    BY <2>1, <2>2 DEF In
<1>6. h[a].next = IF Len(d) = 0 THEN NULL ELSE d[1]
  <2>1. h[a].next = IF 1 < Len(c) THEN c[2] ELSE NULL
    BY <1>1 DEF IsList
  <2> QED
    BY <1>1, <1>3, <2>1
<1>7. \A i, j \in 1..Len(d) : d[i] = d[j] => i = j
  <2> SUFFICES ASSUME NEW i \in 1..Len(d), NEW j \in 1..Len(d), d[i] = d[j]
               PROVE  i = j
    OBVIOUS
  <2>1. i + 1 \in 1..Len(c) /\ j + 1 \in 1..Len(c) /\ c[i + 1] = c[j + 1]
    BY <1>1, <1>3
  <2>2. i + 1 = j + 1
    BY <2>1 DEF IsList
  <2> QED
    BY <2>2
<1>8. ASSUME NEW i \in 1..Len(d)
      PROVE  g[d[i]].live /\ g[d[i]].next = IF i < Len(d) THEN d[i + 1] ELSE NULL
  <2>1. i + 1 \in 1..Len(c) /\ d[i] = c[i + 1] /\ i + 1 # 1
    BY <1>1, <1>3
  <2>2. g[d[i]] = h[c[i + 1]]
    BY <1>4, <2>1
  <2>3. h[c[i + 1]].live /\ h[c[i + 1]].next = IF i + 1 < Len(c) THEN c[i + 1 + 1] ELSE NULL
    BY <2>1 DEF IsList
  <2>4. i + 1 < Len(c) <=> i < Len(d)
    BY <1>1, <1>3
  <2>5. i < Len(d) => d[i + 1] = c[i + 1 + 1]
    BY <1>1, <1>3
  <2> QED
    BY <2>2, <2>3, <2>4, <2>5
<1> QED
  BY <1>3, <1>5, <1>6, <1>7, <1>8 DEF IsList, d
-----------------------------------------------------------------------------
(***************************************************************************)
(* The invariant, action by action.                                        *)
(***************************************************************************)
LEMMA ListInvInit == Init => ListInv
<1> SUFFICES ASSUME Init
             PROVE  \A b \in Addr : ~ heap[b].live
  BY DEF Init, ListInv
<1> QED
  BY DEF Init

LEMMA ListRecv ==
  ASSUME TypeOK, ListInv, RecvList
  PROVE  ListInv'
<1> SUFFICES ASSUME ~ stale
             PROVE  \E c \in Seq(Addr) : Built(c)'
  BY DEF ListInv, RecvList
<1>1. start = NULL /\ \A b \in Addr : ~ heap[b].live
  BY DEF ListInv, RecvList
<1>2. /\ start' = start /\ heap' = heap /\ todo' = listing' /\ pc' = "append"
      /\ listing' \in Seq(Files)
  BY HeapAssumption DEF RecvList
<1>3. PICK c \in Seq(Addr) : Len(c) = 0
  <2>1. <<>> \in Seq(Addr) /\ Len(<<>>) = 0
    OBVIOUS
  <2> QED
    BY <2>1, Zenon
<1>4. Len(listing') \in Nat
  BY <1>2, LenProperties
<1>5. IsList(heap, c, start)'
  BY <1>1, <1>2, <1>3 DEF IsList
<1>6. Filled(c)'
  BY <1>2, <1>3, <1>4 DEF Filled, Taken, UnderWay
<1>7. InUse(c)'
  BY <1>1, <1>2, <1>3 DEF InUse, In, UnderWay
<1>8. Built(c)'
  BY <1>2, <1>5, <1>6, <1>7 DEF Built, Fresh, UnderWay
<1> QED
  BY <1>8

\* createNode: the list is not touched.
LEMMA ListCreate ==
  ASSUME TypeOK, ~ stale, createNode, NEW c \in Seq(Addr), Built(c)
  PROVE  Built(c)'
<1>1. Built(c)
  OBVIOUS
<1>2. PICK a \in Addr : /\ ~ heap[a].live /\ new' = a
                        /\ heap' = [heap EXCEPT ![a] = NodeFor(a, Head(todo))]
  BY DEF createNode
<1>3. /\ pc = "append" /\ todo # <<>> /\ todo' = Tail(todo) /\ pc' = "link"
      /\ start' = start /\ listing' = listing
  BY DEF createNode
<1>4. /\ todo \in Seq(Files) /\ Len(todo) \in Nat /\ Len(todo) # 0
      /\ Len(listing) \in Nat /\ heap \in [Addr -> Memory]
  BY <1>3, LenProperties, EmptySeq DEF TypeOK
<1>5. /\ Head(todo) = todo[1] /\ Len(Tail(todo)) = Len(todo) - 1
      /\ \A i \in 1..Len(Tail(todo)) : Tail(todo)[i] = todo[i + 1]
  BY <1>3, <1>4, HeadTailProperties
<1>6. /\ Len(c) \in Nat
      /\ \A i \in 1..Len(c) : c[i] \in Addr /\ heap[c[i]].live /\ c[i] # a
  BY <1>1, <1>2, NodesOf DEF Built, IsList
<1>7. ~ In(a, c)
  BY <1>6 DEF In
<1>8. \A b \in Addr : heap'[b] = IF b = a THEN NodeFor(a, todo[1]) ELSE heap[b]
  BY <1>2, <1>4, <1>5
<1>9. \A i \in 1..Len(c) : heap'[c[i]] = heap[c[i]]
  BY <1>6, <1>8
<1>10. IsList(heap, c, start)'
  BY <1>1, <1>3, <1>9, ListKept DEF Built
<1>11. /\ Len(listing) = Len(c) + Len(todo)
       /\ \A i \in 1..Len(todo) : todo[i] = listing[Len(c) + i]
       /\ \A i \in 1..Len(c) : heap[c[i]].file = listing[i]
  BY <1>1, <1>3 DEF Built, Filled, Taken, UnderWay
<1>12. todo[1] = listing[Len(c) + 1]
  BY <1>4, <1>11
<1>13. Filled(c)'
  <2>1. \A i \in 1..Len(c) : heap'[c[i]].file = listing'[i]
    BY <1>3, <1>9, <1>11
  <2>2. Len(listing') = Len(c) + 1 + Len(todo')
    BY <1>3, <1>4, <1>5, <1>6, <1>11
  <2>3. ASSUME NEW i \in 1..Len(todo')
        PROVE  todo'[i] = listing'[Len(c) + 1 + i]
    <3>1. i + 1 \in 1..Len(todo) /\ Len(c) + (i + 1) = Len(c) + 1 + i
      BY <1>3, <1>4, <1>5, <1>6
    <3>2. todo'[i] = todo[i + 1]
      BY <1>3, <1>5
    <3> QED
      BY <1>3, <1>11, <3>1, <3>2
  <2> QED
    BY <1>3, <2>1, <2>2, <2>3 DEF Filled, Taken, UnderWay
<1>14. Fresh(c)'
  BY <1>2, <1>3, <1>7, <1>8, <1>12 DEF Fresh, NodeFor, UnderWay, In
<1>15. InUse(c)'
  <2>1. \A b \in Addr : heap[b].live <=> In(b, c)
    BY <1>1, <1>3 DEF Built, InUse, UnderWay
  <2>2. heap'[a].live
    BY <1>8 DEF NodeFor
  <2> QED
    BY <1>2, <1>3, <1>8, <2>1, <2>2 DEF InUse, UnderWay, In
<1> QED
  BY <1>3, <1>10, <1>13, <1>14, <1>15 DEF Built

\* appendNode, on an empty list and on another.
LEMMA ListLink ==
  ASSUME TypeOK, ~ stale, LinkFirst \/ LinkLast, NEW c \in Seq(Addr), Built(c)
  PROVE  \E e \in Seq(Addr) : e = Append(c, new) /\ Built(e)'
<1> DEFINE d == Append(c, new)
<1>1. /\ UnderWay /\ pc' = "append" /\ new' = new /\ todo' = todo /\ listing' = listing
      /\ heap \in [Addr -> Memory] /\ todo \in Seq(Files) /\ Len(todo) \in Nat
  BY LenProperties DEF LinkFirst, LinkLast, UnderWay, TypeOK
<1>2. /\ new \in Addr /\ ~ In(new, c)
      /\ heap[new] = [live |-> TRUE, file |-> listing[Len(c) + 1], next |-> NULL]
  BY <1>1 DEF Built, Fresh
<1>3. heap[new].live /\ heap[new].next = NULL /\ heap[new].file = listing[Len(c) + 1]
  BY <1>2
<1>4. /\ Len(c) \in Nat
      /\ \A i \in 1..Len(c) : c[i] \in Addr /\ c[i] # NULL
  BY NodesOf
<1>5. IsList(heap, c, start)
  BY DEF Built
<1>6. /\ Len(c) = 0 => heap' = heap
      /\ Len(c) # 0 => heap' = [heap EXCEPT ![c[Len(c)]].next = new]
      /\ start' = IF Len(c) = 0 THEN new ELSE start
  <2>1. CASE LinkFirst
    <3>1. Len(c) = 0
      <4>1. 0 < Len(c) => 1 \in 1..Len(c) /\ start = c[1]
        BY <1>4, <1>5 DEF IsList
      <4> QED
        BY <1>4, <2>1, <4>1 DEF LinkFirst
    <3> QED
      BY <2>1, <3>1 DEF LinkFirst
  <2>2. CASE LinkLast
    <3>1. PICK i \in 1..Len(c) : c[i] = temp
      BY <2>2 DEF LinkLast, Built, In
    <3>2. heap[c[i]].next = NULL
      BY <2>2, <3>1 DEF LinkLast, AtEnd
    <3>3. i < Len(c) => i + 1 \in 1..Len(c) /\ heap[c[i]].next = c[i + 1]
      BY <1>4, <1>5 DEF IsList
    <3>4. i = Len(c) /\ Len(c) # 0
      BY <1>4, <3>2, <3>3
    <3> QED
      BY <2>2, <3>1, <3>4 DEF LinkLast
  <2> QED
    BY <2>1, <2>2
<1>7. /\ d \in Seq(Addr)
      /\ IsList(heap', d, start')
      /\ \A x : In(x, d) <=> In(x, c) \/ x = new
      /\ \A x \in Addr : heap'[x].live = heap[x].live /\ heap'[x].file = heap[x].file
  BY <1>1, <1>2, <1>3, <1>5, <1>6, ListAppended
<1>8. Len(d) = Len(c) + 1 /\ d[Len(c) + 1] = new /\ \A i \in 1..Len(c) : d[i] = c[i]
  BY <1>2, AppendProperties
<1> HIDE DEF d
<1>9. PICK e \in Seq(Addr) : e = d
  BY <1>7
<1>10. Filled(e)'
  <2>1. /\ \A i \in 1..Len(c) : heap[c[i]].file = listing[i]
        /\ Len(listing) = Len(c) + 1 + Len(todo)
        /\ \A i \in 1..Len(todo) : todo[i] = listing[Len(c) + 1 + i]
    BY <1>1 DEF Built, Filled, Taken
  <2>2. ASSUME NEW i \in 1..Len(e)
        PROVE  heap'[e[i]].file = listing'[i]
    <3>1. i \in 1..Len(c) \/ i = Len(c) + 1
      BY <1>4, <1>8, <1>9
    <3> QED
      BY <1>1, <1>2, <1>3, <1>4, <1>7, <1>8, <1>9, <2>1, <3>1
  <2> QED
    BY <1>1, <1>8, <1>9, <2>1, <2>2 DEF Filled, Taken, UnderWay
<1>11. InUse(e)'
  <2>1. \A b \in Addr : heap[b].live <=> (In(b, c) \/ b = new)
    BY <1>1 DEF Built, InUse
  <2>2. \A b \in Addr : heap'[b].live <=> In(b, e)
    BY <1>7, <1>9, <2>1
  <2> QED
    BY <1>1, <2>2 DEF InUse, UnderWay, In
<1>12. Built(e)'
  BY <1>1, <1>7, <1>9, <1>10, <1>11 DEF Built, Fresh, UnderWay
<1> QED
  BY <1>9, <1>12 DEF d

\* The walk of appendNode, which only moves temp from node to node.
LEMMA ListWalk ==
  ASSUME TypeOK, ~ stale, StartWalk \/ Walk, NEW c \in Seq(Addr), Built(c)
  PROVE  Built(c)'
<1>1. /\ UnderWay /\ pc' = "walk" /\ new' = new /\ todo' = todo /\ listing' = listing
      /\ heap' = heap /\ start' = start
  BY DEF StartWalk, Walk, UnderWay
<1>2. /\ Len(c) \in Nat
      /\ \A i \in 1..Len(c) : c[i] \in Addr /\ c[i] # NULL
  BY NodesOf
<1>3. \E i \in 1..Len(c) : c[i] = temp'
  <2>1. CASE StartWalk
    <3>1. Len(c) # 0 /\ start = c[1]
      BY <2>1 DEF StartWalk, Built, IsList
    <3>2. 1 \in 1..Len(c) /\ temp' = c[1]
      BY <1>2, <2>1, <3>1 DEF StartWalk
    <3> QED
      BY <3>2
  <2>2. CASE Walk
    <3>1. PICK i \in 1..Len(c) : c[i] = temp
      BY <2>2 DEF Walk, Built, In
    <3>2. heap[c[i]].next # NULL /\ temp' = heap[c[i]].next
      BY <2>2, <3>1 DEF Walk, AtEnd
    <3>3. heap[c[i]].next = IF i < Len(c) THEN c[i + 1] ELSE NULL
      BY DEF Built, IsList
    <3>4. i + 1 \in 1..Len(c) /\ temp' = c[i + 1]
      BY <1>2, <3>2, <3>3
    <3> QED
      BY <3>4
  <2> QED
    BY <2>1, <2>2
<1> QED
  BY <1>1, <1>3 DEF Built, Filled, Taken, Fresh, InUse, UnderWay, In

\* One pass of freelist.
LEMMA ListFree ==
  ASSUME TypeOK, ~ stale, freelist, NEW c \in Seq(Addr), Freeing(c)
  PROVE  /\ \E d \in Seq(Addr) : Freeing(d)'
         /\ start \in Addr /\ ~ heap'[start].live
<1>1. PICK m \in Memory : ~ m.live /\ heap' = [heap EXCEPT ![temp] = m]
  BY DEF freelist
<1>2. /\ temp # NULL /\ temp \in Addr /\ temp' = heap[temp].next /\ start' = start
      /\ pc = "free" /\ pc' = "free" /\ heap \in [Addr -> Memory]
  BY DEF freelist, NextToFree, TypeOK, Pointer
<1>3. /\ Tail(c) \in Seq(Addr)
      /\ IsList(heap', Tail(c), heap[temp].next)
      /\ \A x : In(x, Tail(c)) <=> In(x, c) /\ x # temp
  <2>1. IsList(heap, c, temp)
    BY DEF Freeing
  <2> QED
    BY <1>1, <1>2, <2>1, ListShortened
<1>4. PICK d \in Seq(Addr) : d = Tail(c)
  BY <1>3
<1>5. \A b \in Addr : heap'[b] = IF b = temp THEN m ELSE heap[b]
  BY <1>1, <1>2
<1>6. \A b \in Addr : heap[b].live <=> In(b, c)
  BY <1>2 DEF Freeing, InUse, UnderWay
<1>7. \A b \in Addr : heap'[b].live <=> In(b, d)
  BY <1>1, <1>3, <1>4, <1>5, <1>6
<1>8. start \in Addr /\ ~ heap'[start].live
  BY <1>1, <1>2, <1>5 DEF Freeing
<1>9. Freeing(d)'
  BY <1>2, <1>3, <1>4, <1>7, <1>8 DEF Freeing, InUse, UnderWay, In
<1> QED
  BY <1>8, <1>9

\* Steps that keep the nodes and the pointers to them.
LEMMA ListKeeps ==
  ASSUME UNCHANGED <<start, heap, new, todo, listing>>, NEW c \in Seq(Addr)
  PROVE  /\ Built(c) /\ UNCHANGED <<pc, temp>> => Built(c)'
         /\ Freeing(c) /\ UNCHANGED <<pc, temp>> => Freeing(c)'
         /\ Built(c) /\ pc = "append" /\ todo = <<>> /\ pc' = "download" => Built(c)'
         /\ Built(c) /\ pc = "download" /\ pc' = "free" /\ temp' = start => Freeing(c)'
<1> USE DEF Filled, Taken, Fresh, InUse, UnderWay, In
<1>1. Built(c) /\ UNCHANGED <<pc, temp>> => Built(c)'
  BY DEF Built
<1>2. Freeing(c) /\ UNCHANGED <<pc, temp>> => Freeing(c)'
  BY DEF Freeing
<1>3. Built(c) /\ pc = "append" /\ todo = <<>> /\ pc' = "download" => Built(c)'
  BY DEF Built
<1>4. Built(c) /\ pc = "download" /\ pc' = "free" /\ temp' = start => Freeing(c)'
  BY DEF Built, Freeing
<1> QED
  BY <1>1, <1>2, <1>3, <1>4

LEMMA ListStep ==
  ASSUME TypeOK, ListInv, [Next]_vars
  PROVE  ListInv'
<1>1. CASE RecvList
  BY <1>1, ListRecv
<1>2. CASE createNode
  <2> SUFFICES ASSUME ~ stale
               PROVE  \E c \in Seq(Addr) : Built(c)'
    BY <1>2 DEF ListInv, createNode
  <2>1. PICK c \in Seq(Addr) : Built(c)
    BY <1>2 DEF ListInv, createNode
  <2> QED
    BY <1>2, <2>1, ListCreate
<1>3. CASE LinkFirst \/ LinkLast
  <2> SUFFICES ASSUME ~ stale
               PROVE  \E c \in Seq(Addr) : Built(c)'
    BY <1>3 DEF ListInv, LinkFirst, LinkLast
  <2>1. PICK c \in Seq(Addr) : Built(c)
    BY <1>3 DEF ListInv, LinkFirst, LinkLast
  <2> QED
    BY <1>3, <2>1, ListLink
<1>4. CASE StartWalk \/ Walk
  <2> SUFFICES ASSUME ~ stale
               PROVE  \E c \in Seq(Addr) : Built(c)'
    BY <1>4 DEF ListInv, StartWalk, Walk
  <2>1. PICK c \in Seq(Addr) : Built(c)
    BY <1>4 DEF ListInv, StartWalk, Walk
  <2> QED
    BY <1>4, <2>1, ListWalk
<1>5. CASE PrintList
  <2> SUFFICES ASSUME ~ stale, pc' = "download"
               PROVE  \E c \in Seq(Addr) : Built(c)'
    BY <1>5 DEF ListInv, PrintList
  <2>1. PICK c \in Seq(Addr) : Built(c)
    BY <1>5 DEF ListInv, PrintList
  <2> QED
    BY <1>5, <2>1, ListKeeps DEF PrintList
<1>6. CASE Leave
  <2> SUFFICES ASSUME ~ stale
               PROVE  \E c \in Seq(Addr) : Freeing(c)'
    BY <1>6 DEF ListInv, Leave
  <2>1. PICK c \in Seq(Addr) : Built(c)
    BY <1>6 DEF ListInv, Leave
  <2> QED
    BY <1>6, <2>1, ListKeeps DEF Leave
<1>7. CASE freelist
  <2> SUFFICES ASSUME ~ stale
               PROVE  \E c \in Seq(Addr) : Freeing(c)'
    BY <1>7 DEF ListInv, freelist
  <2>1. PICK c \in Seq(Addr) : Freeing(c)
    BY <1>7 DEF ListInv, freelist
  <2> QED
    BY <1>7, <2>1, ListFree
<1>8. CASE FreeDone
  <2> SUFFICES ASSUME ~ stale
               PROVE  \A b \in Addr : ~ heap[b].live
    BY <1>8 DEF ListInv, FreeDone
  <2>1. PICK c \in Seq(Addr) : Freeing(c)
    BY <1>8 DEF ListInv, FreeDone
  <2>2. Len(c) = 0
    <3>1. Len(c) # 0 => 1 \in 1..Len(c) /\ temp = c[1]
      BY <2>1, NodesOf DEF Freeing, IsList
    <3> QED
      BY <1>8, <3>1, NodesOf DEF FreeDone
  <2> QED
    BY <1>8, <2>1, <2>2 DEF FreeDone, Freeing, InUse, In, UnderWay
<1>9. CASE CommandConnect
  BY <1>9 DEF CommandConnect, ListInv
<1>10. CASE MallocFails \/ UseAfterFree \/ CommandOther
  BY <1>10 DEF MallocFails, UseAfterFree, CommandOther, ListInv
<1>11. CASE UNCHANGED vars
  <2>1. UNCHANGED <<start, heap, new, todo, listing, pc, temp, stale>>
    BY <1>11 DEF vars
  <2>2. \A c \in Seq(Addr) : (Built(c) => Built(c)') /\ (Freeing(c) => Freeing(c)')
    BY <2>1, ListKeeps
  <2> QED
    BY <2>1, <2>2 DEF ListInv
<1> QED
  BY <1>1, <1>2, <1>3, <1>4, <1>5, <1>6, <1>7, <1>8, <1>9, <1>10, <1>11 DEF Next, Program

LEMMA ListHolds == Spec => [](TypeOK /\ ListInv)
<1>1. TypeOK /\ ListInv /\ [Next]_vars => (TypeOK /\ ListInv)'
  BY ListTypeStep, ListStep
<1> QED
  BY ListTypeInit, ListInvInit, <1>1, PTL DEF Spec
-----------------------------------------------------------------------------
(***************************************************************************)
(* The theorems.                                                           *)
(***************************************************************************)

\* A list whose nodes store the first lines of l is a prefix of l.
LEMMA ListPrefix ==
  ASSUME NEW h, NEW c \in Seq(Addr), NEW a, IsList(h, c, a), NEW l,
         \A i \in 1..Len(c) : h[c[i]].file = l[i]
  PROVE  ~ Dangling(h, a) /\ Contents(h, a) = [i \in 1..Len(c) |-> l[i]]
  BY ListContents

\* At the prompt of download_files the list holds the listing of this host, in
\* memory that is in use, in every connection that found main's list empty.
THEOREM FreshListTheorem == Spec => []FreshListIsListing
<1>1. TypeOK /\ ListInv => FreshListIsListing
  <2> SUFFICES ASSUME TypeOK, ListInv, ~ stale, pc = "download"
               PROVE  Contents(heap, start) = listing /\ ~ Dangling(heap, start)
    BY DEF FreshListIsListing, ListIsListing
  <2>1. PICK c \in Seq(Addr) : Built(c)
    BY DEF ListInv
  <2>2. ~ Dangling(heap, start) /\ Contents(heap, start) = [i \in 1..Len(c) |-> listing[i]]
    BY <2>1, ListPrefix DEF Built, Filled
  <2>3. Len(todo) = 0 /\ Len(c) \in Nat
    BY <2>1, NodesOf DEF Built
  <2>4. Len(c) = Len(listing)
    BY <2>1, <2>3 DEF Built, Filled, Taken, UnderWay
  <2>5. listing = [i \in 1..Len(listing) |-> listing[i]]
    BY DEF TypeOK
  <2> QED
    BY <2>2, <2>4, <2>5
<1> QED
  BY <1>1, ListHolds, PTL

\* printlist's loop over the list comes to its end.
NotHung == ~ stale => pc # "hung"

LEMMA ListTouched ==
  ASSUME TypeOK, ListInv, ~ stale
  PROVE  ~ UsesFreed
<1>1. ASSUME pc = "walk"
      PROVE  heap[temp].live
  <2>1. PICK c \in Seq(Addr) : Built(c)
    BY <1>1 DEF ListInv
  <2> QED
    BY <1>1, <2>1 DEF Built, In, IsList
<1>2. ASSUME pc = "free", temp # NULL
      PROVE  heap[temp].live
  <2>1. PICK c \in Seq(Addr) : Freeing(c)
    BY <1>2 DEF ListInv
  <2>2. Len(c) # 0 /\ temp = c[1]
    BY <1>2, <2>1 DEF Freeing, IsList
  <2>3. 1 \in 1..Len(c)
    BY <2>2, NodesOf
  <2> QED
    BY <2>1, <2>2, <2>3 DEF Freeing, IsList
<1>3. ASSUME pc = "append"
      PROVE  ~ Dangling(heap, start) /\ Ends(heap, start)
  <2>1. PICK c \in Seq(Addr) : Built(c)
    BY <1>3 DEF ListInv
  <2> QED
    BY <2>1, ListContents DEF Built
<1> QED
  BY <1>1, <1>2, <1>3 DEF UsesFreed

LEMMA NotHungStep ==
  ASSUME TypeOK, ListInv, NotHung, [Next]_vars
  PROVE  NotHung'
<1>1. CASE PrintList
  <2> SUFFICES ASSUME ~ stale
               PROVE  Ends(heap, start)
    BY <1>1 DEF NotHung, PrintList
  <2>1. PICK c \in Seq(Addr) : Built(c)
    BY <1>1 DEF ListInv, PrintList
  <2> QED
    BY <2>1, ListContents DEF Built
<1>2. CASE ~ PrintList
  BY <1>2 DEF Next, Program, NotHung, vars, RecvList, createNode, MallocFails, LinkFirst,
              StartWalk, Walk, LinkLast, freelist, FreeDone, UseAfterFree, CommandConnect,
              CommandOther, Leave
<1> QED
  BY <1>1, <1>2

(***************************************************************************)
(* In such a connection appendNode, printlist and freelist touch only      *)
(* memory that is in use, free each node once, and find the list's end:    *)
(* for every heap, wherever malloc puts the nodes and whatever free leaves *)
(* in them.                                                                *)
(***************************************************************************)
THEOREM FreshListSafeTheorem == Spec => []FreshListIsSafe
<1>1. Init => NotHung
  BY DEF Init, NotHung
<1>2. TypeOK /\ ListInv /\ NotHung /\ [Next]_vars => NotHung'
  BY NotHungStep
<1>3. TypeOK /\ ListInv /\ NotHung => FreshListIsSafe
  BY ListTouched DEF FreshListIsSafe, NotHung
<1> QED
  BY <1>1, <1>2, <1>3, ListHolds, PTL DEF Spec

\* Between such connections freelist has returned every node createNode made.
THEOREM NothingLeaksTheorem == Spec => []NothingLeaks
<1>1. ListInv => NothingLeaks
  BY DEF ListInv, NothingLeaks
<1> QED
  BY <1>1, ListHolds, PTL

\* What ListSpec sees before and after a step: the lines read so far.
LEMMA ReachedSame ==
  ASSUME UNCHANGED <<start, heap>>, stale' <=> stale
  PROVE  Reached' = Reached
  BY DEF Reached

LEMMA ReachedPrefix ==
  ASSUME ~ stale, NEW c \in Seq(Addr), Built(c)
  PROVE  Reached = [i \in 1..Len(c) |-> listing[i]]
<1>1. IsList(heap, c, start) /\ \A i \in 1..Len(c) : heap[c[i]].file = listing[i]
  BY DEF Built, Filled
<1>2. /\ ~ Dangling(heap, start)
      /\ Contents(heap, start) = [i \in 1..Len(c) |-> listing[i]]
  BY <1>1, ListPrefix
<1> QED
  BY <1>2 DEF Reached

LEMMA ReachedPrefixNext ==
  ASSUME ~ stale', NEW c \in Seq(Addr), Built(c)'
  PROVE  Reached' = [i \in 1..Len(c) |-> listing'[i]]
<1>1. IsList(heap', c, start') /\ \A i \in 1..Len(c) : heap'[c[i]].file = listing'[i]
  BY DEF Built, Filled
<1>2. /\ ~ Dangling(heap', start')
      /\ Contents(heap', start') = [i \in 1..Len(c) |-> listing'[i]]
  BY <1>1, ListPrefix
<1> QED
  BY <1>2 DEF Reached

LEMMA ReachedStep ==
  ASSUME TypeOK, ListInv, TypeOK', [Next]_vars
  PROVE  [L!ListNext]_Reached
<1> SUFFICES \/ Reached' = Reached \/ Reached' = <<>>
             \/ \E f \in Files : Reached' = Append(Reached, f)
  BY DEF L!ListNext, L!Clear, L!Append1
<1>1. CASE createNode \/ LinkFirst \/ LinkLast
  <2>0. stale' = stale /\ listing' = listing /\ pc \in {"append", "link", "walk"}
    BY <1>1 DEF createNode, LinkFirst, LinkLast
  <2>1. CASE stale
    BY <2>0, <2>1 DEF Reached
  <2>2. CASE ~ stale
    <3>1. PICK c \in Seq(Addr) : Built(c)
      BY <2>0, <2>2 DEF ListInv
    <3>2. Reached = [i \in 1..Len(c) |-> listing[i]] /\ Len(c) \in Nat
      BY <2>2, <3>1, ReachedPrefix, NodesOf
    <3>3. CASE createNode
      <4>1. Built(c)'
        BY <2>2, <3>1, <3>3, ListCreate
      <4>2. Reached' = [i \in 1..Len(c) |-> listing'[i]]
        BY <2>0, <2>2, <4>1, ReachedPrefixNext
      <4> QED
        BY <2>0, <3>2, <4>2
    <3>4. CASE LinkFirst \/ LinkLast
      <4>1. PICK e \in Seq(Addr) : e = Append(c, new) /\ Built(e)'
        BY <2>2, <3>1, <3>4, ListLink
      <4>2. Reached' = [i \in 1..Len(e) |-> listing'[i]]
        BY <2>0, <2>2, <4>1, ReachedPrefixNext
      <4>3. UnderWay /\ new \in Addr
        BY <3>1, <3>4 DEF Built, Fresh, UnderWay, LinkFirst, LinkLast
      <4>4. Len(e) = Len(c) + 1
        BY <4>1, <4>3, AppendProperties
      <4>5. Len(c) + 1 \in 1..Len(listing) /\ listing \in Seq(Files)
        <5>1. Len(listing) = Len(c) + 1 + Len(todo) /\ Len(todo) \in Nat
          BY <3>1, <4>3, LenProperties DEF Built, Filled, Taken, TypeOK
        <5> QED
          BY <3>2, <5>1 DEF TypeOK
      <4>6. \A i \in 1..Len(listing) : listing[i] \in Files
        BY <4>5, ElementOfSeq
      <4>7. \A i \in 1..Len(c) : i \in 1..Len(listing)
        BY <3>2, <4>5
      <4>8. Reached \in Seq(Files) /\ Len(Reached) = Len(c)
        BY <3>2, <4>6, <4>7
      <4>9. /\ Append(Reached, listing[Len(c) + 1]) \in Seq(Files)
            /\ Len(Append(Reached, listing[Len(c) + 1])) = Len(c) + 1
            /\ \A i \in 1..(Len(c) + 1) :
                 Append(Reached, listing[Len(c) + 1])[i] = listing[i]
        BY <3>2, <4>5, <4>6, <4>8, AppendProperties
      <4>10. Reached' \in Seq(Files) /\ Len(Reached') = Len(c) + 1
        BY <2>0, <3>2, <4>2, <4>4, <4>5, <4>6
      <4>11. \A i \in 1..(Len(c) + 1) : Reached'[i] = listing[i]
        BY <2>0, <4>2, <4>4
      <4>12. Reached' = Append(Reached, listing[Len(c) + 1])
        BY <4>9, <4>10, <4>11, SeqEqual
      <4> QED
        BY <4>5, <4>6, <4>12
    <3> QED
      BY <1>1, <3>3, <3>4
  <2> QED
    BY <2>1, <2>2
<1>2. CASE freelist
  <2>0. stale' = stale /\ start' = start /\ pc = "free"
    BY <1>2 DEF freelist
  <2>1. CASE stale
    BY <2>0, <2>1 DEF Reached
  <2>2. CASE ~ stale
    <3>1. PICK c \in Seq(Addr) : Freeing(c)
      BY <2>0, <2>2 DEF ListInv
    <3>2. start \in Addr /\ ~ heap'[start].live
      BY <1>2, <2>2, <3>1, ListFree
    <3>3. Dangling(heap', start)
      BY <3>2, FreedHead
    <3> QED
      BY <2>0, <3>3 DEF Reached
  <2> QED
    BY <2>1, <2>2
<1>3. CASE CommandConnect
  <2>1. UNCHANGED <<start, heap>> /\ stale' = (stale \/ start # NULL)
    BY <1>3 DEF CommandConnect
  <2>2. CASE start = NULL
    BY <2>1, <2>2, ReachedSame
  <2>3. CASE start # NULL
    BY <2>1, <2>3 DEF Reached
  <2> QED
    BY <2>2, <2>3
<1>4. CASE \/ RecvList \/ MallocFails \/ StartWalk \/ Walk \/ PrintList \/ FreeDone
           \/ UseAfterFree \/ CommandOther \/ Leave \/ UNCHANGED vars
  <2>1. UNCHANGED <<start, heap, stale>>
    BY <1>4 DEF RecvList, MallocFails, StartWalk, Walk, PrintList, FreeDone, UseAfterFree,
                CommandOther, Leave, vars
  <2> QED
    BY <2>1, ReachedSame
<1> QED
  BY <1>1, <1>2, <1>3, <1>4 DEF Next, Program

LEMMA ReachedInit == Init => L!ListInit
<1> SUFFICES ASSUME Init
             PROVE  Reached = <<>>
  BY DEF L!ListInit
<1>1. PICK c \in Seq(Addr) : Len(c) = 0
  <2>1. <<>> \in Seq(Addr) /\ Len(<<>>) = 0
    OBVIOUS
  <2> QED
    BY <2>1, Zenon
<1>2. IsList(heap, c, start)
  BY <1>1 DEF IsList, Init
<1>3. ~ Dangling(heap, start) /\ Contents(heap, start) = [i \in 1..Len(c) |-> heap[c[i]].file]
  BY <1>2, ListContents
<1>4. Contents(heap, start) = <<>>
  BY <1>1, <1>3
<1> QED
  BY <1>3, <1>4 DEF Reached, Init

\* The nodes and pointers of the linked list implement ListSpec: what main can
\* reach grows by one line at its end or is cleared, in any connection that found
\* main's list empty, wherever malloc puts the nodes.
THEOREM ListRefinementTheorem == Spec => ListRefines
<1>1. Init => L!ListInit
  BY ReachedInit
<1>2. TypeOK /\ ListInv /\ (TypeOK /\ ListInv)' /\ [Next]_vars => [L!ListNext]_Reached
  BY ReachedStep
<1> QED
  BY <1>1, <1>2, ListHolds, PTL DEF Spec, ListRefines, L!ListSafety
=============================================================================
