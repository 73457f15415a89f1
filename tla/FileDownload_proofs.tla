-------------------------- MODULE FileDownload_proofs --------------------------
(***************************************************************************)
(* Proofs about FileDownload, for any tree of folders and files, when the  *)
(* replies wait for start() and the user cancels between two replies.      *)
(***************************************************************************)
EXTENDS FileDownload, FiniteSetTheorems, SequenceTheorems,
        WellFoundedInduction, TLAPS

--------------------------------------------------------------------------------
(* The invariant.                                                          *)

\* The numbers of a walk through the tree, depth first.
First == CHOOSE first \in Numbers :
            GoesDown(first) /\ \E last \in Numbers : GoesOn(first, last)
Last == CHOOSE last \in Numbers : GoesOn(First, last)

AnyRequest == [kind : {"size", "list", "start", "data"}, node : Nodes,
               from : Nat]
AnyReply == [kind : {"size", "list", "start", "data", "end", "failed"},
             node : Nodes, chunk : Int]
AnyStream == [file : Files \cup {NULL, Deleted}, chunks : Nat]
AnyDownload == [file : Files \cup {NULL}, chunks : Nat \cup {-1}]

WireTypes ==
    /\ requests \in Seq(AnyRequest) /\ replies \in Seq(AnyReply)
    /\ m_fos \in AnyStream
    /\ m_downloadFile \in AnyDownload

\* One thread at a time is in the operation, and its calls of startDownload()
\* are no more than the files and folders it has come by.
ThreadInv ==
    /\ at[Ui] = "idle" \/ at[Core] = "idle"
    /\ at[Core] # "count"
    /\ \A t \in Threads :
         /\ at[t] \in {"idle", "count"} => frames[t] = 0
         /\ at[t] \in {"start", "process"} => m_toCopy # NULL
         /\ at[t] = "start" => frames[t] < First[m_toCopy]
         /\ at[t] = "process" => frames[t] <= First[m_toCopy]
         /\ at[t] \in {"process", "return"} => frames[t] > 0
         /\ frames[t] > 0 => ~m_isTerminating
         /\ at[t] # "idle" => m_state = "download"

\* The operation has something to copy until it has told the dialog its end.
StateInv ==
    /\ listening <=> m_state = "download"
    /\ m_state = "nothing" => m_toCopy = NULL
    /\ posted = 1 <=> (m_state = "download" /\ m_toCopy = NULL)
    /\ MemoryIsLive

Counting == at[Ui] = "count" \/ m_foldersToCalcSizeLeft > 0

\* Before the walk only the sizes of folders are asked for.
SizesOnly ==
    /\ m_toCopy = Roots[1] /\ children = {}
    /\ at[Core] = "idle" /\ at[Ui] \in {"idle", "count"}
    /\ \A n \in Nodes : fate[n] = "pending"
    /\ m_foldersToCalcSizeLeft <= counted
    /\ m_foldersToCalcSizeLeft = Len(requests) + Len(replies)
    /\ \A i \in 1 .. Len(requests) : requests[i].kind = "size"
    /\ \A i \in 1 .. Len(replies) : replies[i].kind \in {"size", "failed"}

AtWork == \E t \in Threads : at[t] \in {"start", "process"}

\* The local file ends where the stream is, and so many chunks have been read.
Reading(n, chunks) ==
    /\ n \in Files /\ m_fos.file = n /\ m_fos.chunks = onDisk[n]
    /\ m_fos.chunks <= Size[n]
    /\ m_downloadFile = [file |-> n, chunks |-> chunks]

\* The request that is under way, and what it may be answered with.
Asked(r) ==
    /\ r.node = m_toCopy
    /\ \/ r.kind = "list" /\ r.node \in Folders
       \/ r.kind = "start" /\ r.node \in Files /\ r.from = m_fileOffset
            /\ m_fileOffset <= Size[r.node]
       \/ r.kind = "data" /\ Reading(r.node, m_fos.chunks)

Answered(r) ==
    /\ r.node = m_toCopy
    /\ \/ r.kind = "failed"
       \/ r.kind = "list" /\ r.node \in Folders
       \/ /\ r.kind = "start" /\ r.node \in Files
          /\ m_fileOffset <= Size[r.node]
          /\ m_downloadFile = [file |-> r.node, chunks |-> m_fileOffset]
       \/ /\ r.kind = "data" /\ r.chunk = m_fos.chunks
          /\ Reading(r.node, m_fos.chunks + 1)
          /\ m_fos.chunks + 1 <= Size[r.node]
       \/ /\ r.kind = "end" /\ r.node \in Files
          /\ m_fos.file = r.node /\ onDisk[r.node] = Size[r.node]

OneMessage ==
    \/ replies = <<>> /\ Len(requests) = 1 /\ Asked(requests[1])
    \/ requests = <<>> /\ Len(replies) = 1 /\ Answered(replies[1])

\* While a thread walks nothing is under way, and otherwise one message is.
WireInv ==
    /\ Counting => SizesOnly
    /\ ~Counting /\ (m_toCopy = NULL \/ AtWork) => requests = <<>> /\ replies = <<>>
    /\ ~Counting /\ m_toCopy # NULL /\ ~AtWork => OneMessage

\* Only what has a number below k has a fate; and all that is selected, or in
\* a folder that was listed, and has a number below k, has one.
NothingBeyond(f, k) == \A n \in Nodes : f[n] # "pending" => First[n] < k

AllBefore(f, k) ==
    \A n \in Nodes : (IsRoot(n) \/ f[Parent(n)] = "listed") /\ First[n] < k =>
                       f[n] # "pending"

\* The walk has come by what lies before it, and by nothing else.
WalkInv ==
    /\ children \subseteq {d \in Folders : fate[d] = "listed"}
    /\ m_toCopy # NULL =>
         /\ NothingBeyond(fate, First[m_toCopy])
         /\ ~m_isTerminating => AllBefore(fate, First[m_toCopy])

DownloadInv ==
    /\ DownloadTypeOK /\ WireTypes /\ ThreadInv /\ StateInv /\ WireInv
    /\ WalkInv /\ NothingLeftOut /\ CopiedIsWhole

\* A stream has been used after it was deleted, and nothing happens any more.
Broken ==
    /\ crashed /\ DownloadTypeOK /\ NothingLeftOut /\ ProcessedOnce /\ CopiedIsWhole
    /\ requests = <<>> /\ replies = <<>>

--------------------------------------------------------------------------------
(* The tree and its numbers.                                               *)

Less == OpToRel(<, Nat)

\* Every set of numbers has a least one: induction, without an operator.
LEMMA LeastNumber ==
  ASSUME NEW S, S \subseteq Nat, S # {}
  PROVE  \E x \in S : \A y \in S : x <= y
<1>1. IsWellFoundedOn(Less, Nat)
  BY NatLessThanWellFounded, Zenon DEF Less
<1>2. \A x, y \in Nat : x < y => <<x, y>> \in Less
  BY SMT DEF Less, OpToRel
<1>3. PICK x \in S : \A y \in S : ~(<<y, x>> \in Less)
  BY <1>1, WFMin
<1>4. SUFFICES ASSUME NEW y \in S, ~(x <= y) PROVE FALSE
  OBVIOUS
<1>5. y \in Nat /\ x \in Nat /\ y < x
  BY <1>4
<1> QED BY <1>2, <1>3, <1>5

LEMMA CountType == Cardinality(Nodes) \in Nat
BY TreeAssumption, FS_CardinalityType DEF TreeAssumption

LEMMA NumbersGoOn ==
  /\ First \in Numbers /\ GoesDown(First)
  /\ Last \in Numbers /\ GoesOn(First, Last)
<1>1. First \in Numbers /\ GoesDown(First)
        /\ \E last \in Numbers : GoesOn(First, last)
  BY TreeAssumption DEF TreeAssumption, First
<1> QED BY <1>1 DEF Last

LEMMA NumberTypes ==
  \A n \in Nodes : First[n] \in 1 .. Cardinality(Nodes)
                     /\ Last[n] \in 1 .. Cardinality(Nodes)
BY NumbersGoOn DEF Numbers

\* A list holds files and folders.
LEMMA ListTypes ==
  /\ Roots[1] \in Nodes /\ Len(Roots) \in Nat \ {0}
  /\ \A list \in Lists :
       /\ list \in Seq(Nodes) /\ Len(list) \in Nat
       /\ DOMAIN list = 1 .. Len(list)
       /\ \A i \in 1 .. Len(list) : list[i] \in Members(list)
  /\ \A d \in Folders : Kids[d] \in Lists
  /\ \A d \in Folders : Kids[d] # <<>> =>
        Kids[d][1] \in Nodes /\ 1 \in 1 .. Len(Kids[d])
  /\ \A d \in Folders : Members(Kids[d]) \subseteq Nodes \ Members(Roots)
<1>1. Roots \in Seq(Nodes) /\ Roots # <<>>
  BY TreeAssumption DEF TreeAssumption
<1>2. \A d \in Folders : Kids[d] \in Seq(Nodes \ Members(Roots))
  BY TreeAssumption DEF TreeAssumption
<1>3. \A d \in Folders : Kids[d] \in Seq(Nodes)
  BY <1>2
<1>4. \A list \in Lists : list \in Seq(Nodes)
  BY <1>1, <1>3 DEF Lists
<1>5. \A list \in Lists : Len(list) \in Nat /\ DOMAIN list = 1 .. Len(list)
  BY <1>4
<1>6. \A list \in Lists : \A i \in 1 .. Len(list) : list[i] \in Members(list)
  BY <1>5 DEF Members
<1>7. Roots[1] \in Nodes /\ Len(Roots) \in Nat \ {0}
  BY <1>1
<1>8. \A d \in Folders : Kids[d] # <<>> =>
        Kids[d][1] \in Nodes /\ 1 \in 1 .. Len(Kids[d])
  BY <1>3
<1>9. ASSUME NEW d \in Folders
      PROVE  Members(Kids[d]) \subseteq Nodes \ Members(Roots)
  <2>1. \A i \in DOMAIN Kids[d] : Kids[d][i] \in Nodes \ Members(Roots)
    BY <1>2
  <2>2. Members(Kids[d]) = {Kids[d][i] : i \in DOMAIN Kids[d]}
    BY DEF Members
  <2> QED BY <2>1, <2>2
<1> QED BY <1>4, <1>5, <1>6, <1>7, <1>8, <1>9 DEF Lists

LEMMA ParentIsFolder ==
  ASSUME NEW n \in Nodes, ~IsRoot(n)
  PROVE  Parent(n) \in Folders /\ n \in Members(Kids[Parent(n)])
<1>1. \E d \in Folders : n \in Members(Kids[d])
  BY TreeAssumption DEF TreeAssumption, Lists, IsRoot
<1> QED BY <1>1 DEF Parent

\* Its place in its list.
LEMMA PlaceInList ==
  ASSUME NEW n \in Nodes
  PROVE  /\ Siblings(n) \in Lists
         /\ Place(n) \in 1 .. Len(Siblings(n)) /\ Siblings(n)[Place(n)] = n
<1>1. Siblings(n) \in Lists /\ n \in Members(Siblings(n))
  BY ParentIsFolder, ListTypes DEF Siblings, IsRoot, Lists
<1>2. \E i \in DOMAIN Siblings(n) : Siblings(n)[i] = n
  BY <1>1 DEF Members
<1>3. Place(n) \in DOMAIN Siblings(n) /\ Siblings(n)[Place(n)] = n
  BY <1>2 DEF Place
<1> QED BY <1>1, <1>3, ListTypes

\* The next one in a list comes right after all that is below this one.
LEMMA NextNumber ==
  ASSUME NEW n \in Nodes
  PROVE  /\ HasNext(n) => NextOf(n) \in Nodes /\ First[NextOf(n)] = Last[n] + 1
         /\ ~HasNext(n) /\ IsRoot(n) => Last[n] = Cardinality(Nodes)
         /\ ~HasNext(n) /\ ~IsRoot(n) =>
              Parent(n) \in Nodes /\ Last[Parent(n)] = Last[n]
                /\ First[Parent(n)] < First[n]
<1>1. Place(n) \in 1 .. Len(Siblings(n)) /\ Siblings(n) \in Lists
      /\ Siblings(n)[Place(n)] = n
  BY PlaceInList
<1>a. Len(Siblings(n)) \in Nat /\ Siblings(n) \in Seq(Nodes)
  BY <1>1, ListTypes
<1> USE ListTypes, NumbersGoOn
<1>2. CASE HasNext(n)
  <2>0. Place(n) < Len(Siblings(n))
    BY <1>2 DEF HasNext
  <2>1. Place(n) \in 1 .. Len(Siblings(n)) - 1
        /\ Place(n) + 1 \in 1 .. Len(Siblings(n))
    BY ONLY <1>1, <1>a, <2>0
  <2>2. NextOf(n) \in Nodes
    BY <1>a, <2>1 DEF NextOf
  <2>3. First[NextOf(n)] = Last[n] + 1
    <3>1. \A i \in 1 .. Len(Siblings(n)) - 1 :
            First[Siblings(n)[i + 1]] = Last[Siblings(n)[i]] + 1
      BY <1>1 DEF GoesOn
    <3> QED BY ONLY <1>1, <2>1, <3>1 DEF NextOf
  <2> QED BY <1>2, <2>2, <2>3
<1>3. CASE ~HasNext(n)
  <2>1. Place(n) = Len(Siblings(n)) /\ Siblings(n)[Len(Siblings(n))] = n
    BY <1>1, <1>a, <1>3 DEF HasNext
  <2>2. IsRoot(n) => Last[n] = Cardinality(Nodes)
    BY <2>1 DEF Siblings, GoesOn
  <2>3. ASSUME ~IsRoot(n)
        PROVE  Parent(n) \in Nodes /\ Last[Parent(n)] = Last[n]
                 /\ First[Parent(n)] < First[n]
    <3>1. Parent(n) \in Folders /\ n \in Members(Kids[Parent(n)])
      BY <2>3, ParentIsFolder
    <3>2. Siblings(n) = Kids[Parent(n)] /\ Kids[Parent(n)] # <<>>
      BY <1>1, <2>3 DEF Siblings
    <3> QED BY <2>1, <3>1, <3>2 DEF GoesOn, GoesDown, Nodes
  <2> QED BY <1>3, <2>2, <2>3
<1> QED BY <1>2, <1>3

\* What has the number after all that is below n.
NextNumbered(n) ==
  IF Last[n] = Cardinality(Nodes) THEN NULL
  ELSE CHOOSE x \in Nodes : First[x] = Last[n] + 1

LEMMA NumberedOnce ==
  ASSUME NEW x \in Nodes, NEW n \in Nodes, First[x] = Last[n] + 1
  PROVE  NextNumbered(n) = x
<1>1. Last[n] # Cardinality(Nodes)
  BY NumberTypes, CountType
<1>2. \A y \in Nodes : First[y] = Last[n] + 1 => y = x
  BY NumbersGoOn DEF GoesDown
<1> QED BY <1>1, <1>2 DEF NextNumbered

\* The recursion has a solution, so that Climb is one.
LEMMA ClimbEquation ==
  Climb = [n \in Nodes |-> IF HasNext(n) THEN NextOf(n)
                           ELSE IF IsRoot(n) THEN NULL
                           ELSE Climb[Parent(n)]]
<1> DEFINE f == [n \in Nodes |-> NextNumbered(n)]
           g == [n \in Nodes |-> IF HasNext(n) THEN NextOf(n)
                                 ELSE IF IsRoot(n) THEN NULL
                                 ELSE f[Parent(n)]]
<1>1. ASSUME NEW n \in Nodes PROVE f[n] = g[n]
  <2>1. CASE HasNext(n)
    BY <2>1, NextNumber, NumberedOnce
  <2>2. CASE ~HasNext(n) /\ IsRoot(n)
    BY <2>2, NextNumber DEF NextNumbered
  <2>3. CASE ~HasNext(n) /\ ~IsRoot(n)
    <3>1. Parent(n) \in Nodes /\ Last[Parent(n)] = Last[n]
      BY <2>3, NextNumber
    <3>2. NextNumbered(Parent(n)) = NextNumbered(n)
      BY <3>1 DEF NextNumbered
    <3> QED BY <2>3, <3>1, <3>2
  <2> QED BY <2>1, <2>2, <2>3
<1>2. f = g
  BY <1>1
<1>3. \E h : h = [n \in Nodes |-> IF HasNext(n) THEN NextOf(n)
                                  ELSE IF IsRoot(n) THEN NULL
                                  ELSE h[Parent(n)]]
  <2> HIDE DEF f
  <2>1. f = [n \in Nodes |-> IF HasNext(n) THEN NextOf(n)
                             ELSE IF IsRoot(n) THEN NULL
                             ELSE f[Parent(n)]]
    BY <1>2
  <2> QED BY <2>1, Zenon
<1> QED BY <1>3, Zenon DEF Climb

\* From n the walk climbs to the number after all that is below n, if any.
ClimbsTo(n, x) ==
  IF Last[n] = Cardinality(Nodes) THEN x = NULL
  ELSE x \in Nodes /\ First[x] = Last[n] + 1

LEMMA ClimbNumber == \A n \in Nodes : ClimbsTo(n, Climb[n])
<1> DEFINE Wrong == {n \in Nodes : ~ClimbsTo(n, Climb[n])}
           S == {First[n] : n \in Wrong}
<1>1. SUFFICES ASSUME Wrong # {} PROVE FALSE
  OBVIOUS
<1>2. S \subseteq Nat /\ S # {}
  BY <1>1, NumberTypes, CountType
<1>3. PICK k \in S : \A y \in S : k <= y
  <2> HIDE DEF S
  <2> QED BY <1>2, LeastNumber
<1>4. PICK n \in Wrong : First[n] = k
  BY <1>3
<1>5. Climb[n] = IF HasNext(n) THEN NextOf(n)
                 ELSE IF IsRoot(n) THEN NULL
                 ELSE Climb[Parent(n)]
  BY <1>4, ClimbEquation
<1>6. CASE HasNext(n)
  <2>1. NextOf(n) \in Nodes /\ First[NextOf(n)] = Last[n] + 1
    BY <1>4, <1>6, NextNumber
  <2>2. Last[n] # Cardinality(Nodes)
    BY <1>4, <2>1, NumberTypes, CountType
  <2> QED BY <1>4, <1>5, <1>6, <2>1, <2>2 DEF ClimbsTo
<1>7. CASE ~HasNext(n) /\ IsRoot(n)
  BY <1>4, <1>5, <1>7, NextNumber DEF ClimbsTo
<1>8. CASE ~HasNext(n) /\ ~IsRoot(n)
  <2>1. Parent(n) \in Nodes /\ Last[Parent(n)] = Last[n]
          /\ First[Parent(n)] < First[n]
    BY <1>4, <1>8, NextNumber
  <2>3. Parent(n) \in Wrong
    BY <1>4, <1>5, <1>8, <2>1 DEF ClimbsTo
  <2>4. First[Parent(n)] \in S
    BY <2>3
  <2> QED BY <1>2, <1>3, <1>4, <2>1, <2>4
<1> QED BY <1>6, <1>7, <1>8

\* What begins below m is no root, ends below m, and is in no folder that
\* begins before m.
Within(m, n) ==
  First[m] < First[n] /\ First[n] <= Last[m] =>
    /\ ~IsRoot(n)
    /\ Last[n] <= Last[m]
    /\ \A p \in Folders : n \in Members(Kids[p]) => First[m] <= First[p]

\* By induction on the number of n: from the element before it in its list, or
\* from the folder that holds it.
LEMMA WithinStep ==
  ASSUME NEW n \in Nodes, NEW m \in Nodes,
         \A y \in Nodes : First[y] < First[n] => \A x \in Nodes : Within(x, y),
         First[m] < First[n], First[n] <= Last[m]
  PROVE  /\ ~IsRoot(n)
         /\ Last[n] <= Last[m]
         /\ \A p \in Folders : n \in Members(Kids[p]) => First[m] <= First[p]
<1> USE NumberTypes
<1>1. \A x, y \in Nodes : First[x] = First[y] => x = y
  BY NumbersGoOn DEF GoesDown
<1>2. ASSUME NEW list \in Lists, NEW i \in 2 .. Len(list), list[i] = n
      PROVE  /\ list[i - 1] \in Nodes /\ list[i - 1] \in Members(list)
             /\ Within(m, list[i - 1])
             /\ First[m] < First[list[i - 1]] /\ First[list[i - 1]] <= Last[m]
  <2> DEFINE y == list[i - 1]
  <2>1. i - 1 \in 1 .. Len(list) - 1 /\ i - 1 \in 1 .. Len(list)
        /\ (i - 1) + 1 = i
    BY ListTypes
  <2>2. y \in Nodes /\ y \in Members(list)
    BY <2>1, ListTypes
  <2>3. First[n] = Last[y] + 1
    <3>1. \A j \in 1 .. Len(list) - 1 : First[list[j + 1]] = Last[list[j]] + 1
      BY NumbersGoOn DEF GoesOn
    <3> QED BY ONLY <2>1, <3>1, <1>2
  <2>4. First[y] <= Last[y]
    BY <2>2, NumbersGoOn DEF GoesOn
  <2> HIDE DEF y
  <2>5. First[y] < First[n] /\ Within(m, y)
    BY <2>2, <2>3, <2>4
  <2>6. First[y] # First[m]
    BY <1>1, <2>2, <2>3
  <2>7. ~(First[y] < First[m])
    <3>1. SUFFICES ASSUME First[y] < First[m] PROVE FALSE
      OBVIOUS
    <3>2. First[m] <= Last[y]
      BY <2>2, <2>3
    <3>3. Within(y, m)
      BY <2>2
    <3>4. Last[m] <= Last[y]
      BY <3>1, <3>2, <3>3 DEF Within
    <3> QED BY <2>2, <2>3, <3>4
  <2>8. First[m] < First[y] /\ First[y] <= Last[m]
    BY <2>2, <2>3, <2>4, <2>6, <2>7
  <2> QED BY <2>2, <2>5, <2>8 DEF y
<1>3. ASSUME IsRoot(n) PROVE FALSE
  <2>1. Roots \in Lists
    BY DEF Lists
  <2>2. PICK i \in 1 .. Len(Roots) : Roots[i] = n
    BY <1>3, <2>1, ListTypes DEF IsRoot, Members
  <2>3. CASE i = 1
    BY <2>2, <2>3, NumbersGoOn DEF GoesDown
  <2>4. CASE i # 1
    <3>1. i \in 2 .. Len(Roots)
      BY <2>2, <2>4, ListTypes
    <3> QED BY <1>2, <2>1, <2>2, <3>1 DEF Within, IsRoot
  <2> QED BY <2>3, <2>4
<1>4. ASSUME NEW p \in Folders, n \in Members(Kids[p])
      PROVE  First[m] <= First[p]
  <2>1. Kids[p] \in Lists /\ p \in Nodes
    BY ListTypes DEF Nodes
  <2>2. PICK i \in 1 .. Len(Kids[p]) : Kids[p][i] = n
    BY <1>4, <2>1, ListTypes DEF Members
  <2>3. CASE i = 1
    <3>1. Kids[p] # <<>>
      BY <2>2
    <3>2. First[n] = First[p] + 1
      BY <2>2, <2>3, <3>1, NumbersGoOn DEF GoesDown
    <3> QED BY <2>1, <3>2
  <2>4. CASE i # 1
    <3>1. i \in 2 .. Len(Kids[p])
      BY <2>1, <2>2, <2>4, ListTypes
    <3> QED BY <1>2, <2>1, <2>2, <3>1 DEF Within
  <2> QED BY <2>3, <2>4
<1>5. Last[n] <= Last[m]
  <2> DEFINE p == Parent(n)
  <2>1. p \in Folders /\ n \in Members(Kids[p]) /\ p \in Nodes
    BY <1>3, ParentIsFolder DEF Nodes
  <2>2. First[m] <= First[p] /\ First[p] < First[n] /\ Last[n] <= Last[p]
    BY <1>4, <2>1, NumbersGoOn DEF GoesOn, GoesDown
  <2> HIDE DEF p
  <2>3. CASE First[m] = First[p]
    BY <1>1, <2>1, <2>2, <2>3
  <2>4. CASE First[m] # First[p]
    <3>1. First[m] < First[p] /\ First[p] <= Last[m] /\ Within(m, p)
      BY <2>1, <2>2, <2>4
    <3> QED BY <2>1, <2>2, <3>1 DEF Within
  <2> QED BY <2>3, <2>4
<1> QED BY <1>3, <1>4, <1>5

LEMMA BelowIsWithin == \A m, n \in Nodes : Within(m, n)
<1> DEFINE Wrong == {n \in Nodes : \E m \in Nodes : ~Within(m, n)}
           S == {First[n] : n \in Wrong}
<1>1. SUFFICES ASSUME Wrong # {} PROVE FALSE
  OBVIOUS
<1>2. S \subseteq Nat /\ S # {}
  BY <1>1, NumberTypes, CountType
<1>3. PICK k \in S : \A y \in S : k <= y
  <2> HIDE DEF S
  <2> QED BY <1>2, LeastNumber
<1>4. PICK n \in Wrong : First[n] = k
  BY <1>3
<1>5. \A y \in Nodes : First[y] < First[n] => y \notin Wrong
  <2> SUFFICES ASSUME NEW y \in Nodes, First[y] < First[n], y \in Wrong
               PROVE  FALSE
    OBVIOUS
  <2>1. First[y] \in S
    OBVIOUS
  <2>2. First[y] \in Nat /\ First[n] \in Nat
    BY <1>4, NumberTypes, CountType
  <2>3. First[n] <= First[y]
    BY <1>3, <1>4, <2>1
  <2> QED BY ONLY <2>2, <2>3, First[y] < First[n]
<1>6. \A y \in Nodes : First[y] < First[n] => \A x \in Nodes : Within(x, y)
  BY <1>5
<1>7. \A m \in Nodes : Within(m, n)
  BY <1>4, <1>6, WithinStep DEF Within
<1> QED BY <1>4, <1>7

--------------------------------------------------------------------------------
(* The walk.                                                               *)

LEMMA Names ==
  /\ NULL # Deleted /\ NULL \notin Nodes /\ Deleted \notin Nodes
  /\ Folders \cap Files = {} /\ Folders \subseteq Nodes /\ Files \subseteq Nodes
  /\ \A f \in Files : Size[f] \in Nat
  /\ "ui" # "core"
BY NamesAssumption, TreeAssumption, DownloadAssumption
DEF NamesAssumption, TreeAssumption, DownloadAssumption, NULL, Deleted, Nodes

\* Where gotoNext() comes to from m, when these folders have a child list.
NextFrom(m, lists) == IF m \in lists THEN Kids[m][1] ELSE Climb[m]

\* It goes on in the tree, if at all.
LEMMA NextIsLater ==
  ASSUME NEW m \in Nodes, NEW lists,
         m \in lists => m \in Folders /\ Kids[m] # <<>>,
         NextFrom(m, lists) # NULL
  PROVE  /\ NextFrom(m, lists) \in Nodes
         /\ First[m] < First[NextFrom(m, lists)]
<1> DEFINE x == NextFrom(m, lists)
<1>1. CASE m \in lists
  <2>1. x = Kids[m][1]
    BY <1>1 DEF NextFrom
  <2> HIDE DEF x
  <2>2. x \in Nodes /\ First[x] = First[m] + 1
    BY <1>1, <2>1, ListTypes, NumbersGoOn DEF GoesDown
  <2> QED BY <2>2, NumberTypes DEF x
<1>2. CASE m \notin lists
  <2>1. x = Climb[m]
    BY <1>2 DEF NextFrom
  <2>2. x \in Nodes /\ First[x] = Last[m] + 1
    BY <2>1, ClimbNumber DEF ClimbsTo
  <2>3. First[m] <= Last[m]
    BY NumbersGoOn DEF GoesOn
  <2> HIDE DEF x
  <2> QED BY <2>2, <2>3, NumberTypes DEF x
<1> QED BY <1>1, <1>2

\* Nothing that is known is passed over: what is left out lies below m, and is
\* only known when m was listed, and then there is a child list to go into.
LEMMA NextLeavesNothingOut ==
  ASSUME NEW m \in Nodes, NEW lists, NEW f \in [Nodes -> Fates],
         NEW what \in Fates \ {"pending"},
         NothingBeyond(f, First[m]), AllBefore(f, First[m]),
         m \in lists <=> m \in Folders /\ what = "listed" /\ Kids[m] # <<>>
  PROVE  LET next == NextFrom(m, lists)
             g == [f EXCEPT ![m] = what]
         IN  /\ next = NULL => \A k \in Nat : AllBefore(g, k)
             /\ next # NULL => /\ NothingBeyond(g, First[next])
                               /\ AllBefore(g, First[next])
<1> DEFINE next == NextFrom(m, lists)
           g == [f EXCEPT ![m] = what]
           Known(h, n) == IsRoot(n) \/ h[Parent(n)] = "listed"
<1>1. g[m] = what /\ \A n \in Nodes : n # m => g[n] = f[n]
  OBVIOUS
<1>2. \A n \in Nodes : First[n] = First[m] => n = m
  BY NumbersGoOn DEF GoesDown
<1>3. ASSUME NEW n \in Nodes, Known(g, n), First[n] <= First[m]
      PROVE  g[n] # "pending"
  <2>1. CASE n = m
    BY <1>1, <2>1
  <2>2. CASE n # m
    <3>1. First[n] < First[m]
      BY <1>2, <1>3, <2>2, NumberTypes
    <3>2. ASSUME ~IsRoot(n) PROVE f[Parent(n)] = "listed"
      <4>1. Parent(n) \in Nodes /\ First[Parent(n)] < First[n]
        BY <3>2, ParentIsFolder, NumbersGoOn DEF GoesDown, Nodes
      <4>2. Parent(n) # m
        BY <3>1, <4>1, NumberTypes
      <4> QED BY <1>1, <1>3, <3>2, <4>1, <4>2
    <3> QED BY <1>1, <2>2, <3>1, <3>2 DEF AllBefore
  <2> QED BY <2>1, <2>2
<1>4. ASSUME NEW n \in Nodes, g[n] # "pending" PROVE First[n] <= First[m]
  BY <1>1, <1>4, NumberTypes DEF NothingBeyond
<1>5. ASSUME NEW n \in Nodes, Known(g, n), First[m] < First[n],
             First[n] <= Last[m], m \notin lists
      PROVE  FALSE
  <2>1. Within(m, n)
    BY BelowIsWithin
  <2>2. ~IsRoot(n) /\ \A p \in Folders : n \in Members(Kids[p]) => First[m] <= First[p]
    BY <1>5, <2>1 DEF Within
  <2> DEFINE p == Parent(n)
  <2>3. p \in Folders /\ n \in Members(Kids[p]) /\ g[p] = "listed" /\ p \in Nodes
    BY <1>5, <2>2, ParentIsFolder DEF Nodes
  <2> HIDE DEF p
  <2>4. First[m] <= First[p]
    BY <2>2, <2>3
  <2>5. First[p] <= First[m]
    BY <1>4, <2>3
  <2>6. p = m
    BY <1>2, <2>3, <2>4, <2>5, NumberTypes
  <2>7. Kids[m] = <<>>
    BY <1>1, <1>5, <2>3, <2>6
  <2>8. Members(Kids[m]) = {}
    BY <2>7 DEF Members
  <2> QED BY <2>3, <2>6, <2>8
<1>6. CASE next = NULL
  <2>1. m \notin lists
    BY <1>6, ListTypes, Names DEF NextFrom
  <2>2. Climb[m] = NULL
    BY <1>6, <2>1 DEF NextFrom
  <2>3. Last[m] = Cardinality(Nodes)
    BY <2>2, ClimbNumber, Names DEF ClimbsTo
  <2>4. \A n \in Nodes : First[n] <= Last[m]
    BY <2>3, NumberTypes, CountType
  <2>5. \A n \in Nodes : Known(g, n) => g[n] # "pending"
    BY <1>3, <1>5, <2>1, <2>4, NumberTypes, CountType
  <2> QED BY <1>6, <2>5 DEF AllBefore
<1>7. CASE next # NULL
  <2>1. next \in Nodes /\ First[m] < First[next]
    BY <1>7, NextIsLater
  <2>2. NothingBeyond(g, First[next])
    <3> HIDE DEF next, g
    <3> QED BY <1>4, <2>1, NumberTypes, CountType DEF NothingBeyond
  <2>3. CASE m \in lists
    <3>1. next = Kids[m][1] /\ First[Kids[m][1]] = First[m] + 1
      BY <2>3, NumbersGoOn DEF NextFrom, GoesDown
    <3> HIDE DEF next, g
    <3>2. First[next] = First[m] + 1
      BY <3>1
    <3>3. \A n \in Nodes : First[n] < First[next] => First[n] <= First[m]
      BY <3>2, NumberTypes, CountType
    <3> QED BY <1>3, <1>7, <2>2, <3>3 DEF AllBefore, next, g
  <2>4. CASE m \notin lists
    <3>1. next = Climb[m]
      BY <2>4 DEF NextFrom
    <3>2. First[next] = Last[m] + 1
      BY <1>7, <3>1, ClimbNumber DEF ClimbsTo
    <3> HIDE DEF next
    <3>3. \A n \in Nodes : First[n] < First[next] => First[n] <= Last[m]
      BY <3>2, NumberTypes, CountType
    <3>4. ASSUME NEW n \in Nodes, Known(g, n), First[n] < First[next]
          PROVE  g[n] # "pending"
      BY <1>3, <1>5, <2>4, <3>3, <3>4, NumberTypes, CountType
    <3> QED BY <1>7, <2>2, <3>4 DEF AllBefore, next
  <2> QED BY <2>3, <2>4
<1> QED BY <1>6, <1>7

--------------------------------------------------------------------------------
(* What gotoNext() does to the invariant.                                  *)

\* The thread goes on to a later file or folder, or comes to the end.
WentOn(t) ==
    /\ at' = [at EXCEPT ![t] = "start"] /\ UNCHANGED <<posted, crashed>>
    /\ m_toCopy' \in Nodes /\ First[m_toCopy] < First[m_toCopy']

CameToEnd(t) ==
    /\ at' = [at EXCEPT ![t] = Back(t)] /\ posted' = 1 /\ UNCHANGED crashed
    /\ m_toCopy' = NULL

LEMMA InWork ==
  ASSUME DownloadInv, m_toCopy # NULL
  PROVE  /\ m_toCopy \in Nodes /\ posted = 0 /\ fate[m_toCopy] = "pending"
         /\ m_state = "download" /\ crashed = FALSE
<1>1. m_toCopy \in Nodes
  BY DEF DownloadInv, DownloadTypeOK
<1>2. fate[m_toCopy] = "pending"
  BY <1>1, NumberTypes, CountType DEF DownloadInv, WalkInv, NothingBeyond
<1> QED BY <1>1, <1>2 DEF DownloadInv, DownloadTypeOK, StateInv, MemoryIsLive

LEMMA GotoNextMoves ==
  ASSUME DownloadInv, m_toCopy # NULL, NEW t \in Threads, NEW lists,
         m_toCopy \in lists => m_toCopy \in Folders /\ Kids[m_toCopy] # <<>>,
         GotoNextWith(t, lists)
  PROVE  \/ /\ WentOn(t) /\ m_toCopy' = NextFrom(m_toCopy, lists)
            /\ NextFrom(m_toCopy, lists) # NULL /\ children' \subseteq lists
         \/ /\ CameToEnd(t) /\ NextFrom(m_toCopy, lists) = NULL
            /\ children' = {}
<1>1. NextInList(lists) = NextFrom(m_toCopy, lists)
  BY DEF NextInList, NextFrom
<1>2. posted + 1 = 1 /\ m_toCopy \in Nodes
  BY InWork
<1>3. CASE NextInList(lists) # NULL
  <2>1. ListsLeft(lists) \subseteq lists
    BY DEF ListsLeft
  <2>2. m_toCopy' = NextFrom(m_toCopy, lists) /\ children' \subseteq lists
        /\ at' = [at EXCEPT ![t] = "start"] /\ UNCHANGED <<posted, crashed>>
    BY <1>1, <1>3, <2>1 DEF GotoNextWith, Go
  <2> QED BY <1>1, <1>2, <1>3, <2>2, NextIsLater DEF WentOn
<1>4. CASE NextInList(lists) = NULL
  BY <1>1, <1>2, <1>4 DEF GotoNextWith, KillOp, CameToEnd, Go
<1> QED BY <1>3, <1>4

\* The walk with the fate of the one in work settled.
LEMMA GotoNextSettling ==
  ASSUME DownloadInv, m_toCopy # NULL, NEW t \in Threads, NEW lists,
         UNCHANGED m_isTerminating,
         NEW what \in Fates \ {"pending"}, Settle(m_toCopy, what),
         m_toCopy \in lists <=>
           m_toCopy \in Folders /\ what = "listed" /\ Kids[m_toCopy] # <<>>,
         lists \subseteq children \cup {m_toCopy},
         GotoNextWith(t, lists)
  PROVE  /\ WentOn(t) \/ CameToEnd(t)
         /\ WalkInv' /\ NothingLeftOut'
<1> DEFINE next == NextFrom(m_toCopy, lists)
<1>1. fate \in [Nodes -> Fates] /\ m_toCopy \in Nodes
      /\ fate[m_toCopy] = "pending"
      /\ fate' = [fate EXCEPT ![m_toCopy] = what]
  BY InWork DEF DownloadInv, DownloadTypeOK, Settle
<1>2. NothingBeyond(fate, First[m_toCopy])
      /\ (~m_isTerminating => AllBefore(fate, First[m_toCopy]))
  BY DEF DownloadInv, WalkInv
<1>3. ~m_isTerminating =>
        /\ next = NULL => \A k \in Nat : AllBefore(fate', k)
        /\ next # NULL => AllBefore(fate', First[next])
  BY <1>1, <1>2, NextLeavesNothingOut
<1>4. \/ WentOn(t) /\ m_toCopy' = next /\ next # NULL /\ children' \subseteq lists
      \/ CameToEnd(t) /\ next = NULL /\ children' = {}
  BY GotoNextMoves
<1>a. next # NULL => NothingBeyond(fate', First[next])
  <2>1. next # NULL => next \in Nodes /\ First[m_toCopy] < First[next]
    BY <1>1, NextIsLater
  <2> HIDE DEF next
  <2>2. \A n \in Nodes : fate'[n] # "pending" => First[n] <= First[m_toCopy]
    BY <1>1, <1>2, NumberTypes, CountType DEF NothingBeyond
  <2> QED BY <1>1, <2>1, <2>2, NumberTypes, CountType DEF NothingBeyond
<1> HIDE DEF next
<1>5. children' \subseteq {d \in Folders : fate'[d] = "listed"}
  <2>1. children \subseteq {d \in Folders : fate[d] = "listed"}
    BY DEF DownloadInv, WalkInv
  <2>2. \A d \in lists : d \in Folders /\ fate'[d] = "listed"
    BY <1>1, <2>1, Names
  <2> QED BY <1>4, <2>2
<1>6. WalkInv'
  BY <1>3, <1>4, <1>5, <1>a, Names DEF WalkInv, WentOn, CameToEnd
<1>7. NothingLeftOut'
  <2>1. CASE next = NULL /\ ~m_isTerminating
    <3>1. AllBefore(fate', Cardinality(Nodes) + 1)
      BY <1>3, <2>1, CountType
    <3>2. \A n \in Nodes : First[n] < Cardinality(Nodes) + 1
      BY NumberTypes, CountType
    <3> QED BY <3>1, <3>2 DEF AllBefore, NothingLeftOut
  <2>2. CASE next # NULL
    <3>1. posted' = 0
      BY <1>4, <2>2, InWork DEF WentOn
    <3> QED BY <3>1 DEF NothingLeftOut
  <2>3. CASE m_isTerminating
    BY <2>3 DEF NothingLeftOut
  <2> QED BY <2>1, <2>2, <2>3
<1> QED BY <1>4, <1>6, <1>7

\* The walk of a download that was cancelled.
LEMMA GotoNextTerminating ==
  ASSUME DownloadInv, m_toCopy # NULL, NEW t \in Threads,
         m_isTerminating, UNCHANGED <<m_isTerminating, fate>>, GotoNext(t)
  PROVE  /\ WentOn(t) \/ CameToEnd(t)
         /\ WalkInv' /\ NothingLeftOut'
<1>1. m_toCopy \in Nodes /\ fate[m_toCopy] = "pending"
  BY InWork
<1>2. children \subseteq {d \in Folders : fate[d] = "listed"}
      /\ NothingBeyond(fate, First[m_toCopy])
  BY DEF DownloadInv, WalkInv
<1>3. m_toCopy \notin children
  BY <1>1, <1>2
<1>4. \/ WentOn(t) /\ children' \subseteq children
      \/ CameToEnd(t) /\ children' = {}
  BY <1>3, GotoNextMoves DEF GotoNext
<1>5. WalkInv'
  <2>1. CASE WentOn(t) /\ children' \subseteq children
    <3>1. NothingBeyond(fate, First[m_toCopy'])
      BY <1>1, <1>2, <2>1, NumberTypes, CountType DEF NothingBeyond, WentOn
    <3> QED BY <1>2, <2>1, <3>1 DEF WalkInv
  <2>2. CASE CameToEnd(t) /\ children' = {}
    BY <2>2 DEF WalkInv, CameToEnd
  <2> QED BY <1>4, <2>1, <2>2
<1> QED BY <1>4, <1>5 DEF NothingLeftOut

\* After gotoNext() with nothing under way.
LEMMA AfterGotoNext ==
  ASSUME DownloadInv, m_toCopy # NULL, NEW t \in Threads,
         WentOn(t) \/ CameToEnd(t), ~Counting,
         at[t] = "process" \/ (t = Core /\ at[Core] = "idle" /\ at[Ui] = "idle"),
         UNCHANGED <<m_state, listening, m_foldersToCalcSizeLeft, frames,
                     m_isTerminating>>,
         requests' = <<>>, replies' = <<>>
  PROVE  /\ ThreadInv' /\ StateInv' /\ WireInv'
         /\ posted' \in 0 .. 1 /\ m_toCopy' \in Nodes \cup {NULL}
         /\ at' \in [Threads -> Stages] /\ crashed' = FALSE
<1>1. m_toCopy \in Nodes /\ posted = 0 /\ m_state = "download" /\ crashed = FALSE
  BY InWork
<1>2. /\ at \in [Threads -> Stages] /\ frames \in [Threads -> 0 .. Cardinality(Nodes)]
      /\ at[Ui] = "idle" \/ at[Core] = "idle"
      /\ Ui \in Threads /\ Core \in Threads /\ Ui # Core
      /\ \A u \in Threads : u = Ui \/ u = Core
  BY Names DEF DownloadInv, DownloadTypeOK, ThreadInv, Threads, Ui, Core
<1>3. at'[t] \in {"start", "return", "idle"} /\ \A u \in Threads \ {t} : at'[u] = at[u]
  BY <1>2 DEF WentOn, CameToEnd, Back
<1>4. \A u \in Threads \ {t} : at[u] = "idle" /\ frames[u] = 0
  BY <1>2 DEF DownloadInv, ThreadInv, Threads
<1>a. /\ posted' \in 0 .. 1 /\ m_toCopy' \in Nodes \cup {NULL}
      /\ at' \in [Threads -> Stages] /\ crashed' = FALSE
  BY <1>1, <1>2 DEF WentOn, CameToEnd, Back, Stages
<1>5. CASE WentOn(t)
  <2>1. at'[t] = "start" /\ m_toCopy' \in Nodes /\ First[m_toCopy] < First[m_toCopy']
    BY <1>2, <1>5 DEF WentOn
  <2>2. frames[t] <= First[m_toCopy]
    BY <1>1, <1>2, NumberTypes, CountType DEF DownloadInv, ThreadInv
  <2>3. frames[t] < First[m_toCopy']
    BY <1>1, <1>2, <2>1, <2>2, NumberTypes, CountType
  <2>4. frames[t] > 0 => ~m_isTerminating
    BY DEF DownloadInv, ThreadInv
  <2>5. ThreadInv'
    BY <1>1, <1>2, <1>3, <1>4, <2>1, <2>3, <2>4, Names DEF ThreadInv
  <2>6. StateInv'
    BY <1>1, <1>5, <2>1, Names DEF StateInv, WentOn, MemoryIsLive, DownloadInv
  <2>7. WireInv'
    <3>1. ~Counting'
      BY <1>2, <1>3 DEF Counting
    <3>2. AtWork'
      BY <2>1 DEF AtWork
    <3> QED BY <3>1, <3>2 DEF WireInv
  <2> QED BY <1>a, <2>5, <2>6, <2>7
<1>6. CASE CameToEnd(t)
  <2>1. at'[t] = (IF frames[t] > 0 THEN "return" ELSE "idle")
    BY <1>2, <1>6 DEF CameToEnd, Back
  <2>2. frames[t] > 0 => ~m_isTerminating
    BY DEF DownloadInv, ThreadInv
  <2>3. ThreadInv'
    BY <1>1, <1>2, <1>3, <1>4, <2>1, <2>2 DEF ThreadInv
  <2>4. StateInv'
    BY <1>1, <1>6 DEF StateInv, CameToEnd, MemoryIsLive, DownloadInv
  <2>5. WireInv'
    <3>1. ~Counting'
      BY <1>2, <1>3, <1>4, <2>1 DEF Counting
    <3> QED BY <3>1, <1>6 DEF WireInv, CameToEnd
  <2> QED BY <1>a, <2>3, <2>4, <2>5
<1> QED BY <1>5, <1>6

--------------------------------------------------------------------------------
(* The steps.                                                              *)

USE DEF AnyStream, AnyDownload

\* Replies wait for start(), and the user cancels between two of them: the
\* operation is in the hands of one thread.
Orderly == ~EarlyReplies /\ ~LateCancels

\* A sequence of one, and what it becomes.
LEMMA OneOnly ==
  ASSUME NEW S, NEW seq \in Seq(S), Len(seq) = 1
  PROVE  /\ seq # <<>> /\ Head(seq) = seq[1] /\ seq[1] \in S
         /\ Tail(seq) = <<>>
<1>1. seq # <<>> /\ Head(seq) = seq[1] /\ seq[1] \in S
  OBVIOUS
<1>2. Tail(seq) \in Seq(S) /\ Len(Tail(seq)) = 0
  BY <1>1
<1> QED BY <1>1, <1>2, EmptySeq

LEMMA AddedToNone ==
  ASSUME NEW S, NEW x \in S, NEW seq, seq = <<>>
  PROVE  /\ Append(seq, x) \in Seq(S) /\ Len(Append(seq, x)) = 1
         /\ Append(seq, x)[1] = x
OBVIOUS

\* The two threads.
LEMMA TwoThreads ==
  ASSUME DownloadInv
  PROVE  /\ Ui \in Threads /\ Core \in Threads /\ Ui # Core
         /\ \A u \in Threads : u = Ui \/ u = Core
         /\ at \in [Threads -> Stages]
         /\ frames \in [Threads -> 0 .. Cardinality(Nodes)]
         /\ \A t \in Threads : at[t] # "idle" =>
              \A u \in Threads \ {t} : at[u] = "idle" /\ frames[u] = 0
         /\ \A t \in Threads : at[t] = "idle" => frames[t] = 0
BY Names DEF DownloadInv, DownloadTypeOK, ThreadInv, Threads, Ui, Core

\* A thread that walks is alone with the operation, and nothing is under way.
LEMMA Walking ==
  ASSUME DownloadInv, NEW t \in Threads, at[t] \in {"start", "process"}
  PROVE  /\ m_toCopy \in Nodes /\ m_toCopy # NULL /\ ~Counting
         /\ requests = <<>> /\ replies = <<>>
         /\ \A u \in Threads \ {t} : at[u] = "idle" /\ frames[u] = 0
<1>1. \A u \in Threads \ {t} : at[u] = "idle" /\ frames[u] = 0
  BY TwoThreads
<1>2. m_toCopy \in Nodes /\ m_toCopy # NULL
  BY InWork DEF DownloadInv, ThreadInv
<1>3. ~Counting
  BY TwoThreads DEF DownloadInv, WireInv, SizesOnly
<1>4. AtWork
  BY DEF AtWork
<1> QED BY <1>1, <1>2, <1>3, <1>4 DEF DownloadInv, WireInv

\* While sizes are counted.
LEMMA WhileCounting ==
  ASSUME DownloadInv, Counting
  PROVE  /\ SizesOnly /\ m_toCopy \in Nodes /\ m_toCopy # NULL
         /\ requests \in Seq(AnyRequest) /\ replies \in Seq(AnyReply)
         /\ m_foldersToCalcSizeLeft \in 0 .. Len(Roots)
         /\ counted \in 0 .. Len(Roots) /\ Len(Roots) \in Nat \ {0}
         /\ First[m_toCopy] = 1
         /\ \A t \in Threads : at[t] \in {"idle", "count"} /\ frames[t] = 0
<1>1. SizesOnly
  BY DEF DownloadInv, WireInv
<1>2. m_toCopy \in Nodes /\ m_toCopy # NULL /\ First[m_toCopy] = 1
  BY <1>1, ListTypes, Names, NumbersGoOn DEF SizesOnly, GoesDown
<1>3. \A t \in Threads : at[t] \in {"idle", "count"} /\ frames[t] = 0
  BY <1>1, TwoThreads DEF SizesOnly, DownloadInv, ThreadInv
<1> QED BY <1>1, <1>2, <1>3, ListTypes DEF DownloadInv, DownloadTypeOK, WireTypes

\* The request or the reply that is under way once the walk is.
LEMMA RequestUnderWay ==
  ASSUME DownloadInv, requests # <<>>, ~Counting
  PROVE  /\ replies = <<>> /\ Asked(Head(requests))
         /\ Head(requests) \in AnyRequest /\ Tail(requests) = <<>>
         /\ m_toCopy \in Nodes /\ m_toCopy # NULL /\ ~AtWork
<1>1. OneMessage /\ m_toCopy # NULL /\ ~AtWork
  BY DEF DownloadInv, WireInv
<1>2. replies = <<>> /\ Len(requests) = 1 /\ Asked(requests[1])
  BY <1>1 DEF OneMessage
<1>3. requests \in Seq(AnyRequest)
  BY DEF DownloadInv, WireTypes
<1> QED BY <1>1, <1>2, <1>3, OneOnly, InWork

LEMMA ReplyUnderWay ==
  ASSUME DownloadInv, replies # <<>>, ~Counting
  PROVE  /\ requests = <<>> /\ Answered(Head(replies))
         /\ Head(replies) \in AnyReply /\ Tail(replies) = <<>>
         /\ m_toCopy \in Nodes /\ m_toCopy # NULL /\ ~AtWork
<1>1. OneMessage /\ m_toCopy # NULL /\ ~AtWork
  BY DEF DownloadInv, WireInv
<1>2. requests = <<>> /\ Len(replies) = 1 /\ Answered(replies[1])
  BY <1>1 DEF OneMessage
<1>3. replies \in Seq(AnyReply)
  BY DEF DownloadInv, WireTypes
<1> QED BY <1>1, <1>2, <1>3, OneOnly, InWork

LEMMA InitInv ==
  ASSUME Init
  PROVE  DownloadInv
<1>1. Cardinality(Nodes) \in Nat /\ Len(Roots) \in Nat /\ MaxOperations \in Nat
  BY CountType, ListTypes, DownloadAssumption DEF DownloadAssumption
<1>a. onDisk \in [Files -> Nat \cup {-1}]
  <2>1. onDisk \in [Files -> {-1, 1}]
    BY DEF Init
  <2>2. {-1, 1} \subseteq Nat \cup {-1}
    OBVIOUS
  <2> QED BY <2>1, <2>2
<1>b. /\ at \in [Threads -> Stages] /\ frames \in [Threads -> 0 .. Cardinality(Nodes)]
      /\ fate \in [Nodes -> Fates] /\ m_fos.file = NULL /\ m_downloadFile.file = NULL
  BY <1>1 DEF Init, Closed, Stages, Fates
<1>c. listening \in BOOLEAN /\ m_isTerminating \in BOOLEAN /\ crashed \in BOOLEAN
  BY Zenon DEF Init
<1>2. DownloadTypeOK
  BY <1>1, <1>a, <1>b, <1>c DEF Init, DownloadTypeOK
<1>3. WireTypes
  BY DEF Init, WireTypes, Closed
<1>4. ThreadInv
  BY DEF Init, ThreadInv, Threads, Ui, Core
<1>5. StateInv
  BY DEF Init, StateInv, MemoryIsLive
<1>6. WireInv
  BY DEF Init, WireInv, Counting, Threads, Ui
<1>7. WalkInv /\ NothingLeftOut /\ CopiedIsWhole
  BY Names DEF Init, WalkInv, NothingLeftOut, CopiedIsWhole
<1> QED BY <1>2, <1>3, <1>4, <1>5, <1>6, <1>7 DEF DownloadInv

LEMMA BeginStep ==
  ASSUME DownloadInv, Begin
  PROVE  DownloadInv' \/ (m_fos.file = Deleted /\ Broken')
<1> DEFINE first == Roots[1]
<1>1. first \in Nodes /\ First[first] = 1 /\ first # NULL
      /\ Len(Roots) \in Nat /\ MaxOperations \in Nat
  BY ListTypes, NumbersGoOn, Names, DownloadAssumption
  DEF GoesDown, DownloadAssumption
<1>2. m_toCopy = NULL /\ posted = 0
  BY DEF DownloadInv, StateInv, Begin, DownloadTypeOK
<1>3. requests = <<>> /\ replies = <<>>
  BY <1>1, <1>2 DEF DownloadInv, WireInv, SizesOnly
<1>5. /\ at' = [at EXCEPT ![Ui] = "count"] /\ UNCHANGED frames
      /\ m_toCopy' = first /\ children' = {}
      /\ crashed' = (m_fos.file = Deleted)
      /\ m_state' = "download" /\ listening' = TRUE /\ m_isTerminating' = FALSE
      /\ UNCHANGED <<posted, requests, replies>>
      /\ m_foldersToCalcSizeLeft' = 0 /\ counted' = 0
      /\ fate' = [n \in Nodes |-> "pending"]
  BY DEF Begin, Go, wire
<1>6. at' \in [Threads -> Stages] /\ at'[Ui] = "count" /\ at'[Core] = "idle"
  BY <1>5, TwoThreads DEF Stages, Begin
<1>a. listening' \in BOOLEAN /\ m_isTerminating' \in BOOLEAN /\ crashed' \in BOOLEAN
  BY <1>5, Zenon
<1>b. /\ fate' \in [Nodes -> Fates] /\ m_fos'.file = NULL /\ m_fileOffset' = 0
      /\ operations' \in 0 .. MaxOperations
      /\ UNCHANGED <<onDisk, frames, m_downloadFile>>
  BY <1>1, <1>5 DEF Fates, Begin, Closed, wire, DownloadInv, DownloadTypeOK
<1>7. DownloadTypeOK'
  BY <1>1, <1>2, <1>5, <1>6, <1>a, <1>b, TwoThreads DEF DownloadInv, DownloadTypeOK
<1>8. WireTypes'
  BY DEF DownloadInv, WireTypes, Begin, wire, Closed
<1>9. ThreadInv'
  BY <1>5, <1>6, TwoThreads DEF ThreadInv, Begin
<1>c. m_fos.file # Deleted => ~crashed'
  BY <1>5, Zenon
<1>10. m_fos.file # Deleted => StateInv'
  BY <1>1, <1>2, <1>5, <1>c DEF StateInv, MemoryIsLive
<1>11. WireInv'
  <2>1. SizesOnly'
    BY <1>3, <1>5, <1>6 DEF SizesOnly
  <2>2. Counting'
    BY <1>6 DEF Counting
  <2> QED BY <2>1, <2>2 DEF WireInv
<1>12. WalkInv' /\ NothingLeftOut' /\ CopiedIsWhole'
  BY <1>1, <1>2, <1>5, NumberTypes, Names
  DEF WalkInv, NothingLeftOut, CopiedIsWhole, NothingBeyond, AllBefore
<1>13. CASE m_fos.file # Deleted
  BY <1>7, <1>8, <1>9, <1>10, <1>11, <1>12, <1>13 DEF DownloadInv
<1>14. CASE m_fos.file = Deleted
  <2>1. ProcessedOnce'
    BY <1>6, TwoThreads DEF ProcessedOnce
  <2> QED BY <1>3, <1>5, <1>7, <1>12, <1>14, <2>1 DEF Broken
<1> QED BY <1>13, <1>14

LEMMA CountStep ==
  ASSUME DownloadInv, Count
  PROVE  DownloadInv'
<1> DEFINE root == Roots[counted + 1]
<1>1. Counting
  BY DEF Count, Counting
<1>2. /\ SizesOnly /\ m_foldersToCalcSizeLeft \in 0 .. Len(Roots)
      /\ counted \in 0 .. Len(Roots) /\ counted < Len(Roots)
      /\ Len(Roots) \in Nat
      /\ requests \in Seq(AnyRequest) /\ replies \in Seq(AnyReply)
  BY <1>1, WhileCounting DEF Count
<1>3. root \in Nodes
  BY <1>2, TreeAssumption DEF TreeAssumption
<1>4. Request("size", root, 0) \in AnyRequest
  BY <1>3 DEF Request, AnyRequest
<1>5. /\ counted' = counted + 1 /\ UNCHANGED replies
      /\ \/ /\ m_foldersToCalcSizeLeft' = m_foldersToCalcSizeLeft + 1
            /\ requests' = Append(requests, Request("size", root, 0))
         \/ UNCHANGED <<m_foldersToCalcSizeLeft, requests>>
  BY DEF Count, Send
<1> HIDE DEF root
<1>6. /\ requests' \in Seq(AnyRequest)
      /\ \A i \in 1 .. Len(requests') : requests'[i].kind = "size"
      /\ m_foldersToCalcSizeLeft' = Len(requests') + Len(replies')
      /\ m_foldersToCalcSizeLeft' <= counted'
      /\ m_foldersToCalcSizeLeft' \in 0 .. Len(Roots)
      /\ counted' \in 0 .. Len(Roots)
  <2>1. CASE UNCHANGED <<m_foldersToCalcSizeLeft, requests>>
    BY <1>2, <1>5, <2>1 DEF SizesOnly
  <2>2. CASE /\ m_foldersToCalcSizeLeft' = m_foldersToCalcSizeLeft + 1
             /\ requests' = Append(requests, Request("size", root, 0))
    <3>1. /\ Len(requests') = Len(requests) + 1 /\ requests' \in Seq(AnyRequest)
          /\ \A i \in 1 .. Len(requests) : requests'[i] = requests[i]
          /\ requests'[Len(requests) + 1] = Request("size", root, 0)
      BY <1>2, <1>4, <2>2
    <3>2. \A i \in 1 .. Len(requests') : requests'[i].kind = "size"
      BY <1>2, <3>1 DEF SizesOnly, Request
    <3> QED BY <1>2, <1>5, <2>2, <3>1, <3>2 DEF SizesOnly
  <2> QED BY <1>5, <2>1, <2>2
<1>7. UNCHANGED <<core, walk, m_isTerminating, streams, threads,
                  m_downloadFile, fate, crashed, operations, replies>>
  BY DEF Count
<1> USE <1>7 DEF core, walk, streams, threads
<1>8. DownloadTypeOK'
  BY <1>6 DEF DownloadInv, DownloadTypeOK
<1>9. WireTypes'
  BY <1>6 DEF DownloadInv, WireTypes
<1>10. ThreadInv' /\ StateInv' /\ WalkInv' /\ NothingLeftOut' /\ CopiedIsWhole'
  BY DEF DownloadInv, ThreadInv, StateInv, WalkInv, NothingLeftOut,
         CopiedIsWhole, MemoryIsLive
<1>11. WireInv'
  <2>1. SizesOnly'
    BY <1>2, <1>6 DEF SizesOnly
  <2>2. Counting'
    BY DEF Counting, Count
  <2> QED BY <2>1, <2>2 DEF WireInv
<1> QED BY <1>8, <1>9, <1>10, <1>11 DEF DownloadInv

LEMMA CountedStep ==
  ASSUME DownloadInv, Counted
  PROVE  DownloadInv'
<1>1. Counting
  BY DEF Counted, Counting
<1>2. /\ SizesOnly /\ m_foldersToCalcSizeLeft \in 0 .. Len(Roots)
      /\ Len(Roots) \in Nat /\ First[m_toCopy] = 1 /\ m_toCopy # NULL
      /\ requests \in Seq(AnyRequest) /\ replies \in Seq(AnyReply)
      /\ \A t \in Threads : frames[t] = 0
  BY <1>1, WhileCounting
<1>3. at[Core] = "idle" /\ at[Ui] = "count" /\ m_state = "download"
  BY <1>2, TwoThreads DEF SizesOnly, Counted, DownloadInv, ThreadInv
<1>4. /\ at' = [at EXCEPT ![Ui] = IF m_foldersToCalcSizeLeft = 0
                                  THEN "start" ELSE "idle"]
      /\ UNCHANGED <<core, walk, sizes, m_isTerminating, streams, frames, wire,
                     fate, crashed, operations>>
  BY DEF Counted, Go
<1>5. /\ at' \in [Threads -> Stages] /\ at'[Core] = "idle"
      /\ at'[Ui] = IF m_foldersToCalcSizeLeft = 0 THEN "start" ELSE "idle"
  BY <1>3, <1>4, TwoThreads DEF Stages
<1> USE <1>4 DEF core, walk, sizes, streams, wire
<1>6. DownloadTypeOK'
  BY <1>5 DEF DownloadInv, DownloadTypeOK
<1>7. WireTypes' /\ StateInv' /\ WalkInv' /\ NothingLeftOut' /\ CopiedIsWhole'
  BY DEF DownloadInv, WireTypes, StateInv, WalkInv, NothingLeftOut,
         CopiedIsWhole, MemoryIsLive
<1>8. ThreadInv'
  BY <1>2, <1>3, <1>5, TwoThreads DEF ThreadInv
<1>9. WireInv'
  <2>1. CASE m_foldersToCalcSizeLeft = 0
    <3>1. Len(requests) = 0 /\ Len(replies) = 0
      BY <1>2, <2>1 DEF SizesOnly
    <3>2. requests = <<>> /\ replies = <<>>
      BY <1>2, <3>1, EmptySeq
    <3>3. ~Counting' /\ AtWork'
      BY <1>5, <2>1, TwoThreads DEF Counting, AtWork
    <3> QED BY <3>2, <3>3 DEF WireInv
  <2>2. CASE m_foldersToCalcSizeLeft # 0
    <3>1. SizesOnly'
      BY <1>2, <1>5, <2>2 DEF SizesOnly
    <3>2. Counting'
      BY <1>2, <2>2 DEF Counting
    <3> QED BY <3>1, <3>2 DEF WireInv
  <2> QED BY <2>1, <2>2
<1> QED BY <1>6, <1>7, <1>8, <1>9 DEF DownloadInv

LEMMA OnFinishedStep ==
  ASSUME DownloadInv, OnFinished
  PROVE  DownloadInv'
<1>1. posted = 1 /\ m_toCopy = NULL
  BY DEF OnFinished, DownloadInv, DownloadTypeOK, StateInv
<1> USE DEF OnFinished, walk, sizes, streams, threads, wire
<1>a. listening' \in BOOLEAN
  BY Zenon DEF OnFinished
<1>2. DownloadTypeOK'
  BY <1>1, <1>a DEF DownloadInv, DownloadTypeOK
<1>3. WireTypes' /\ WalkInv' /\ CopiedIsWhole'
  BY DEF DownloadInv, WireTypes, WalkInv, CopiedIsWhole
<1>4. ThreadInv'
  BY <1>1, TwoThreads DEF DownloadInv, ThreadInv
<1>5. StateInv' /\ NothingLeftOut'
  BY <1>1 DEF DownloadInv, StateInv, NothingLeftOut, MemoryIsLive
<1>6. WireInv'
  BY DEF DownloadInv, WireInv, Counting, SizesOnly, AtWork, OneMessage,
         Asked, Answered, Reading
<1> QED BY <1>2, <1>3, <1>4, <1>5, <1>6 DEF DownloadInv

LEMMA CancelStep ==
  ASSUME DownloadInv, Orderly, Cancel
  PROVE  DownloadInv'
<1>1. at[Ui] = "idle" /\ at[Core] = "idle" /\ \A t \in Threads : frames[t] = 0
  BY TwoThreads DEF Cancel, Orderly
<1> USE DEF Cancel, core, walk, sizes, streams, threads, wire
<1>2. DownloadTypeOK'
  BY DEF DownloadInv, DownloadTypeOK
<1>3. WireTypes' /\ WalkInv' /\ CopiedIsWhole' /\ NothingLeftOut' /\ StateInv'
  BY DEF DownloadInv, WireTypes, WalkInv, CopiedIsWhole, NothingLeftOut,
         StateInv, MemoryIsLive
<1>4. ThreadInv'
  BY <1>1 DEF DownloadInv, ThreadInv
<1>5. WireInv'
  BY DEF DownloadInv, WireInv, Counting, SizesOnly, AtWork, OneMessage,
         Asked, Answered, Reading
<1> QED BY <1>2, <1>3, <1>4, <1>5 DEF DownloadInv

LEMMA StartDownloadStep ==
  ASSUME DownloadInv, NEW t \in Threads, StartDownload(t)
  PROVE  DownloadInv'
<1>1. /\ m_toCopy \in Nodes /\ m_toCopy # NULL /\ ~Counting
      /\ requests = <<>> /\ replies = <<>>
      /\ \A u \in Threads \ {t} : at[u] = "idle" /\ frames[u] = 0
  BY Walking DEF StartDownload
<1>2. posted = 0 /\ m_state = "download" /\ crashed = FALSE
  BY <1>1, InWork
<1>3. at[t] = "start" /\ frames[t] < First[m_toCopy]
      /\ frames[t] \in 0 .. Cardinality(Nodes) /\ (frames[t] > 0 => ~m_isTerminating)
  BY TwoThreads DEF StartDownload, DownloadInv, ThreadInv
<1>4. UNCHANGED <<m_state, listening, sizes, m_isTerminating, streams, wire,
                  fate, operations>>
  BY DEF StartDownload
<1> USE <1>4 DEF sizes, streams, wire
<1>5. WireTypes' /\ CopiedIsWhole'
  BY DEF DownloadInv, WireTypes, CopiedIsWhole
<1>6. CASE m_isTerminating
  <2>1. /\ m_toCopy' = NULL /\ children' = {} /\ posted' = 1
        /\ UNCHANGED <<crashed, frames>> /\ at' = [at EXCEPT ![t] = "idle"]
    BY <1>1, <1>2, <1>3, <1>6 DEF StartDownload, KillOp, Go, Back
  <2>2. at' \in [Threads -> Stages] /\ \A u \in Threads : at'[u] = "idle" /\ frames'[u] = 0
    BY <1>1, <1>3, <1>6, <2>1, TwoThreads DEF Stages
  <2>3. DownloadTypeOK'
    BY <2>1, <2>2 DEF DownloadInv, DownloadTypeOK
  <2>4. ThreadInv'
    BY <2>2, TwoThreads DEF ThreadInv
  <2>5. StateInv'
    BY <1>2, <2>1 DEF DownloadInv, StateInv, MemoryIsLive
  <2>6. WireInv'
    BY <1>1, <2>1, <2>2, TwoThreads DEF WireInv, Counting
  <2>7. WalkInv' /\ NothingLeftOut'
    BY <1>6, <2>1 DEF WalkInv, NothingLeftOut
  <2> QED BY <1>5, <2>3, <2>4, <2>5, <2>6, <2>7 DEF DownloadInv
<1>7. CASE ~m_isTerminating
  <2>1. /\ UNCHANGED <<walk, posted, crashed>>
        /\ frames' = [frames EXCEPT ![t] = @ + 1]
        /\ at' = [at EXCEPT ![t] = "process"]
    BY <1>7 DEF StartDownload, Go
  <2>2. /\ at' \in [Threads -> Stages] /\ at'[t] = "process"
        /\ frames'[t] = frames[t] + 1
        /\ \A u \in Threads \ {t} : at'[u] = "idle" /\ frames'[u] = 0
        /\ frames' \in [Threads -> 0 .. Cardinality(Nodes)]
    <3>1. frames[t] + 1 \in 0 .. Cardinality(Nodes)
      BY <1>1, <1>3, NumberTypes, CountType
    <3> QED BY <1>1, <2>1, <3>1, TwoThreads DEF Stages
  <2>3. DownloadTypeOK'
    BY <2>1, <2>2 DEF DownloadInv, DownloadTypeOK, walk
  <2>4. ThreadInv'
    BY <1>1, <1>2, <1>3, <1>7, <2>1, <2>2, TwoThreads, NumberTypes, CountType
    DEF ThreadInv, walk
  <2>5. StateInv' /\ WalkInv' /\ NothingLeftOut'
    BY <2>1 DEF DownloadInv, StateInv, MemoryIsLive, WalkInv, NothingLeftOut, walk
  <2>6. WireInv'
    <3>1. ~Counting'
      BY <1>1, <2>2, TwoThreads DEF Counting
    <3>2. AtWork'
      BY <2>2 DEF AtWork
    <3> QED BY <1>1, <3>1, <3>2 DEF WireInv
  <2> QED BY <1>5, <2>3, <2>4, <2>5, <2>6 DEF DownloadInv
<1> QED BY <1>6, <1>7

\* The one in work has been asked for, and the thread turns back.
LEMMA AskedFor ==
  ASSUME DownloadInv, NEW t \in Threads, at[t] = "process",
         at' = [at EXCEPT ![t] = "return"], UNCHANGED frames,
         NEW r \in AnyRequest, requests' = Append(requests, r), Asked(r)',
         UNCHANGED <<m_state, listening, sizes, m_isTerminating, posted, walk,
                     m_fos, onDisk, replies, m_downloadFile, fate, crashed,
                     operations>>,
         m_fileOffset' \in Nat
  PROVE  DownloadInv'
<1>1. /\ m_toCopy \in Nodes /\ m_toCopy # NULL /\ ~Counting
      /\ requests = <<>> /\ replies = <<>>
      /\ \A u \in Threads \ {t} : at[u] = "idle" /\ frames[u] = 0
  BY Walking
<1>2. /\ at' \in [Threads -> Stages] /\ at'[t] = "return"
      /\ \A u \in Threads \ {t} : at'[u] = "idle"
  BY <1>1, TwoThreads DEF Stages
<1>3. requests' \in Seq(AnyRequest) /\ Len(requests') = 1 /\ requests'[1] = r
  BY <1>1, AddedToNone
<1> USE DEF sizes, walk
<1>4. DownloadTypeOK'
  BY <1>2 DEF DownloadInv, DownloadTypeOK
<1>5. WireTypes' /\ StateInv' /\ WalkInv' /\ NothingLeftOut' /\ CopiedIsWhole'
  BY <1>3 DEF DownloadInv, WireTypes, StateInv, MemoryIsLive, WalkInv,
              NothingLeftOut, CopiedIsWhole
<1>6. ThreadInv'
  BY <1>1, <1>2, TwoThreads DEF DownloadInv, ThreadInv
<1>7. WireInv'
  <2>1. ~Counting' /\ ~AtWork'
    BY <1>1, <1>2, TwoThreads DEF Counting, AtWork
  <2>2. OneMessage'
    BY <1>1, <1>3 DEF OneMessage
  <2> QED BY <1>1, <2>1, <2>2 DEF WireInv
<1> QED BY <1>4, <1>5, <1>6, <1>7 DEF DownloadInv

\* All that gotoNext() leaves for the step that calls it.
LEMMA WalkedOn ==
  ASSUME DownloadInv, m_toCopy # NULL, NEW t \in Threads,
         WentOn(t) \/ CameToEnd(t), ~Counting,
         at[t] = "process" \/ (t = Core /\ at[Core] = "idle" /\ at[Ui] = "idle"),
         UNCHANGED <<m_state, listening, m_foldersToCalcSizeLeft, counted,
                     frames, m_isTerminating, m_downloadFile, operations>>,
         requests' = <<>>, replies' = <<>>, WalkInv', NothingLeftOut',
         m_fileOffset' \in Nat, onDisk' \in [Files -> Nat \cup {-1}],
         m_fos' \in AnyStream,
         fate' \in [Nodes -> Fates], CopiedIsWhole'
  PROVE  DownloadInv'
<1>1. /\ ThreadInv' /\ StateInv' /\ WireInv'
      /\ posted' \in 0 .. 1 /\ m_toCopy' \in Nodes \cup {NULL}
      /\ at' \in [Threads -> Stages] /\ crashed' = FALSE
  BY AfterGotoNext
<1>2. WireTypes'
  BY EmptySeq DEF DownloadInv, WireTypes
<1>3. children' \subseteq Folders
  BY DEF WalkInv
<1>4. m_fos'.file \in Files \cup {NULL, Deleted}
  OBVIOUS
<1>5. DownloadTypeOK'
  BY <1>1, <1>3, <1>4 DEF DownloadInv, DownloadTypeOK
<1> QED BY <1>1, <1>2, <1>5 DEF DownloadInv

\* What gets a fate other than "copied" changes nothing of what is whole.
LEMMA NothingCopied ==
  ASSUME DownloadInv, m_toCopy # NULL, NEW what \in Fates \ {"copied"},
         Settle(m_toCopy, what), UNCHANGED onDisk
  PROVE  CopiedIsWhole' /\ fate' \in [Nodes -> Fates]
<1>1. fate \in [Nodes -> Fates] /\ m_toCopy \in Nodes
      /\ fate' = [fate EXCEPT ![m_toCopy] = what]
  BY InWork DEF DownloadInv, DownloadTypeOK, Settle
<1>2. \A f \in Files : fate'[f] = "copied" => fate[f] = "copied"
  BY <1>1, Names
<1> QED BY <1>1, <1>2 DEF DownloadInv, CopiedIsWhole

LEMMA ProcessFolderStep ==
  ASSUME DownloadInv, NEW t \in Threads, ProcessFolder(t)
  PROVE  DownloadInv'
<1>1. /\ m_toCopy \in Nodes /\ m_toCopy # NULL /\ ~Counting
      /\ requests = <<>> /\ replies = <<>>
  BY Walking DEF ProcessFolder
<1>2. at[t] = "process" /\ m_toCopy \in Folders
      /\ UNCHANGED <<m_state, listening, sizes, m_isTerminating, streams,
                     frames, replies, m_downloadFile, operations>>
  BY DEF ProcessFolder
<1>3. m_fileOffset \in Nat /\ onDisk \in [Files -> Nat \cup {-1}]
      /\ m_fos \in AnyStream
  BY DEF DownloadInv, DownloadTypeOK, WireTypes
<1> USE DEF sizes, streams
<1>4. CASE /\ Send("list", m_toCopy, 0) /\ Go(t, "return")
           /\ UNCHANGED <<walk, posted, fate, crashed>>
  <2>a. Request("list", m_toCopy, 0) \in AnyRequest
    BY <1>1 DEF Request, AnyRequest
  <2>b. PICK r \in AnyRequest : r = Request("list", m_toCopy, 0)
    BY <2>a, Zenon
  <2>1. r.kind = "list" /\ r.node = m_toCopy
    BY <2>b DEF Request
  <2>2. requests' = Append(requests, r) /\ at' = [at EXCEPT ![t] = "return"]
        /\ m_toCopy' = m_toCopy
    BY <1>4, <2>b DEF Send, Go, walk
  <2>3. Asked(r)'
    BY <1>2, <2>1, <2>2 DEF Asked
  <2> QED BY <1>2, <1>3, <1>4, <2>1, <2>2, <2>3, AskedFor
<1>5. CASE Settle(m_toCopy, "failed") /\ GotoNext(t) /\ UNCHANGED requests
  <2>1. m_toCopy \notin children
    BY <1>1, InWork DEF DownloadInv, WalkInv
  <2>2. WentOn(t) \/ CameToEnd(t)
    BY <1>1, <1>2, <1>5, <2>1, GotoNextSettling DEF GotoNext, Fates
  <2>3. WalkInv' /\ NothingLeftOut'
    BY <1>1, <1>2, <1>5, <2>1, GotoNextSettling DEF GotoNext, Fates
  <2>4. CopiedIsWhole' /\ fate' \in [Nodes -> Fates]
    BY <1>1, <1>2, <1>5, NothingCopied DEF Fates
  <2> QED BY <1>1, <1>2, <1>3, <1>5, <2>2, <2>3, <2>4, WalkedOn
<1> QED BY <1>4, <1>5 DEF ProcessFolder

LEMMA ProcessFileStep ==
  ASSUME DownloadInv, Orderly, NEW t \in Threads, ProcessFile(t)
  PROVE  DownloadInv'
<1>1. /\ m_toCopy \in Nodes /\ m_toCopy # NULL /\ ~Counting
      /\ requests = <<>> /\ replies = <<>>
  BY Walking DEF ProcessFile
<1>2. at[t] = "process" /\ m_toCopy \in Files
      /\ UNCHANGED <<m_state, listening, sizes, m_fos, onDisk, frames, replies,
                     m_downloadFile, operations>>
  BY DEF ProcessFile
<1>3. m_fileOffset \in Nat /\ onDisk \in [Files -> Nat \cup {-1}]
      /\ m_fos \in AnyStream
      /\ Size[m_toCopy] \in Nat
  BY <1>2, Names DEF DownloadInv, DownloadTypeOK, WireTypes
<1> USE DEF sizes
<1>4. ASSUME NEW offset \in Nat, offset <= Size[m_toCopy],
             m_fileOffset' = offset, Send("start", m_toCopy, offset),
             Go(t, "return"),
             UNCHANGED <<walk, posted, m_isTerminating, fate, crashed>>
      PROVE  DownloadInv'
  <2>a. Request("start", m_toCopy, offset) \in AnyRequest
    BY <1>1 DEF Request, AnyRequest
  <2>b. PICK r \in AnyRequest : r = Request("start", m_toCopy, offset)
    BY <2>a, Zenon
  <2>1. r.kind = "start" /\ r.node = m_toCopy /\ r.from = offset
    BY <2>b DEF Request
  <2>2. requests' = Append(requests, r) /\ at' = [at EXCEPT ![t] = "return"]
        /\ m_toCopy' = m_toCopy
    BY <1>4, <2>b DEF Send, Go, walk
  <2>3. Asked(r)'
    BY <1>2, <1>4, <2>1, <2>2 DEF Asked
  <2> QED BY <1>2, <1>3, <1>4, <2>1, <2>2, <2>3, AskedFor
<1>5. ASSUME m_fileOffset' = 0, UNCHANGED requests, Settle(m_toCopy, "skipped"),
             GotoNext(t), UNCHANGED m_isTerminating
      PROVE  DownloadInv'
  <2>1. m_toCopy \notin children
    BY <1>1, InWork DEF DownloadInv, WalkInv
  <2>2. WentOn(t) \/ CameToEnd(t)
    BY <1>1, <1>2, <1>5, <2>1, GotoNextSettling DEF GotoNext, Fates
  <2>3. WalkInv' /\ NothingLeftOut'
    BY <1>1, <1>2, <1>5, <2>1, GotoNextSettling DEF GotoNext, Fates
  <2>4. CopiedIsWhole' /\ fate' \in [Nodes -> Fates]
    BY <1>1, <1>2, <1>5, NothingCopied DEF Fates
  <2> QED BY <1>1, <1>2, <1>3, <1>5, <2>2, <2>3, <2>4, WalkedOn
<1>6. \/ \E offset \in Nat :
           /\ offset <= Size[m_toCopy] /\ m_fileOffset' = offset
           /\ Send("start", m_toCopy, offset) /\ Go(t, "return")
           /\ UNCHANGED <<walk, posted, m_isTerminating, fate, crashed>>
      \/ /\ m_fileOffset' = 0 /\ UNCHANGED requests
         /\ Settle(m_toCopy, "skipped") /\ GotoNext(t)
         /\ UNCHANGED m_isTerminating
  <2>1. 0 \in Nat /\ 0 <= Size[m_toCopy]
    BY <1>3
  <2>2. 0 <= onDisk[m_toCopy] /\ onDisk[m_toCopy] < Size[m_toCopy] =>
          onDisk[m_toCopy] \in Nat /\ onDisk[m_toCopy] <= Size[m_toCopy]
    BY <1>2, <1>3
  <2> QED BY <2>1, <2>2, Zenon DEF ProcessFile, Orderly
<1> QED BY <1>4, <1>5, <1>6

LEMMA ReturnStep ==
  ASSUME DownloadInv, NEW t \in Threads, Return(t)
  PROVE  DownloadInv'
<1>1. /\ at[t] = "return" /\ frames[t] \in 1 .. Cardinality(Nodes)
      /\ ~m_isTerminating /\ m_state = "download"
      /\ \A u \in Threads \ {t} : at[u] = "idle" /\ frames[u] = 0
  BY TwoThreads DEF Return, DownloadInv, ThreadInv
<1>2. /\ UNCHANGED <<m_state, listening, sizes, m_isTerminating, streams, wire,
                     fate, operations, walk, posted, crashed>>
      /\ frames' = [frames EXCEPT ![t] = @ - 1]
      /\ at' = [at EXCEPT ![t] = IF frames[t] > 1 THEN "return" ELSE "idle"]
  BY <1>1 DEF Return, Go
<1>3. /\ at' \in [Threads -> Stages] /\ frames' \in [Threads -> 0 .. Cardinality(Nodes)]
      /\ at'[t] = IF frames[t] > 1 THEN "return" ELSE "idle"
      /\ frames'[t] = frames[t] - 1
      /\ \A u \in Threads \ {t} : at'[u] = "idle" /\ frames'[u] = 0
  BY <1>1, <1>2, TwoThreads, CountType DEF Stages
<1> USE <1>2 DEF sizes, streams, wire, walk
<1>4. DownloadTypeOK'
  BY <1>3 DEF DownloadInv, DownloadTypeOK
<1>5. WireTypes' /\ StateInv' /\ WalkInv' /\ NothingLeftOut' /\ CopiedIsWhole'
  BY DEF DownloadInv, WireTypes, StateInv, MemoryIsLive, WalkInv,
         NothingLeftOut, CopiedIsWhole
<1>6. ThreadInv'
  BY <1>1, <1>3, TwoThreads DEF ThreadInv
<1>7. WireInv'
  <2>1. ~Counting /\ ~AtWork
    BY <1>1, TwoThreads DEF Counting, AtWork, DownloadInv, WireInv, SizesOnly
  <2>2. ~Counting' /\ ~AtWork'
    BY <1>1, <1>3, <2>1, TwoThreads DEF Counting, AtWork
  <2>3. m_toCopy = NULL => requests = <<>> /\ replies = <<>>
    BY <2>1 DEF DownloadInv, WireInv
  <2>4. m_toCopy # NULL => OneMessage'
    BY <2>1 DEF DownloadInv, WireInv, OneMessage, Asked, Answered, Reading
  <2> QED BY <2>2, <2>3, <2>4 DEF WireInv
<1> QED BY <1>4, <1>5, <1>6, <1>7 DEF DownloadInv

\* A reply is handled while no thread is in the operation.
LEMMA Heard ==
  ASSUME DownloadInv, Orderly, NEW kind, Hears(kind)
  PROVE  /\ at[Core] = "idle" /\ at[Ui] = "idle" /\ m_state = "download"
         /\ replies # <<>> /\ Head(replies).kind = kind
         /\ replies' = Tail(replies)
         /\ \A t \in Threads : at[t] = "idle" /\ frames[t] = 0
BY TwoThreads DEF Hears, Orderly, DownloadInv, StateInv

\* The reply when sizes are not counted.
LEMMA HeardInWalk ==
  ASSUME DownloadInv, Orderly, NEW kind, Hears(kind), ~Counting
  PROVE  /\ requests = <<>> /\ replies' = <<>> /\ Answered(Head(replies))
         /\ m_toCopy \in Nodes /\ m_toCopy # NULL
         /\ Head(replies).kind = kind
         /\ m_fileOffset \in Nat /\ onDisk \in [Files -> Nat \cup {-1}]
         /\ m_fos \in AnyStream
         /\ m_downloadFile \in AnyDownload
         /\ m_toCopy \notin children
<1>1. replies # <<>> /\ Head(replies).kind = kind /\ replies' = Tail(replies)
  BY Heard
<1>2. /\ requests = <<>> /\ Answered(Head(replies)) /\ Tail(replies) = <<>>
      /\ m_toCopy \in Nodes /\ m_toCopy # NULL
  BY <1>1, ReplyUnderWay
<1>3. m_toCopy \notin children
  BY <1>2, InWork DEF DownloadInv, WalkInv
<1> QED BY <1>1, <1>2, <1>3 DEF DownloadInv, DownloadTypeOK, WireTypes

\* One of the sizes has come, or has failed.
LEMMA DecFoldersStep ==
  ASSUME DownloadInv, Orderly, NEW kind, Hears(kind), Counting, DecFolders,
         UNCHANGED <<m_state, listening, counted, m_isTerminating, streams,
                     frames, requests, m_downloadFile, operations>>
  PROVE  DownloadInv'
<1>1. /\ SizesOnly /\ m_foldersToCalcSizeLeft \in 0 .. Len(Roots)
      /\ Len(Roots) \in Nat /\ First[m_toCopy] = 1 /\ m_toCopy # NULL
      /\ requests \in Seq(AnyRequest) /\ replies \in Seq(AnyReply)
      /\ counted \in 0 .. Len(Roots)
  BY WhileCounting
<1>2. /\ at[Core] = "idle" /\ at[Ui] = "idle" /\ m_state = "download"
      /\ replies # <<>> /\ replies' = Tail(replies)
      /\ \A t \in Threads : at[t] = "idle" /\ frames[t] = 0
  BY Heard
<1>3. m_foldersToCalcSizeLeft > 0
  BY <1>2 DEF Counting
<1>4. /\ m_foldersToCalcSizeLeft' = m_foldersToCalcSizeLeft - 1
      /\ IF m_foldersToCalcSizeLeft = 1
         THEN at' = [at EXCEPT ![Core] = "start"] ELSE UNCHANGED at
      /\ UNCHANGED <<walk, posted, fate, crashed>>
  BY DEF DecFolders, Go
<1>5. /\ at' \in [Threads -> Stages] /\ at'[Ui] = "idle"
      /\ at'[Core] = IF m_foldersToCalcSizeLeft = 1 THEN "start" ELSE "idle"
  BY <1>2, <1>4, TwoThreads DEF Stages
<1>6. /\ replies' \in Seq(AnyReply) /\ Len(replies') = Len(replies) - 1
      /\ \A i \in 1 .. Len(replies') : i + 1 \in 1 .. Len(replies)
                                         /\ replies'[i] = replies[i + 1]
  BY <1>1, <1>2
<1> USE <1>4 DEF walk, streams
<1>7. DownloadTypeOK'
  BY <1>1, <1>3, <1>5 DEF DownloadInv, DownloadTypeOK
<1>8. WireTypes' /\ StateInv' /\ WalkInv' /\ NothingLeftOut' /\ CopiedIsWhole'
  BY <1>6 DEF DownloadInv, WireTypes, StateInv, MemoryIsLive, WalkInv,
              NothingLeftOut, CopiedIsWhole
<1>9. ThreadInv'
  BY <1>1, <1>2, <1>5, TwoThreads DEF ThreadInv
<1>10. WireInv'
  <2>1. m_foldersToCalcSizeLeft' = Len(requests') + Len(replies')
    BY <1>1, <1>6 DEF SizesOnly
  <2>2. CASE m_foldersToCalcSizeLeft = 1
    <3>1. Len(requests') = 0 /\ Len(replies') = 0
      BY <1>1, <1>6, <2>1, <2>2
    <3>2. requests' = <<>> /\ replies' = <<>>
      BY <1>1, <1>6, <3>1, EmptySeq
    <3>3. ~Counting' /\ AtWork'
      BY <1>5, <2>2, TwoThreads DEF Counting, AtWork
    <3> QED BY <3>2, <3>3 DEF WireInv
  <2>3. CASE m_foldersToCalcSizeLeft # 1
    <3>1. SizesOnly'
      BY <1>1, <1>2, <1>5, <1>6, <2>1, <2>3 DEF SizesOnly
    <3>2. Counting'
      BY <1>1, <1>3, <2>3 DEF Counting
    <3> QED BY <3>1, <3>2 DEF WireInv
  <2> QED BY <2>2, <2>3
<1> QED BY <1>7, <1>8, <1>9, <1>10 DEF DownloadInv

LEMMA OnDirSizeReplyStep ==
  ASSUME DownloadInv, Orderly, OnDirSizeReply
  PROVE  DownloadInv'
<1>1. Counting
  BY HeardInWalk DEF OnDirSizeReply, Answered
<1> QED BY <1>1, DecFoldersStep DEF OnDirSizeReply

\* The one in work has a fate, and gotoNext() goes on from the reply.
LEMMA SettledByReply ==
  ASSUME DownloadInv, Orderly, NEW kind, Hears(kind), ~Counting,
         NEW what \in Fates \ {"pending"}, Settle(m_toCopy, what),
         NEW lists, GotoNextWith(Core, lists),
         m_toCopy \in lists <=>
           m_toCopy \in Folders /\ what = "listed" /\ Kids[m_toCopy] # <<>>,
         lists \subseteq children \cup {m_toCopy},
         UNCHANGED <<m_state, listening, sizes, m_isTerminating, m_fileOffset,
                     onDisk, frames, requests, m_downloadFile, operations>>,
         m_fos' \in AnyStream, CopiedIsWhole'
  PROVE  DownloadInv'
<1>1. /\ requests = <<>> /\ replies' = <<>> /\ m_toCopy \in Nodes
      /\ m_toCopy # NULL /\ m_fileOffset \in Nat
      /\ onDisk \in [Files -> Nat \cup {-1}]
  BY HeardInWalk
<1>2. at[Core] = "idle" /\ at[Ui] = "idle" /\ Core \in Threads
  BY Heard, TwoThreads
<1>3. WentOn(Core) \/ CameToEnd(Core)
  BY <1>1, <1>2, GotoNextSettling
<1>4. WalkInv' /\ NothingLeftOut'
  BY <1>1, <1>2, GotoNextSettling
<1>5. fate' \in [Nodes -> Fates]
  BY DEF Settle, DownloadInv, DownloadTypeOK
<1> USE DEF sizes
<1> QED BY <1>1, <1>2, <1>3, <1>4, <1>5, WalkedOn

LEMMA OnLastRequestFailedReplyStep ==
  ASSUME DownloadInv, Orderly, OnLastRequestFailedReply
  PROVE  DownloadInv'
<1>1. /\ Hears("failed")
      /\ UNCHANGED <<m_state, listening, counted, m_isTerminating, streams,
                     frames, requests, m_downloadFile, operations>>
  BY DEF OnLastRequestFailedReply
<1>2. StillCounting <=> Counting
  BY <1>1, Heard DEF StillCounting, Counting
<1>3. CASE StillCounting
  BY <1>1, <1>2, <1>3, DecFoldersStep DEF OnLastRequestFailedReply
<1>4. CASE ~StillCounting
  <2>1. /\ Settle(m_toCopy, "failed") /\ GotoNext(Core)
        /\ UNCHANGED m_foldersToCalcSizeLeft
    BY <1>4 DEF OnLastRequestFailedReply
  <2>2. /\ m_toCopy # NULL /\ m_toCopy \notin children
        /\ m_fos \in AnyStream
    BY <1>1, <1>2, <1>4, HeardInWalk
  <2>3. CopiedIsWhole'
    BY <1>1, <2>1, <2>2, NothingCopied DEF Fates, streams
  <2> QED BY <1>1, <1>2, <1>4, <2>1, <2>2, <2>3, SettledByReply
          DEF GotoNext, Fates, sizes, streams
<1> QED BY <1>3, <1>4

LEMMA OnFileListReplyStep ==
  ASSUME DownloadInv, Orderly, OnFileListReply
  PROVE  DownloadInv'
<1> DEFINE lists == IF Kids[m_toCopy] = <<>> THEN children
                    ELSE children \cup {m_toCopy}
<1>1. /\ Hears("list") /\ Settle(m_toCopy, "listed")
      /\ GotoNextWith(Core, lists)
      /\ UNCHANGED <<m_state, listening, sizes, m_isTerminating, streams,
                     frames, requests, m_downloadFile, operations>>
  BY DEF OnFileListReply
<1>2. ~Counting
  BY <1>1, Heard, WhileCounting, ListTypes DEF SizesOnly
<1>3. /\ m_toCopy # NULL /\ m_toCopy \notin children
      /\ Head(replies).kind = "list" /\ Answered(Head(replies))
      /\ m_fos \in AnyStream
  BY <1>1, <1>2, HeardInWalk
<1>4. m_toCopy \in Folders
  BY <1>3 DEF Answered
<1>5. CopiedIsWhole'
  BY <1>1, <1>3, NothingCopied DEF Fates, streams
<1>6. m_toCopy \in lists <=>
        m_toCopy \in Folders /\ "listed" = "listed" /\ Kids[m_toCopy] # <<>>
  BY <1>3, <1>4
<1>7. lists \subseteq children \cup {m_toCopy}
  OBVIOUS
<1> HIDE DEF lists
<1> QED BY <1>1, <1>2, <1>3, <1>5, <1>6, <1>7, SettledByReply DEF Fates, streams

\* Data of the file in work have been asked for, on a reply.
LEMMA AskedForData ==
  ASSUME DownloadInv, Orderly, NEW kind, Hears(kind), ~Counting,
         m_toCopy \in Files, Send("data", m_toCopy, 0),
         NEW chunks \in Nat, chunks <= Size[m_toCopy],
         m_fos' = [file |-> m_toCopy, chunks |-> chunks],
         onDisk' = [onDisk EXCEPT ![m_toCopy] = chunks],
         m_downloadFile = [file |-> m_toCopy, chunks |-> chunks],
         UNCHANGED <<m_state, listening, sizes, m_isTerminating, m_fileOffset,
                     walk, posted, at, fate, crashed, frames, m_downloadFile,
                     operations>>
  PROVE  DownloadInv'
<1>1. /\ requests = <<>> /\ replies' = <<>> /\ m_toCopy \in Nodes
      /\ m_toCopy # NULL /\ onDisk \in [Files -> Nat \cup {-1}]
  BY HeardInWalk
<1>2. at[Core] = "idle" /\ at[Ui] = "idle"
  BY Heard
<1>3. /\ onDisk' \in [Files -> Nat \cup {-1}] /\ onDisk'[m_toCopy] = chunks
      /\ \A f \in Files \ {m_toCopy} : onDisk'[f] = onDisk[f]
  BY <1>1
<1>4. fate[m_toCopy] = "pending"
  BY <1>1, InWork
<1>a. Request("data", m_toCopy, 0) \in AnyRequest
  BY <1>1 DEF Request, AnyRequest
<1>b. PICK r \in AnyRequest : r = Request("data", m_toCopy, 0)
  BY <1>a, Zenon
<1>c. r.kind = "data" /\ r.node = m_toCopy
  BY <1>b DEF Request
<1>5. requests' \in Seq(AnyRequest) /\ Len(requests') = 1 /\ requests'[1] = r
  <2>1. requests' = Append(requests, r)
    BY <1>b DEF Send
  <2> QED BY <1>1, <2>1, AddedToNone
<1>6. m_fos'.file = m_toCopy /\ m_fos'.chunks = chunks
  OBVIOUS
<1> USE DEF sizes, walk
<1>7. DownloadTypeOK'
  BY <1>3, <1>6 DEF DownloadInv, DownloadTypeOK
<1>8. WireTypes'
  BY <1>1, <1>5, EmptySeq DEF DownloadInv, WireTypes
<1>9. ThreadInv' /\ StateInv' /\ WalkInv' /\ NothingLeftOut'
  BY DEF DownloadInv, ThreadInv, StateInv, MemoryIsLive, WalkInv, NothingLeftOut
<1>10. CopiedIsWhole'
  BY <1>3, <1>4 DEF DownloadInv, CopiedIsWhole
<1>11. WireInv'
  <2>1. ~Counting' /\ ~AtWork'
    BY <1>2, TwoThreads DEF Counting, AtWork
  <2>2. Reading(m_toCopy, chunks)'
    BY <1>3, <1>6 DEF Reading
  <2>3. Asked(r)'
    BY <1>6, <1>c, <2>2 DEF Asked
  <2>4. OneMessage'
    BY <1>1, <1>5, <2>3 DEF OneMessage
  <2> QED BY <1>1, <2>1, <2>4 DEF WireInv
<1> QED BY <1>7, <1>8, <1>9, <1>10, <1>11 DEF DownloadInv

\* Only sizes and failures are answered while sizes are counted.
LEMMA NotCounting ==
  ASSUME DownloadInv, Orderly, NEW kind, Hears(kind),
         kind \notin {"size", "failed"}
  PROVE  ~Counting
<1>1. SUFFICES ASSUME Counting PROVE FALSE
  OBVIOUS
<1>2. SizesOnly /\ replies \in Seq(AnyReply)
  BY <1>1, WhileCounting
<1>3. replies # <<>> /\ Head(replies).kind = kind
  BY Heard
<1>4. 1 \in 1 .. Len(replies) /\ Head(replies) = replies[1]
  BY <1>2, <1>3
<1> QED BY <1>2, <1>3, <1>4 DEF SizesOnly

LEMMA OnDownloadReplyStep ==
  ASSUME DownloadInv, Orderly, OnDownloadReply
  PROVE  DownloadInv' \/ (m_fos.file = Deleted /\ Broken')
<1>1. /\ Hears("start")
      /\ UNCHANGED <<m_state, listening, sizes, m_isTerminating, m_fileOffset,
                     frames, m_downloadFile, operations>>
  BY DEF OnDownloadReply
<1>2. ~Counting
  BY <1>1, NotCounting
<1>3. /\ m_toCopy \in Nodes /\ m_toCopy # NULL /\ m_toCopy \notin children
      /\ Head(replies).kind = "start" /\ Answered(Head(replies))
      /\ m_fileOffset \in Nat /\ m_fos \in AnyStream
      /\ requests = <<>> /\ replies' = <<>>
  BY <1>1, <1>2, HeardInWalk
<1>4. /\ m_toCopy \in Files /\ m_fileOffset <= Size[m_toCopy]
      /\ m_downloadFile = [file |-> m_toCopy, chunks |-> m_fileOffset]
  BY <1>3 DEF Answered
<1>5. \/ /\ m_fos' = [file |-> m_toCopy, chunks |-> m_fileOffset]
         /\ onDisk' = [onDisk EXCEPT ![m_toCopy] = m_fileOffset]
         /\ Send("data", m_toCopy, 0)
         /\ UNCHANGED <<walk, posted, at, fate, crashed>>
      \/ /\ m_fos' \in {Closed, [file |-> Deleted, chunks |-> 0]}
         /\ Settle(m_toCopy, "failed") /\ GotoNext(Core)
         /\ UNCHANGED <<onDisk, requests>>
      \/ /\ m_fos.file = Deleted /\ crashed' = TRUE
         /\ UNCHANGED <<walk, posted, m_fos, onDisk, at, requests, fate>>
  BY DEF OnDownloadReply
<1>6. CASE /\ m_fos' = [file |-> m_toCopy, chunks |-> m_fileOffset]
           /\ onDisk' = [onDisk EXCEPT ![m_toCopy] = m_fileOffset]
           /\ Send("data", m_toCopy, 0)
           /\ UNCHANGED <<walk, posted, at, fate, crashed>>
  <2>1. PICK chunks \in Nat : chunks = m_fileOffset
    BY <1>3
  <2> QED BY <1>1, <1>2, <1>4, <1>6, <2>1, AskedForData
<1>7. CASE /\ m_fos' \in {Closed, [file |-> Deleted, chunks |-> 0]}
           /\ Settle(m_toCopy, "failed") /\ GotoNext(Core)
           /\ UNCHANGED <<onDisk, requests>>
  <2>1. m_fos' \in AnyStream
    BY <1>7 DEF Closed
  <2>2. CopiedIsWhole'
    BY <1>3, <1>7, NothingCopied DEF Fates
  <2> QED BY <1>1, <1>2, <1>3, <1>7, <2>1, <2>2, SettledByReply
          DEF GotoNext, Fates
<1>8. CASE /\ m_fos.file = Deleted /\ crashed' = TRUE
           /\ UNCHANGED <<walk, posted, m_fos, onDisk, at, requests, fate>>
  <2>1. DownloadTypeOK' /\ NothingLeftOut' /\ CopiedIsWhole'
    BY <1>1, <1>8, Zenon
    DEF DownloadInv, DownloadTypeOK, NothingLeftOut, CopiedIsWhole, walk, sizes
  <2>2. ProcessedOnce'
    BY <1>1, <1>8, Heard, TwoThreads DEF ProcessedOnce
  <2> QED BY <1>3, <1>8, <2>1, <2>2 DEF Broken
<1> QED BY <1>5, <1>6, <1>7, <1>8

LEMMA OnDownloadDataReplyStep ==
  ASSUME DownloadInv, Orderly, OnDownloadDataReply
  PROVE  DownloadInv'
<1>1. /\ Hears("data")
      /\ UNCHANGED <<m_state, listening, sizes, m_isTerminating, m_fileOffset,
                     frames, m_downloadFile, operations>>
  BY DEF OnDownloadDataReply
<1>2. ~Counting
  BY <1>1, NotCounting
<1>3. /\ m_toCopy \in Nodes /\ m_toCopy # NULL /\ m_toCopy \notin children
      /\ Head(replies).kind = "data" /\ Answered(Head(replies))
      /\ requests = <<>> /\ replies' = <<>>
      /\ m_fileOffset \in Nat /\ onDisk \in [Files -> Nat \cup {-1}]
      /\ m_fos \in AnyStream
  BY <1>1, <1>2, HeardInWalk
<1>4. /\ m_toCopy \in Files /\ m_fos.file = m_toCopy
      /\ m_fos.chunks + 1 <= Size[m_toCopy]
      /\ m_downloadFile = [file |-> m_toCopy, chunks |-> m_fos.chunks + 1]
  BY <1>3 DEF Answered, Reading
<1>5. CASE /\ m_isTerminating /\ GotoNext(Core)
           /\ UNCHANGED <<m_fos, onDisk, requests, fate>>
  <2>1. at[Core] = "idle" /\ at[Ui] = "idle" /\ Core \in Threads
    BY <1>1, Heard, TwoThreads
  <2>2. WentOn(Core) \/ CameToEnd(Core)
    BY <1>1, <1>3, <1>5, <2>1, GotoNextTerminating
  <2>3. WalkInv' /\ NothingLeftOut'
    BY <1>1, <1>3, <1>5, <2>1, GotoNextTerminating
  <2>4. CopiedIsWhole' /\ fate' \in [Nodes -> Fates]
    BY <1>5 DEF DownloadInv, DownloadTypeOK, CopiedIsWhole
  <2> QED BY <1>1, <1>2, <1>3, <1>5, <2>1, <2>2, <2>3, <2>4, WalkedOn DEF sizes
<1>6. CASE /\ m_fos' = [m_fos EXCEPT !.chunks = @ + 1]
           /\ onDisk' = [onDisk EXCEPT ![m_fos.file] = m_fos.chunks + 1]
           /\ Send("data", m_fos.file, 0)
           /\ UNCHANGED <<walk, posted, at, fate, crashed>>
  <2>1. PICK chunks \in Nat : chunks = m_fos.chunks + 1
    BY <1>3
  <2>2. m_fos' = [file |-> m_toCopy, chunks |-> chunks]
    BY <1>3, <1>4, <1>6, <2>1
  <2> QED BY <1>1, <1>2, <1>4, <1>6, <2>1, <2>2, AskedForData
<1>7. CASE /\ Settle(m_toCopy, "failed") /\ GotoNext(Core)
           /\ UNCHANGED <<m_fos, onDisk, requests>>
  <2>1. CopiedIsWhole'
    BY <1>3, <1>7, NothingCopied DEF Fates
  <2> QED BY <1>1, <1>2, <1>3, <1>7, <2>1, SettledByReply DEF GotoNext, Fates
<1> QED BY <1>5, <1>6, <1>7 DEF OnDownloadDataReply

LEMMA OnDownloadEndReplyStep ==
  ASSUME DownloadInv, Orderly, OnDownloadEndReply
  PROVE  DownloadInv'
<1>1. /\ Hears("end") /\ m_fos' = Closed /\ Settle(m_toCopy, "copied")
      /\ GotoNext(Core)
      /\ UNCHANGED <<m_state, listening, sizes, m_isTerminating, m_fileOffset,
                     onDisk, frames, requests, m_downloadFile, operations>>
  BY DEF OnDownloadEndReply
<1>2. ~Counting
  BY <1>1, NotCounting
<1>3. /\ m_toCopy \in Nodes /\ m_toCopy # NULL /\ m_toCopy \notin children
      /\ Head(replies).kind = "end" /\ Answered(Head(replies))
  BY <1>1, <1>2, HeardInWalk
<1>4. onDisk[m_toCopy] = Size[m_toCopy]
  BY <1>3 DEF Answered
<1>5. CopiedIsWhole'
  BY <1>1, <1>3, <1>4, Names
  DEF DownloadInv, DownloadTypeOK, CopiedIsWhole, Settle
<1>6. m_fos' \in AnyStream
  BY <1>1 DEF Closed
<1> QED BY <1>1, <1>2, <1>3, <1>5, <1>6, SettledByReply DEF GotoNext, Fates

\* Nothing is ever left over for an operation that has ended.
LEMMA OnIgnoredStep ==
  ASSUME DownloadInv, OnIgnored
  PROVE  FALSE
<1>1. m_toCopy = NULL /\ replies # <<>>
  BY DEF OnIgnored, DownloadInv, DownloadTypeOK, StateInv
<1> QED BY <1>1, ReplyUnderWay, WhileCounting

\* The server changes only what is under way, and what it has open.
LEMMA ServerFrame ==
  ASSUME DownloadInv, WireTypes', WireInv',
         UNCHANGED <<core, walk, sizes, m_isTerminating, streams, threads, fate,
                     crashed, operations>>
  PROVE  DownloadInv'
<1> USE DEF core, walk, sizes, streams, threads
<1>1. DownloadTypeOK'
  <2>1. m_downloadFile'.file \in Files \cup {NULL}
    BY DEF WireTypes
  <2> QED BY <2>1 DEF DownloadInv, DownloadTypeOK
<1>2. ThreadInv' /\ StateInv' /\ WalkInv' /\ NothingLeftOut' /\ CopiedIsWhole'
  BY DEF DownloadInv, ThreadInv, StateInv, MemoryIsLive, WalkInv,
         NothingLeftOut, CopiedIsWhole
<1> QED BY <1>1, <1>2 DEF DownloadInv

\* What the server does with the request it takes.
LEMMA Served ==
  ASSUME DownloadInv, NEW kind, NEW kinds, Serve(kind, kinds),
         kinds \subseteq {"size", "list", "start", "data", "end", "failed"}
  PROVE  /\ requests # <<>> /\ Head(requests).kind = kind
         /\ Head(requests) \in AnyRequest
         /\ requests' = Tail(requests) /\ requests' \in Seq(AnyRequest)
         /\ \E r \in AnyReply :
              /\ replies' = Append(replies, r) /\ replies' \in Seq(AnyReply)
              /\ r.kind \in kinds /\ r.node = Head(requests).node
              /\ r.chunk = m_downloadFile.chunks
         /\ UNCHANGED <<core, walk, sizes, m_isTerminating, streams, threads,
                        fate, crashed, operations>>
<1>1. /\ requests # <<>> /\ Head(requests).kind = kind
      /\ requests' = Tail(requests)
      /\ UNCHANGED <<core, walk, sizes, m_isTerminating, streams, threads,
                     fate, crashed, operations>>
  BY DEF Serve
<1>2. requests \in Seq(AnyRequest) /\ replies \in Seq(AnyReply)
      /\ m_downloadFile.chunks \in Int
  BY DEF DownloadInv, WireTypes
<1>3. Head(requests) \in AnyRequest /\ requests' \in Seq(AnyRequest)
  BY <1>1, <1>2
<1>4. PICK k \in kinds : replies' = Append(replies,
                 Reply(k, Head(requests).node, m_downloadFile.chunks))
  BY Zenon DEF Serve
<1> DEFINE r == Reply(k, Head(requests).node, m_downloadFile.chunks)
<1>5. /\ r \in AnyReply /\ r.kind = k /\ r.node = Head(requests).node
      /\ r.chunk = m_downloadFile.chunks
  BY <1>2, <1>3 DEF Reply, AnyReply, AnyRequest
<1> HIDE DEF r
<1>6. replies' \in Seq(AnyReply)
  BY <1>2, <1>4, <1>5 DEF r
<1> QED BY <1>1, <1>3, <1>4, <1>5, <1>6 DEF r

\* The one request under way has its answer.
LEMMA AnsweredByServer ==
  ASSUME DownloadInv, ~Counting, requests # <<>>, requests' = Tail(requests),
         NEW r \in AnyReply, replies' = Append(replies, r), Answered(r)',
         m_downloadFile' \in AnyDownload,
         UNCHANGED <<core, walk, sizes, m_isTerminating, streams, threads, fate,
                     crashed, operations>>
  PROVE  DownloadInv'
<1>1. /\ replies = <<>> /\ Tail(requests) = <<>>
      /\ m_toCopy \in Nodes /\ m_toCopy # NULL /\ ~AtWork
  BY RequestUnderWay
<1>2. /\ replies' \in Seq(AnyReply) /\ Len(replies') = 1 /\ replies'[1] = r
  BY <1>1, AddedToNone
<1> USE DEF core, walk, sizes, streams, threads
<1>3. WireTypes'
  BY <1>1, <1>2, EmptySeq DEF DownloadInv, WireTypes
<1>4. WireInv'
  <2>1. ~Counting' /\ ~AtWork'
    BY <1>1 DEF Counting, AtWork
  <2>2. OneMessage'
    BY <1>1, <1>2 DEF OneMessage
  <2> QED BY <1>1, <2>1, <2>2 DEF WireInv
<1> QED BY <1>3, <1>4, ServerFrame

\* Only sizes are asked for while sizes are counted.
LEMMA AskedInWalk ==
  ASSUME DownloadInv, requests # <<>>, Head(requests).kind # "size"
  PROVE  ~Counting
<1>1. SUFFICES ASSUME Counting PROVE FALSE
  OBVIOUS
<1>2. SizesOnly /\ requests \in Seq(AnyRequest)
  BY <1>1, WhileCounting
<1>3. 1 \in 1 .. Len(requests) /\ Head(requests) = requests[1]
  BY <1>2
<1> QED BY <1>2, <1>3 DEF SizesOnly

LEMMA DirSizeRequestedStep ==
  ASSUME DownloadInv, DirSizeRequested
  PROVE  DownloadInv'
<1>1. /\ requests # <<>> /\ Head(requests).kind = "size"
      /\ requests' = Tail(requests) /\ requests' \in Seq(AnyRequest)
      /\ UNCHANGED <<core, walk, sizes, m_isTerminating, streams, threads,
                     fate, crashed, operations, m_downloadFile>>
  BY Served DEF DirSizeRequested
<1>2. PICK r \in AnyReply :
         /\ replies' = Append(replies, r) /\ replies' \in Seq(AnyReply)
         /\ r.kind \in {"size", "failed"}
  BY Served DEF DirSizeRequested
<1>3. Counting
  BY <1>1, RequestUnderWay DEF Asked
<1>4. /\ SizesOnly /\ requests \in Seq(AnyRequest) /\ replies \in Seq(AnyReply)
  BY <1>3, WhileCounting
<1>5. /\ Len(requests') = Len(requests) - 1
      /\ \A i \in 1 .. Len(requests') : i + 1 \in 1 .. Len(requests)
                                          /\ requests'[i] = requests[i + 1]
  BY <1>1, <1>4
<1>6. /\ Len(replies') = Len(replies) + 1
      /\ \A i \in 1 .. Len(replies) : replies'[i] = replies[i]
      /\ replies'[Len(replies) + 1] = r
  BY <1>2, <1>4
<1>7. \A i \in 1 .. Len(requests') : requests'[i].kind = "size"
  BY <1>4, <1>5 DEF SizesOnly
<1>8. \A i \in 1 .. Len(replies') : replies'[i].kind \in {"size", "failed"}
  <2>1. \A i \in 1 .. Len(replies') :
           i \in 1 .. Len(replies) \/ i = Len(replies) + 1
    BY <1>4, <1>6
  <2> QED BY <1>2, <1>4, <1>6, <2>1 DEF SizesOnly
<1>9. Len(requests') + Len(replies') = Len(requests) + Len(replies)
  BY <1>1, <1>4, <1>5, <1>6
<1> USE DEF core, walk, sizes, streams, threads
<1>10. WireTypes'
  BY <1>1, <1>2 DEF DownloadInv, WireTypes
<1>11. WireInv'
  <2>1. SizesOnly'
    BY <1>1, <1>4, <1>7, <1>8, <1>9 DEF SizesOnly
  <2>2. Counting'
    BY <1>1, <1>3 DEF Counting
  <2> QED BY <2>1, <2>2 DEF WireInv
<1> QED BY <1>1, <1>10, <1>11, ServerFrame

LEMMA FileListRequestedStep ==
  ASSUME DownloadInv, FileListRequested
  PROVE  DownloadInv'
<1>1. /\ requests # <<>> /\ Head(requests).kind = "list"
      /\ requests' = Tail(requests)
      /\ UNCHANGED <<core, walk, sizes, m_isTerminating, streams, threads,
                     fate, crashed, operations, m_downloadFile>>
  BY Served DEF FileListRequested
<1>2. PICK r \in AnyReply :
         /\ replies' = Append(replies, r)
         /\ r.kind \in {"list", "failed"} /\ r.node = Head(requests).node
  BY Served DEF FileListRequested
<1>3. ~Counting
  BY <1>1, AskedInWalk
<1>4. Asked(Head(requests))
  BY <1>1, <1>3, RequestUnderWay
<1>5. Answered(r)'
  BY <1>1, <1>2, <1>4 DEF Asked, Answered, walk
<1> QED BY <1>1, <1>2, <1>3, <1>5, AnsweredByServer DEF DownloadInv, WireTypes

LEMMA DownloadStartRequestedStep ==
  ASSUME DownloadInv, DownloadStartRequested
  PROVE  DownloadInv'
<1> DEFINE request == Head(requests)
<1>1. PICK kind \in {"start", "failed"} :
        /\ Serve("start", {kind})
        /\ m_downloadFile' = [file |-> request.node, chunks |->
                                IF kind = "start" THEN request.from ELSE -1]
  BY Zenon DEF DownloadStartRequested, Opened
<1>2. /\ requests # <<>> /\ request.kind = "start" /\ request \in AnyRequest
      /\ requests' = Tail(requests)
      /\ UNCHANGED <<core, walk, sizes, m_isTerminating, streams, threads,
                     fate, crashed, operations>>
  BY <1>1, Served
<1>3. PICK r \in AnyReply :
         /\ replies' = Append(replies, r)
         /\ r.kind = kind /\ r.node = request.node
  BY <1>1, Served
<1>4. ~Counting
  BY <1>2, AskedInWalk
<1>5. Asked(request)
  BY <1>2, <1>4, RequestUnderWay
<1>6. /\ request.node = m_toCopy /\ request.node \in Files
      /\ request.from = m_fileOffset /\ m_fileOffset <= Size[request.node]
      /\ request.from \in Nat
  BY <1>2, <1>5 DEF Asked, AnyRequest
<1> HIDE DEF request
<1>7. m_downloadFile' \in AnyDownload
  BY <1>1, <1>6
<1>8. Answered(r)'
  BY <1>1, <1>2, <1>3, <1>6 DEF Answered, walk, streams
<1> QED BY <1>2, <1>3, <1>4, <1>7, <1>8, AnsweredByServer

LEMMA DownloadDataRequestedStep ==
  ASSUME DownloadInv, DownloadDataRequested
  PROVE  DownloadInv'
<1> DEFINE request == Head(requests)
           n == m_toCopy
<1>1. PICK kind \in {"data", "failed", "end"} :
        /\ Serve("data", {kind})
        /\ \/ m_downloadFile = Closed /\ kind = "failed"
           \/ /\ kind = "data" /\ HasStream /\ ~AtEnd
              /\ m_downloadFile' = [m_downloadFile EXCEPT !.chunks = @ + 1]
           \/ /\ kind = "failed" /\ UNCHANGED m_downloadFile
           \/ /\ kind = "end" /\ AtEnd /\ m_downloadFile' = Closed
  BY Zenon DEF DownloadDataRequested
<1>2. /\ requests # <<>> /\ request.kind = "data" /\ request \in AnyRequest
      /\ requests' = Tail(requests)
      /\ UNCHANGED <<core, walk, sizes, m_isTerminating, streams, threads,
                     fate, crashed, operations>>
  BY <1>1, Served
<1>3. PICK r \in AnyReply :
         /\ replies' = Append(replies, r) /\ r.kind = kind
         /\ r.node = request.node /\ r.chunk = m_downloadFile.chunks
  BY <1>1, Served
<1>4. ~Counting
  BY <1>2, AskedInWalk
<1>5. Asked(request)
  BY <1>2, <1>4, RequestUnderWay
<1>6. request.node = n /\ Reading(n, m_fos.chunks)
  BY <1>2, <1>5 DEF Asked
<1>7. /\ n \in Files /\ m_fos.file = n /\ m_fos.chunks = onDisk[n]
      /\ m_fos.chunks <= Size[n] /\ m_fos.chunks \in Nat /\ Size[n] \in Nat
      /\ m_downloadFile = [file |-> n, chunks |-> m_fos.chunks]
  BY <1>6, Names DEF Reading, DownloadInv, WireTypes
<1>8. m_downloadFile # Closed
  BY <1>7, Names DEF Closed
<1>9. m_toCopy' = m_toCopy /\ m_fos' = m_fos /\ onDisk' = onDisk
      /\ m_fileOffset' = m_fileOffset
  BY <1>2 DEF walk, streams
<1> HIDE DEF request
<1>10. CASE /\ kind = "data" /\ HasStream /\ ~AtEnd
            /\ m_downloadFile' = [m_downloadFile EXCEPT !.chunks = @ + 1]
  <2>1. m_downloadFile' = [file |-> n, chunks |-> m_fos.chunks + 1]
    BY <1>7, <1>10
  <2>2. m_fos.chunks + 1 <= Size[n]
    BY <1>7, <1>10 DEF AtEnd
  <2>3. Reading(n, m_fos.chunks + 1)'
    BY <1>7, <1>9, <2>1 DEF Reading
  <2>4. r.chunk = m_fos.chunks /\ r.node = n /\ r.kind = "data"
    BY <1>3, <1>6, <1>7, <1>10
  <2>5. Answered(r)'
    BY <1>9, <2>2, <2>3, <2>4 DEF Answered
  <2>6. m_downloadFile' \in AnyDownload
    BY <1>7, <2>1
  <2> QED BY <1>2, <1>3, <1>4, <2>5, <2>6, AnsweredByServer
<1>11. CASE kind = "failed" /\ UNCHANGED m_downloadFile
  <2>1. Answered(r)'
    BY <1>3, <1>6, <1>9, <1>11 DEF Answered
  <2> QED BY <1>2, <1>3, <1>4, <1>11, <2>1, AnsweredByServer
          DEF DownloadInv, WireTypes
<1>12. CASE kind = "end" /\ AtEnd /\ m_downloadFile' = Closed
  <2>1. onDisk[n] = Size[n]
    BY <1>7, <1>12 DEF AtEnd
  <2>2. Answered(r)'
    BY <1>3, <1>6, <1>7, <1>9, <1>12, <2>1 DEF Answered
  <2>3. m_downloadFile' \in AnyDownload
    BY <1>12 DEF Closed
  <2> QED BY <1>2, <1>3, <1>4, <2>2, <2>3, AnsweredByServer
<1> QED BY <1>1, <1>8, <1>10, <1>11, <1>12

LEMMA StutterStep ==
  ASSUME DownloadInv, UNCHANGED vars
  PROVE  DownloadInv'
<1> USE DEF vars, core, walk, sizes, streams, threads, wire
<1>1. DownloadTypeOK' /\ WireTypes' /\ ThreadInv'
  BY DEF DownloadInv, DownloadTypeOK, WireTypes, ThreadInv
<1>2. StateInv' /\ WalkInv' /\ NothingLeftOut' /\ CopiedIsWhole'
  BY DEF DownloadInv, StateInv, MemoryIsLive, WalkInv, NothingLeftOut,
         CopiedIsWhole
<1>3. WireInv'
  BY DEF DownloadInv, WireInv, Counting, SizesOnly, AtWork, OneMessage, Asked,
         Answered, Reading
<1> QED BY <1>1, <1>2, <1>3 DEF DownloadInv

LEMMA WalkStep ==
  ASSUME DownloadInv, Orderly, NEW t \in Threads, Walk(t)
  PROVE  DownloadInv'
BY StartDownloadStep, ProcessFolderStep, ProcessFileStep, ReturnStep DEF Walk

LEMMA DownloadStep ==
  ASSUME DownloadInv, Orderly, [Next]_vars
  PROVE  DownloadInv' \/ (m_fos.file = Deleted /\ Broken')
<1>1. Ui \in Threads /\ Core \in Threads
  BY DEF Threads
<1>2. CASE Begin
  BY <1>2, BeginStep
<1>3. CASE Cancel
  BY <1>3, CancelStep
<1>4. CASE UiStep
  BY <1>1, <1>4, CountStep, CountedStep, OnFinishedStep, WalkStep DEF UiStep
<1>5. CASE CoreStep
  BY <1>1, <1>5, OnDirSizeReplyStep, OnLastRequestFailedReplyStep,
     OnFileListReplyStep, OnDownloadReplyStep, OnDownloadDataReplyStep,
     OnDownloadEndReplyStep, OnIgnoredStep, WalkStep DEF CoreStep
<1>6. CASE ServerStep
  BY <1>6, DirSizeRequestedStep, FileListRequestedStep,
     DownloadStartRequestedStep, DownloadDataRequestedStep DEF ServerStep
<1>7. CASE UNCHANGED vars
  BY <1>7, StutterStep
<1> QED BY <1>2, <1>3, <1>4, <1>5, <1>6, <1>7 DEF Next

LEMMA BrokenStep ==
  ASSUME Broken, [Next]_vars
  PROVE  Broken'
<1>1. UNCHANGED vars
  BY DEF Broken, Next
<1> QED BY <1>1, Zenon
    DEF Broken, DownloadTypeOK, NothingLeftOut, ProcessedOnce, CopiedIsWhole,
        vars, core, walk, sizes, streams, threads, wire

\* The walk through the tree, the replies under way and the files at both ends
\* agree in every state of every download, as long as no stream is used after
\* it was deleted: one thread at a time is in the operation, one message is
\* under way while none is, and what has been gone through lies before the file
\* in work, depth first.
THEOREM DownloadInductive ==
  ASSUME Orderly
  PROVE  Spec => [](DownloadInv \/ Broken)
<1>1. Init => DownloadInv \/ Broken
  BY InitInv
<1>2. (DownloadInv \/ Broken) /\ [Next]_vars => (DownloadInv \/ Broken)'
  BY DownloadStep, BrokenStep
<1> QED BY <1>1, <1>2, PTL DEF Spec

\* A local stream that is deleted is replaced at once, when files can be opened.
LEMMA StreamStep ==
  ASSUME DownloadInv, Orderly, ~ReopenFails, m_fos.file # Deleted, [Next]_vars
  PROVE  m_fos'.file # Deleted
<1>1. m_fos \in AnyStream /\ NULL # Deleted
  BY Names DEF DownloadInv, WireTypes
<1>2. CASE UNCHANGED m_fos
  BY <1>2
<1>3. CASE m_fos' = Closed
  BY <1>1, <1>3 DEF Closed
<1>4. CASE OnDownloadReply
  <2>1. m_toCopy # NULL => m_toCopy \in Nodes
    BY DEF DownloadInv, DownloadTypeOK
  <2> QED BY <1>1, <1>4, <2>1, Names DEF OnDownloadReply, Closed
<1>5. CASE OnDownloadDataReply
  BY <1>1, <1>5 DEF OnDownloadDataReply
<1>6. ASSUME NEW t \in Threads, Walk(t) PROVE UNCHANGED m_fos
  BY <1>6 DEF Walk, StartDownload, ProcessFolder, ProcessFile, Return, streams
<1>7. ASSUME ServerStep PROVE UNCHANGED m_fos
  BY <1>7, Zenon DEF ServerStep, DirSizeRequested, FileListRequested,
     DownloadStartRequested, DownloadDataRequested, Serve, streams
<1>8. ASSUME \/ Count \/ Counted \/ OnFinished \/ Cancel \/ OnDirSizeReply
             \/ OnLastRequestFailedReply \/ OnFileListReply \/ OnIgnored
             \/ UNCHANGED vars
      PROVE  UNCHANGED m_fos
  BY <1>8, Zenon DEF Count, Counted, OnFinished, Cancel, OnDirSizeReply,
     OnLastRequestFailedReply, OnFileListReply, OnIgnored, vars, streams
<1>9. ASSUME Begin \/ OnDownloadEndReply PROVE m_fos' = Closed
  BY <1>9 DEF Begin, OnDownloadEndReply
<1>10. Ui \in Threads /\ Core \in Threads
  BY DEF Threads
<1> QED BY <1>2, <1>3, <1>4, <1>5, <1>6, <1>7, <1>8, <1>9, <1>10
        DEF Next, UiStep, CoreStep

--------------------------------------------------------------------------------
(* What follows from it.                                                   *)

\* The state of a download has its types; and startDownload() is never called
\* from within itself more often than there are files and folders, which is
\* what the stack of the thread must hold.
THEOREM DownloadTypeCorrect ==
  ASSUME Orderly
  PROVE  Spec => []DownloadTypeOK
<1>1. DownloadInv \/ Broken => DownloadTypeOK
  BY DEF DownloadInv, Broken
<1> QED BY <1>1, DownloadInductive, PTL

\* Whatever fails, is skipped or is cancelled, a reply that the operation is
\* about to handle is the one that its state waits for.
THEOREM RepliesFit ==
  ASSUME Orderly
  PROVE  Spec => []ReplyFits
<1>1. ASSUME DownloadInv PROVE ReplyFits
  <2>1. SUFFICES ASSUME at[Core] = "idle", at[Ui] = "idle", listening,
                        replies # <<>>
                 PROVE  LET r == Head(replies) IN
        CASE r.kind = "size" -> m_foldersToCalcSizeLeft > 0
          [] r.kind = "failed" -> \/ m_foldersToCalcSizeLeft > 0
                                  \/ r.node = m_toCopy
          [] r.kind \in {"list", "start"} ->
                r.node = m_toCopy /\ m_foldersToCalcSizeLeft = 0
          [] r.kind = "data" -> /\ m_fos.file = m_toCopy /\ r.node = m_toCopy
                                /\ m_fos.chunks = r.chunk
          [] r.kind = "end" -> m_fos.file = r.node /\ r.node = m_toCopy
    BY DEF ReplyFits
  <2> DEFINE r == Head(replies)
  <2>2. CASE Counting
    <3>1. m_foldersToCalcSizeLeft > 0
      BY <2>1, <2>2 DEF Counting
    <3>2. SizesOnly /\ replies \in Seq(AnyReply)
      BY <1>1, <2>2, WhileCounting
    <3>3. 1 \in 1 .. Len(replies) /\ r = replies[1]
      BY <2>1, <3>2
    <3>4. r.kind \in {"size", "failed"}
      BY <3>2, <3>3 DEF SizesOnly
    <3> QED BY <3>1, <3>4
  <2>3. CASE ~Counting
    <3>1. Answered(r)
      BY <1>1, <2>1, <2>3, ReplyUnderWay
    <3>2. m_foldersToCalcSizeLeft = 0
      BY <1>1, <2>3, ListTypes DEF Counting, DownloadInv, DownloadTypeOK
    <3> HIDE DEF r
    <3>3. /\ r.node = m_toCopy
          /\ r.kind \in {"failed", "list", "start", "data", "end"}
          /\ r.kind = "data" => m_fos.file = m_toCopy /\ m_fos.chunks = r.chunk
          /\ r.kind = "end" => m_fos.file = r.node
      BY <3>1 DEF Answered, Reading
    <3> QED BY <3>2, <3>3 DEF r
  <2> QED BY <2>2, <2>3
<1>2. DownloadInv \/ Broken => ReplyFits
  BY <1>1 DEF Broken, ReplyFits
<1> QED BY <1>2, DownloadInductive, PTL

\* A file reported as copied is whole on the local disk, also one that was
\* continued from where an earlier download had left it.
THEOREM CopiedFilesAreWhole ==
  ASSUME Orderly
  PROVE  Spec => []CopiedIsWhole
<1>1. DownloadInv \/ Broken => CopiedIsWhole
  BY DEF DownloadInv, Broken
<1> QED BY <1>1, DownloadInductive, PTL

\* In any tree, the walk comes to every file and folder that it learns of, and
\* to none of them twice.
THEOREM WalksTheTreeOnce ==
  ASSUME Orderly
  PROVE  Spec => []EachOneOnce
<1>1. ASSUME DownloadInv PROVE EachOneOnce
  <2>1. NothingLeftOut
    BY <1>1 DEF DownloadInv
  <2>2. ProcessedOnce
    BY <1>1, InWork DEF ProcessedOnce, DownloadInv, ThreadInv
  <2> QED BY <2>1, <2>2 DEF EachOneOnce
<1>2. DownloadInv \/ Broken => EachOneOnce
  BY <1>1 DEF Broken, EachOneOnce
<1> QED BY <1>2, DownloadInductive, PTL

\* The list of files is not deleted twice, no stream is used after it was
\* deleted, and the server is not asked to read from one it does not have: if,
\* besides, the next file can be opened when the stream of another was left.
THEOREM DownloadLeavesNothingDangling ==
  ASSUME Orderly, ~ReopenFails
  PROVE  Spec => []NothingDangles
<1> DEFINE Inv == DownloadInv /\ m_fos.file # Deleted
<1>1. ASSUME DownloadInv PROVE NothingDangles
  <2>1. MemoryIsLive
    BY <1>1 DEF DownloadInv, StateInv
  <2>2. ASSUME requests # <<>>, Head(requests).kind = "data" PROVE HasStream
    <3>1. ~Counting
      BY <1>1, <2>2, AskedInWalk
    <3>2. Asked(Head(requests))
      BY <1>1, <2>2, <3>1, RequestUnderWay
    <3>3. m_downloadFile.chunks = m_fos.chunks
      BY <2>2, <3>2 DEF Asked, Reading
    <3>4. m_fos.chunks \in Nat
      BY <1>1 DEF DownloadInv, WireTypes
    <3> QED BY <3>3, <3>4 DEF HasStream
  <2> QED BY <2>1, <2>2 DEF NothingDangles, StreamWhenRead
<1>2. Init => Inv
  <2>1. Closed.file # Deleted
    BY Names DEF Closed
  <2> QED BY <2>1, InitInv DEF Init
<1>3. Inv /\ [Next]_vars => Inv'
  BY DownloadStep, StreamStep
<1>4. Inv => NothingDangles
  BY <1>1
<1> QED BY <1>2, <1>3, <1>4, PTL DEF Spec

================================================================================
