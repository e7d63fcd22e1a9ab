------------------------ MODULE FileStoreSerialProofs ------------------------
(***************************************************************************)
(* Proofs about FileStore as long as callers take turns and none is        *)
(* killed: the receipt files, the index and anchors.json agree after every *)
(* call, for any number of sessions, requests and commands.                *)
(* The types, at the end, hold whoever is disturbed.                       *)
(***************************************************************************)
EXTENDS FileStoreProofs, Ranking

-----------------------------------------------------------------------------
(***************************************************************************)
(* The invariant.  Its parts take the values of the variables they speak   *)
(* of as arguments.                                                        *)
(***************************************************************************)
WritingPhases == {"receipt", "receipt_open", "index", "loaded", "index_open"}

\* The receipt file of session t and its entry in an index agree.
Agrees(fs, ix, t) ==
    /\ fs[t] \notin Unreadable
    /\ t \in DOMAIN ix <=> fs[t] # Absent
    /\ t \in DOMAIN ix => fs[t].payload = ix[t].payload

AllAgree(fs, ix) == \A t \in Sessions : Agrees(fs, ix, t)

\* The receipt file holds what was accepted last, until the files are no
\* longer written.
AcceptedAt(acc, t) == {i \in DOMAIN acc : acc[i][1] = t}
Latest(acc, t) == acc[CHOOSE i \in AcceptedAt(acc, t) : \A j \in AcceptedAt(acc, t) : j <= i][2]
UpToDate(m, fs, acc, t) ==
    (m # "database" /\ AcceptedAt(acc, t) # {}) => fs[t] # Absent /\ fs[t].payload = Latest(acc, t)

\* A marked entry is a leaf of the batch whose root it names.
LeafMarks(ix) ==
    \A s \in DOMAIN ix : ix[s].root # NoRoot =>
      \E F \in SUBSET (Sessions \X Payloads) :
        IsFiniteSet(F) /\ ix[s].root = BatchRoot(F) /\ <<s, ix[s].payload>> \in F

\* What a request knows: nobody writes to its file but itself.
CallOK(m, fs, ix, acc, c) ==
    /\ c.phase = "persist" => m # "files"
    /\ c.phase \in WritingPhases =>
         m # "database" /\ AcceptedAt(acc, c.session) # {} /\ Latest(acc, c.session) = c.payload
    /\ c.phase = "receipt_open" => fs[c.session] = Empty
    /\ c.phase \in {"index", "loaded", "index_open"} =>
         fs[c.session] \in Content /\ fs[c.session].payload = c.payload
    /\ c.phase = "loaded" => c.index = ix
    /\ c.phase = "index_open" =>
         /\ ix = Empty
         /\ LeafMarks(c.index) /\ \A t \in Sessions \ {c.session} : Agrees(fs, c.index, t)

\* The receipt files, with the one that the tamper helper has truncated as it
\* was.
Whole ==
    IF op.phase = "tamper_open"
    THEN [s \in Sessions |-> IF \E x \in op.found : x[1] = s
                             THEN (CHOOSE x \in op.found : x[1] = s)[2] ELSE files[s]]
    ELSE files

AfterRead == {"anchors", "anchors_open", "index", "index_open", "import", "import_anchors"}
Choice(o) == DOMAIN o.index \cap Scope[o.prefix]
Selected(fs, o) ==
    {<<s, fs[s]>> : s \in {t \in Choice(o) \ o.left : o.cmd = "day" => DayOf[fs[t].payload] = o.day}}

\* What a command has read is what the files still say.
OpOK(fs, ix, o) ==
    /\ o.phase \in {"read"} \cup (AfterRead \ {"index_open"}) => o.index = ix
    /\ o.phase = "index_open" => ix = Empty /\ LeafMarks(o.index) /\ AllAgree(fs, o.index)
    /\ o.phase = "read" => o.left \subseteq Choice(o)
    /\ o.phase \in AfterRead => o.left = {}
    /\ o.phase \in {"read"} \cup AfterRead => o.found = Selected(fs, o)
    /\ o.phase \in {"anchors", "anchors_open", "index", "index_open"} => o.cmd = "day" /\ o.found # {}
    /\ o.phase \in {"import", "import_anchors"} => o.cmd = "import"
    /\ o.cmd = "import" => o.prefix = NoPrefix
    /\ o.phase \in {"tamper_write", "tamper_open"} => \E s \in Sessions : o.found = {<<s, fs[s]>>}

Writes(c, t) == c.phase \in WritingPhases /\ c.session = t

StoresOK ==
    /\ \A t \in Sessions : (\A r \in Requests : ~Writes(request[r], t)) =>
         /\ UpToDate(mode, Whole, accepted, t)
         /\ index \notin Unreadable => Agrees(Whole, index, t)
    /\ index \notin Unreadable => LeafMarks(index)
    /\ index \in Unreadable =>
         op.phase = "index_open" \/ \E r \in Requests : request[r].phase = "index_open"
    /\ batches \in Unreadable => op.phase = "anchors_open"

\* At most one caller is at work.
Alone ==
    /\ \A r, q \in Requests : request[r].phase # "idle" /\ request[q].phase # "idle" => r = q
    /\ op = Idle \/ \A r \in Requests : request[r].phase = "idle"

SerialInv ==
    /\ mode \in {"files", "both", "database"}
    /\ op = Idle \/ op.phase # "idle"
    /\ ~disturbed =>
         /\ Alone
         /\ \A r \in Requests : CallOK(mode, Whole, index, accepted, request[r])
         /\ StoresOK
         /\ OpOK(Whole, index, op)
         /\ op.phase = "tamper_open" => \A x \in op.found : files[x[1]] = Empty

-----------------------------------------------------------------------------
(***************************************************************************)
(* Data.                                                                   *)
(***************************************************************************)
\* A non-empty set of positions has a last one.
LEMMA MaxExists ==
  ASSUME NEW n \in Nat, NEW S \in SUBSET (1..n), S # {}
  PROVE  /\ (CHOOSE i \in S : \A j \in S : j <= i) \in S
         /\ \A j \in S : j <= (CHOOSE i \in S : \A k \in S : k <= i)
<1> DEFINE T == {n - i : i \in S}
<1>1. T \in SUBSET Nat /\ T # {}
  <2>1. \A i \in S : n - i \in Nat
    OBVIOUS
  <2> QED  BY <2>1
<1>2. PICK d \in T : \A e \in T : d <= e
  BY <1>1, LeastOf
<1>3. PICK i \in S : d = n - i
  BY <1>2
<1>4. \A j \in S : j <= i
  <2> SUFFICES ASSUME NEW j \in S PROVE j <= i
    OBVIOUS
  <2>1. d <= n - j
    BY <1>2
  <2>2. i \in Nat /\ j \in Nat
    OBVIOUS
  <2> QED  BY <1>3, <2>1, <2>2
<1>5. \E k \in S : \A j \in S : j <= k
  BY <1>4
<1> QED  BY <1>5

\* The definitions of FileStore, with the history as an argument.
LEMMA LatestIsLatest ==
  ASSUME NEW s
  PROVE  Accepted(s) = AcceptedAt(accepted, s) /\ LatestAccepted(s) = Latest(accepted, s)
BY DEF Accepted, LatestAccepted, AcceptedAt, Latest

Histories == Seq(Sessions \X Payloads)

\* One more acceptance is the latest of its session and of no other.
LEMMA LatestAfter ==
  ASSUME NEW acc \in Histories, NEW s \in Sessions, NEW p \in Payloads
  PROVE  LET new == Append(acc, <<s, p>>)
  IN     /\ AcceptedAt(new, s) # {} /\ Latest(new, s) = p
         /\ \A t \in Sessions \ {s} : /\ AcceptedAt(new, t) = AcceptedAt(acc, t)
                                      /\ AcceptedAt(acc, t) # {} => Latest(new, t) = Latest(acc, t)
<1> DEFINE n == Len(acc)
           new == Append(acc, <<s, p>>)
<1>1. <<s, p>> \in Sessions \X Payloads /\ n \in Nat /\ DOMAIN acc = 1..n
  BY DEF Histories
<1>2. /\ DOMAIN new = DOMAIN acc \cup {n + 1}
      /\ \A i \in DOMAIN acc : new[i] = acc[i]
      /\ new[n + 1] = <<s, p>>
  BY <1>1, AppendFacts DEF Histories
<1> HIDE DEF n, new
<1>3. AcceptedAt(new, s) # {} /\ Latest(new, s) = p
  <2>1. n + 1 \in AcceptedAt(new, s)
    BY <1>2 DEF AcceptedAt
  <2>2. AcceptedAt(new, s) \in SUBSET (1..(n + 1))
    BY <1>1, <1>2 DEF AcceptedAt
  <2>3. (CHOOSE i \in AcceptedAt(new, s) : \A j \in AcceptedAt(new, s) : j <= i) = n + 1
    <3> DEFINE m == CHOOSE i \in AcceptedAt(new, s) : \A j \in AcceptedAt(new, s) : j <= i
    <3>1. n + 1 \in Nat
      BY <1>1
    <3>2. m \in AcceptedAt(new, s) /\ n + 1 <= m
      BY <2>1, <2>2, <3>1, MaxExists
    <3> HIDE DEF m
    <3>3. m \in 1..(n + 1)
      BY <2>2, <3>2
    <3>4. m = n + 1
      BY <1>1, <3>2, <3>3
    <3> QED  BY <3>4 DEF m
  <2>4. Latest(new, s) = new[n + 1][2]
    BY <2>3 DEF Latest
  <2> QED  BY <1>2, <2>1, <2>4
<1>4. ASSUME NEW t \in Sessions \ {s}
      PROVE  /\ AcceptedAt(new, t) = AcceptedAt(acc, t)
             /\ AcceptedAt(acc, t) # {} => Latest(new, t) = Latest(acc, t)
  <2>1. AcceptedAt(new, t) = AcceptedAt(acc, t)
    BY <1>2 DEF AcceptedAt
  <2>2. ASSUME AcceptedAt(acc, t) # {} PROVE Latest(new, t) = Latest(acc, t)
    <3> DEFINE m == CHOOSE i \in AcceptedAt(acc, t) : \A j \in AcceptedAt(acc, t) : j <= i
    <3>1. AcceptedAt(acc, t) \in SUBSET (1..n)
      BY <1>1 DEF AcceptedAt
    <3>2. m \in AcceptedAt(acc, t)
      BY <1>1, <2>2, <3>1, MaxExists
    <3>3. new[m] = acc[m]
      BY <1>2, <3>2 DEF AcceptedAt
    <3>4. Latest(new, t) = new[m][2] /\ Latest(acc, t) = acc[m][2]
      BY <2>1 DEF Latest
    <3> QED  BY <3>3, <3>4
  <2> QED  BY <2>1, <2>2
<1> QED  BY <1>3, <1>4 DEF new

\* What the latest write of a session is after a step.
LEMMA LatestAfterStep ==
  ASSUME IInv, NEW s \in Sessions, NEW p \in Payloads, accepted' = Append(accepted, <<s, p>>)
  PROVE  /\ AcceptedAt(accepted', s) # {} /\ Latest(accepted', s) = p
         /\ \A t \in Sessions \ {s} : /\ AcceptedAt(accepted', t) = AcceptedAt(accepted, t)
                                      /\ AcceptedAt(accepted, t) # {} =>
                                           Latest(accepted', t) = Latest(accepted, t)
<1> DEFINE new == Append(accepted, <<s, p>>)
<1>1. accepted \in Histories /\ accepted' = new
  BY DEF IInv, Shape, Histories
<1>2. /\ AcceptedAt(new, s) # {} /\ Latest(new, s) = p
      /\ \A t \in Sessions \ {s} : /\ AcceptedAt(new, t) = AcceptedAt(accepted, t)
                                   /\ AcceptedAt(accepted, t) # {} =>
                                        Latest(new, t) = Latest(accepted, t)
  BY <1>1, LatestAfter
<1> HIDE DEF new
<1> QED  BY <1>1, <1>2

\* Only finitely many sessions have a receipt file: each was accepted.
LEMMA FilesFinite ==
  ASSUME IInv
  PROVE  IsFiniteSet({s \in Sessions : files[s] \in Content})
<1> DEFINE n == Len(accepted)
           D == 1..n
           f == [i \in D |-> accepted[i][1]]
           T == {f[i] : i \in D}
<1>1. accepted \in Seq(Sessions \X Payloads)
  BY DEF IInv, Shape
<1>2. n \in Nat /\ DOMAIN accepted = D
  BY <1>1
<1>3. IsFiniteSet(D)
  BY <1>2, FS_Interval
<1>4. IsFiniteSet(T)
  BY <1>3, CardinalityOfImage
<1>5. {s \in Sessions : files[s] \in Content} \in SUBSET T
  <2> SUFFICES ASSUME NEW s \in Sessions, files[s] \in Content PROVE s \in T
    OBVIOUS
  <2>1. PICK i \in DOMAIN accepted : accepted[i] = <<s, files[s].payload>>
    BY DEF IInv, LocalReceiptWasAccepted
  <2>2. f[i] = s
    BY <1>2, <2>1
  <2> QED  BY <1>2, <2>2
<1> QED  BY <1>4, <1>5, FS_Subset

\* No call is under way: nothing to say of it.
LEMMA NoCallOK ==
  ASSUME NEW m, NEW fs, NEW ix, NEW acc, NEW c, c.phase = "idle"
  PROVE  CallOK(m, fs, ix, acc, c) /\ \A t : ~Writes(c, t)
BY DEF CallOK, WritingPhases, Writes

\* An idle process holds nothing.
LEMMA IdleOK ==
  ASSUME NEW fs, NEW ix
  PROVE  OpOK(fs, ix, Idle) /\ Idle.phase = "idle" /\ Idle.cmd = "day"
<1>1. Idle.phase = "idle" /\ Idle.cmd = "day"
  BY DEF Idle
<1> QED  BY <1>1 DEF OpOK, AfterRead

\* Unless the tamper helper writes, the files are as they are.
LEMMA WholeFiles ==
  ASSUME op.phase # "tamper_open"
  PROVE  Whole = files
BY DEF Whole

\* The states of a file.
LEMMA FileStatesApart ==
  ASSUME NEW f \in FileStates
  PROVE  /\ f \in Content <=> (f # Absent /\ f \notin Unreadable)
         /\ f \in Content => f.payload \in Payloads
BY FileConstants DEF FileStates, Content, Unreadable

\* A file that agrees with its entry can be read.
LEMMA AgreedContent ==
  ASSUME IInv, NEW ix, NEW t \in Sessions, Agrees(files, ix, t), t \in DOMAIN ix
  PROVE  files[t] \in Content
<1>1. files[t] \in FileStates
  BY DEF IInv, Shape
<1> QED  BY <1>1, FileStatesApart DEF Agrees

-----------------------------------------------------------------------------
(***************************************************************************)
(* Sorted hashes.                                                          *)
(***************************************************************************)
LessThan == {e \in Nat \X Nat : e[1] < e[2]}

\* Sorting hashes is ranking them.
LEMMA SortedIsRanked ==
  ASSUME NEW S \in SUBSET Nat
  PROVE  TotalOrder(S, LessThan) /\ Sorted(S) = Ranked(S, LessThan)
<1>1. \A x, y \in Nat : <<x, y>> \in LessThan <=> x < y
  BY DEF LessThan
<1>2. TotalOrder(S, LessThan)
  <2>1. \A x \in S : ~(<<x, x>> \in LessThan)
    BY <1>1
  <2>2. \A x, y, z \in S : x < y /\ y < z => x < z
    OBVIOUS
  <2>3. \A x, y \in S : x = y \/ x < y \/ y < x
    OBVIOUS
  <2> QED  BY <1>1, <2>1, <2>2, <2>3 DEF TotalOrder
<1>3. \A x \in S : Below(S, LessThan, x) = {y \in S : y < x}
  BY <1>1 DEF Below
<1> DEFINE c(i) == CHOOSE x \in S : Cardinality({y \in S : y < x}) = i - 1
           d(i) == CHOOSE x \in S : Cardinality(Below(S, LessThan, x)) = i - 1
<1>4. \A i : c(i) = d(i)
  BY <1>3
<1>5. /\ Sorted(S) = [i \in 1..Cardinality(S) |-> c(i)]
      /\ Ranked(S, LessThan) = [i \in 1..Cardinality(S) |-> d(i)]
  BY DEF Sorted, Ranked
<1> HIDE DEF c, d
<1> QED  BY <1>2, <1>4, <1>5

\* A sorted set of hashes lists each of them once.
LEMMA SortedFacts ==
  ASSUME NEW S \in SUBSET Nat, IsFiniteSet(S)
  PROVE  /\ Cardinality(S) \in Nat
         /\ Sorted(S) \in [1..Cardinality(S) -> S]
         /\ Sorted(S) \in Seq(Nat) /\ Len(Sorted(S)) = Cardinality(S)
         /\ DOMAIN Sorted(S) = 1..Cardinality(S)
         /\ \A x : x \in S <=> \E i \in DOMAIN Sorted(S) : Sorted(S)[i] = x
         /\ \A i, j \in DOMAIN Sorted(S) : i < j => Sorted(S)[i] < Sorted(S)[j]
<1> DEFINE n == Cardinality(S)
<1>1. n \in Nat
  BY FS_CardinalityType
<1>2. TotalOrder(S, LessThan) /\ Sorted(S) = Ranked(S, LessThan)
  BY SortedIsRanked
<1>3. /\ Sorted(S) \in [1..n -> S]
      /\ \A i, j \in 1..n : i < j => <<Sorted(S)[i], Sorted(S)[j]>> \in LessThan
      /\ \A x \in S : Position(S, LessThan, x) \in 1..n /\ Sorted(S)[Position(S, LessThan, x)] = x
  BY <1>2, RankedFacts
<1>4. \A i, j \in 1..n : i < j => Sorted(S)[i] < Sorted(S)[j]
  BY <1>3 DEF LessThan
<1>5. \A x : x \in S <=> \E i \in 1..n : Sorted(S)[i] = x
  BY <1>3
<1>6. Sorted(S) \in [1..n -> Nat]
  BY <1>3
<1> HIDE DEF n
<1>7. Sorted(S) \in Seq(Nat) /\ Len(Sorted(S)) = n /\ DOMAIN Sorted(S) = 1..n
  BY <1>1, <1>6
<1> QED  BY <1>1, <1>3, <1>4, <1>5, <1>7 DEF n

\* Only one sequence lists a set of hashes in order.
LEMMA SortedOnce ==
  ASSUME NEW S \in SUBSET Nat, IsFiniteSet(S), NEW f \in [1..Cardinality(S) -> S],
         \A i, j \in 1..Cardinality(S) : i < j => f[i] < f[j]
  PROVE  f = Sorted(S)
<1>1. TotalOrder(S, LessThan) /\ Sorted(S) = Ranked(S, LessThan)
  BY SortedIsRanked
<1>2. \A i, j \in 1..Cardinality(S) : i < j => <<f[i], f[j]>> \in LessThan
  BY DEF LessThan
<1> QED  BY <1>1, <1>2, ArrangedOnce

Receipts == Sessions \X Payloads

\* The hashes of found receipts, in order and as a set.
LEMMA HashesFacts ==
  ASSUME NEW F \in SUBSET Receipts, IsFiniteSet(F)
  PROVE  /\ Hashes(F) \in SUBSET Nat /\ IsFiniteSet(Hashes(F))
         /\ Cardinality(Hashes(F)) = Cardinality(F)
<1> DEFINE f == [x \in F |-> HashOf[x]]
<1>1. \A x \in F : f[x] \in Nat
  BY FileConstants DEF Receipts
<1>2. \A x, y \in F : f[x] = f[y] => x = y
  BY FileConstants DEF Receipts
<1>3. Hashes(F) = {f[x] : x \in F}
  BY DEF Hashes
<1> HIDE DEF f
<1>4. DOMAIN f = F
  BY DEF f
<1> QED  BY <1>1, <1>2, <1>3, <1>4, CardinalityOfImage

\* A batch root lists the hashes of the batch.
LEMMA BatchRootFacts ==
  ASSUME NEW F \in SUBSET Receipts, IsFiniteSet(F)
  PROVE  /\ BatchRoot(F) \in Seq(Nat)
         /\ Cardinality(F) \in Nat /\ Len(BatchRoot(F)) = Cardinality(F)
         /\ DOMAIN BatchRoot(F) = 1..Cardinality(F)
         /\ \A h : h \in Hashes(F) <=> \E i \in DOMAIN BatchRoot(F) : BatchRoot(F)[i] = h
         /\ \A i, j \in DOMAIN BatchRoot(F) : i < j => BatchRoot(F)[i] < BatchRoot(F)[j]
BY HashesFacts, SortedFacts DEF BatchRoot

\* So equal roots are of equal batches.
LEMMA RootOfOneBatch ==
  ASSUME NEW F \in SUBSET Receipts, IsFiniteSet(F), NEW G \in SUBSET Receipts, IsFiniteSet(G),
         BatchRoot(F) = BatchRoot(G)
  PROVE  F = G
<1>1. \A h : h \in Hashes(F) <=> h \in Hashes(G)
  BY BatchRootFacts
<1>2. ASSUME NEW H \in SUBSET Receipts, NEW K \in SUBSET Receipts,
             \A h : h \in Hashes(H) => h \in Hashes(K), NEW x \in H
      PROVE  x \in K
  <2>1. HashOf[x] \in Hashes(K)
    BY <1>2 DEF Hashes
  <2>2. PICK y \in K : HashOf[y] = HashOf[x]
    BY <2>1 DEF Hashes
  <2>3. y = x
    BY <1>2, <2>2, FileConstants DEF Receipts
  <2> QED  BY <2>2, <2>3
<1> QED  BY <1>1, <1>2

-----------------------------------------------------------------------------
(***************************************************************************)
(* Always: every saved root is that of finitely many receipts.             *)
(***************************************************************************)
RootsSorted ==
    /\ IsFiniteSet(op.found)
    /\ \A i \in DOMAIN sealed : \E F \in SUBSET Receipts :
         IsFiniteSet(F) /\ sealed[i].root = BatchRoot(F) /\ sealed[i].ids = {x[1] : x \in F}

\* What is found is finite.
LEMMA FoundFinite ==
  ASSUME IInv, IsFiniteSet(op.found)
  PROVE  Found \in SUBSET Receipts /\ IsFiniteSet(Found)
<1> DEFINE f == [x \in op.found |-> <<x[1], x[2].payload>>]
<1>1. Found \in SUBSET Receipts
  BY OpParts, FoundType DEF Receipts
<1>2. Found = {f[x] : x \in op.found}
  BY DEF Found
<1> HIDE DEF f
<1>3. DOMAIN f = op.found
  BY DEF f
<1> QED  BY <1>1, <1>2, <1>3, CardinalityOfImage

\* Roots stay sorted where the indexes are left alone.
LEMMA RootsSortedKept ==
  ASSUME RootsSorted, sealed' = sealed, op'.found = op.found \/ op'.found = {}
  PROVE  RootsSorted'
<1>1. IsFiniteSet(op'.found)
  BY FS_EmptySet DEF RootsSorted
<1> QED  BY <1>1 DEF RootsSorted

\* A call starts with nothing found.
LEMMA StartFound ==
  ASSUME NEW cmd, NEW phase, NEW prefix, NEW days, NEW sessions,
         Start(cmd, phase, prefix, days, sessions)
  PROVE  op'.found = {} /\ sealed' = sealed
BY DEF Start, Idle

\* Every step of a call keeps what was found finite.
LEMMA OpFound ==
  ASSUME IInv, OpStep, ~OpRead, ~OpFillAnchors, ~TamperRead
  PROVE  sealed' = sealed /\ (op'.found = op.found \/ op'.found = {})
<1>1. op \in AnyOp /\ Idle.found = {}
  BY OpParts DEF Idle
<1>2. CASE OpLoad
  BY <1>1, <1>2 DEF OpLoad, AnyOp, history
<1>3. CASE OpReadDone
  <2>1. sealed' = sealed /\ op.cmd \in {"day", "all", "import"}
    BY <1>1, <1>3, OpParts DEF OpReadDone, AnyOp, TamperPhases, history
  <2>2. \/ op' = Idle
        \/ op' = [op EXCEPT !.phase = "import"] \/ op' = [op EXCEPT !.phase = "anchors"]
        \/ op' = [op EXCEPT !.cmd = "day", !.phase = "load", !.todo = {DayOf[x[2]] : x \in Found}]
    BY <1>3, <2>1 DEF OpReadDone
  <2> QED  BY <1>1, <2>1, <2>2 DEF AnyOp, TamperPhases
<1>4. CASE OpOpenAnchors
  BY <1>1, <1>4 DEF OpOpenAnchors, AnyOp, history
<1>5. CASE OpOpenIndex
  BY <1>1, <1>5 DEF OpOpenIndex, AnyOp, history
<1>6. CASE OpFillIndex
  BY <1>1, <1>6 DEF OpFillIndex, AnyOp, history
<1>7. CASE ImportReceipts \/ ImportAnchors
  BY <1>1, <1>7 DEF ImportReceipts, ImportAnchors, AnyOp, history
<1>8. CASE TamperOpen \/ TamperFill
  BY <1>1, <1>8 DEF TamperOpen, TamperFill, AnyOp, TamperPhases, history
<1> QED  BY <1>2, <1>3, <1>4, <1>5, <1>6, <1>7, <1>8 DEF OpStep

\* Every step keeps the roots sorted.
LEMMA RootsSortedNext ==
  ASSUME IInv, RootsSorted, [Next]_vars
  PROVE  RootsSorted'
<1>1. CASE sealed' = sealed /\ (op' = op \/ op' = Idle)
  BY <1>1, RootsSortedKept DEF Idle
<1>2. CASE \E cmd, phase, prefix, days, sessions : Start(cmd, phase, prefix, days, sessions)
  BY <1>2, StartFound, RootsSortedKept
<1>3. CASE OpRead
  <2>1. sealed' = sealed
    BY <1>3 DEF OpRead, history
  <2>2. \/ op' = Idle
        \/ \E t : op' = [op EXCEPT !.left = op.left \ {t}, !.found = op.found \cup {<<t, files[t]>>}]
        \/ \E t : op' = [op EXCEPT !.left = op.left \ {t}, !.found = op.found]
    BY <1>3 DEF OpRead
  <2>3. op \in AnyOp /\ Idle.found = {} /\ IsFiniteSet(op.found)
    BY OpParts DEF Idle, RootsSorted
  <2>4. IsFiniteSet(op'.found)
    <3>1. CASE op' = Idle
      BY <2>3, <3>1, FS_EmptySet
    <3>2. ASSUME NEW t, op' = [op EXCEPT !.left = op.left \ {t}, !.found = op.found \cup {<<t, files[t]>>}]
          PROVE  IsFiniteSet(op'.found)
      <4>1. op'.found = op.found \cup {<<t, files[t]>>}
        BY <2>3, <3>2 DEF AnyOp, TamperPhases
      <4>2. IsFiniteSet(op.found \cup {<<t, files[t]>>})
        BY <2>3, FS_AddElement
      <4> QED  BY <4>1, <4>2
    <3>3. ASSUME NEW t, op' = [op EXCEPT !.left = op.left \ {t}, !.found = op.found]
          PROVE  IsFiniteSet(op'.found)
      <4>1. op'.found = op.found
        BY <2>3, <3>3 DEF AnyOp, TamperPhases
      <4> QED  BY <2>3, <4>1
    <3> QED  BY <2>2, <3>1, <3>2, <3>3
  <2> QED  BY <2>1, <2>4 DEF RootsSorted
<1>4. CASE OpFillAnchors
  <2>1. /\ op.phase = "anchors_open" /\ sealed' = Append(sealed, op.batches[Len(op.batches)])
        /\ op' = [op EXCEPT !.phase = "index"]
    BY <1>4 DEF OpFillAnchors
  <2>2. sealed \in Seq(AnyBatch) /\ NewBatch \in AnyBatch
    BY OpParts, FoundType DEF IInv, Shape
  <2>3. op.batches = Append(sealed, NewBatch)
    BY <2>1 DEF IInv, Pending
  <2>4. sealed' = Append(sealed, NewBatch)
    BY <2>1, <2>2, <2>3, AppendFacts
  <2>5. /\ DOMAIN sealed' = DOMAIN sealed \cup {Len(sealed) + 1}
        /\ \A i \in DOMAIN sealed : sealed'[i] = sealed[i]
        /\ sealed'[Len(sealed) + 1] = NewBatch
    BY <2>2, <2>4, AppendFacts
  <2>6. NewBatch.root = BatchRoot(Found) /\ NewBatch.ids = {x[1] : x \in Found}
    BY DEF NewBatch
  <2>7. Found \in SUBSET Receipts /\ IsFiniteSet(Found)
    BY FoundFinite DEF RootsSorted
  <2>8. op'.found = op.found
    BY <2>1, OpParts DEF AnyOp, TamperPhases
  <2> QED  BY <2>5, <2>6, <2>7, <2>8 DEF RootsSorted
<1>10. CASE TamperRead
  <2>1. sealed' = sealed /\ (op' = Idle \/ \E x : op' = [op EXCEPT !.phase = "tamper_write", !.left = {}, !.found = {x}])
    BY <1>10 DEF TamperRead, history
  <2>5. ASSUME NEW x, op' = [op EXCEPT !.phase = "tamper_write", !.left = {}, !.found = {x}]
        PROVE  op'.found = {x}
    <3>1. op \in AnyOp
      BY OpParts
    <3> QED  BY <2>5, <3>1 DEF AnyOp
  <2>2. op'.found = {} \/ \E x : op'.found = {x}
    <3>1. CASE op' = Idle
      BY <3>1 DEF Idle
    <3>2. CASE op' # Idle
      <4>1. PICK x : op' = [op EXCEPT !.phase = "tamper_write", !.left = {}, !.found = {x}]
        BY <2>1, <3>2
      <4>2. op'.found = {x}
        BY <2>5, <4>1
      <4> QED  BY <4>2
    <3> QED  BY <3>1, <3>2
  <2>3. IsFiniteSet(op'.found)
    BY <2>2, FS_EmptySet, FS_Singleton
  <2> QED  BY <2>1, <2>3 DEF RootsSorted
<1>5. CASE OpStep
  BY <1>3, <1>4, <1>5, <1>10, OpFound, RootsSortedKept
<1>6. CASE UNCHANGED vars
  BY <1>1, <1>6 DEF vars, history
<1>7. CASE \E r \in Requests : (\E s \in Sessions, p \in Payloads : Begin(r, s, p)) \/ RequestStep(r)
  BY <1>1, <1>7 DEF Begin, RequestStep, Persist, PersistFails, OpenReceipt, FillReceipt, LoadIndex,
     OpenIndex, FillIndex, history
<1>8. CASE \/ StartImport \/ \E s \in Sessions : StartTamper(s)
           \/ \E prefix \in Prefixes : \/ \E day \in Days : StartAnchorDay(day, prefix)
                                       \/ StartAnchorAllDays(prefix)
  BY <1>2, <1>8 DEF StartImport, StartTamper, StartAnchorDay, StartAnchorAllDays
<1>9. CASE EnableDatabase \/ CrashServer \/ CrashOperator
  BY <1>1, <1>9 DEF EnableDatabase, CrashServer, CrashOperator, history
<1> QED  BY <1>5, <1>6, <1>7, <1>8, <1>9 DEF Next

\* At first there are no roots.
LEMMA RootsSortedInit == Init => RootsSorted
<1> SUFFICES ASSUME Init PROVE RootsSorted
  OBVIOUS
<1>1. op.found = {} /\ DOMAIN sealed = {}
  BY DEF Init, Idle
<1> QED  BY <1>1, FS_EmptySet DEF RootsSorted

-----------------------------------------------------------------------------
(***************************************************************************)
(* Texts that can be read are no markers.                                  *)
(***************************************************************************)
LEMMA IndexReadable ==
  ASSUME NEW ix \in AnyIndex, LeafMarks(ix)
  PROVE  ix \notin Unreadable
<1> DEFINE E == [payload : Payloads, root : Seq(Nat)]
<1>1. DOMAIN ix \in SUBSET Sessions /\ ix \in [DOMAIN ix -> AnyEntry]
  BY IndexParts
<1>2. ASSUME NEW s \in DOMAIN ix
      PROVE  ix[s] \in E
  <2>1. ix[s] \in AnyEntry
    BY <1>1
  <2>2. ix[s].root \in Seq(Nat)
    <3>1. CASE ix[s].root = NoRoot
      BY <3>1 DEF NoRoot
    <3>2. CASE ix[s].root # NoRoot
      <4>1. PICK F \in SUBSET (Sessions \X Payloads) : IsFiniteSet(F) /\ ix[s].root = BatchRoot(F)
        BY <3>2 DEF LeafMarks
      <4> QED  BY <4>1, BatchRootFacts DEF Receipts
    <3> QED  BY <3>1, <3>2
  <2> QED  BY <2>1, <2>2 DEF AnyEntry
<1>3. ix \in [DOMAIN ix -> E]
  BY <1>1, <1>2
<1>4. {Empty, Garbage} \cap [DOMAIN ix -> E] = {}
  BY <1>1, FileConstants
<1> QED  BY <1>3, <1>4 DEF Unreadable

\* The stored anchors are readable: no batch list is one of the markers.
LEMMA SealedReadable ==
  ASSUME sealed \in Seq(AnyBatch), RootsSorted
  PROVE  sealed \notin Unreadable
<1> DEFINE B == [day : Days, prefix : Prefixes, root : Seq(Nat), ids : SUBSET Sessions]
           n == Len(sealed)
<1>1. n \in Nat /\ DOMAIN sealed = 1..n /\ sealed \in [1..n -> AnyBatch]
  OBVIOUS
<1>2. ASSUME NEW i \in 1..n
      PROVE  sealed[i] \in B
  <2>1. sealed[i] \in AnyBatch
    BY <1>1
  <2>2. PICK F \in SUBSET Receipts : IsFiniteSet(F) /\ sealed[i].root = BatchRoot(F)
    BY <1>1 DEF RootsSorted
  <2>3. sealed[i].root \in Seq(Nat)
    BY <2>2, BatchRootFacts
  <2> QED  BY <2>1, <2>3 DEF AnyBatch
<1>3. sealed \in [1..n -> B]
  BY <1>1, <1>2
<1> HIDE DEF B, n
<1>4. sealed \in Seq(B)
  BY <1>1, <1>3
<1>5. {Empty, Garbage} \cap Seq(B) = {}
  BY FileConstants DEF B
<1> QED  BY <1>4, <1>5 DEF Unreadable

-----------------------------------------------------------------------------
(***************************************************************************)
(* The serial invariant: the initial state, and frames.                    *)
(***************************************************************************)
LEMMA InitSerial == Init => SerialInv
<1> SUFFICES ASSUME Init PROVE SerialInv
  OBVIOUS
<1>1. \A r \in Requests : request[r].phase = "idle"
  BY NoCallFacts DEF Init
<1>2. /\ mode \in {"files", "both", "database"} /\ op = Idle /\ index = <<>> /\ batches = sealed
      /\ files = [s \in Sessions |-> Absent] /\ accepted = <<>>
  BY DEF Init
<1>3. IInv /\ RootsSorted
  BY InitIInv, RootsSortedInit
<1>4. index \in AnyIndex /\ DOMAIN index = {} /\ LeafMarks(index)
  BY <1>2, EmptyIndex DEF LeafMarks
<1>5. index \notin Unreadable /\ batches \notin Unreadable
  BY <1>2, <1>3, <1>4, IndexReadable, SealedReadable DEF IInv, Shape
<1>6. \A r \in Requests : CallOK(mode, files, index, accepted, request[r])
  BY <1>1, NoCallOK
<1>7. OpOK(files, index, op)
  BY <1>2, IdleOK
<1>8. \A t \in Sessions : UpToDate(mode, files, accepted, t)
  BY <1>2 DEF UpToDate, AcceptedAt
<1>9. \A t \in Sessions : Agrees(files, index, t)
  <2>1. Absent \notin Unreadable
    BY FileConstants DEF Unreadable
  <2> QED  BY <1>2, <1>4, <2>1 DEF Agrees
<1>11. Whole = files
  BY <1>2, <1>3, IdleFacts, WholeFiles
<1>12. op.phase # "tamper_open"
  BY <1>2, IdleFacts
<1>10. StoresOK
  BY <1>11, <1>4, <1>5, <1>8, <1>9 DEF StoresOK
<1> QED  BY <1>1, <1>2, <1>6, <1>7, <1>10, <1>11, <1>12 DEF SerialInv, Alone

\* Once somebody is disturbed nothing is claimed.
LEMMA DisturbedSerial ==
  ASSUME SerialInv, disturbed', mode' = mode, op' = Idle \/ op'.phase # "idle"
  PROVE  SerialInv'
BY DEF SerialInv

\* A step of request r, while everybody else is idle.
LEMMA RequestSerial ==
  ASSUME IInv, SerialInv, ~disturbed', NEW r \in Requests, NEW c \in AnyCall,
         op = Idle, \A q \in Requests : q # r => request[q].phase = "idle",
         request' = [request EXCEPT ![r] = c],
         UNCHANGED <<mode, op>>,
         CallOK(mode', files', index', accepted', c),
         \A t \in Sessions : ~Writes(c, t) =>
           UpToDate(mode', files', accepted', t) /\ (index' \notin Unreadable => Agrees(files', index', t)),
         index' \notin Unreadable => LeafMarks(index'),
         index' \in Unreadable => c.phase = "index_open",
         batches' \notin Unreadable
  PROVE  SerialInv'
<1>1. /\ request'[r] = c
      /\ \A q \in Requests : q # r => request'[q].phase = "idle"
  BY DEF IInv, Shape
<1>2. mode' \in {"files", "both", "database"} /\ op' = Idle /\ OpOK(files', index', op')
  BY IdleOK DEF SerialInv
<1>6. op'.phase # "tamper_open" /\ Whole' = files'
  BY <1>2, IdleFacts DEF Whole
<1>3. \A q \in Requests : CallOK(mode', files', index', accepted', request'[q])
  BY <1>1, NoCallOK
<1>4. Alone'
  BY <1>1, <1>2 DEF Alone
<1>5. StoresOK'
  BY <1>1, <1>6 DEF StoresOK
<1> QED  BY <1>2, <1>3, <1>4, <1>5, <1>6 DEF SerialInv

\* What a request at work may rely on.
LEMMA RequestAlone ==
  ASSUME IInv, SerialInv, ~disturbed, NEW r \in Requests, request[r].phase # "idle"
  PROVE  /\ op = Idle /\ op.phase = "idle" /\ \A q \in Requests : q # r => request[q].phase = "idle"
         /\ CallOK(mode, files, index, accepted, request[r])
         /\ \A t \in Sessions : ~Writes(request[r], t) =>
              /\ UpToDate(mode, files, accepted, t)
              /\ index \notin Unreadable => Agrees(files, index, t)
         /\ index \notin Unreadable => LeafMarks(index)
         /\ index \in Unreadable => request[r].phase = "index_open"
         /\ batches \notin Unreadable
<1>1. Alone /\ StoresOK /\ \A q \in Requests : CallOK(mode, Whole, index, accepted, request[q])
  BY DEF SerialInv
<1>2. op = Idle /\ \A q \in Requests : q # r => request[q].phase = "idle"
  BY <1>1 DEF Alone
<1>3. \A q \in Requests, t \in Sessions : q # r => ~Writes(request[q], t)
  BY <1>2, NoCallOK
<1>4. op.phase = "idle" /\ Whole = files
  BY <1>2, IdleFacts, WholeFiles
<1> QED  BY <1>1, <1>2, <1>3, <1>4 DEF StoresOK

\* Nobody is busy: all stores agree.
LEMMA NobodyBusy ==
  ASSUME IInv, SerialInv, ~disturbed, ~Busy
  PROVE  /\ op = Idle /\ op.phase = "idle" /\ \A r \in Requests : request[r].phase = "idle"
         /\ \A t \in Sessions : UpToDate(mode, files, accepted, t)
         /\ index \notin Unreadable /\ AllAgree(files, index) /\ LeafMarks(index)
         /\ batches \notin Unreadable
<1>1. op = Idle /\ \A r \in Requests : request[r].phase = "idle"
  BY DEF Busy
<1>2. StoresOK /\ op.phase = "idle" /\ Whole = files
  BY <1>1, IdleFacts, WholeFiles DEF SerialInv
<1>3. \A r \in Requests, t \in Sessions : ~Writes(request[r], t)
  BY <1>1, NoCallOK
<1> QED  BY <1>1, <1>2, <1>3 DEF StoresOK, AllAgree

-----------------------------------------------------------------------------
(***************************************************************************)
(* Steps of a request.                                                     *)
(***************************************************************************)
LEMMA BeginSerial ==
  ASSUME IInv, SerialInv, NEW r \in Requests, NEW s \in Sessions, NEW p \in Payloads, Begin(r, s, p)
  PROVE  SerialInv'
<1> DEFINE c == [NoCall EXCEPT !.phase = IF mode = "files" THEN "receipt" ELSE "persist",
                               !.session = s, !.payload = p]
<1>1. /\ request' = [request EXCEPT ![r] = c] /\ disturbed' = (disturbed \/ Busy)
      /\ UNCHANGED <<mode, files, index, batches, op>>
  BY DEF Begin, store
<1>2. /\ c \in AnyCall /\ c.session = s /\ c.payload = p
      /\ c.phase = IF mode = "files" THEN "receipt" ELSE "persist"
  BY NoCallFacts DEF AnyCall
<1> HIDE DEF c
<1>3. CASE disturbed'
  BY <1>1, <1>3, DisturbedSerial DEF SerialInv
<1>4. CASE ~disturbed'
  <2>1. /\ op = Idle /\ \A q \in Requests : request[q].phase = "idle"
        /\ \A t \in Sessions : UpToDate(mode, files, accepted, t)
        /\ index \notin Unreadable /\ AllAgree(files, index) /\ LeafMarks(index)
        /\ batches \notin Unreadable
    BY <1>1, <1>4, NobodyBusy
  <2>2. CASE mode = "files"
    <3>1. accepted' = Append(accepted, <<s, p>>) /\ accepted \in Seq(Sessions \X Payloads)
      BY <2>2 DEF Begin, IInv, Shape
    <3>2. /\ AcceptedAt(accepted', s) # {} /\ Latest(accepted', s) = p
          /\ \A t \in Sessions \ {s} : /\ AcceptedAt(accepted', t) = AcceptedAt(accepted, t)
                                       /\ AcceptedAt(accepted, t) # {} =>
                                            Latest(accepted', t) = Latest(accepted, t)
      BY <3>1, LatestAfterStep
    <3>3. c.phase = "receipt"
      BY <1>2, <2>2
    <3>4. CallOK(mode, files, index, accepted', c)
      BY <1>2, <2>2, <3>2, <3>3 DEF CallOK
    <3>5. \A t \in Sessions : ~Writes(c, t) => UpToDate(mode, files, accepted', t)
      <4> SUFFICES ASSUME NEW t \in Sessions, ~Writes(c, t) PROVE UpToDate(mode, files, accepted', t)
        OBVIOUS
      <4>1. t # s
        BY <1>2, <3>3 DEF Writes, WritingPhases
      <4> QED  BY <2>1, <3>2, <4>1 DEF UpToDate
    <3> QED  BY <1>1, <1>2, <1>4, <2>1, <3>4, <3>5, RequestSerial DEF AllAgree
  <2>3. CASE mode # "files"
    <3>1. accepted' = accepted /\ c.phase = "persist"
      BY <1>2, <2>3 DEF Begin
    <3>2. CallOK(mode, files, index, accepted, c)
      BY <2>3, <3>1 DEF CallOK, WritingPhases
    <3> QED  BY <1>1, <1>2, <1>4, <2>1, <3>1, <3>2, RequestSerial DEF AllAgree
  <2> QED  BY <2>2, <2>3
<1> QED  BY <1>3, <1>4

\* A request that writes nothing returns.
LEMMA ReturnSerial ==
  ASSUME IInv, SerialInv, ~disturbed, NEW r \in Requests, request[r].phase = "persist", Return(r),
         UNCHANGED <<mode, files, index, batches, op, disturbed>>,
         \A t \in Sessions : UpToDate(mode, files, accepted, t) => UpToDate(mode, files, accepted', t)
  PROVE  SerialInv'
<1>1. /\ op = Idle /\ \A q \in Requests : q # r => request[q].phase = "idle"
      /\ \A t \in Sessions : ~Writes(request[r], t) =>
              /\ UpToDate(mode, files, accepted, t)
              /\ index \notin Unreadable => Agrees(files, index, t)
      /\ index \notin Unreadable => LeafMarks(index)
      /\ index \notin Unreadable /\ batches \notin Unreadable
  BY RequestAlone
<1>2. \A t \in Sessions : ~Writes(request[r], t)
  BY DEF Writes, WritingPhases
<1>3. NoCall \in AnyCall /\ CallOK(mode, files, index, accepted', NoCall)
  BY NoCallFacts, NoCallOK
<1> QED  BY <1>1, <1>2, <1>3, RequestSerial DEF Return

\* A request persists to the database.
LEMMA PersistSerial ==
  ASSUME IInv, SerialInv, ~disturbed, NEW r \in Requests, Persist(r)
  PROVE  SerialInv'
<1> DEFINE s == request[r].session
           p == request[r].payload
           c == [request[r] EXCEPT !.phase = "receipt"]
<1>1. /\ request[r].phase = "persist" /\ accepted' = Append(accepted, <<s, p>>)
      /\ UNCHANGED <<mode, files, index, batches, op, disturbed>>
  BY DEF Persist, store
<1>2. s \in Sessions /\ p \in Payloads /\ request[r] \in AnyCall
  BY CallParts
<1>3. /\ op = Idle /\ \A q \in Requests : q # r => request[q].phase = "idle"
      /\ CallOK(mode, files, index, accepted, request[r])
      /\ \A t \in Sessions : ~Writes(request[r], t) =>
              /\ UpToDate(mode, files, accepted, t)
              /\ index \notin Unreadable => Agrees(files, index, t)
      /\ index \notin Unreadable => LeafMarks(index)
      /\ index \notin Unreadable /\ batches \notin Unreadable
  BY <1>1, RequestAlone
<1>4. CASE mode = "both"
  <2>1. request' = [request EXCEPT ![r] = c]
    <3>1. request \in [Requests -> AnyCall]
      BY DEF IInv, Shape
    <3> QED  BY <1>2, <1>4, <3>1 DEF Persist, Phase, AnyCall
  <2>2. /\ c \in AnyCall /\ c.phase = "receipt" /\ c.session = s /\ c.payload = p
    BY <1>2 DEF AnyCall
  <2> HIDE DEF c
  <2>3. accepted \in Seq(Sessions \X Payloads)
    BY DEF IInv, Shape
  <2>4. /\ AcceptedAt(accepted', s) # {} /\ Latest(accepted', s) = p
        /\ \A t \in Sessions \ {s} : /\ AcceptedAt(accepted', t) = AcceptedAt(accepted, t)
                                     /\ AcceptedAt(accepted, t) # {} =>
                                          Latest(accepted', t) = Latest(accepted, t)
    BY <1>1, <1>2, <2>3, LatestAfterStep
  <2>5. CallOK(mode, files, index, accepted', c)
    BY <1>4, <2>2, <2>4 DEF CallOK
  <2>6. \A t \in Sessions : ~Writes(c, t) =>
           UpToDate(mode, files, accepted', t) /\ Agrees(files, index, t)
    <3> SUFFICES ASSUME NEW t \in Sessions, ~Writes(c, t)
                 PROVE  UpToDate(mode, files, accepted', t) /\ Agrees(files, index, t)
      OBVIOUS
    <3>1. t # s /\ ~Writes(request[r], t)
      BY <1>1, <2>2 DEF Writes, WritingPhases
    <3>2. UpToDate(mode, files, accepted, t) /\ Agrees(files, index, t)
      BY <1>3, <3>1
    <3> QED  BY <2>4, <3>1, <3>2 DEF UpToDate
  <2> QED  BY <1>1, <1>3, <2>1, <2>2, <2>5, <2>6, RequestSerial
<1>5. CASE mode # "both"
  <2>1. Return(r) /\ mode = "database"
    BY <1>1, <1>3, <1>5 DEF Persist, CallOK, SerialInv
  <2>2. \A t \in Sessions : UpToDate(mode, files, accepted', t)
    BY <2>1 DEF UpToDate
  <2> QED  BY <1>1, <2>1, <2>2, ReturnSerial
<1> QED  BY <1>4, <1>5

\* The call after a change of phase.
LEMMA NextCall ==
  ASSUME IInv, NEW r \in Requests,
         NEW next \in {"receipt_open", "index", "index_open"}, Phase(r, next)
  PROVE  \E c \in AnyCall : /\ request' = [request EXCEPT ![r] = c]
                            /\ c.phase = next /\ c.session = request[r].session
                            /\ c.payload = request[r].payload /\ c.index = request[r].index
<1> DEFINE c == [request[r] EXCEPT !.phase = next]
<1>1. request[r] \in AnyCall
  BY CallParts
<1>2. c \in AnyCall /\ c.session = request[r].session /\ c.payload = request[r].payload
      /\ c.index = request[r].index /\ c.phase = next
  BY <1>1 DEF AnyCall
<1>3. request' = [request EXCEPT ![r] = c]
  <2>1. request \in [Requests -> AnyCall]
    BY DEF IInv, Shape
  <2> QED  BY <1>1, <2>1 DEF Phase, AnyCall
<1> QED  BY <1>2, <1>3

\* Writing the receipt of one session leaves the others as they agree.
LEMMA OtherFiles ==
  ASSUME IInv, NEW s \in Sessions, NEW f, files' = [files EXCEPT ![s] = f]
  PROVE  /\ files'[s] = f
         /\ \A t \in Sessions \ {s} :
              /\ files'[t] = files[t]
              /\ \A ix : Agrees(files, ix, t) => Agrees(files', ix, t)
              /\ UpToDate(mode, files, accepted, t) => UpToDate(mode, files', accepted, t)
<1>1. files \in [Sessions -> FileStates]
  BY DEF IInv, Shape
<1> QED  BY <1>1 DEF Agrees, UpToDate

\* A request writes its receipt file.
LEMMA ReceiptSerial ==
  ASSUME IInv, SerialInv, ~disturbed, NEW r \in Requests, OpenReceipt(r) \/ FillReceipt(r)
  PROVE  SerialInv'
<1> DEFINE s == request[r].session
           p == request[r].payload
           content == [payload |-> p, altered |-> FALSE]
<1>1. /\ s \in Sessions /\ p \in Payloads
      /\ request[r].phase \in {"receipt", "receipt_open"}
      /\ UNCHANGED <<mode, index, batches, op, accepted, disturbed>>
  BY CallParts DEF OpenReceipt, FillReceipt, history
<1>2. /\ op = Idle /\ \A q \in Requests : q # r => request[q].phase = "idle"
      /\ CallOK(mode, files, index, accepted, request[r])
      /\ \A t \in Sessions : ~Writes(request[r], t) =>
              /\ UpToDate(mode, files, accepted, t)
              /\ index \notin Unreadable => Agrees(files, index, t)
      /\ index \notin Unreadable => LeafMarks(index)
      /\ index \notin Unreadable /\ batches \notin Unreadable
  BY <1>1, RequestAlone
<1>3. /\ mode # "database" /\ AcceptedAt(accepted, s) # {} /\ Latest(accepted, s) = p
      /\ request[r].phase = "receipt_open" => files[s] = Empty
  BY <1>1, <1>2 DEF CallOK, WritingPhases
<1>4. \/ files' = [files EXCEPT ![s] = Empty] /\ Phase(r, "receipt_open")
      \/ files' = [files EXCEPT ![s] = content] /\ Phase(r, "index")
  BY <1>3 DEF OpenReceipt, FillReceipt, Written
<1>5. content \in Content /\ content.payload = p
  BY <1>1 DEF Content
<1> HIDE DEF content
<1>6. PICK next, f :
        /\ next \in {"receipt_open", "index"}
        /\ Phase(r, next) /\ files' = [files EXCEPT ![s] = f]
        /\ next = "receipt_open" => f = Empty
        /\ next = "index" => f \in Content /\ f.payload = p
  BY <1>4, <1>5
<1>7. PICK c \in AnyCall : /\ request' = [request EXCEPT ![r] = c]
                           /\ c.phase = next /\ c.session = s /\ c.payload = p
  BY <1>6, NextCall
<1>8. /\ files'[s] = f
      /\ \A t \in Sessions \ {s} :
           /\ \A ix : Agrees(files, ix, t) => Agrees(files', ix, t)
           /\ UpToDate(mode, files, accepted, t) => UpToDate(mode, files', accepted, t)
  BY <1>1, <1>6, OtherFiles
<1>9. CallOK(mode, files', index, accepted, c)
  BY <1>3, <1>6, <1>7, <1>8 DEF CallOK
<1>10. \A t \in Sessions : ~Writes(c, t) =>
         UpToDate(mode, files', accepted, t) /\ Agrees(files', index, t)
  <2> SUFFICES ASSUME NEW t \in Sessions, ~Writes(c, t)
               PROVE  UpToDate(mode, files', accepted, t) /\ Agrees(files', index, t)
    OBVIOUS
  <2>1. t # s /\ ~Writes(request[r], t)
    BY <1>6, <1>7 DEF Writes, WritingPhases
  <2>2. UpToDate(mode, files, accepted, t) /\ Agrees(files, index, t)
    BY <1>2, <2>1
  <2> QED  BY <1>8, <2>1, <2>2
<1> QED  BY <1>1, <1>2, <1>7, <1>9, <1>10, RequestSerial

\* A request reads the index.
LEMMA LoadIndexSerial ==
  ASSUME IInv, SerialInv, ~disturbed, NEW r \in Requests, LoadIndex(r)
  PROVE  SerialInv'
<1> DEFINE c == [request[r] EXCEPT !.phase = "loaded", !.index = index]
<1>1. /\ request[r].phase = "index"
      /\ UNCHANGED <<mode, files, index, batches, op, accepted, disturbed>>
  BY DEF LoadIndex, store, history
<1>2. /\ op = Idle /\ \A q \in Requests : q # r => request[q].phase = "idle"
      /\ CallOK(mode, files, index, accepted, request[r])
      /\ \A t \in Sessions : ~Writes(request[r], t) =>
              /\ UpToDate(mode, files, accepted, t)
              /\ index \notin Unreadable => Agrees(files, index, t)
      /\ index \notin Unreadable => LeafMarks(index)
      /\ index \notin Unreadable /\ batches \notin Unreadable
  BY <1>1, RequestAlone
<1>3. request' = [request EXCEPT ![r] = c]
  BY <1>2 DEF LoadIndex
<1>4. request[r] \in AnyCall /\ index \in AnyIndex
  BY <1>2, CallParts DEF IInv, Shape
<1>5. /\ c \in AnyCall /\ c.phase = "loaded" /\ c.index = index
      /\ c.session = request[r].session /\ c.payload = request[r].payload
  BY <1>4 DEF AnyCall
<1> HIDE DEF c
<1>6. CallOK(mode, files, index, accepted, c)
  BY <1>1, <1>2, <1>5 DEF CallOK, WritingPhases
<1>7. \A t \in Sessions : ~Writes(c, t) => ~Writes(request[r], t)
  BY <1>1, <1>5 DEF Writes, WritingPhases
<1> QED  BY <1>1, <1>2, <1>3, <1>5, <1>6, <1>7, RequestSerial

\* A request truncates the index.
LEMMA OpenIndexSerial ==
  ASSUME IInv, SerialInv, ~disturbed, NEW r \in Requests, OpenIndex(r)
  PROVE  SerialInv'
<1>1. /\ request[r].phase = "loaded" /\ Phase(r, "index_open") /\ index' = Empty
      /\ UNCHANGED <<mode, files, batches, op, accepted, disturbed>>
  BY DEF OpenIndex, history
<1>2. /\ op = Idle /\ \A q \in Requests : q # r => request[q].phase = "idle"
      /\ CallOK(mode, files, index, accepted, request[r])
      /\ \A t \in Sessions : ~Writes(request[r], t) =>
              /\ UpToDate(mode, files, accepted, t)
              /\ index \notin Unreadable => Agrees(files, index, t)
      /\ index \notin Unreadable => LeafMarks(index)
      /\ index \notin Unreadable /\ batches \notin Unreadable
  BY <1>1, RequestAlone
<1>3. PICK c \in AnyCall : /\ request' = [request EXCEPT ![r] = c]
                           /\ c.phase = "index_open" /\ c.session = request[r].session
                           /\ c.payload = request[r].payload /\ c.index = request[r].index
  BY <1>1, NextCall
<1>4. c.index = index
  BY <1>1, <1>2, <1>3 DEF CallOK
<1>5. \A t \in Sessions \ {c.session} : ~Writes(request[r], t) /\ Agrees(files, c.index, t)
  <2> SUFFICES ASSUME NEW t \in Sessions \ {c.session}
               PROVE  ~Writes(request[r], t) /\ Agrees(files, c.index, t)
    OBVIOUS
  <2>1. ~Writes(request[r], t)
    BY <1>3 DEF Writes
  <2> QED  BY <1>2, <1>4, <2>1
<1>6. CallOK(mode, files, Empty, accepted, c)
  BY <1>1, <1>2, <1>3, <1>4, <1>5 DEF CallOK, WritingPhases
<1>7. \A t \in Sessions : ~Writes(c, t) => ~Writes(request[r], t)
  BY <1>3, <1>5 DEF Writes, WritingPhases
<1>8. index' \in Unreadable
  BY <1>1 DEF Unreadable
<1> QED  BY <1>1, <1>2, <1>3, <1>6, <1>7, <1>8, RequestSerial

\* A request writes the index.
LEMMA FillIndexSerial ==
  ASSUME IInv, SerialInv, ~disturbed, NEW r \in Requests, FillIndex(r)
  PROVE  SerialInv'
<1> DEFINE s == request[r].session
           old == request[r].index
           entry == [payload |-> request[r].payload, root |-> NoRoot]
<1>1. /\ request[r].phase = "index_open" /\ Return(r)
      /\ UNCHANGED <<mode, files, batches, op, accepted, disturbed>>
  BY DEF FillIndex, history
<1>2. /\ op = Idle /\ \A q \in Requests : q # r => request[q].phase = "idle"
      /\ CallOK(mode, files, index, accepted, request[r])
      /\ \A t \in Sessions : ~Writes(request[r], t) => UpToDate(mode, files, accepted, t)
      /\ batches \notin Unreadable
  BY <1>1, RequestAlone
<1>3. /\ index = Empty /\ LeafMarks(old)
      /\ \A t \in Sessions \ {s} : Agrees(files, old, t)
      /\ files[s] \in Content /\ files[s].payload = request[r].payload
      /\ mode # "database" /\ AcceptedAt(accepted, s) # {}
      /\ Latest(accepted, s) = request[r].payload
  BY <1>1, <1>2 DEF CallOK, WritingPhases
<1>4. s \in Sessions /\ old \in AnyIndex
  BY CallParts
<1>5. index' = WithEntry(r)
  BY <1>3 DEF FillIndex, Written
<1>6. WithEntry(r) = [t \in DOMAIN old \cup {s} |-> IF t = s THEN entry ELSE old[t]]
  BY DEF WithEntry
<1>7. /\ DOMAIN index' = DOMAIN old \cup {s} /\ index'[s] = entry
      /\ \A t \in DOMAIN old \ {s} : index'[t] = old[t]
  BY <1>5, <1>6
<1>8. entry.payload = request[r].payload /\ entry.root = NoRoot
  OBVIOUS
<1> HIDE DEF entry, s, old
<1>9. \A t \in Sessions : Agrees(files, index', t)
  <2>1. Agrees(files, index', s)
    BY <1>3, <1>7, <1>8, FileStatesDisjoint DEF Agrees
  <2>2. ASSUME NEW t \in Sessions \ {s} PROVE Agrees(files, index', t)
    <3>1. Agrees(files, old, t)
      BY <1>3
    <3>2. t \in DOMAIN index' <=> t \in DOMAIN old
      BY <1>7
    <3>3. t \in DOMAIN old => index'[t] = old[t]
      BY <1>7
    <3> QED  BY <3>1, <3>2, <3>3 DEF Agrees
  <2> QED  BY <2>1, <2>2
<1>10. LeafMarks(index')
  <2> SUFFICES ASSUME NEW t \in DOMAIN index', index'[t].root # NoRoot
               PROVE  \E F \in SUBSET (Sessions \X Payloads) :
                        /\ IsFiniteSet(F) /\ index'[t].root = BatchRoot(F)
                        /\ <<t, index'[t].payload>> \in F
    BY DEF LeafMarks
  <2>1. t # s /\ t \in DOMAIN old /\ index'[t] = old[t]
    BY <1>7, <1>8
  <2> QED  BY <1>3, <2>1 DEF LeafMarks
<1>11. index' \notin Unreadable
  BY <1>5, <1>10, WithEntryMarked, IndexReadable
<1>12. \A t \in Sessions : UpToDate(mode, files, accepted, t)
  <2>1. UpToDate(mode, files, accepted, s)
    BY <1>3, FileStatesDisjoint DEF UpToDate
  <2>2. \A t \in Sessions \ {s} : ~Writes(request[r], t)
    BY DEF Writes, s
  <2> QED  BY <1>2, <2>1, <2>2
<1>13. NoCall \in AnyCall /\ CallOK(mode, files, index', accepted, NoCall)
  BY NoCallFacts, NoCallOK
<1> QED  BY <1>1, <1>2, <1>9, <1>10, <1>11, <1>12, <1>13, RequestSerial DEF Return

\* Every step of a request.
LEMMA RequestStepSerial ==
  ASSUME IInv, SerialInv, ~disturbed, NEW r \in Requests, RequestStep(r)
  PROVE  SerialInv'
<1>1. CASE PersistFails(r)
  <2>1. /\ request[r].phase = "persist" /\ Return(r)
        /\ UNCHANGED <<mode, files, index, batches, op, accepted, disturbed>>
    BY <1>1 DEF PersistFails, store, history
  <2> QED  BY <2>1, ReturnSerial
<1> QED  BY <1>1, PersistSerial, ReceiptSerial, LoadIndexSerial, OpenIndexSerial, FillIndexSerial
         DEF RequestStep

-----------------------------------------------------------------------------
(***************************************************************************)
(* Steps of the operator.                                                  *)
(***************************************************************************)
LEMMA OpSerial ==
  ASSUME IInv, SerialInv, ~disturbed', \A r \in Requests : request[r].phase = "idle",
         \A t \in Sessions : UpToDate(mode, files, accepted, t),
         UNCHANGED <<mode, files, request, accepted>>,
         op' = Idle \/ op'.phase # "idle", op'.phase # "tamper_open",
         OpOK(files, index', op'),
         index' \notin Unreadable => LeafMarks(index') /\ AllAgree(files, index'),
         index' \in Unreadable => op'.phase = "index_open",
         batches' \in Unreadable => op'.phase = "anchors_open"
  PROVE  SerialInv'
<1>1. /\ \A q \in Requests : CallOK(mode', files', index', accepted', request'[q])
      /\ \A q \in Requests, t \in Sessions : ~Writes(request'[q], t)
  BY NoCallOK
<1>2. Alone'
  BY DEF Alone
<1>3. \A t \in Sessions : /\ UpToDate(mode', files', accepted', t)
                          /\ index' \notin Unreadable => Agrees(files', index', t)
  BY DEF AllAgree
<1>5. Whole' = files'
  BY DEF Whole
<1>4. StoresOK'
  BY <1>3, <1>5 DEF StoresOK
<1> QED  BY <1>1, <1>2, <1>4, <1>5 DEF SerialInv

\* What the command at work may rely on.
LEMMA OpAlone ==
  ASSUME IInv, SerialInv, ~disturbed, op.phase \notin {"idle", "tamper_open"}
  PROVE  /\ \A r \in Requests : request[r].phase = "idle"
         /\ \A t \in Sessions : UpToDate(mode, files, accepted, t)
         /\ OpOK(files, index, op)
         /\ index \notin Unreadable => LeafMarks(index) /\ AllAgree(files, index)
         /\ index \in Unreadable => op.phase = "index_open"
         /\ batches \in Unreadable => op.phase = "anchors_open"
<1>1. op # Idle /\ \A r \in Requests : request[r].phase = "idle"
  BY IdleFacts DEF SerialInv, Alone
<1>2. \A r \in Requests, t \in Sessions : ~Writes(request[r], t)
  BY <1>1, NoCallOK
<1>3. StoresOK /\ OpOK(files, index, op) /\ Whole = files
  BY WholeFiles DEF SerialInv
<1> QED  BY <1>1, <1>2, <1>3 DEF StoresOK, AllAgree

\* A command that ends or begins has read nothing yet.
LEMMA StartOK ==
  ASSUME NEW fs, NEW ix, NEW o, o.phase \in {"idle", "load", "tamper"}, o.cmd = "import" => o.prefix = NoPrefix
  PROVE  OpOK(fs, ix, o)
BY DEF OpOK, AfterRead

\* A call starts.
LEMMA StartSerial ==
  ASSUME IInv, SerialInv, NEW cmd, NEW phase \in {"load", "tamper"}, NEW prefix, NEW days,
         NEW sessions, Start(cmd, phase, prefix, days, sessions),
         cmd = "import" => prefix = NoPrefix
  PROVE  SerialInv'
<1>1. /\ op' = [Idle EXCEPT !.cmd = cmd, !.phase = phase, !.prefix = prefix, !.todo = days,
                             !.left = sessions]
      /\ disturbed' = (disturbed \/ Busy)
      /\ UNCHANGED <<mode, files, index, batches, request, accepted>>
  BY DEF Start, store
<1>2. op'.phase = phase /\ op'.cmd = cmd /\ op'.prefix = prefix
  BY <1>1 DEF Idle
<1>3. CASE disturbed'
  BY <1>1, <1>2, <1>3, DisturbedSerial
<1>4. CASE ~disturbed'
  <2>1. /\ \A r \in Requests : request[r].phase = "idle"
        /\ \A t \in Sessions : UpToDate(mode, files, accepted, t)
        /\ index \notin Unreadable /\ AllAgree(files, index) /\ LeafMarks(index)
        /\ batches \notin Unreadable
    BY <1>1, <1>4, NobodyBusy
  <2>2. OpOK(files, index, op')
    BY <1>2, StartOK
  <2> QED  BY <1>1, <1>2, <1>4, <2>1, <2>2, OpSerial
<1> QED  BY <1>3, <1>4

\* A step of the command that writes no file, and does not begin to.
LEMMA QuietOpSerial ==
  ASSUME IInv, SerialInv, ~disturbed, op.phase \notin {"idle", "anchors_open", "index_open", "tamper_open"},
         UNCHANGED <<mode, files, index, batches, request, accepted, disturbed>>,
         op' = Idle \/ op'.phase # "idle", op'.phase # "tamper_open",
         OpOK(files, index, op')
  PROVE  SerialInv'
BY OpAlone, OpSerial

\* A call ends.
LEMMA OpEndsSerial ==
  ASSUME IInv, SerialInv, ~disturbed, op.phase \notin {"idle", "anchors_open", "index_open", "tamper_open"},
         UNCHANGED <<mode, files, index, batches, request, accepted, disturbed>>,
         op' = Idle
  PROVE  SerialInv'
BY IdleOK, QuietOpSerial

\* A command reads the index and lists its sessions.
LEMMA OpLoadSerial ==
  ASSUME IInv, SerialInv, ~disturbed, OpLoad
  PROVE  SerialInv'
<1>1. /\ op.phase = "load"
      /\ UNCHANGED <<mode, files, index, batches, request, accepted, disturbed>>
  BY DEF OpLoad, store, history
<1>2. OpOK(files, index, op) /\ index \notin Unreadable
  BY <1>1, OpAlone
<1>3. \E day : op' = [op EXCEPT !.phase = "read", !.index = index, !.found = {},
                        !.left = DOMAIN index \cap Scope[op.prefix], !.day = day]
  BY <1>2 DEF OpLoad
<1>4. /\ op'.phase = "read" /\ op'.index = index /\ op'.found = {} /\ op'.cmd = op.cmd
      /\ op'.prefix = op.prefix /\ op'.left = DOMAIN index \cap Scope[op.prefix]
  BY <1>3, OpParts DEF AnyOp, TamperPhases
<1>5. op'.left = Choice(op')
  BY <1>4 DEF Choice
<1>6. Selected(files, op') = {}
  BY <1>5 DEF Selected
<1>7. OpOK(files, index, op')
  BY <1>2, <1>4, <1>5, <1>6 DEF OpOK, AfterRead
<1> QED  BY <1>1, <1>4, <1>7, QuietOpSerial

\* A call reads a receipt.
LEMMA OpReadSerial ==
  ASSUME IInv, SerialInv, ~disturbed, OpRead
  PROVE  SerialInv'
<1> DEFINE s == CHOOSE t \in op.left : \A u \in op.left : t <= u
           want(t) == op.cmd = "day" => DayOf[files[t].payload] = op.day
           found == IF want(s) THEN op.found \cup {<<s, files[s]>>} ELSE op.found
<1>1. /\ op.phase = "read" /\ op.left # {}
      /\ UNCHANGED <<mode, files, index, batches, request, accepted, disturbed>>
  BY DEF OpRead, store, history
<1>2. /\ OpOK(files, index, op) /\ index \notin Unreadable /\ AllAgree(files, index)
  BY <1>1, OpAlone
<1>3. /\ op.index = index /\ op.left \subseteq Choice(op) /\ op.found = Selected(files, op)
      /\ op.cmd = "import" => op.prefix = NoPrefix
  BY <1>1, <1>2 DEF OpOK, AfterRead
<1>4. s \in op.left /\ s \in Sessions
  <2>1. op.left \in SUBSET Sessions /\ op.left \in SUBSET Nat
    BY OpParts, FileConstants
  <2>2. s \in op.left
    BY <1>1, <2>1, MinExists
  <2> QED  BY <2>1, <2>2
<1>5. files[s] \in Content
  <2>1. s \in DOMAIN index /\ Agrees(files, index, s)
    BY <1>2, <1>3, <1>4 DEF Choice, AllAgree
  <2> QED  BY <1>4, <2>1, AgreedContent
<1>6. op' = [op EXCEPT !.left = op.left \ {s}, !.found = found]
  <2>1. files[s] \notin Unreadable /\ files[s] # Absent
    BY <1>5, FileStatesDisjoint
  <2> QED  BY <2>1 DEF OpRead
<1> HIDE DEF s
<1>7. /\ op'.phase = "read" /\ op'.index = op.index /\ op'.found = found /\ op'.cmd = op.cmd
      /\ op'.day = op.day /\ op'.prefix = op.prefix /\ op'.left = op.left \ {s}
  BY <1>1, <1>6, OpParts DEF AnyOp, TamperPhases
<1>8. Choice(op') = Choice(op) /\ s \in Choice(op)
  BY <1>3, <1>4, <1>7 DEF Choice
<1>9. Selected(files, op') = found
  <2>1. Selected(files, op) = {<<t, files[t]>> : t \in {u \in Choice(op) \ op.left : want(u)}}
    BY DEF Selected
  <2>2. Selected(files, op') = {<<t, files[t]>> : t \in {u \in Choice(op) \ (op.left \ {s}) : want(u)}}
    BY <1>7, <1>8 DEF Selected
  <2> HIDE DEF want
  <2>3. {u \in Choice(op) \ (op.left \ {s}) : want(u)} =
          {u \in Choice(op) \ op.left : want(u)} \cup (IF want(s) THEN {s} ELSE {})
    BY <1>4, <1>8
  <2> QED  BY <1>3, <2>1, <2>2, <2>3
<1> HIDE DEF found
<1>10. OpOK(files, index, op')
  BY <1>3, <1>7, <1>8, <1>9 DEF OpOK, AfterRead
<1> QED  BY <1>1, <1>7, <1>10, QuietOpSerial

\* The batch of a command stays what it read.
LEMMA SelectedKept ==
  ASSUME NEW fs, NEW o, NEW n, n.index = o.index, n.prefix = o.prefix, n.cmd = o.cmd,
         n.day = o.day, n.left = o.left
  PROVE  Selected(fs, n) = Selected(fs, o)
BY DEF Selected, Choice

\* A call has read the receipts.
LEMMA OpReadDoneSerial ==
  ASSUME IInv, SerialInv, ~disturbed, OpReadDone
  PROVE  SerialInv'
<1>1. /\ op.phase = "read" /\ op.left = {}
      /\ UNCHANGED <<mode, files, index, batches, request, accepted, disturbed>>
  BY DEF OpReadDone, store, history
<1>2. OpOK(files, index, op)
  BY <1>1, OpAlone
<1>3. /\ op.index = index /\ op.found = Selected(files, op)
      /\ op.cmd = "import" => op.prefix = NoPrefix
  BY <1>1, <1>2 DEF OpOK, AfterRead
<1>4. op.cmd \in {"day", "all", "import"}
  BY <1>1, OpParts DEF TamperPhases
<1>5. CASE op' = Idle
  BY <1>1, <1>5, OpEndsSerial
<1>6. CASE op' = [op EXCEPT !.cmd = "day", !.phase = "load", !.todo = {DayOf[x[2]] : x \in Found}]
  <2>1. op'.phase = "load" /\ op'.cmd = "day"
    BY <1>6, OpParts DEF AnyOp, TamperPhases
  <2> QED  BY <1>1, <2>1, StartOK, QuietOpSerial
<1>7. ASSUME NEW next \in {"import", "anchors"}, op' = [op EXCEPT !.phase = next],
             next = "import" => op.cmd = "import", next = "anchors" => op.cmd = "day" /\ op.found # {}
      PROVE  SerialInv'
  <2>1. /\ op'.phase = next /\ op'.index = op.index /\ op'.found = op.found /\ op'.cmd = op.cmd
        /\ op'.day = op.day /\ op'.prefix = op.prefix /\ op'.left = op.left
    BY <1>7, OpParts DEF AnyOp, TamperPhases
  <2>2. Selected(files, op') = Selected(files, op)
    BY <2>1, SelectedKept
  <2>3. OpOK(files, index, op')
    BY <1>1, <1>3, <1>7, <2>1, <2>2 DEF OpOK, AfterRead
  <2> QED  BY <1>1, <2>1, <2>3, QuietOpSerial
<1>8. \/ op' = Idle
      \/ op.cmd = "import" /\ op' = [op EXCEPT !.phase = "import"]
      \/ op' = [op EXCEPT !.cmd = "day", !.phase = "load", !.todo = {DayOf[x[2]] : x \in Found}]
      \/ op.cmd = "day" /\ op.found # {} /\ op' = [op EXCEPT !.phase = "anchors"]
  <2>1. CASE op.cmd = "import"
    BY <2>1 DEF OpReadDone
  <2>2. CASE op.cmd # "import" /\ op.found = {}
    BY <2>2 DEF OpReadDone
  <2>3. CASE op.cmd = "all" /\ op.found # {}
    BY <2>3 DEF OpReadDone
  <2>4. CASE op.cmd = "day" /\ op.found # {}
    BY <2>4 DEF OpReadDone
  <2> QED  BY <1>4, <2>1, <2>2, <2>3, <2>4
<1> QED  BY <1>5, <1>6, <1>7, <1>8

\* What a command knows while it writes.
LEMMA WriterOK ==
  ASSUME IInv, SerialInv, ~disturbed, op.phase \in {"anchors", "anchors_open", "index"}
  PROVE  /\ op.index = index /\ op.left = {} /\ op.found = Selected(files, op)
         /\ op.cmd = "day" /\ op.found # {}
BY OpAlone DEF OpOK, AfterRead

\* It goes on to its next write.
LEMMA NextWriteOK ==
  ASSUME IInv, NEW next \in {"anchors_open", "index"}, op.phase \in {"anchors", "anchors_open"},
         SerialInv, ~disturbed,
         op'.phase = next, op'.index = op.index, op'.found = op.found, op'.cmd = op.cmd,
         op'.day = op.day, op'.prefix = op.prefix, op'.left = op.left
  PROVE  OpOK(files, index, op')
<1>1. Selected(files, op') = Selected(files, op)
  BY SelectedKept
<1> QED  BY <1>1, WriterOK DEF OpOK, AfterRead

\* A call stores an anchor.
LEMMA AnchorsSerial ==
  ASSUME IInv, SerialInv, RootsSorted, IInv', RootsSorted', ~disturbed, OpOpenAnchors \/ OpFillAnchors
  PROVE  SerialInv'
<1>1. /\ op.phase \in {"anchors", "anchors_open"}
      /\ UNCHANGED <<mode, files, index, request, accepted, disturbed>>
  BY DEF OpOpenAnchors, OpFillAnchors, history
<1>2. /\ \A r \in Requests : request[r].phase = "idle"
      /\ \A t \in Sessions : UpToDate(mode, files, accepted, t)
      /\ LeafMarks(index) /\ AllAgree(files, index) /\ index \notin Unreadable
      /\ batches \in Unreadable => op.phase = "anchors_open"
  BY <1>1, OpAlone
<1>3. CASE OpOpenAnchors
  <2>1. op' = [op EXCEPT !.phase = "anchors_open", !.batches = Append(batches, NewBatch)]
    BY <1>2, <1>3 DEF OpOpenAnchors
  <2>2. /\ op'.phase = "anchors_open" /\ op'.index = op.index /\ op'.found = op.found
        /\ op'.cmd = op.cmd /\ op'.day = op.day /\ op'.prefix = op.prefix /\ op'.left = op.left
    BY <2>1, OpParts DEF AnyOp, TamperPhases
  <2>3. OpOK(files, index, op')
    BY <1>1, <2>2, NextWriteOK
  <2> QED  BY <1>1, <1>2, <2>2, <2>3, OpSerial
<1>4. CASE OpFillAnchors
  <2>1. /\ op.phase = "anchors_open" /\ batches' = op.batches
        /\ sealed' = Append(sealed, op.batches[Len(op.batches)])
        /\ op' = [op EXCEPT !.phase = "index"]
    BY <1>4 DEF OpFillAnchors
  <2>2. /\ op'.phase = "index" /\ op'.index = op.index /\ op'.found = op.found
        /\ op'.cmd = op.cmd /\ op'.day = op.day /\ op'.prefix = op.prefix /\ op'.left = op.left
    BY <2>1, OpParts DEF AnyOp, TamperPhases
  <2>3. OpOK(files, index, op')
    BY <1>1, <2>2, NextWriteOK
  <2>4. batches' = sealed'
    <3>1. op.batches = Append(sealed, NewBatch)
      BY <2>1 DEF IInv, Pending
    <3>2. sealed \in Seq(AnyBatch) /\ NewBatch \in AnyBatch
      BY OpParts, FoundType DEF IInv, Shape
    <3>3. op.batches[Len(op.batches)] = NewBatch
      BY <3>1, <3>2, AppendFacts
    <3> QED  BY <2>1, <3>1, <3>3
  <2>5. sealed' \notin Unreadable
    <3>1. (sealed \in Seq(AnyBatch))'
      BY DEF IInv, Shape
    <3>2. (sealed \notin Unreadable)'
      BY <3>1, SealedReadable, PTL
    <3> QED  BY <3>2
  <2> QED  BY <1>1, <1>2, <2>2, <2>3, <2>4, <2>5, OpSerial
<1> QED  BY <1>3, <1>4

\* A call truncates the index.
LEMMA OpOpenIndexSerial ==
  ASSUME IInv, SerialInv, ~disturbed, OpOpenIndex
  PROVE  SerialInv'
<1>1. /\ op.phase = "index" /\ index' = Empty /\ op' = [op EXCEPT !.phase = "index_open"]
      /\ UNCHANGED <<mode, files, batches, request, accepted, disturbed>>
  BY DEF OpOpenIndex, history
<1>2. /\ \A r \in Requests : request[r].phase = "idle"
      /\ \A t \in Sessions : UpToDate(mode, files, accepted, t)
      /\ LeafMarks(index) /\ AllAgree(files, index)
      /\ batches \notin Unreadable
  BY <1>1, OpAlone
<1>3. /\ op'.phase = "index_open" /\ op'.index = op.index /\ op'.found = op.found
      /\ op'.cmd = op.cmd /\ op'.day = op.day /\ op'.prefix = op.prefix /\ op'.left = op.left
  BY <1>1, OpParts DEF AnyOp, TamperPhases
<1>4. Selected(files, op') = Selected(files, op)
  BY <1>3, SelectedKept
<1>5. OpOK(files, Empty, op')
  BY <1>1, <1>2, <1>3, <1>4, WriterOK DEF OpOK, AfterRead
<1>6. index' \in Unreadable
  BY <1>1 DEF Unreadable
<1> QED  BY <1>1, <1>2, <1>3, <1>5, <1>6, OpSerial

\* A call writes the index.
LEMMA OpFillIndexSerial ==
  ASSUME IInv, RootsSorted, SerialInv, ~disturbed, OpFillIndex
  PROVE  SerialInv'
<1> DEFINE ids == {x[1] : x \in op.found}
           old == op.index
           new == [s \in DOMAIN old |->
                     IF s \in ids THEN [old[s] EXCEPT !.root = NewBatch.root] ELSE old[s]]
<1>1. /\ op.phase = "index_open"
      /\ UNCHANGED <<mode, files, batches, request, accepted, disturbed>>
  BY DEF OpFillIndex, history
<1>2. /\ \A r \in Requests : request[r].phase = "idle"
      /\ \A t \in Sessions : UpToDate(mode, files, accepted, t)
      /\ OpOK(files, index, op) /\ batches \notin Unreadable
  BY <1>1, OpAlone
<1>3. /\ index = Empty /\ LeafMarks(old) /\ AllAgree(files, old)
      /\ op.found = Selected(files, op)
      /\ op.cmd = "day"
  BY <1>1, <1>2 DEF OpOK, AfterRead
<1>4. index' = new
  BY <1>3 DEF OpFillIndex, Written
<1>5. /\ old \in AnyIndex /\ DOMAIN old \in SUBSET Sessions
      /\ old \in [DOMAIN old -> AnyEntry]
  BY OpParts, IndexParts
<1>6. /\ DOMAIN index' = DOMAIN old
      /\ \A s \in DOMAIN old : /\ index'[s].payload = old[s].payload
                               /\ s \notin ids => index'[s] = old[s]
                               /\ s \in ids => index'[s].root = NewBatch.root
  BY <1>4, <1>5 DEF AnyEntry
<1> HIDE DEF new, old
<1>7. AllAgree(files, index')
  BY <1>3, <1>6 DEF AllAgree, Agrees
<1>8. LeafMarks(index')
  <2> SUFFICES ASSUME NEW s \in DOMAIN index', index'[s].root # NoRoot
               PROVE  \E F \in SUBSET (Sessions \X Payloads) :
                        /\ IsFiniteSet(F) /\ index'[s].root = BatchRoot(F)
                        /\ <<s, index'[s].payload>> \in F
    BY DEF LeafMarks
  <2>1. CASE s \notin ids
    BY <1>3, <1>6, <2>1 DEF LeafMarks
  <2>2. CASE s \in ids
    <3>1. Found \in SUBSET (Sessions \X Payloads) /\ IsFiniteSet(Found)
      BY FoundFinite DEF RootsSorted, Receipts
    <3>2. index'[s].root = BatchRoot(Found)
      BY <1>6, <2>2 DEF NewBatch
    <3>3. PICK x \in op.found : x[1] = s
      BY <2>2
    <3>4. x = <<s, files[s]>>
      BY <1>3, <3>3 DEF Selected
    <3>5. <<s, files[s].payload>> \in Found
      BY <3>3, <3>4 DEF Found
    <3>6. files[s].payload = old[s].payload
      BY <1>3, <1>5, <1>6 DEF AllAgree, Agrees
    <3> QED  BY <1>6, <3>1, <3>2, <3>5, <3>6
  <2> QED  BY <2>1, <2>2
<1>9. index' \in AnyIndex
  <2>1. index' \in [DOMAIN old -> AnyEntry]
    <3>1. NewBatch.root \in AnyRoot
      BY OpParts, FoundType
    <3>2. \A s \in DOMAIN old : new[s] \in AnyEntry
      BY <1>5, <3>1 DEF AnyEntry, new
    <3> QED  BY <1>4, <3>2 DEF new
  <2> QED  BY <1>5, <2>1, IndexWith
<1>10. index' \notin Unreadable
  BY <1>8, <1>9, IndexReadable
<1>11. op' = Idle \/ op' = [op EXCEPT !.phase = "load", !.todo = op.todo \ {op.day}]
  BY DEF OpFillIndex
<1>12. (op' = Idle \/ op'.phase # "idle") /\ op'.phase # "tamper_open" /\ OpOK(files, index', op')
  <2>1. CASE op' = Idle
    BY <2>1, IdleOK
  <2>2. CASE op' = [op EXCEPT !.phase = "load", !.todo = op.todo \ {op.day}]
    <3>1. op'.phase = "load" /\ op'.cmd = "day"
      BY <1>3, <2>2, OpParts DEF AnyOp, TamperPhases
    <3> QED  BY <3>1, StartOK
  <2> QED  BY <1>11, <2>1, <2>2
<1> QED  BY <1>1, <1>2, <1>7, <1>8, <1>10, <1>12, OpSerial

\* A call imports into the database.
LEMMA ImportSerial ==
  ASSUME IInv, SerialInv, ~disturbed, ImportReceipts \/ ImportAnchors
  PROVE  SerialInv'
<1>1. /\ op.phase \in {"import", "import_anchors"}
      /\ UNCHANGED <<mode, files, index, batches, request, accepted, disturbed>>
  BY DEF ImportReceipts, ImportAnchors, store, history
<1>2. CASE ImportAnchors
  BY <1>1, <1>2, OpEndsSerial DEF ImportAnchors
<1>3. CASE ImportReceipts
  <2>1. op.phase = "import" /\ op' = [op EXCEPT !.phase = "import_anchors"]
    BY <1>3 DEF ImportReceipts
  <2>2. /\ op'.phase = "import_anchors" /\ op'.index = op.index /\ op'.found = op.found
        /\ op'.cmd = op.cmd /\ op'.day = op.day /\ op'.prefix = op.prefix /\ op'.left = op.left
    BY <2>1, OpParts DEF AnyOp, TamperPhases
  <2>3. Selected(files, op') = Selected(files, op) /\ OpOK(files, index, op)
    BY <1>1, <2>2, SelectedKept, OpAlone
  <2>4. OpOK(files, index, op')
    BY <2>1, <2>2, <2>3 DEF OpOK, AfterRead
  <2> QED  BY <1>1, <2>2, <2>4, QuietOpSerial
<1> QED  BY <1>2, <1>3

-----------------------------------------------------------------------------
(***************************************************************************)
(* The tamper helper, a restart, a crash.                                  *)
(***************************************************************************)
\* The tamper helper reads the file.
LEMMA TamperReadSerial ==
  ASSUME IInv, SerialInv, ~disturbed, TamperRead
  PROVE  SerialInv'
<1>1. /\ op.phase = "tamper"
      /\ UNCHANGED <<mode, files, index, batches, request, accepted, disturbed>>
  BY DEF TamperRead, store, history
<1>2. CASE op' = Idle
  BY <1>1, <1>2, OpEndsSerial
<1>3. CASE op' # Idle
  <2>1. PICK s \in op.left :
          op' = [op EXCEPT !.phase = "tamper_write", !.left = {}, !.found = {<<s, files[s]>>}]
    BY <1>3 DEF TamperRead
  <2>2. s \in Sessions
    BY OpParts
  <2>3. /\ op'.phase = "tamper_write" /\ op'.found = {<<s, files[s]>>} /\ op'.cmd = op.cmd
        /\ op'.prefix = op.prefix
    BY <2>1, OpParts DEF AnyOp, TamperPhases
  <2>4. OpOK(files, index, op)
    BY <1>1, OpAlone
  <2>5. OpOK(files, index, op')
    BY <2>2, <2>3, <2>4 DEF OpOK, AfterRead
  <2> QED  BY <1>1, <2>3, <2>5, QuietOpSerial
<1> QED  BY <1>2, <1>3

\* It truncates the file that it holds.
LEMMA TamperOpened ==
  ASSUME IInv, SerialInv, ~disturbed, TamperOpen
  PROVE  Whole' = files
<1>1. op.phase = "tamper_write" /\ op' = [op EXCEPT !.phase = "tamper_open"]
  BY DEF TamperOpen
<1>2. PICK s \in Sessions : op.found = {<<s, files[s]>>}
  BY <1>1, OpAlone DEF OpOK
<1>3. op'.phase = "tamper_open" /\ op'.found = op.found
  BY <1>1, OpParts DEF AnyOp, TamperPhases
<1>4. files' = [files EXCEPT ![s] = Empty] /\ files \in [Sessions -> FileStates]
  <2>1. PICK x \in op.found : files' = [files EXCEPT ![x[1]] = Empty]
    BY DEF TamperOpen
  <2>2. x[1] = s
    BY <1>2, <2>1
  <2> QED  BY <2>1, <2>2 DEF IInv, Shape
<1>5. (CHOOSE x \in op.found : x[1] = s) = <<s, files[s]>>
  BY <1>2
<1>6. Whole' = [t \in Sessions |-> IF \E x \in op.found : x[1] = t
                                  THEN (CHOOSE x \in op.found : x[1] = t)[2] ELSE files'[t]]
  BY <1>3 DEF Whole
<1>7. \A t \in Sessions : (\E x \in op.found : x[1] = t) <=> t = s
  BY <1>2
<1>8. \A t \in Sessions : Whole'[t] = files[t]
  <2> SUFFICES ASSUME NEW t \in Sessions PROVE Whole'[t] = files[t]
    OBVIOUS
  <2>1. CASE t = s
    BY <1>5, <1>6, <1>7, <2>1
  <2>2. CASE t # s
    <3>1. Whole'[t] = files'[t]
      BY <1>6, <1>7, <2>2
    <3> QED  BY <1>4, <2>2, <3>1
  <2> QED  BY <2>1, <2>2
<1> QED  BY <1>4, <1>6, <1>8

LEMMA TamperOpenSerial ==
  ASSUME IInv, SerialInv, ~disturbed, TamperOpen
  PROVE  SerialInv'
<1>1. /\ op.phase = "tamper_write" /\ op' = [op EXCEPT !.phase = "tamper_open"]
      /\ UNCHANGED <<mode, index, batches, request, accepted, disturbed>>
  BY DEF TamperOpen, history
<1>2. /\ \A r \in Requests : request[r].phase = "idle"
      /\ \A t \in Sessions : UpToDate(mode, files, accepted, t)
      /\ OpOK(files, index, op)
      /\ LeafMarks(index) /\ AllAgree(files, index)
      /\ index \notin Unreadable /\ batches \notin Unreadable
  BY <1>1, OpAlone
<1>3. /\ op'.phase = "tamper_open" /\ op'.found = op.found /\ op'.cmd = op.cmd
      /\ op'.prefix = op.prefix
  BY <1>1, OpParts DEF AnyOp, TamperPhases
<1>4. Whole' = files
  BY TamperOpened
<1>5. OpOK(files, index, op')
  BY <1>1, <1>2, <1>3 DEF OpOK, AfterRead
<1>6. \A x \in op'.found : files'[x[1]] = Empty
  <2>1. PICK s \in Sessions : op.found = {<<s, files[s]>>}
    BY <1>1, <1>2 DEF OpOK
  <2>2. PICK x \in op.found : files' = [files EXCEPT ![x[1]] = Empty]
    BY DEF TamperOpen
  <2>3. x[1] = s /\ files \in [Sessions -> FileStates]
    BY <2>1, <2>2 DEF IInv, Shape
  <2> QED  BY <1>3, <2>1, <2>2, <2>3
<1>7. StoresOK'
  BY <1>1, <1>2, <1>4 DEF StoresOK, AllAgree
<1>8. \A q \in Requests : CallOK(mode, files, index, accepted, request[q])
  BY <1>2, NoCallOK
<1>9. Alone' /\ mode \in {"files", "both", "database"}
  BY <1>1, <1>2 DEF Alone, SerialInv
<1> QED  BY <1>1, <1>3, <1>4, <1>5, <1>6, <1>7, <1>8, <1>9 DEF SerialInv

\* The file that it writes has the payload that it had.
LEMMA TamperedFiles ==
  ASSUME IInv, SerialInv, ~disturbed, TamperFill
  PROVE  /\ Whole' = files'
         /\ \A t \in Sessions :
              /\ Whole[t] \in FileStates
              /\ files'[t] \in Content <=> Whole[t] \in Content
              /\ Whole[t] \in Content => files'[t].payload = Whole[t].payload
              /\ Whole[t] \notin Content => files'[t] = Whole[t]
<1>1. op.phase = "tamper_open" /\ op' = Idle
  BY DEF TamperFill
<1>2. PICK s \in Sessions : op.found = {<<s, Whole[s]>>}
  BY <1>1 DEF SerialInv, OpOK
<1>3. files[s] = Empty /\ Whole[s] \in Content /\ files \in [Sessions -> FileStates]
  BY <1>1, <1>2, OpParts DEF SerialInv, IInv, Shape
<1>4. files' = [files EXCEPT ![s] = [Whole[s] EXCEPT !.altered = TRUE]]
  <2>1. PICK x \in op.found : \E c \in Written(files[x[1]], [x[2] EXCEPT !.altered = TRUE]) :
          files' = [files EXCEPT ![x[1]] = c]
    BY DEF TamperFill
  <2>2. x[1] = s /\ x[2] = Whole[s]
    BY <1>2, <2>1
  <2> QED  BY <1>3, <2>1, <2>2 DEF Written
<1>5. \A t \in Sessions \ {s} : Whole[t] = files[t]
  BY <1>1, <1>2 DEF Whole
<1>6. [Whole[s] EXCEPT !.altered = TRUE] \in Content
      /\ [Whole[s] EXCEPT !.altered = TRUE].payload = Whole[s].payload
  BY <1>3 DEF Content
<1>7. files'[s] = [Whole[s] EXCEPT !.altered = TRUE] /\ \A t \in Sessions \ {s} : files'[t] = Whole[t]
  BY <1>3, <1>4, <1>5
<1>8. \A t \in Sessions : Whole[t] \in FileStates
  BY <1>3, <1>5 DEF FileStates
<1>9. Whole' = files'
  BY <1>1, IdleFacts DEF Whole
<1> QED  BY <1>3, <1>6, <1>7, <1>8, <1>9

LEMMA TamperFillSerial ==
  ASSUME IInv, SerialInv, ~disturbed, TamperFill
  PROVE  SerialInv'
<1>1. /\ op.phase = "tamper_open" /\ op' = Idle
      /\ UNCHANGED <<mode, index, batches, request, accepted, disturbed>>
  BY DEF TamperFill, history
<1>2. /\ Whole' = files'
      /\ \A t \in Sessions :
           /\ Whole[t] \in FileStates
           /\ files'[t] \in Content <=> Whole[t] \in Content
           /\ Whole[t] \in Content => files'[t].payload = Whole[t].payload
           /\ Whole[t] \notin Content => files'[t] = Whole[t]
  BY TamperedFiles
<1>3. StoresOK /\ Alone /\ op # Idle
  BY <1>1, IdleFacts DEF SerialInv
<1>4. \A q \in Requests : request[q].phase = "idle"
  BY <1>3 DEF Alone
<1>5. \A t \in Sessions : \A ix : Agrees(Whole, ix, t) => Agrees(files', ix, t)
  <2> SUFFICES ASSUME NEW t \in Sessions, NEW ix, Agrees(Whole, ix, t) PROVE Agrees(files', ix, t)
    OBVIOUS
  <2>1. CASE Whole[t] \in Content
    BY <1>2, <2>1, FileStatesDisjoint DEF Agrees
  <2>2. CASE Whole[t] \notin Content
    BY <1>2, <2>2 DEF Agrees
  <2> QED  BY <2>1, <2>2
<1>6. \A t \in Sessions : UpToDate(mode, Whole, accepted, t) => UpToDate(mode, files', accepted, t)
  <2> SUFFICES ASSUME NEW t \in Sessions, UpToDate(mode, Whole, accepted, t)
               PROVE  UpToDate(mode, files', accepted, t)
    OBVIOUS
  <2>1. CASE Whole[t] \in Content
    BY <1>2, <2>1, FileStatesDisjoint DEF UpToDate
  <2>2. CASE Whole[t] \notin Content
    BY <1>2, <2>2 DEF UpToDate
  <2> QED  BY <2>1, <2>2
<1>7. \A q \in Requests : CallOK(mode, files', index, accepted, request[q])
  BY <1>4, NoCallOK
<1>8. \A q \in Requests, t \in Sessions : ~Writes(request[q], t)
  BY <1>4, NoCallOK
<1>9. StoresOK'
  BY <1>1, <1>2, <1>3, <1>5, <1>6, <1>8, IdleFacts DEF StoresOK
<1>10. OpOK(files', index, op') /\ op'.phase = "idle"
  BY <1>1, IdleOK
<1>11. Alone' /\ mode \in {"files", "both", "database"}
  BY <1>1, <1>4 DEF Alone, SerialInv
<1> QED  BY <1>1, <1>2, <1>7, <1>9, <1>10, <1>11 DEF SerialInv

\* Every step of a call.
LEMMA OpStepSerial ==
  ASSUME IInv, RootsSorted, SerialInv, IInv', RootsSorted', ~disturbed, OpStep
  PROVE  SerialInv'
BY OpLoadSerial, OpReadSerial, OpReadDoneSerial, AnchorsSerial, OpOpenIndexSerial,
   OpFillIndexSerial, ImportSerial, TamperReadSerial, TamperOpenSerial, TamperFillSerial DEF OpStep

\* The service starts again with a database.
LEMMA EnableSerial ==
  ASSUME IInv, SerialInv, ~disturbed, EnableDatabase
  PROVE  SerialInv'
<1>1. /\ ~Busy /\ mode' \in {"both", "database"} /\ mode = "files"
      /\ UNCHANGED <<files, index, batches, request, op, accepted, disturbed>>
  BY DEF EnableDatabase, store, history
<1>2. /\ op = Idle /\ op.phase = "idle" /\ \A q \in Requests : request[q].phase = "idle"
      /\ \A t \in Sessions : UpToDate(mode, files, accepted, t)
      /\ index \notin Unreadable /\ AllAgree(files, index) /\ LeafMarks(index)
      /\ batches \notin Unreadable
  BY <1>1, NobodyBusy
<1>3. \A t \in Sessions : UpToDate(mode', files, accepted, t)
  BY <1>1, <1>2 DEF UpToDate
<1>7. Whole' = files'
  BY <1>1, <1>2 DEF Whole
<1>4. StoresOK'
  BY <1>1, <1>2, <1>3, <1>7 DEF StoresOK, AllAgree
<1>5. \A q \in Requests : CallOK(mode', files, index, accepted, request[q])
  BY <1>2, NoCallOK
<1>6. OpOK(files, index, op)
  BY <1>2, IdleOK
<1> QED  BY <1>1, <1>2, <1>4, <1>5, <1>6, <1>7 DEF SerialInv, Alone

\* Nobody takes the disturbance back, and the mode is one of three.
LEMMA DisturbedStays ==
  ASSUME IInv, SerialInv, [Next]_vars
  PROVE  /\ disturbed => disturbed'
         /\ mode' \in {"files", "both", "database"}
<1>1. mode \in {"files", "both", "database"}
  BY DEF SerialInv
<1>2. CASE UNCHANGED vars
  BY <1>1, <1>2 DEF vars, history
<1>3. CASE \E r \in Requests : (\E s \in Sessions, p \in Payloads : Begin(r, s, p)) \/ RequestStep(r)
  <2>1. CASE \E r \in Requests, s \in Sessions, p \in Payloads : Begin(r, s, p)
    BY <1>1, <2>1 DEF Begin
  <2>2. CASE \E r \in Requests : RequestStep(r)
    BY <1>1, <2>2 DEF RequestStep, Persist, PersistFails, OpenReceipt, FillReceipt, LoadIndex,
       OpenIndex, FillIndex, history
  <2> QED  BY <1>3, <2>1, <2>2
<1>4. CASE \/ StartImport \/ \E s \in Sessions : StartTamper(s)
           \/ \E prefix \in Prefixes : \/ \E day \in Days : StartAnchorDay(day, prefix)
                                       \/ StartAnchorAllDays(prefix)
  BY <1>1, <1>4 DEF StartImport, StartTamper, StartAnchorDay, StartAnchorAllDays, Start
<1>5. CASE OpStep
  <2>1. CASE OpLoad \/ OpRead \/ OpReadDone
    BY <1>1, <2>1 DEF OpLoad, OpRead, OpReadDone, history
  <2>2. CASE OpOpenAnchors \/ OpFillAnchors \/ OpOpenIndex \/ OpFillIndex
    BY <1>1, <2>2 DEF OpOpenAnchors, OpFillAnchors, OpOpenIndex, OpFillIndex, history
  <2>3. CASE ImportReceipts \/ ImportAnchors
    <3>1. UNCHANGED <<mode, disturbed>>
      BY <2>3 DEF ImportReceipts, ImportAnchors, history
    <3> QED  BY <1>1, <3>1
  <2>4. CASE TamperRead \/ TamperOpen \/ TamperFill
    <3>1. UNCHANGED <<mode, disturbed>>
      BY <2>4 DEF TamperRead, TamperOpen, TamperFill, history
    <3> QED  BY <1>1, <3>1
  <2> QED  BY <1>5, <2>1, <2>2, <2>3, <2>4 DEF OpStep
<1>6. CASE EnableDatabase \/ CrashServer \/ CrashOperator
  BY <1>1, <1>6 DEF EnableDatabase, CrashServer, CrashOperator, history
<1> QED  BY <1>2, <1>3, <1>4, <1>5, <1>6 DEF Next

\* A command at work has a phase.
LEMMA OpAtWork ==
  ASSUME IInv, SerialInv, [Next]_vars
  PROVE  op' = Idle \/ op'.phase # "idle"
<1>1. CASE op' = op
  BY <1>1 DEF SerialInv
<1>2. CASE \E cmd, prefix, days, sessions :
             \E phase \in {"load", "tamper"} : Start(cmd, phase, prefix, days, sessions)
  <2>1. PICK cmd, prefix, days, sessions :
             \E phase \in {"load", "tamper"} : Start(cmd, phase, prefix, days, sessions)
    BY <1>2
  <2>2. \E phase \in {"load", "tamper"} :
          op' = [Idle EXCEPT !.cmd = cmd, !.phase = phase, !.prefix = prefix, !.todo = days,
                             !.left = sessions]
    BY <2>1 DEF Start
  <2> QED  BY <2>2 DEF Idle
<1>3. CASE OpStep
  <2>1. op \in AnyOp
    BY OpParts
  <2>2. CASE OpLoad
    BY <2>1, <2>2 DEF OpLoad, AnyOp, TamperPhases
  <2>3. CASE OpRead
    <3>1. op.phase = "read" /\ (op' = Idle \/ \E l, f : op' = [op EXCEPT !.left = l, !.found = f])
      BY <2>3 DEF OpRead
    <3> QED  BY <2>1, <3>1 DEF AnyOp, TamperPhases
  <2>4. CASE OpReadDone
    <3>1. op.cmd \in {"day", "all", "import"}
      BY <2>4, OpParts DEF OpReadDone, TamperPhases
    <3>2. \/ op' = Idle
          \/ op' = [op EXCEPT !.phase = "import"] \/ op' = [op EXCEPT !.phase = "anchors"]
          \/ op' = [op EXCEPT !.cmd = "day", !.phase = "load", !.todo = {DayOf[x[2]] : x \in Found}]
      BY <2>4, <3>1 DEF OpReadDone
    <3> QED  BY <2>1, <3>2 DEF AnyOp, TamperPhases
  <2>5. CASE OpOpenAnchors
    BY <2>1, <2>5 DEF OpOpenAnchors, AnyOp, TamperPhases
  <2>6. CASE OpFillAnchors \/ OpOpenIndex
    BY <2>1, <2>6 DEF OpFillAnchors, OpOpenIndex, AnyOp, TamperPhases
  <2>7. CASE OpFillIndex
    BY <2>1, <2>7 DEF OpFillIndex, AnyOp, TamperPhases
  <2>8. CASE ImportReceipts \/ ImportAnchors
    BY <2>1, <2>8 DEF ImportReceipts, ImportAnchors, AnyOp, TamperPhases
  <2>9. CASE TamperRead \/ TamperOpen \/ TamperFill
    BY <2>1, <2>9 DEF TamperRead, TamperOpen, TamperFill, AnyOp, TamperPhases
  <2> QED  BY <1>3, <2>2, <2>3, <2>4, <2>5, <2>6, <2>7, <2>8, <2>9 DEF OpStep
<1>4. CASE UNCHANGED vars
  BY <1>1, <1>4 DEF vars
<1>5. CASE \E r \in Requests : (\E s \in Sessions, p \in Payloads : Begin(r, s, p)) \/ RequestStep(r)
  BY <1>1, <1>5 DEF Begin, RequestStep, Persist, PersistFails, OpenReceipt, FillReceipt, LoadIndex,
     OpenIndex, FillIndex
<1>6. CASE \/ StartImport \/ \E s \in Sessions : StartTamper(s)
           \/ \E prefix \in Prefixes : \/ \E day \in Days : StartAnchorDay(day, prefix)
                                       \/ StartAnchorAllDays(prefix)
  BY <1>2, <1>6 DEF StartImport, StartTamper, StartAnchorDay, StartAnchorAllDays
<1>7. CASE EnableDatabase \/ CrashServer \/ CrashOperator
  BY <1>1, <1>7 DEF EnableDatabase, CrashServer, CrashOperator
<1> QED  BY <1>3, <1>4, <1>5, <1>6, <1>7 DEF Next

\* Every step keeps the serial invariant.
LEMMA NextSerial ==
  ASSUME IInv, RootsSorted, SerialInv, IInv', RootsSorted', [Next]_vars
  PROVE  SerialInv'
<1>1. CASE disturbed'
  BY <1>1, DisturbedStays, OpAtWork DEF SerialInv
<1>2. CASE ~disturbed'
  <2>1. ~disturbed
    BY <1>2, DisturbedStays
  <2>2. CASE UNCHANGED vars
    BY <2>2 DEF vars, store, history, SerialInv, Alone, StoresOK, Whole
  <2>3. CASE \E r \in Requests : (\E s \in Sessions, p \in Payloads : Begin(r, s, p)) \/ RequestStep(r)
    BY <2>1, <2>3, BeginSerial, RequestStepSerial
  <2>4. CASE \/ StartImport \/ \E s \in Sessions : StartTamper(s)
             \/ \E prefix \in Prefixes : \/ \E day \in Days : StartAnchorDay(day, prefix)
                                         \/ StartAnchorAllDays(prefix)
    BY <2>4, StartSerial DEF StartImport, StartTamper, StartAnchorDay, StartAnchorAllDays
  <2>5. CASE OpStep
    BY <2>1, <2>5, OpStepSerial
  <2>6. CASE EnableDatabase
    BY <2>1, <2>6, EnableSerial
  <2>7. CASE CrashServer \/ CrashOperator
    BY <1>2, <2>7 DEF CrashServer, CrashOperator
  <2> QED  BY <2>2, <2>3, <2>4, <2>5, <2>6, <2>7 DEF Next
<1> QED  BY <1>1, <1>2

-----------------------------------------------------------------------------
(***************************************************************************)
(* The theorems.                                                           *)
(***************************************************************************)
\* Every reachable state satisfies the invariant.
THEOREM SerialInvariance == Spec => [](IInv /\ RootsSorted /\ SerialInv)
<1>1. Init => IInv /\ RootsSorted /\ SerialInv
  BY InitIInv, RootsSortedInit, InitSerial
<1>2. IInv /\ RootsSorted /\ SerialInv /\ [Next]_vars => (IInv /\ RootsSorted /\ SerialInv)'
  BY NextIInv, RootsSortedNext, NextSerial
<1> QED  BY <1>1, <1>2, PTL DEF Spec

\* While nobody is at work.
LEMMA SettledFacts ==
  ASSUME IInv, SerialInv, Settled
  PROVE  /\ \A t \in Sessions : UpToDate(mode, files, accepted, t)
         /\ index \notin Unreadable /\ AllAgree(files, index) /\ LeafMarks(index)
         /\ index \in AnyIndex /\ DOMAIN index \in SUBSET Sessions
         /\ batches \notin Unreadable /\ batches = sealed
<1>1. /\ \A t \in Sessions : UpToDate(mode, files, accepted, t)
      /\ index \notin Unreadable /\ AllAgree(files, index) /\ LeafMarks(index)
      /\ batches \notin Unreadable
  BY NobodyBusy DEF Settled
<1>2. index \in AnyIndex /\ batches = sealed
  BY <1>1 DEF IInv, Shape, ReadableAnchorsComplete
<1> QED  BY <1>1, <1>2, IndexParts

\* As long as callers take turns and none is killed, receipt files, index and
\* the accepted requests agree after every call.
THEOREM StoresAgree == Spec => []SerialStoresAgree
<1>1. ASSUME IInv, SerialInv PROVE SerialStoresAgree
  <2> SUFFICES ASSUME Settled
               PROVE  /\ {index, batches} \cap Unreadable = {}
                      /\ DOMAIN index = {s \in Sessions : files[s] # Absent}
                      /\ \A s \in DOMAIN index : files[s].payload = index[s].payload
                      /\ mode # "database" =>
                           \A s \in Sessions : Accepted(s) # {} =>
                             files[s] # Absent /\ files[s].payload = LatestAccepted(s)
    BY DEF SerialStoresAgree
  <2>1. /\ \A t \in Sessions : UpToDate(mode, files, accepted, t)
        /\ index \notin Unreadable /\ batches \notin Unreadable
        /\ AllAgree(files, index) /\ DOMAIN index \in SUBSET Sessions
    BY <1>1, SettledFacts
  <2>2. {index, batches} \cap Unreadable = {}
    BY <2>1
  <2>3. DOMAIN index = {s \in Sessions : files[s] # Absent}
    BY <2>1 DEF AllAgree, Agrees
  <2>4. \A s \in DOMAIN index : files[s].payload = index[s].payload
    BY <2>1 DEF AllAgree, Agrees
  <2>5. ASSUME mode # "database", NEW s \in Sessions, Accepted(s) # {}
        PROVE  files[s] # Absent /\ files[s].payload = LatestAccepted(s)
    <3>1. Accepted(s) = AcceptedAt(accepted, s) /\ LatestAccepted(s) = Latest(accepted, s)
      BY LatestIsLatest
    <3> QED  BY <2>1, <2>5, <3>1 DEF UpToDate
  <2> QED  BY <2>2, <2>3, <2>4, <2>5
<1> QED  BY <1>1, SerialInvariance, PTL

\* Only the import itself leaves its phase that way.
LEMMA ImportStepOnly ==
  ASSUME [Next]_vars, op \in AnyOp, op.phase = "import", op'.phase = "import_anchors"
  PROVE  ImportReceipts
<1>1. op' # op /\ op' # Idle /\ op # Idle
  BY IdleFacts
<1>2. CASE UNCHANGED vars
  BY <1>1, <1>2 DEF vars
<1>3. CASE \E r \in Requests : (\E s \in Sessions, p \in Payloads : Begin(r, s, p)) \/ RequestStep(r)
  BY <1>1, <1>3 DEF Begin, RequestStep, Persist, PersistFails, OpenReceipt, FillReceipt, LoadIndex,
     OpenIndex, FillIndex
<1>4. CASE \/ StartImport \/ \E s \in Sessions : StartTamper(s)
           \/ \E prefix \in Prefixes : \/ \E day \in Days : StartAnchorDay(day, prefix)
                                       \/ StartAnchorAllDays(prefix)
  BY <1>1, <1>4 DEF StartImport, StartTamper, StartAnchorDay, StartAnchorAllDays, Start
<1>5. CASE OpStep
  BY <1>1, <1>5 DEF OpStep, OpLoad, OpRead, OpReadDone, OpOpenAnchors, OpFillAnchors, OpOpenIndex,
     OpFillIndex, ImportAnchors, TamperRead, TamperOpen, TamperFill
<1>6. CASE EnableDatabase \/ CrashServer \/ CrashOperator
  BY <1>1, <1>6 DEF EnableDatabase, CrashServer, CrashOperator
<1> QED  BY <1>2, <1>3, <1>4, <1>5, <1>6 DEF Next

\* An import never puts an older receipt over a newer one while
\* finalize_session writes both stores.
THEOREM ImportIsCurrent == Spec => ImportKeepsLatest
<1>1. ASSUME IInv, SerialInv, [Next]_vars, op.phase = "import", op'.phase = "import_anchors",
             ~disturbed, mode # "database", NEW s \in DOMAIN index
      PROVE  rows'[s].payload = LatestAccepted(s)
  <2>1. ImportReceipts
    BY <1>1, ImportStepOnly, OpParts
  <2>2. /\ OpOK(files, index, op) /\ index \notin Unreadable /\ AllAgree(files, index)
        /\ \A t \in Sessions : UpToDate(mode, files, accepted, t)
    BY <1>1, OpAlone
  <2>3. /\ op.index = index /\ op.left = {} /\ op.found = Selected(files, op)
        /\ op.cmd = "import" /\ op.prefix = NoPrefix
    BY <1>1, <2>2 DEF OpOK, AfterRead
  <2>4. index \in AnyIndex /\ DOMAIN index \in SUBSET Sessions
    BY <1>1, <2>2, IndexParts DEF IInv, Shape
  <2>5. op.found = {<<t, files[t]>> : t \in DOMAIN index}
    <3>1. Choice(op) = DOMAIN index
      BY <2>3, <2>4, FileConstants DEF Choice
    <3> QED  BY <2>3, <3>1 DEF Selected
  <2>6. s \in Sessions /\ <<s, files[s]>> \in op.found
    BY <2>4, <2>5, <1>1
  <2>7. \A x \in op.found : x[1] = s => x = <<s, files[s]>>
    BY <2>5
  <2>8. (CHOOSE x \in op.found : x[1] = s) = <<s, files[s]>>
    BY <2>6, <2>7
  <2>9. rows'[s] = files[s]
    BY <2>1, <2>6, <2>8 DEF ImportReceipts
  <2>10. files[s] \in Content
    BY <1>1, <2>2, <2>6, AgreedContent DEF AllAgree
  <2>11. AcceptedAt(accepted, s) # {}
    <3>1. PICK i \in DOMAIN accepted : accepted[i] = <<s, files[s].payload>>
      BY <1>1, <2>6, <2>10 DEF IInv, LocalReceiptWasAccepted
    <3> QED  BY <3>1 DEF AcceptedAt
  <2>12. LatestAccepted(s) = Latest(accepted, s)
    BY LatestIsLatest
  <2> QED  BY <1>1, <2>2, <2>6, <2>9, <2>11, <2>12 DEF UpToDate
<1>2. IInv /\ RootsSorted /\ SerialInv /\ [Next]_vars =>
        [(op.phase = "import" /\ op'.phase = "import_anchors" /\ ~disturbed /\ mode # "database") =>
           \A s \in DOMAIN index : rows'[s].payload = LatestAccepted(s)]_vars
  BY <1>1
<1> QED  BY <1>2, SerialInvariance, PTL DEF Spec, ImportKeepsLatest

\* The receipts of a day are finitely many, one per session.
LEMMA DayReceiptsFacts ==
  ASSUME IInv, AllAgree(files, index), DOMAIN index \in SUBSET Sessions, NEW day, NEW prefix
  PROVE  /\ DayReceipts(day, prefix) \in SUBSET Receipts
         /\ IsFiniteSet(DayReceipts(day, prefix))
         /\ \A x \in DayReceipts(day, prefix) :
              /\ x[1] \in DOMAIN index /\ files[x[1]] \in Content
              /\ x = <<x[1], files[x[1]].payload>> /\ index[x[1]].payload = x[2]
<1> DEFINE T == {t \in DOMAIN index \cap Scope[prefix] :
                   files[t] # Absent /\ DayOf[files[t].payload] = day}
           f == [s \in T |-> <<s, files[s].payload>>]
<1>1. T \in SUBSET {s \in Sessions : files[s] \in Content}
  BY AgreedContent DEF AllAgree
<1>2. IsFiniteSet(T)
  BY <1>1, FilesFinite, FS_Subset
<1>3. DayReceipts(day, prefix) = {f[s] : s \in T}
  BY DEF DayReceipts
<1>4. \A s \in T : f[s] \in Receipts
  BY <1>1 DEF Content, Receipts
<1>5. \A s \in T : f[s] = <<s, files[s].payload>> /\ s \in DOMAIN index
  OBVIOUS
<1>6. \A s \in T : files[s].payload = index[s].payload
  BY <1>5 DEF AllAgree, Agrees
<1>7. DOMAIN f = T
  OBVIOUS
<1> HIDE DEF f, T
<1>8. IsFiniteSet({f[s] : s \in T})
  BY <1>2, <1>7, CardinalityOfImage
<1>9. \A x \in DayReceipts(day, prefix) :
              /\ x[1] \in DOMAIN index /\ files[x[1]] \in Content
              /\ x = <<x[1], files[x[1]].payload>> /\ index[x[1]].payload = x[2]
  <2> SUFFICES ASSUME NEW x \in DayReceipts(day, prefix)
               PROVE  /\ x[1] \in DOMAIN index /\ files[x[1]] \in Content
                      /\ x = <<x[1], files[x[1]].payload>> /\ index[x[1]].payload = x[2]
    OBVIOUS
  <2>1. PICK s \in T : x = f[s]
    BY <1>3
  <2>2. x[1] = s /\ x[2] = files[s].payload
    BY <1>5, <2>1
  <2> QED  BY <1>1, <1>5, <1>6, <2>1, <2>2
<1> QED  BY <1>3, <1>4, <1>8, <1>9

\* The newest batch is a saved one, with the root of finitely many receipts.
LEMMA NewestFacts ==
  ASSUME RootsSorted, batches = sealed, NEW day, NEW prefix, NEW b \in NewestBatch(day, prefix)
  PROVE  \E F \in SUBSET Receipts : IsFiniteSet(F) /\ b.root = BatchRoot(F)
<1>1. PICK i \in DOMAIN batches : b = batches[i]
  BY DEF NewestBatch, BatchesOf
<1> QED  BY <1>1 DEF RootsSorted

\* When all receipts of a day carry the root of its newest batch and are as
\* many as it counted, verify_day matches.
THEOREM MarkedDays == Spec => []MarkedDayVerifies
<1>1. ASSUME IInv, RootsSorted, SerialInv PROVE MarkedDayVerifies
  <2> SUFFICES ASSUME Settled, NEW day \in Days, NEW prefix \in Prefixes,
                      NEW b \in NewestBatch(day, prefix),
                      DayReceipts(day, prefix) # {},
                      Cardinality(DayReceipts(day, prefix)) = Len(b.root),
                      \A x \in DayReceipts(day, prefix) : index[x[1]].root = b.root
               PROVE  VerifyDay(day, prefix)
    BY DEF MarkedDayVerifies
  <2> DEFINE now == DayReceipts(day, prefix)
  <2>1. /\ AllAgree(files, index) /\ LeafMarks(index) /\ DOMAIN index \in SUBSET Sessions
        /\ batches = sealed
    BY <1>1, SettledFacts
  <2>2. /\ now \in SUBSET Receipts /\ IsFiniteSet(now)
        /\ \A x \in now : /\ x[1] \in DOMAIN index
                          /\ x = <<x[1], files[x[1]].payload>> /\ index[x[1]].payload = x[2]
    BY <1>1, <2>1, DayReceiptsFacts
  <2>3. PICK F \in SUBSET Receipts : IsFiniteSet(F) /\ b.root = BatchRoot(F)
    BY <1>1, <2>1, NewestFacts
  <2>4. Cardinality(F) = Cardinality(now)
    BY <2>3, BatchRootFacts
  <2>5. b.root # NoRoot
    <3>1. Cardinality(now) # 0
      BY <2>2, FS_EmptySet
    <3> QED  BY <3>1 DEF NoRoot
  <2>6. now \in SUBSET F
    <3> SUFFICES ASSUME NEW x \in now PROVE x \in F
      OBVIOUS
    <3>1. /\ x[1] \in DOMAIN index /\ index[x[1]].root = b.root
          /\ x = <<x[1], index[x[1]].payload>>
      BY <2>2
    <3>2. PICK G \in SUBSET Receipts : /\ IsFiniteSet(G) /\ index[x[1]].root = BatchRoot(G)
                                       /\ <<x[1], index[x[1]].payload>> \in G
      BY <2>1, <2>5, <3>1 DEF LeafMarks, Receipts
    <3>3. F = G
      BY <2>3, <3>1, <3>2, RootOfOneBatch
    <3> QED  BY <3>1, <3>2, <3>3
  <2>7. now = F
    BY <2>3, <2>4, <2>6, FS_Subset
  <2> QED  BY <2>3, <2>7 DEF VerifyDay
<1> QED  BY <1>1, SerialInvariance, PTL

\* The receipts of a day in the order of the sessions.
BySession == {e \in Receipts \X Receipts : e[1][1] < e[2][1]}

\* The order of sessions is total.
LEMMA SessionOrder ==
  ASSUME NEW now \in SUBSET Receipts, \A x, y \in now : x[1] = y[1] => x = y
  PROVE  /\ TotalOrder(now, BySession)
         /\ \A x, y \in now : <<x, y>> \in BySession <=> x[1] < y[1]
         /\ \A y \in now : Below(now, BySession, y) = {z \in now : z[1] < y[1]}
<1>1. \A x \in now : x[1] \in Nat
  BY FileConstants DEF Receipts
<1>2. \A x, y \in now : <<x, y>> \in BySession <=> x[1] < y[1]
  BY DEF BySession
<1>3. TotalOrder(now, BySession)
  <2>1. \A x \in now : ~(<<x, x>> \in BySession)
    BY <1>1, <1>2
  <2>2. \A x, y, z \in now : x[1] < y[1] /\ y[1] < z[1] => x[1] < z[1]
    BY <1>1
  <2>3. \A x, y \in now : x = y \/ x[1] < y[1] \/ y[1] < x[1]
    BY <1>1
  <2> QED  BY <1>2, <2>1, <2>2, <2>3 DEF TotalOrder
<1>4. \A y \in now : Below(now, BySession, y) = {z \in now : z[1] < y[1]}
  BY <1>2 DEF Below
<1> QED  BY <1>2, <1>3, <1>4

\* The hashes that audit_day puts into its root, one by one.
LEMMA AuditRootFacts ==
  ASSUME NEW day, NEW now, now = DayReceipts(day, NoPrefix), now \in SUBSET Receipts, IsFiniteSet(now),
         \A x, y \in now : x[1] = y[1] => x = y
  PROVE  /\ DOMAIN AuditRoot(day) = 1..Cardinality(now)
         /\ \A i \in 1..Cardinality(now) :
              LET x == Ranked(now, BySession)[i]
              IN  AuditRoot(day)[i] = <<HashOf[x], files[x[1]].altered>>
<1> DEFINE n == Cardinality(now)
           c(i) == CHOOSE y \in now : Cardinality({z \in now : z[1] < y[1]}) = i - 1
           d(i) == CHOOSE y \in now : Cardinality(Below(now, BySession, y)) = i - 1
<1>1. \A i : c(i) = d(i)
  BY SessionOrder
<1>2. Ranked(now, BySession) = [i \in 1..n |-> d(i)]
  BY DEF Ranked
<1>3. AuditRoot(day) = [i \in 1..n |-> <<HashOf[c(i)], files[c(i)[1]].altered>>]
  BY DEF AuditRoot
<1> HIDE DEF c, d, n
<1>4. \A i \in 1..n : Ranked(now, BySession)[i] = c(i)
  BY <1>1, <1>2
<1> QED  BY <1>3, <1>4 DEF n

\* A set of hashes in the order of the sessions is the root of build_batch_root
\* only when the hashes have that order too.
LEMMA InHashOrder ==
  ASSUME NEW now \in SUBSET Receipts, IsFiniteSet(now), \A x, y \in now : x[1] = y[1] => x = y
  PROVE  (\A i, j \in 1..Cardinality(now) : i < j =>
            HashOf[Ranked(now, BySession)[i]] < HashOf[Ranked(now, BySession)[j]])
         <=> (\A x, y \in now : x[1] < y[1] => HashOf[x] < HashOf[y])
<1> DEFINE n == Cardinality(now)
           x(i) == Ranked(now, BySession)[i]
<1>1. /\ TotalOrder(now, BySession)
      /\ \A a, b \in now : <<a, b>> \in BySession <=> a[1] < b[1]
  BY SessionOrder
<1>2. /\ \A i \in 1..n : x(i) \in now
      /\ \A i, j \in 1..n : i < j => <<x(i), x(j)>> \in BySession
      /\ \A a \in now : \E i \in 1..n : x(i) = a
  <2>1. /\ Ranked(now, BySession) \in [1..n -> now]
        /\ \A i, j \in 1..n : i < j => <<x(i), x(j)>> \in BySession
    BY <1>1, RankedFacts
  <2>2. \A a \in now : Position(now, BySession, a) \in 1..n
                       /\ x(Position(now, BySession, a)) = a
    BY <1>1, RankedFacts
  <2> QED  BY <2>1, <2>2
<1>3. n \in Nat
  BY FS_CardinalityType
<1>4. \A a \in now : a[1] \in Nat
  BY FileConstants DEF Receipts
<1> HIDE DEF x, n
<1>5. ASSUME \A i, j \in 1..n : i < j => HashOf[x(i)] < HashOf[x(j)],
             NEW a \in now, NEW b \in now, a[1] < b[1]
      PROVE  HashOf[a] < HashOf[b]
  <2>1. PICK i \in 1..n : x(i) = a
    BY <1>2
  <2>2. PICK j \in 1..n : x(j) = b
    BY <1>2
  <2>3. ~(j < i)
    <3>1. j < i => b[1] < a[1]
      BY <1>1, <1>2, <2>1, <2>2
    <3> QED  BY <1>4, <1>5, <3>1
  <2>4. i # j
    <3>1. i = j => a = b
      BY <2>1, <2>2
    <3> QED  BY <1>4, <1>5, <3>1
  <2> QED  BY <1>3, <1>5, <2>1, <2>2, <2>3, <2>4
<1>6. ASSUME \A a, b \in now : a[1] < b[1] => HashOf[a] < HashOf[b],
             NEW i \in 1..n, NEW j \in 1..n, i < j
      PROVE  HashOf[x(i)] < HashOf[x(j)]
  BY <1>1, <1>2, <1>6
<1> QED  BY <1>5, <1>6 DEF n, x

\* When they have it, that is the root.
LEMMA HashOrderRoot ==
  ASSUME NEW now \in SUBSET Receipts, IsFiniteSet(now), \A x, y \in now : x[1] = y[1] => x = y,
         \A i, j \in 1..Cardinality(now) : i < j =>
            HashOf[Ranked(now, BySession)[i]] < HashOf[Ranked(now, BySession)[j]]
  PROVE  BatchRoot(now) = [i \in 1..Cardinality(now) |-> HashOf[Ranked(now, BySession)[i]]]
<1> DEFINE n == Cardinality(now)
           f == [i \in 1..n |-> HashOf[Ranked(now, BySession)[i]]]
<1>1. \A i \in 1..n : Ranked(now, BySession)[i] \in now
  <2>1. TotalOrder(now, BySession)
    BY SessionOrder
  <2>2. Ranked(now, BySession) \in [1..Cardinality(now) -> now]
    BY <2>1, RankedFacts
  <2> QED  BY <2>2
<1>2. Hashes(now) \in SUBSET Nat /\ IsFiniteSet(Hashes(now)) /\ Cardinality(Hashes(now)) = n
  BY HashesFacts
<1>3. f \in [1..n -> Hashes(now)]
  BY <1>1 DEF Hashes
<1>4. \A i, j \in 1..n : i < j => f[i] < f[j]
  OBVIOUS
<1> HIDE DEF f, n
<1>5. f = Sorted(Hashes(now))
  BY <1>2, <1>3, <1>4, SortedOnce
<1> QED  BY <1>5 DEF f, n, BatchRoot

\* For a day with one batch over all sessions the two audits agree exactly
\* when no file was altered and the sessions have the order of the hashes.
THEOREM AuditOrder == Spec => []AuditDayNeedsHashOrder
<1>1. ASSUME IInv, RootsSorted, SerialInv PROVE AuditDayNeedsHashOrder
  <2> SUFFICES ASSUME Settled, NEW day \in Days,
                      Cardinality(BatchesOf(day, Prefixes)) = 1,
                      NewestBatch(day, NoPrefix) # {}
               PROVE  LET now == DayReceipts(day, NoPrefix)
                      IN  AuditDay(day) <=>
                            /\ VerifyDay(day, NoPrefix)
                            /\ \A x \in now : ~files[x[1]].altered
                            /\ \A x, y \in now : x[1] < y[1] => HashOf[x] < HashOf[y]
    BY DEF AuditDayNeedsHashOrder
  <2> DEFINE now == DayReceipts(day, NoPrefix)
             n == Cardinality(now)
             x(i) == Ranked(now, BySession)[i]
  <2>1. /\ AllAgree(files, index) /\ DOMAIN index \in SUBSET Sessions
        /\ batches = sealed /\ sealed \in Seq(AnyBatch)
    BY <1>1, SettledFacts DEF IInv, Shape
  <2>2. /\ now \in SUBSET Receipts /\ IsFiniteSet(now)
        /\ \A y \in now : files[y[1]] \in Content /\ y = <<y[1], files[y[1]].payload>>
    BY <1>1, <2>1, DayReceiptsFacts
  <2>3. PICK b : NewestBatch(day, NoPrefix) = {b} /\ FirstBatch(day) = {b}
    <3>1. BatchesOf(day, Prefixes) \in SUBSET (1..Len(batches)) /\ Len(batches) \in Nat
      BY <2>1 DEF BatchesOf
    <3>2. IsFiniteSet(1..Len(batches))
      BY <3>1, FS_Interval
    <3>3. IsFiniteSet(BatchesOf(day, Prefixes))
      BY <3>1, <3>2, FS_Subset
    <3>4. PICK i : BatchesOf(day, Prefixes) = {i}
      BY <3>3, FS_Singleton
    <3>5. BatchesOf(day, {NoPrefix}) \in SUBSET BatchesOf(day, Prefixes)
      BY FileConstants DEF BatchesOf
    <3>6. BatchesOf(day, {NoPrefix}) # {}
      BY DEF NewestBatch
    <3>7. BatchesOf(day, {NoPrefix}) = {i}
      BY <3>4, <3>5, <3>6
    <3>8. i \in Nat
      BY <3>1, <3>4
    <3>9. NewestBatch(day, NoPrefix) = {batches[i]}
      BY <3>7, <3>8 DEF NewestBatch
    <3>10. FirstBatch(day) = {batches[i]}
      BY <3>4, <3>8 DEF FirstBatch
    <3> QED  BY <3>9, <3>10
  <2>4. PICK F \in SUBSET Receipts : IsFiniteSet(F) /\ b.root = BatchRoot(F)
    BY <1>1, <2>1, <2>3, NewestFacts
  <2>5. \A y, z \in now : y[1] = z[1] => y = z
    BY <2>2
  <2>6. /\ n \in Nat /\ \A i \in 1..n : x(i) \in now
        /\ \A y \in now : \E i \in 1..n : x(i) = y
    BY <2>2, <2>5, SessionOrder, RankedFacts, FS_CardinalityType
  <2>7. /\ DOMAIN AuditRoot(day) = 1..n
        /\ \A i \in 1..n : AuditRoot(day)[i] = <<HashOf[x(i)], files[x(i)[1]].altered>>
    BY <2>2, <2>5, AuditRootFacts
  <2>8. (\A i, j \in 1..n : i < j => HashOf[x(i)] < HashOf[x(j)])
          <=> (\A y, z \in now : y[1] < z[1] => HashOf[y] < HashOf[z])
    BY <2>2, <2>5, InHashOrder
  <2>9. (\A i, j \in 1..n : i < j => HashOf[x(i)] < HashOf[x(j)])
          => BatchRoot(now) = [i \in 1..n |-> HashOf[x(i)]]
    BY <2>2, <2>5, HashOrderRoot
  <2>10. AuditDay(day) <=>
           now # {} /\ AuditRoot(day) = [i \in DOMAIN b.root |-> <<b.root[i], FALSE>>]
    BY <2>3 DEF AuditDay
  <2>11. VerifyDay(day, NoPrefix) <=> now # {} /\ BatchRoot(now) = b.root
    BY <2>3 DEF VerifyDay
  <2>12. /\ DOMAIN b.root = 1..Cardinality(F)
         /\ \A i, j \in DOMAIN b.root : i < j => b.root[i] < b.root[j]
         /\ b.root \in Seq(Nat)
    BY <2>4, BatchRootFacts
  <2>13. \A y \in now : files[y[1]].altered \in BOOLEAN
    BY <2>2 DEF Content
  <2> HIDE DEF x, n, now
  <2>14. ASSUME now # {}, AuditRoot(day) = [i \in DOMAIN b.root |-> <<b.root[i], FALSE>>]
         PROVE  /\ BatchRoot(now) = b.root
                /\ \A y \in now : ~files[y[1]].altered
                /\ \A y, z \in now : y[1] < z[1] => HashOf[y] < HashOf[z]
    <3>1. DOMAIN b.root = 1..n
      BY <2>7, <2>14
    <3>2. \A i \in 1..n : HashOf[x(i)] = b.root[i] /\ files[x(i)[1]].altered = FALSE
      <4>1. \A i \in 1..n : AuditRoot(day)[i] = <<b.root[i], FALSE>>
        BY <2>14, <3>1
      <4>2. ASSUME NEW i \in 1..n
            PROVE  HashOf[x(i)] = b.root[i] /\ files[x(i)[1]].altered = FALSE
        <5>1. <<HashOf[x(i)], files[x(i)[1]].altered>> = <<b.root[i], FALSE>>
          BY <2>7, <4>1
        <5> QED  BY <5>1
      <4> QED  BY <4>2
    <3>3. \A i, j \in 1..n : i < j => HashOf[x(i)] < HashOf[x(j)]
      BY <2>12, <3>1, <3>2
    <3>4. b.root = [i \in 1..n |-> b.root[i]]
      <4>1. b.root \in [1..Len(b.root) -> Nat]
        BY <2>12
      <4>2. b.root = [i \in DOMAIN b.root |-> b.root[i]]
        BY <4>1
      <4> QED  BY <3>1, <4>2
    <3>5. b.root = [i \in 1..n |-> HashOf[x(i)]]
      BY <3>2, <3>4
    <3>6. \A y \in now : ~files[y[1]].altered
      BY <2>6, <3>2
    <3> QED  BY <2>8, <2>9, <3>3, <3>5, <3>6
  <2>15. ASSUME BatchRoot(now) = b.root, \A y \in now : ~files[y[1]].altered,
                \A y, z \in now : y[1] < z[1] => HashOf[y] < HashOf[z]
         PROVE  AuditRoot(day) = [i \in DOMAIN b.root |-> <<b.root[i], FALSE>>]
    <3>1. b.root = [i \in 1..n |-> HashOf[x(i)]]
      BY <2>8, <2>9, <2>15
    <3>2. DOMAIN b.root = 1..n /\ \A i \in 1..n : b.root[i] = HashOf[x(i)]
      BY <3>1
    <3>3. \A i \in 1..n : files[x(i)[1]].altered = FALSE
      BY <2>6, <2>13, <2>15
    <3>4. \A i \in 1..n : AuditRoot(day)[i] = <<b.root[i], FALSE>>
      BY <2>7, <3>2, <3>3
    <3>5. AuditRoot(day) = [i \in 1..n |-> AuditRoot(day)[i]]
      BY <2>7 DEF AuditRoot
    <3> QED  BY <3>2, <3>4, <3>5
  <2> QED  BY <2>10, <2>11, <2>14, <2>15 DEF now
<1> QED  BY <1>1, SerialInvariance, PTL

-----------------------------------------------------------------------------
(***************************************************************************)
(* Imported anchors.  A second invariant relates them to the batches that  *)
(* were saved, and those to the files.                                     *)
(***************************************************************************)
\* Some session of batch b was finalized after the first n finalizations.
Later(acc, n, b) == \E j \in DOMAIN acc : j > n /\ acc[j][1] \in b.ids

FilePairs(fs, ids) == {<<s, fs[s].payload>> : s \in ids}

\* Otherwise the batch, saved after so many, is what the files still say.
BatchOK(fs, acc, n, b) ==
    /\ IsFiniteSet(b.ids) /\ n \in Nat /\ n <= Len(acc)
    /\ ~Later(acc, n, b) => /\ \A s \in b.ids : fs[s] \in Content
                            /\ b.root = BatchRoot(FilePairs(fs, b.ids))

\* So are the memberships and the count of an anchor.
AnchorOK(fs, acc, sl, at, a) ==
    /\ \E i \in DOMAIN sl : SameRow(sl[i], a)
    /\ (\A i \in DOMAIN sl : SameRow(sl[i], a) => ~Later(acc, at[i], sl[i])) =>
         \A i \in DOMAIN sl : SameRow(sl[i], a) =>
           a.members = FilePairs(fs, sl[i].ids) /\ a.count = Cardinality(a.members)

ImportInv ==
    ~disturbed =>
      /\ sealedAt \in Seq(Nat) /\ Len(sealedAt) = Len(sealed)
      /\ \A i \in DOMAIN sealed : BatchOK(Whole, accepted, sealedAt[i], sealed[i])
      /\ \A r \in Requests, i \in DOMAIN sealed :
           request[r].phase \in WritingPhases /\ request[r].session \in sealed[i].ids =>
             Later(accepted, sealedAt[i], sealed[i])
      /\ \A a \in anchors : AnchorOK(Whole, accepted, sealed, sealedAt, a)

\* A finalization that is later stays so.
AcceptedStays ==
    /\ \A n \in Nat : n <= Len(accepted) => n <= Len(accepted')
    /\ \A n, b : Later(accepted, n, b) => Later(accepted', n, b)

\* The files that a batch is about.
LEMMA FilePairsFacts ==
  ASSUME NEW fs, NEW ids \in SUBSET Sessions, IsFiniteSet(ids), \A s \in ids : fs[s] \in Content
  PROVE  /\ FilePairs(fs, ids) \in SUBSET Receipts /\ IsFiniteSet(FilePairs(fs, ids))
         /\ \A s : s \in ids <=> \E x \in FilePairs(fs, ids) : x[1] = s
<1> DEFINE f == [s \in ids |-> <<s, fs[s].payload>>]
<1>1. FilePairs(fs, ids) = {f[s] : s \in ids} /\ DOMAIN f = ids
  BY DEF FilePairs
<1>2. \A s \in ids : f[s] \in Receipts
  BY DEF Content, Receipts
<1> HIDE DEF f
<1>3. FilePairs(fs, ids) \in SUBSET Receipts /\ IsFiniteSet(FilePairs(fs, ids))
  BY <1>1, <1>2, CardinalityOfImage
<1>4. \A s : s \in ids <=> \E x \in FilePairs(fs, ids) : x[1] = s
  <2>1. ASSUME NEW s \in ids PROVE \E x \in FilePairs(fs, ids) : x[1] = s
    <3>1. <<s, fs[s].payload>> \in FilePairs(fs, ids)
      BY DEF FilePairs
    <3> QED  BY <3>1
  <2>2. ASSUME NEW x \in FilePairs(fs, ids) PROVE x[1] \in ids
    BY DEF FilePairs
  <2> QED  BY <2>1, <2>2
<1> QED  BY <1>3, <1>4

\* Two batches under one root that the files still say are one.
LEMMA OneRowOneBatch ==
  ASSUME NEW fs, NEW acc, NEW n, NEW m, NEW b, NEW c,
         b.ids \in SUBSET Sessions, c.ids \in SUBSET Sessions,
         b.root = c.root, BatchOK(fs, acc, n, b), BatchOK(fs, acc, m, c),
         ~Later(acc, n, b), ~Later(acc, m, c)
  PROVE  FilePairs(fs, b.ids) = FilePairs(fs, c.ids)
<1>1. /\ \A s \in b.ids : fs[s] \in Content
      /\ \A s \in c.ids : fs[s] \in Content
      /\ IsFiniteSet(b.ids) /\ IsFiniteSet(c.ids)
      /\ BatchRoot(FilePairs(fs, b.ids)) = BatchRoot(FilePairs(fs, c.ids))
  BY DEF BatchOK
<1>2. /\ FilePairs(fs, b.ids) \in SUBSET Receipts /\ IsFiniteSet(FilePairs(fs, b.ids))
      /\ FilePairs(fs, c.ids) \in SUBSET Receipts /\ IsFiniteSet(FilePairs(fs, c.ids))
  BY <1>1, FilePairsFacts
<1> QED  BY <1>1, <1>2, RootOfOneBatch

\* The ids of a closed batch are sessions.
LEMMA SealedIds ==
  ASSUME IInv
  PROVE  \A i \in DOMAIN sealed : sealed[i].ids \in SUBSET Sessions
<1>1. sealed \in Seq(AnyBatch)
  BY DEF IInv, Shape
<1>2. \A i \in DOMAIN sealed : sealed[i] \in AnyBatch
  BY <1>1
<1> QED  BY <1>2 DEF AnyBatch

\* Steps that save and import nothing: a file changes only under a session
\* that was finalized again, or keeps what the batches are about.
LEMMA ImportFrame ==
  ASSUME ImportInv, ~disturbed, sealed' = sealed, sealedAt' = sealedAt, anchors' = anchors,
         AcceptedStays,
         \A i \in DOMAIN sealed : ~Later(accepted', sealedAt[i], sealed[i]) =>
           \A s \in sealed[i].ids : Whole[s] \in Content =>
             Whole'[s] \in Content /\ Whole'[s].payload = Whole[s].payload,
         \A r \in Requests, i \in DOMAIN sealed :
           request'[r].phase \in WritingPhases /\ request'[r].session \in sealed[i].ids =>
             Later(accepted', sealedAt[i], sealed[i])
  PROVE  ImportInv'
<1> DEFINE OK(i) == BatchOK(Whole, accepted, sealedAt[i], sealed[i])
           later(i) == Later(accepted, sealedAt[i], sealed[i])
           laterNow(i) == Later(accepted', sealedAt[i], sealed[i])
           pairs(i) == FilePairs(Whole, sealed[i].ids)
           pairsNow(i) == FilePairs(Whole', sealed[i].ids)
<1>1. /\ \A i \in DOMAIN sealed : OK(i)
      /\ \A a \in anchors : AnchorOK(Whole, accepted, sealed, sealedAt, a)
      /\ sealedAt \in Seq(Nat) /\ Len(sealedAt) = Len(sealed)
  BY DEF ImportInv
<1>2. ASSUME NEW i \in DOMAIN sealed, ~laterNow(i)
      PROVE  /\ \A s \in sealed[i].ids : Whole'[s] \in Content
             /\ pairsNow(i) = pairs(i)
             /\ sealed[i].root = BatchRoot(pairsNow(i))
  <2>1. /\ ~later(i) /\ \A s \in sealed[i].ids : Whole[s] \in Content
        /\ sealed[i].root = BatchRoot(pairs(i))
    BY <1>1, <1>2 DEF BatchOK, AcceptedStays
  <2>2. \A s \in sealed[i].ids : Whole'[s] \in Content /\ Whole'[s].payload = Whole[s].payload
    BY <1>2, <2>1
  <2>3. pairsNow(i) = pairs(i)
    BY <2>2 DEF FilePairs
  <2> QED  BY <2>1, <2>2, <2>3
<1>3. \A i \in DOMAIN sealed : BatchOK(Whole', accepted', sealedAt[i], sealed[i])
  BY <1>1, <1>2 DEF BatchOK, AcceptedStays
<1>4. \A a \in anchors : AnchorOK(Whole', accepted', sealed, sealedAt, a)
  <2> SUFFICES ASSUME NEW a \in anchors PROVE AnchorOK(Whole', accepted', sealed, sealedAt, a)
    OBVIOUS
  <2>1. AnchorOK(Whole, accepted, sealed, sealedAt, a)
    BY <1>1
  <2>2. \E i \in DOMAIN sealed : SameRow(sealed[i], a)
    BY <2>1 DEF AnchorOK
  <2>3. ASSUME \A i \in DOMAIN sealed : SameRow(sealed[i], a) => ~laterNow(i),
               NEW i \in DOMAIN sealed, SameRow(sealed[i], a)
        PROVE  a.members = pairsNow(i) /\ a.count = Cardinality(a.members)
    <3>1. \A k \in DOMAIN sealed : SameRow(sealed[k], a) => ~later(k)
      BY <2>3 DEF AcceptedStays
    <3>2. a.members = pairs(i) /\ a.count = Cardinality(a.members)
      BY <2>1, <2>3, <3>1 DEF AnchorOK
    <3>3. pairsNow(i) = pairs(i)
      BY <1>2, <2>3
    <3> QED  BY <3>2, <3>3
  <2> QED  BY <2>2, <2>3 DEF AnchorOK
<1> QED  BY <1>1, <1>3, <1>4 DEF ImportInv

\* A step that leaves files and batches alone, and begins no write, keeps the invariant.
LEMMA ImportQuiet ==
  ASSUME ImportInv, ~disturbed, UNCHANGED <<Whole, accepted, sealed, sealedAt, anchors>>,
         \A r \in Requests : request'[r].phase \in WritingPhases =>
           request[r].phase \in WritingPhases /\ request[r].session = request'[r].session
  PROVE  ImportInv'
<1>1. \A r \in Requests, i \in DOMAIN sealed :
        request[r].phase \in WritingPhases /\ request[r].session \in sealed[i].ids =>
          Later(accepted, sealedAt[i], sealed[i])
  BY DEF ImportInv
<1>2. AcceptedStays
  BY DEF AcceptedStays
<1> QED  BY <1>1, <1>2, ImportFrame

\* A finalization is later than every batch that was saved before it.
LEMMA AcceptedAgain ==
  ASSUME IInv, NEW s \in Sessions, NEW p \in Payloads, accepted' = Append(accepted, <<s, p>>)
  PROVE  /\ AcceptedStays
         /\ \A n \in Nat : \A b : s \in b.ids /\ n <= Len(accepted) => Later(accepted', n, b)
<1> DEFINE k == Len(accepted)
<1>1. accepted \in Seq(Sessions \X Payloads) /\ <<s, p>> \in Sessions \X Payloads
  BY DEF IInv, Shape
<1>2. /\ DOMAIN accepted' = DOMAIN accepted \cup {k + 1}
      /\ \A i \in DOMAIN accepted : accepted'[i] = accepted[i]
      /\ accepted'[k + 1] = <<s, p>>
  BY <1>1, AppendFacts
<1>3. k \in Nat /\ Len(accepted') = k + 1
  BY <1>1
<1> HIDE DEF k
<1>4. \A n \in Nat : n <= k => n <= Len(accepted') /\ k + 1 > n
  BY <1>3
<1>5. \A n, b : Later(accepted, n, b) => Later(accepted', n, b)
  BY <1>2 DEF Later
<1>6. \A n \in Nat : \A b : s \in b.ids /\ n <= k => Later(accepted', n, b)
  <2> SUFFICES ASSUME NEW n \in Nat, NEW b, s \in b.ids, n <= k PROVE Later(accepted', n, b)
    OBVIOUS
  <2>1. k + 1 \in DOMAIN accepted' /\ k + 1 > n /\ accepted'[k + 1][1] \in b.ids
    BY <1>2, <1>4
  <2> QED  BY <2>1 DEF Later
<1> QED  BY <1>4, <1>5, <1>6 DEF AcceptedStays, k

\* So it is later than every batch of its session.
LEMMA LaterThanAll ==
  ASSUME IInv, ImportInv, ~disturbed, NEW s \in Sessions, NEW p \in Payloads,
         accepted' = Append(accepted, <<s, p>>)
  PROVE  /\ AcceptedStays
         /\ \A i \in DOMAIN sealed : s \in sealed[i].ids => Later(accepted', sealedAt[i], sealed[i])
<1>1. \A i \in DOMAIN sealed : sealedAt[i] \in Nat /\ sealedAt[i] <= Len(accepted)
  BY DEF ImportInv, BatchOK
<1> QED  BY <1>1, AcceptedAgain

\* A request begins while nobody else is disturbed.
LEMMA BeginImport ==
  ASSUME IInv, SerialInv, ImportInv, ~disturbed', NEW r \in Requests, NEW s \in Sessions,
         NEW p \in Payloads, Begin(r, s, p)
  PROVE  ImportInv'
<1> DEFINE c == [NoCall EXCEPT !.phase = IF mode = "files" THEN "receipt" ELSE "persist",
                               !.session = s, !.payload = p]
<1>1. /\ request' = [request EXCEPT ![r] = c] /\ disturbed' = (disturbed \/ Busy)
      /\ UNCHANGED <<files, op, sealed, sealedAt, anchors>>
  BY DEF Begin, store, database
<1>2. /\ c.session = s /\ c.phase = IF mode = "files" THEN "receipt" ELSE "persist"
  BY NoCallFacts DEF AnyCall
<1> HIDE DEF c
<1>3. /\ ~disturbed /\ \A q \in Requests : request[q].phase = "idle"
  BY <1>1 DEF Busy
<1>4. request'[r] = c /\ \A q \in Requests : q # r => request'[q].phase = "idle"
  BY <1>1, <1>3 DEF IInv, Shape
<1>7. Whole' = Whole
  BY <1>1 DEF Whole
<1>5. CASE mode = "files"
  <2>1. accepted' = Append(accepted, <<s, p>>)
    BY <1>5 DEF Begin
  <2>2. /\ AcceptedStays
        /\ \A i \in DOMAIN sealed : s \in sealed[i].ids => Later(accepted', sealedAt[i], sealed[i])
    BY <1>3, <2>1, LaterThanAll
  <2>3. \A q \in Requests : request'[q].phase \in WritingPhases => request'[q].session = s
    BY <1>2, <1>4 DEF WritingPhases
  <2> QED  BY <1>1, <1>3, <1>7, <2>2, <2>3, ImportFrame
<1>6. CASE mode # "files"
  <2>1. accepted' = accepted
    BY <1>6 DEF Begin
  <2>2. \A q \in Requests : request'[q].phase \notin WritingPhases
    BY <1>2, <1>4, <1>6 DEF WritingPhases
  <2> QED  BY <1>1, <1>3, <1>7, <2>1, <2>2, ImportQuiet
<1> QED  BY <1>5, <1>6

\* A request persists to the database.
LEMMA PersistImport ==
  ASSUME IInv, SerialInv, ImportInv, ~disturbed, NEW r \in Requests, Persist(r)
  PROVE  ImportInv'
<1> DEFINE s == request[r].session
           p == request[r].payload
<1>1. /\ request[r].phase = "persist" /\ accepted' = Append(accepted, <<s, p>>)
      /\ Phase(r, "receipt") \/ Return(r)
      /\ UNCHANGED <<files, op, sealed, sealedAt, anchors>>
  BY DEF Persist, store
<1>2. s \in Sessions /\ p \in Payloads /\ request[r] \in AnyCall
  BY CallParts
<1>3. \A q \in Requests : q # r => request[q].phase = "idle"
  BY <1>1, RequestAlone
<1>4. /\ \A q \in Requests : q # r => request'[q] = request[q]
      /\ request'[r].phase \in WritingPhases => request'[r].session = s
  <2>1. request \in [Requests -> AnyCall]
    BY DEF IInv, Shape
  <2>2. CASE Phase(r, "receipt")
    BY <1>2, <2>1, <2>2 DEF Phase, AnyCall
  <2>3. CASE Return(r)
    BY <2>1, <2>3, NoCallFacts DEF Return, WritingPhases
  <2> QED  BY <1>1, <2>2, <2>3
<1>5. \A q \in Requests : request'[q].phase \in WritingPhases => request'[q].session = s
  BY <1>3, <1>4 DEF WritingPhases
<1>6. /\ AcceptedStays
      /\ \A i \in DOMAIN sealed : s \in sealed[i].ids => Later(accepted', sealedAt[i], sealed[i])
  BY <1>1, <1>2, LaterThanAll
<1>7. Whole' = Whole
  BY <1>1 DEF Whole
<1> QED  BY <1>1, <1>5, <1>6, <1>7, ImportFrame

\* The steps of a request after it was accepted.
LEMMA WriteImport ==
  ASSUME IInv, SerialInv, ImportInv, ~disturbed, NEW r \in Requests,
         \/ PersistFails(r) \/ OpenReceipt(r) \/ FillReceipt(r)
         \/ LoadIndex(r) \/ OpenIndex(r) \/ FillIndex(r)
  PROVE  ImportInv'
<1> DEFINE s == request[r].session
<1>1. UNCHANGED <<op, accepted, sealed, sealedAt, anchors>> /\ request[r].phase # "idle"
  BY DEF PersistFails, OpenReceipt, FillReceipt, LoadIndex, OpenIndex, FillIndex, database, history
<1>2. request[r] \in AnyCall /\ request \in [Requests -> AnyCall] /\ s \in Sessions
  BY CallParts DEF IInv, Shape
<1>3. \A q \in Requests : request'[q].phase \in WritingPhases =>
           request[q].phase \in WritingPhases /\ request[q].session = request'[q].session
  <2>1. /\ \/ Return(r)
           \/ \E next : Phase(r, next)
           \/ request' = [request EXCEPT ![r].phase = "loaded", ![r].index = index]
        /\ request[r].phase \in WritingPhases \/ Return(r)
    BY DEF PersistFails, OpenReceipt, FillReceipt, LoadIndex, OpenIndex, FillIndex, WritingPhases, Return
  <2>2. CASE Return(r)
    BY <1>2, <2>2, NoCallFacts DEF Return, WritingPhases
  <2>3. ASSUME NEW next, Phase(r, next), ~Return(r)
        PROVE  \A q \in Requests : request'[q].phase \in WritingPhases =>
           request[q].phase \in WritingPhases /\ request[q].session = request'[q].session
    <3>1. request'[r].session = request[r].session /\ \A q \in Requests : q # r => request'[q] = request[q]
      BY <1>2, <2>3 DEF Phase, AnyCall
    <3> QED  BY <2>1, <2>3, <3>1
  <2>4. CASE request' = [request EXCEPT ![r].phase = "loaded", ![r].index = index] /\ ~Return(r)
    <3>1. request'[r].session = request[r].session /\ \A q \in Requests : q # r => request'[q] = request[q]
      BY <1>2, <2>4 DEF AnyCall
    <3> QED  BY <2>1, <2>4, <3>1
  <2> QED  BY <2>1, <2>2, <2>3, <2>4
<1>6. Whole = files /\ Whole' = files'
  <2>1. op.phase = "idle" /\ op'.phase = "idle"
    BY <1>1, RequestAlone
  <2> QED  BY <2>1 DEF Whole
<1>4. CASE UNCHANGED files
  BY <1>1, <1>3, <1>4, <1>6, ImportQuiet
<1>5. CASE OpenReceipt(r) \/ FillReceipt(r)
  <2>1. /\ request[r].phase \in WritingPhases
        /\ \E f : files' = [files EXCEPT ![s] = f]
    BY <1>5 DEF OpenReceipt, FillReceipt, WritingPhases
  <2>2. PICK f : files' = [files EXCEPT ![s] = f]
    BY <2>1
  <2>3. \A t \in Sessions \ {s} : files'[t] = files[t]
    BY <1>2, <2>2, OtherFiles
  <2>4. \A q \in Requests, i \in DOMAIN sealed :
          request[q].phase \in WritingPhases /\ request[q].session \in sealed[i].ids =>
            Later(accepted, sealedAt[i], sealed[i])
    BY DEF ImportInv
  <2>5. \A i \in DOMAIN sealed : s \in sealed[i].ids => Later(accepted, sealedAt[i], sealed[i])
    BY <2>1, <2>4
  <2>6. \A i \in DOMAIN sealed : sealed[i].ids \in SUBSET Sessions
    BY SealedIds
  <2>7. \A i \in DOMAIN sealed : ~Later(accepted, sealedAt[i], sealed[i]) =>
          \A t \in sealed[i].ids : Whole'[t] = Whole[t]
    BY <1>6, <2>3, <2>5, <2>6
  <2>8. AcceptedStays
    BY <1>1 DEF AcceptedStays
  <2> QED  BY <1>1, <1>3, <2>4, <2>7, <2>8, ImportFrame
<1> QED  BY <1>4, <1>5 DEF PersistFails, LoadIndex, OpenIndex, FillIndex, store

\* The tamper helper writes its file.
LEMMA TamperImport ==
  ASSUME IInv, SerialInv, ImportInv, ~disturbed, TamperOpen \/ TamperFill
  PROVE  ImportInv'
<1>1. UNCHANGED <<request, accepted, sealed, sealedAt, anchors>>
  BY DEF TamperOpen, TamperFill, database, history
<1>2. CASE TamperOpen
  <2>1. Whole = files
    BY <1>2, WholeFiles DEF TamperOpen
  <2> QED  BY <1>1, <1>2, <2>1, TamperOpened, ImportQuiet
<1>3. CASE TamperFill
  <2>1. \A i \in DOMAIN sealed : \A t \in sealed[i].ids : Whole[t] \in Content =>
               Whole'[t] \in Content /\ Whole'[t].payload = Whole[t].payload
    BY <1>3, SealedIds, TamperedFiles
  <2>2. \A q \in Requests, i \in DOMAIN sealed :
            request[q].phase \in WritingPhases /\ request[q].session \in sealed[i].ids =>
              Later(accepted, sealedAt[i], sealed[i])
    BY DEF ImportInv
  <2>3. AcceptedStays
    BY <1>1 DEF AcceptedStays
  <2> QED  BY <1>1, <2>1, <2>2, <2>3, ImportFrame
<1> QED  BY <1>2, <1>3

\* The batch that is saved is what the files say, and nobody is at work on them.
LEMMA SealImport ==
  ASSUME IInv, SerialInv, RootsSorted, ImportInv, ~disturbed, OpFillAnchors
  PROVE  ImportInv'
<1> DEFINE k == Len(sealed) + 1
           n == Len(accepted)
<1>1. /\ op.phase = "anchors_open" /\ op' = [op EXCEPT !.phase = "index"]
      /\ UNCHANGED <<files, index, request, accepted, anchors>>
      /\ sealed' = Append(sealed, op.batches[Len(op.batches)])
      /\ sealedAt' = Append(sealedAt, n)
  BY DEF OpFillAnchors, database
<1>2. sealed \in Seq(AnyBatch) /\ NewBatch \in AnyBatch
  BY OpParts, FoundType DEF IInv, Shape
<1>3. op.batches = Append(sealed, NewBatch)
  BY <1>1 DEF IInv, Pending
<1>4. op.batches[Len(op.batches)] = NewBatch
  BY <1>2, <1>3, AppendFacts
<1>5. /\ DOMAIN sealed' = DOMAIN sealed \cup {k}
      /\ \A i \in DOMAIN sealed : sealed'[i] = sealed[i]
      /\ sealed'[k] = NewBatch
  BY <1>1, <1>2, <1>4, AppendFacts
<1>19. /\ accepted \in Seq(Sessions \X Payloads) /\ n \in Nat /\ DOMAIN accepted = 1..n
       /\ sealedAt \in Seq(Nat) /\ Len(sealedAt) = Len(sealed)
  BY DEF IInv, Shape, ImportInv
<1>20. /\ sealedAt' \in Seq(Nat) /\ Len(sealedAt') = Len(sealed')
       /\ \A i \in DOMAIN sealed : sealedAt'[i] = sealedAt[i]
       /\ sealedAt'[k] = n
  <2>1. /\ DOMAIN sealedAt' = DOMAIN sealedAt \cup {Len(sealedAt) + 1}
        /\ \A i \in DOMAIN sealedAt : sealedAt'[i] = sealedAt[i]
        /\ sealedAt'[Len(sealedAt) + 1] = n
    BY <1>1, <1>19, AppendFacts
  <2>2. DOMAIN sealedAt = DOMAIN sealed
    BY <1>2, <1>19
  <2>3. sealedAt' \in Seq(Nat) /\ Len(sealedAt') = Len(sealed')
    BY <1>1, <1>2, <1>4, <1>19
  <2> QED  BY <1>19, <2>1, <2>2, <2>3
<1> HIDE DEF k, n
<1>6. /\ \A r \in Requests : request[r].phase = "idle"
      /\ AllAgree(files, index) /\ index \notin Unreadable
  BY <1>1, OpAlone
<1>7. op.index = index /\ op.found = Selected(files, op)
  BY <1>1, WriterOK
<1>8. index \in AnyIndex /\ DOMAIN index \in SUBSET Sessions
  BY <1>6, IndexParts DEF IInv, Shape
<1>9. \A x \in op.found : /\ x[1] \in Sessions /\ x = <<x[1], files[x[1]]>>
                          /\ files[x[1]] \in Content
  <2> SUFFICES ASSUME NEW x \in op.found
               PROVE  /\ x[1] \in Sessions /\ x = <<x[1], files[x[1]]>>
                      /\ files[x[1]] \in Content
    OBVIOUS
  <2>1. PICK t \in DOMAIN index : x = <<t, files[t]>>
    BY <1>7 DEF Selected, Choice
  <2> QED  BY <1>6, <1>8, <2>1, AgreedContent DEF AllAgree
<1>10. NewBatch.ids = {x[1] : x \in Found} /\ NewBatch.root = BatchRoot(Found)
  BY DEF NewBatch
<1>11. \A y \in Found : /\ files[y[1]] \in Content /\ y[1] \in Sessions
                        /\ y = <<y[1], files[y[1]].payload>>
  <2> SUFFICES ASSUME NEW y \in Found
               PROVE  /\ files[y[1]] \in Content /\ y[1] \in Sessions
                      /\ y = <<y[1], files[y[1]].payload>>
    OBVIOUS
  <2>1. PICK x \in op.found : y = <<x[1], x[2].payload>>
    BY DEF Found
  <2>2. x[2] = files[x[1]]
    BY <1>9, <2>1
  <2> QED  BY <1>9, <2>1, <2>2
<1>12. Found = FilePairs(files, NewBatch.ids)
  BY <1>10, <1>11 DEF FilePairs
<1>13. \A s \in NewBatch.ids : files[s] \in Content /\ s \in Sessions
  BY <1>10, <1>11
<1>14. IsFiniteSet(NewBatch.ids)
  <2> DEFINE f == [x \in Found |-> x[1]]
  <2>1. NewBatch.ids = {f[x] : x \in Found} /\ DOMAIN f = Found
    BY <1>10
  <2>2. IsFiniteSet(Found)
    BY FoundFinite DEF RootsSorted
  <2> HIDE DEF f
  <2> QED  BY <2>1, <2>2, CardinalityOfImage
<1>15. BatchOK(files, accepted, n, NewBatch) /\ ~Later(accepted, n, NewBatch)
  <2>1. n <= Len(accepted) /\ ~Later(accepted, n, NewBatch)
    BY <1>19 DEF Later, n
  <2> QED  BY <1>10, <1>12, <1>13, <1>14, <1>19, <2>1 DEF BatchOK
<1>21. Whole = files /\ Whole' = files
  <2>1. op'.phase = "index"
    BY <1>1, OpParts DEF AnyOp
  <2> QED  BY <1>1, <2>1 DEF Whole
<1>16. \A i \in DOMAIN sealed' : BatchOK(files, accepted, sealedAt'[i], sealed'[i])
  BY <1>5, <1>15, <1>20, <1>21 DEF ImportInv
<1>17. \A a \in anchors : AnchorOK(files, accepted, sealed', sealedAt', a)
  <2> SUFFICES ASSUME NEW a \in anchors PROVE AnchorOK(files, accepted, sealed', sealedAt', a)
    OBVIOUS
  <2>1. AnchorOK(files, accepted, sealed, sealedAt, a)
    BY <1>21 DEF ImportInv
  <2>2. PICK m \in DOMAIN sealed : SameRow(sealed[m], a)
    BY <2>1 DEF AnchorOK
  <2>3. m \in DOMAIN sealed' /\ sealed'[m] = sealed[m]
    BY <1>5
  <2>4. ASSUME \A i \in DOMAIN sealed' : SameRow(sealed'[i], a) => ~Later(accepted, sealedAt'[i], sealed'[i]),
               NEW i \in DOMAIN sealed', SameRow(sealed'[i], a)
        PROVE  a.members = FilePairs(files, sealed'[i].ids) /\ a.count = Cardinality(a.members)
    <3>1. \A j \in DOMAIN sealed : SameRow(sealed[j], a) => ~Later(accepted, sealedAt[j], sealed[j])
      BY <1>5, <1>20, <2>4
    <3>2. a.members = FilePairs(files, sealed[m].ids) /\ a.count = Cardinality(a.members)
      BY <2>1, <2>2, <3>1 DEF AnchorOK
    <3>3. CASE i \in DOMAIN sealed
      BY <1>5, <2>1, <2>4, <3>1, <3>3 DEF AnchorOK
    <3>4. CASE sealed'[i] = NewBatch
      <4>1. NewBatch.root = sealed[m].root
        BY <2>2, <2>4, <3>4 DEF SameRow
      <4>2. ~Later(accepted, sealedAt[m], sealed[m])
        BY <2>2, <3>1
      <4>3. NewBatch.ids \in SUBSET Sessions /\ sealed[m].ids \in SUBSET Sessions
        BY <1>13, SealedIds
      <4>4. BatchOK(files, accepted, sealedAt[m], sealed[m])
        BY <1>21 DEF ImportInv
      <4>5. FilePairs(files, NewBatch.ids) = FilePairs(files, sealed[m].ids)
        BY <1>15, <4>1, <4>2, <4>3, <4>4, OneRowOneBatch
      <4> QED  BY <3>2, <3>4, <4>5
    <3> QED  BY <1>5, <3>3, <3>4
  <2> QED  BY <2>2, <2>3, <2>4 DEF AnchorOK
<1>18. \A r \in Requests : request'[r].phase \notin WritingPhases
  BY <1>1, <1>6 DEF WritingPhases
<1> QED  BY <1>1, <1>16, <1>17, <1>18, <1>20, <1>21 DEF ImportInv

\* The memberships of an imported batch none of whose sessions was finalized
\* again are those of the files.
LEMMA MembersOfBatch ==
  ASSUME AllAgree(files, index), DOMAIN index \in SUBSET Sessions,
         NEW b, b.ids \in SUBSET Sessions, \A s \in b.ids : files[s] \in Content
  PROVE  PairsOf(b) = FilePairs(files, b.ids)
<1>1. \A s \in b.ids : s \in DOMAIN index /\ index[s].payload = files[s].payload
  BY FileStatesDisjoint DEF AllAgree, Agrees
<1>2. b.ids \cap DOMAIN index = b.ids
  BY <1>1
<1> QED  BY <1>1, <1>2 DEF PairsOf, FilePairs

\* The memberships of a row after the import of a batch, when those that it
\* had are the batch's.
LEMMA MembersAfter ==
  ASSUME NEW b, \A a \in anchors : SameRow(a, b) =>
                  a.members = PairsOf(b) /\ a.count = Cardinality(PairsOf(b))
  PROVE  RowAfter(b).members = PairsOf(b) /\ RowAfter(b).count = Cardinality(PairsOf(b))
<1> DEFINE old == {a \in anchors : SameRow(a, b)}
           had == UNION {a.members : a \in old}
<1>1. /\ RowAfter(b).count = IF old = {} THEN Cardinality(PairsOf(b)) ELSE (CHOOSE a \in old : TRUE).count
      /\ RowAfter(b).members = had \cup Missing(b)
  BY DEF RowAfter
<1>2. \A a \in old : a.members = PairsOf(b) /\ a.count = Cardinality(PairsOf(b))
  OBVIOUS
<1>3. Missing(b) \subseteq PairsOf(b) /\ (old = {} => Missing(b) = PairsOf(b))
  BY DEF Missing
<1> HIDE DEF old
<1>4. CASE old = {}
  BY <1>1, <1>3, <1>4
<1>5. CASE old # {}
  <2>1. had = PairsOf(b)
    BY <1>2, <1>5
  <2>2. (CHOOSE a \in old : TRUE) \in old
    BY <1>5
  <2>3. (CHOOSE a \in old : TRUE).count = Cardinality(PairsOf(b))
    BY <1>2, <2>2
  <2> QED  BY <1>1, <1>3, <1>5, <2>1, <2>3
<1> QED  BY <1>4, <1>5

\* An import takes the anchors over.
LEMMA ImportAnchorsImport ==
  ASSUME IInv, SerialInv, ImportInv, ~disturbed, ImportAnchors
  PROVE  ImportInv'
<1>1. /\ op.phase = "import_anchors" /\ op' = Idle
      /\ UNCHANGED <<files, index, batches, request, accepted, sealed, sealedAt>>
  BY DEF ImportAnchors, store, history
<1>2. \A r \in Requests : request'[r].phase \notin WritingPhases
  BY <1>1, OpAlone DEF WritingPhases
<1>5. Whole = files /\ Whole' = files
  BY <1>1, IdleFacts DEF Whole
<1>3. CASE anchors' = anchors
  BY <1>1, <1>2, <1>3, <1>5 DEF ImportInv
<1>4. CASE anchors' # anchors
  <2>1. /\ {index, batches} \cap Unreadable = {}
        /\ anchors' = {a \in anchors : \A i \in ImportableBatches : ~SameRow(a, batches[i])}
                        \cup {RowAfter(batches[i]) : i \in ImportableBatches}
    BY <1>4 DEF ImportAnchors
  <2>2. /\ AllAgree(files, index) /\ DOMAIN index \in SUBSET Sessions /\ batches = sealed
    <3>1. index \notin Unreadable /\ batches \notin Unreadable
      BY <2>1
    <3> QED  BY <1>1, <3>1, OpAlone, IndexParts DEF IInv, Shape, ReadableAnchorsComplete
  <2>3. /\ \A i \in DOMAIN sealed : BatchOK(files, accepted, sealedAt[i], sealed[i])
        /\ \A a \in anchors : AnchorOK(files, accepted, sealed, sealedAt, a)
        /\ sealedAt \in Seq(Nat) /\ Len(sealedAt) = Len(sealed)
    BY <1>5 DEF ImportInv
  <2>4. ASSUME NEW k \in ImportableBatches
        PROVE  AnchorOK(files, accepted, sealed, sealedAt, RowAfter(batches[k]))
    <3> DEFINE b == sealed[k]
               row == RowAfter(b)
    <3>1. k \in DOMAIN sealed /\ batches[k] = b
      BY <2>2 DEF ImportableBatches
    <3>2. row.day = b.day /\ row.prefix = b.prefix /\ row.root = b.root
      BY DEF RowAfter
    <3> HIDE DEF row
    <3>3. /\ SameRow(b, row)
          /\ \A c : SameRow(c, row) <=> SameRow(c, b)
      BY <3>2 DEF SameRow
    <3>4. ASSUME \A i \in DOMAIN sealed : SameRow(sealed[i], row) => ~Later(accepted, sealedAt[i], sealed[i]),
                 NEW i \in DOMAIN sealed, SameRow(sealed[i], row)
          PROVE  row.members = FilePairs(files, sealed[i].ids) /\ row.count = Cardinality(row.members)
      <4> DEFINE P == FilePairs(files, b.ids)
      <4>1. /\ ~Later(accepted, sealedAt[k], b) /\ ~Later(accepted, sealedAt[i], sealed[i])
            /\ b.root = sealed[i].root
        BY <3>1, <3>2, <3>3, <3>4 DEF SameRow
      <4>2. b.ids \in SUBSET Sessions /\ sealed[i].ids \in SUBSET Sessions
        BY <3>1, SealedIds
      <4>3. P = FilePairs(files, sealed[i].ids)
        BY <2>3, <3>1, <4>1, <4>2, OneRowOneBatch
      <4>4. \A s \in b.ids : files[s] \in Content
        BY <2>3, <3>1, <4>1 DEF BatchOK
      <4>5. PairsOf(b) = P
        BY <2>2, <4>2, <4>4, MembersOfBatch
      <4>6. \A a \in anchors : SameRow(a, b) => a.members = P /\ a.count = Cardinality(P)
        <5> SUFFICES ASSUME NEW a \in anchors, SameRow(a, b) PROVE a.members = P /\ a.count = Cardinality(P)
          OBVIOUS
        <5>1. SameRow(b, a) /\ \A j \in DOMAIN sealed : SameRow(sealed[j], a) => SameRow(sealed[j], row)
          BY <3>2 DEF SameRow
        <5>2. AnchorOK(files, accepted, sealed, sealedAt, a)
          BY <2>3
        <5> QED  BY <3>1, <3>4, <5>1, <5>2 DEF AnchorOK
      <4> HIDE DEF P, b
      <4>7. row.members = P /\ row.count = Cardinality(P)
        BY <4>5, <4>6, MembersAfter DEF row
      <4> QED  BY <4>3, <4>7
    <3>5. AnchorOK(files, accepted, sealed, sealedAt, row)
      BY <3>1, <3>3, <3>4 DEF AnchorOK
    <3> QED  BY <3>1, <3>5 DEF row
  <2>5. \A a \in anchors' : AnchorOK(files, accepted, sealed, sealedAt, a)
    BY <2>1, <2>3, <2>4
  <2> QED  BY <1>1, <1>2, <1>5, <2>3, <2>5 DEF ImportInv
<1> QED  BY <1>3, <1>4

\* The other steps of a command neither save nor import, nor write a receipt file.
LEMMA QuietOpWhole ==
  ASSUME IInv, \/ OpLoad \/ OpRead \/ OpReadDone \/ OpOpenAnchors
               \/ OpOpenIndex \/ OpFillIndex \/ ImportReceipts \/ TamperRead
  PROVE  /\ UNCHANGED <<Whole, request, accepted, sealed, sealedAt, anchors>>
<1>1. op \in AnyOp /\ Idle.phase = "idle"
  BY OpParts, IdleFacts
<1>2. CASE OpLoad \/ OpRead
  <2>1. /\ op.phase \in {"load", "read"} /\ UNCHANGED <<files, request, accepted, sealed, sealedAt, anchors>>
        /\ \/ op' = Idle
           \/ \E ix, l, d : op' = [op EXCEPT !.phase = "read", !.index = ix, !.found = {}, !.left = l, !.day = d]
           \/ \E l, f : op' = [op EXCEPT !.left = l, !.found = f]
    <3>1. CASE OpLoad
      BY <3>1 DEF OpLoad, store, database, history
    <3>2. CASE OpRead
      BY <3>2 DEF OpRead, store, database, history
    <3> QED  BY <1>2, <3>1, <3>2
  <2>2. op'.phase # "tamper_open"
    BY <1>1, <2>1 DEF AnyOp
  <2> QED  BY <2>1, <2>2 DEF Whole
<1>3. CASE OpReadDone
  <2>1. op.cmd \in {"day", "all", "import"}
    BY <1>3, OpParts DEF OpReadDone, TamperPhases
  <2>2. \/ op' = Idle
        \/ op' = [op EXCEPT !.phase = "import"] \/ op' = [op EXCEPT !.phase = "anchors"]
        \/ op' = [op EXCEPT !.cmd = "day", !.phase = "load", !.todo = {DayOf[x[2]] : x \in Found}]
    BY <1>3, <2>1 DEF OpReadDone
  <2>3. op.phase # "tamper_open" /\ op'.phase # "tamper_open"
    <3>1. op.phase = "read"
      BY <1>3 DEF OpReadDone
    <3>2. CASE op' = Idle
      BY <1>1, <3>1, <3>2
    <3>3. CASE op' # Idle
      BY <1>1, <2>2, <3>1, <3>3 DEF AnyOp
    <3> QED  BY <3>2, <3>3
  <2> QED  BY <1>3, <2>3 DEF OpReadDone, Whole, store, database, history
<1>4. CASE OpOpenAnchors \/ OpOpenIndex
  <2>1. op.phase # "tamper_open" /\ op'.phase # "tamper_open"
    BY <1>1, <1>4 DEF OpOpenAnchors, OpOpenIndex, AnyOp
  <2> QED  BY <1>4, <2>1 DEF OpOpenAnchors, OpOpenIndex, Whole, database, history
<1>5. CASE OpFillIndex
  <2>1. op.phase # "tamper_open" /\ op'.phase # "tamper_open"
    BY <1>1, <1>5 DEF OpFillIndex, AnyOp
  <2> QED  BY <1>5, <2>1 DEF OpFillIndex, Whole, database, history
<1>6. CASE ImportReceipts
  <2>1. op.phase # "tamper_open" /\ op'.phase # "tamper_open"
    BY <1>1, <1>6 DEF ImportReceipts, AnyOp
  <2> QED  BY <1>6, <2>1 DEF ImportReceipts, Whole, store, history
<1>7. CASE TamperRead
  <2>1. op.phase # "tamper_open" /\ op'.phase # "tamper_open"
    BY <1>1, <1>7 DEF TamperRead, AnyOp
  <2> QED  BY <1>7, <2>1 DEF TamperRead, Whole, store, database, history
<1> QED  BY <1>2, <1>3, <1>4, <1>5, <1>6, <1>7

\* Every step of a command keeps the invariant of the import.
LEMMA OpImport ==
  ASSUME IInv, SerialInv, RootsSorted, ImportInv, ~disturbed, OpStep
  PROVE  ImportInv'
<1>1. CASE OpFillAnchors
  BY <1>1, SealImport
<1>2. CASE ImportAnchors
  BY <1>2, ImportAnchorsImport
<1>3. CASE TamperOpen \/ TamperFill
  BY <1>3, TamperImport
<1>4. CASE \/ OpLoad \/ OpRead \/ OpReadDone \/ OpOpenAnchors
           \/ OpOpenIndex \/ OpFillIndex \/ ImportReceipts \/ TamperRead
  <2>1. UNCHANGED <<Whole, request, accepted, sealed, sealedAt, anchors>>
    BY <1>4, QuietOpWhole
  <2> QED  BY <2>1, ImportQuiet
<1> QED  BY <1>1, <1>2, <1>3, <1>4 DEF OpStep

\* Every step keeps the invariant of the import.
LEMMA NextImport ==
  ASSUME IInv, SerialInv, RootsSorted, ImportInv, [Next]_vars
  PROVE  ImportInv'
<1>1. CASE disturbed'
  BY <1>1 DEF ImportInv
<1>2. CASE ~disturbed'
  <2>1. ~disturbed
    BY <1>2, DisturbedStays
  <2>2. CASE UNCHANGED vars \/ EnableDatabase
    <3>1. UNCHANGED <<files, op, request, accepted, sealed, sealedAt, anchors>>
      BY <2>2 DEF vars, EnableDatabase, store, database, history
    <3>2. UNCHANGED Whole
      BY <3>1 DEF Whole
    <3> QED  BY <2>1, <3>1, <3>2, ImportQuiet
  <2>7. CASE \/ StartImport \/ \E s \in Sessions : StartTamper(s)
             \/ \E prefix \in Prefixes : \/ \E day \in Days : StartAnchorDay(day, prefix)
                                         \/ StartAnchorAllDays(prefix)
    <3>1. ASSUME NEW cmd, NEW phase \in {"load", "tamper"}, NEW prefix, NEW days, NEW sessions,
                 Start(cmd, phase, prefix, days, sessions)
          PROVE  ImportInv'
      <4>1. /\ UNCHANGED <<files, request, accepted, sealed, sealedAt, anchors>>
            /\ op = Idle /\ op'.phase = phase
        BY <3>1 DEF Start, Idle, store, database
      <4>2. UNCHANGED Whole
        BY <4>1, IdleFacts DEF Whole
      <4> QED  BY <2>1, <4>1, <4>2, ImportQuiet
    <3> QED  BY <2>7, <3>1 DEF StartImport, StartTamper, StartAnchorDay, StartAnchorAllDays
  <2>3. CASE \E r \in Requests : (\E s \in Sessions, p \in Payloads : Begin(r, s, p)) \/ RequestStep(r)
    BY <1>2, <2>1, <2>3, BeginImport, PersistImport, WriteImport DEF RequestStep
  <2>4. CASE OpStep
    BY <2>1, <2>4, OpImport
  <2>6. CASE CrashServer \/ CrashOperator
    BY <1>2, <2>6 DEF CrashServer, CrashOperator
  <2> QED  BY <2>2, <2>3, <2>4, <2>6, <2>7 DEF Next
<1> QED  BY <1>1, <1>2

\* It holds at first.
LEMMA InitImport == Init => ImportInv
<1> SUFFICES ASSUME Init PROVE ImportInv
  OBVIOUS
<1>1. sealed = <<>> /\ sealedAt = <<>> /\ anchors = {}
  BY DEF Init
<1> QED  BY <1>1 DEF ImportInv

\* An imported anchor whose memberships do not recompute to its root is one
\* of whose sessions a receipt was finalized after its batch was saved.
THEOREM ImportedAnchors == Spec => []ImportedAnchorsVerify
<1>1. Init => ImportInv
  BY InitImport
<1>2. IInv /\ RootsSorted /\ SerialInv /\ ImportInv /\ [Next]_vars => ImportInv'
  BY NextImport
<1>3. ASSUME ImportInv PROVE ImportedAnchorsVerify
  <2> SUFFICES ASSUME Settled, NEW a \in anchors,
                      \A i \in DOMAIN sealed : SameRow(sealed[i], a) =>
                        ~Later(accepted, sealedAt[i], sealed[i])
               PROVE  ImportedMatch(a)
    BY DEF ImportedAnchorsVerify, Later
  <2>1. /\ AnchorOK(Whole, accepted, sealed, sealedAt, a)
        /\ \A i \in DOMAIN sealed : BatchOK(Whole, accepted, sealedAt[i], sealed[i])
    BY <1>3 DEF ImportInv, Settled
  <2>2. PICK i \in DOMAIN sealed : SameRow(sealed[i], a)
    BY <2>1 DEF AnchorOK
  <2>3. a.members = FilePairs(Whole, sealed[i].ids) /\ a.count = Cardinality(a.members)
    BY <2>1, <2>2 DEF AnchorOK
  <2>4. sealed[i].root = BatchRoot(FilePairs(Whole, sealed[i].ids))
    BY <2>1, <2>2 DEF BatchOK
  <2> QED  BY <2>2, <2>3, <2>4 DEF ImportedMatch, SameRow
<1> QED  BY <1>1, <1>2, <1>3, SerialInvariance, PTL DEF Spec

-----------------------------------------------------------------------------
(***************************************************************************)
(* Types, whoever is disturbed.  No command ever reads a session twice, so *)
(* a root has no more leaves than there are sessions.                      *)
(***************************************************************************)
FoundOnce ==
    /\ \A x, y \in op.found : x[1] = y[1] => x = y
    /\ op.phase = "read" => \A x \in op.found : x[1] \notin op.left

AnchorTypes(as) ==
    \A a \in as : a.count \in 1..Cardinality(Sessions) /\ a.prefix \in Prefixes

TypesInv ==
    /\ rows \in [Sessions -> Content \cup {Absent}]
    /\ FoundOnce
    /\ \A i \in DOMAIN sealed : sealed[i].root \in Roots
    /\ AnchorTypes(anchors)

\* The root of receipts of different sessions.
LEMMA RootTyped ==
  ASSUME IsFiniteSet(Sessions), NEW F \in SUBSET Receipts, IsFiniteSet(F),
         \A x, y \in F : x[1] = y[1] => x = y
  PROVE  BatchRoot(F) \in Roots
<1> DEFINE f == [x \in F |-> x[1]]
           n == Cardinality(F)
           H == {HashOf[x] : x \in Sessions \X Payloads}
<1>1. {f[x] : x \in F} \in SUBSET Sessions
  BY DEF Receipts
<1>2. DOMAIN f = F /\ \A x, y \in F : f[x] = f[y] => x = y
  OBVIOUS
<1> HIDE DEF f
<1>3. Cardinality({f[x] : x \in F}) = n
  BY <1>2, CardinalityOfImage
<1>4. Cardinality({f[x] : x \in F}) <= Cardinality(Sessions)
  BY <1>1, FS_Subset
<1>5. n \in Nat /\ Cardinality(Sessions) \in Nat
  BY FS_CardinalityType
<1>6. n \in 0..Cardinality(Sessions)
  BY <1>3, <1>4, <1>5
<1>7. Hashes(F) \in SUBSET Nat /\ IsFiniteSet(Hashes(F)) /\ Cardinality(Hashes(F)) = n
  BY HashesFacts
<1>8. BatchRoot(F) \in [1..n -> Hashes(F)]
  BY <1>7, SortedFacts DEF BatchRoot
<1>9. Hashes(F) \subseteq H
  BY DEF Hashes, Receipts
<1> HIDE DEF n, H
<1>10. BatchRoot(F) \in [1..n -> H]
  BY <1>8, <1>9
<1> QED  BY <1>6, <1>10 DEF Roots, H

\* The root of no receipt has the type of a root.
LEMMA NoRootTyped == IsFiniteSet(Sessions) => NoRoot \in Roots
<1> SUFFICES ASSUME IsFiniteSet(Sessions) PROVE NoRoot \in Roots
  OBVIOUS
<1> DEFINE H == {HashOf[x] : x \in Sessions \X Payloads}
<1>1. 0 \in 0..Cardinality(Sessions)
  BY FS_CardinalityType
<1>2. <<>> \in [1..0 -> H]
  OBVIOUS
<1> HIDE DEF H
<1> QED  BY <1>1, <1>2 DEF Roots, NoRoot, H

\* An index whose marks are those of saved batches.
LEMMA IndexTyped ==
  ASSUME IsFiniteSet(Sessions), TypesInv, NEW ix \in AnyIndex, MarkedBy(sealed, ix)
  PROVE  ix \in IndexFiles
<1>1. DOMAIN ix \in SUBSET Sessions /\ ix \in [DOMAIN ix -> AnyEntry]
  BY IndexParts
<1>2. ASSUME NEW s \in DOMAIN ix PROVE ix[s] \in IndexEntry
  <2>1. ix[s].root \in Roots
    <3>1. CASE ix[s].root = NoRoot
      BY <3>1, NoRootTyped
    <3>2. CASE ix[s].root # NoRoot
      BY <3>2 DEF MarkedBy, TypesInv
    <3> QED  BY <3>1, <3>2
  <2>2. ix[s] \in AnyEntry
    BY <1>1
  <2> QED  BY <2>1, <2>2 DEF AnyEntry, IndexEntry
<1>3. ix \in [DOMAIN ix -> IndexEntry]
  BY <1>1, <1>2
<1> QED  BY <1>1, <1>3 DEF IndexFiles

\* Steps that read, import and save nothing.
LEMMA TypesKept ==
  ASSUME TypesInv, UNCHANGED <<rows, sealed, anchors>>,
         \/ op'.found = {}
         \/ op'.found = op.found /\ op'.phase # "read"
         \/ op'.found = op.found /\ op'.left = op.left /\ op'.phase = op.phase
  PROVE  TypesInv'
<1>1. FoundOnce'
  BY DEF TypesInv, FoundOnce
<1> QED  BY <1>1 DEF TypesInv

\* Requests keep the types.
LEMMA PersistTypes ==
  ASSUME IInv, TypesInv, NEW r \in Requests, Persist(r)
  PROVE  TypesInv'
<1> DEFINE row == [payload |-> request[r].payload, altered |-> FALSE]
<1>1. rows' = [rows EXCEPT ![request[r].session] = row] /\ UNCHANGED <<op, sealed, anchors>>
  BY DEF Persist
<1>2. row \in Content
  BY CallParts DEF Content
<1> HIDE DEF row
<1>3. rows' \in [Sessions -> Content \cup {Absent}]
  BY <1>1, <1>2 DEF TypesInv
<1>4. FoundOnce'
  BY <1>1 DEF TypesInv, FoundOnce
<1> QED  BY <1>1, <1>3, <1>4 DEF TypesInv

\* Reading keeps the types.
LEMMA ReadTypes ==
  ASSUME IInv, TypesInv, OpRead
  PROVE  TypesInv'
<1> DEFINE s == CHOOSE t \in op.left : \A u \in op.left : t <= u
<1>1. op.phase = "read" /\ op.left # {} /\ UNCHANGED <<rows, sealed, anchors>>
  BY DEF OpRead, database, history
<1>2. \/ op' = Idle
      \/ op' = [op EXCEPT !.left = op.left \ {s}, !.found = op.found \cup {<<s, files[s]>>}]
      \/ op' = [op EXCEPT !.left = op.left \ {s}, !.found = op.found]
  BY DEF OpRead
<1>3. s \in op.left
  <2>1. op.left \in SUBSET Nat
    BY OpParts, FileConstants
  <2> QED  BY <1>1, <2>1, MinExists
<1> HIDE DEF s
<1>4. CASE op' = Idle
  BY <1>1, <1>4, TypesKept DEF Idle
<1>5. CASE op' # Idle
  <2>1. op'.left = op.left \ {s} /\ op'.found \subseteq op.found \cup {<<s, files[s]>>}
    BY <1>2, <1>5, OpParts DEF AnyOp, TamperPhases
  <2>2. FoundOnce'
    BY <1>1, <1>3, <2>1 DEF TypesInv, FoundOnce
  <2> QED  BY <1>1, <2>2 DEF TypesInv
<1> QED  BY <1>4, <1>5

\* So does what the tamper helper reads, one file.
LEMMA TamperTypes ==
  ASSUME IInv, TypesInv, TamperRead \/ TamperOpen \/ TamperFill
  PROVE  TypesInv'
<1>1. UNCHANGED <<rows, sealed, anchors>> /\ op \in AnyOp
  BY OpParts DEF TamperRead, TamperOpen, TamperFill, database, history
<1>2. CASE op' = Idle
  BY <1>1, <1>2, TypesKept DEF Idle
<1>3. CASE TamperRead /\ op' # Idle
  <2>1. PICK s : op' = [op EXCEPT !.phase = "tamper_write", !.left = {}, !.found = {<<s, files[s]>>}]
    BY <1>3 DEF TamperRead
  <2>2. op'.phase = "tamper_write" /\ op'.found = {<<s, files[s]>>}
    BY <1>1, <2>1 DEF AnyOp
  <2>3. FoundOnce'
    BY <2>2 DEF FoundOnce
  <2> QED  BY <1>1, <2>3 DEF TypesInv
<1>4. CASE TamperOpen
  <2>1. op'.phase = "tamper_open" /\ op'.found = op.found
    BY <1>1, <1>4 DEF TamperOpen, AnyOp
  <2> QED  BY <1>1, <2>1, TypesKept
<1> QED  BY <1>2, <1>3, <1>4 DEF TamperFill

\* Storing a batch keeps the types.
LEMMA SealTypes ==
  ASSUME IsFiniteSet(Sessions), IInv, RootsSorted, TypesInv, OpFillAnchors
  PROVE  TypesInv'
<1>1. /\ op.phase = "anchors_open" /\ UNCHANGED <<rows, anchors>>
      /\ sealed' = Append(sealed, op.batches[Len(op.batches)])
      /\ op' = [op EXCEPT !.phase = "index"]
  BY DEF OpFillAnchors, database
<1>2. sealed \in Seq(AnyBatch) /\ NewBatch \in AnyBatch
  BY OpParts, FoundType DEF IInv, Shape
<1>3. op.batches = Append(sealed, NewBatch)
  BY <1>1 DEF IInv, Pending
<1>4. op.batches[Len(op.batches)] = NewBatch
  BY <1>2, <1>3, AppendFacts
<1>5. /\ DOMAIN sealed' = DOMAIN sealed \cup {Len(sealed) + 1}
      /\ \A i \in DOMAIN sealed : sealed'[i] = sealed[i]
      /\ sealed'[Len(sealed) + 1] = NewBatch
  BY <1>1, <1>2, <1>4, AppendFacts
<1>6. Found \in SUBSET Receipts /\ IsFiniteSet(Found)
  BY FoundFinite DEF RootsSorted
<1>7. \A x, y \in Found : x[1] = y[1] => x = y
  <2> SUFFICES ASSUME NEW x \in Found, NEW y \in Found, x[1] = y[1] PROVE x = y
    OBVIOUS
  <2>1. PICK v \in op.found : x = <<v[1], v[2].payload>>
    BY DEF Found
  <2>2. PICK w \in op.found : y = <<w[1], w[2].payload>>
    BY DEF Found
  <2>3. v = w
    BY <2>1, <2>2 DEF TypesInv, FoundOnce
  <2> QED  BY <2>1, <2>2, <2>3
<1>8. NewBatch.root \in Roots
  <2>1. BatchRoot(Found) \in Roots
    BY <1>6, <1>7, RootTyped
  <2> QED  BY <2>1 DEF NewBatch
<1>9. op'.found = op.found /\ op'.phase = "index"
  BY <1>1, OpParts DEF AnyOp, TamperPhases
<1>10. FoundOnce'
  BY <1>9 DEF TypesInv, FoundOnce
<1> QED  BY <1>1, <1>5, <1>8, <1>10 DEF TypesInv

\* Importing receipts keeps the types.
LEMMA ImportTypes ==
  ASSUME IInv, TypesInv, ImportReceipts
  PROVE  TypesInv'
<1> DEFINE pick(s) == CHOOSE x \in op.found : x[1] = s
<1>1. /\ rows' = [s \in Sessions |-> IF \E x \in op.found : x[1] = s THEN pick(s)[2] ELSE rows[s]]
      /\ op' = [op EXCEPT !.phase = "import_anchors"]
      /\ UNCHANGED <<sealed, anchors>>
  BY DEF ImportReceipts, history
<1>2. \A s : (\E x \in op.found : x[1] = s) => pick(s) \in op.found
  OBVIOUS
<1>3. op.found \in SUBSET (Sessions \X Content)
  BY OpParts
<1> HIDE DEF pick
<1>4. \A s : (\E x \in op.found : x[1] = s) => pick(s)[2] \in Content
  BY <1>2, <1>3
<1>5. rows' \in [Sessions -> Content \cup {Absent}]
  BY <1>1, <1>4 DEF TypesInv
<1>6. op'.found = op.found /\ op'.phase = "import_anchors"
  BY <1>1, OpParts DEF AnyOp, TamperPhases
<1>7. FoundOnce'
  BY <1>6 DEF TypesInv, FoundOnce
<1> QED  BY <1>1, <1>5, <1>7 DEF TypesInv

\* An imported batch has a member, and no more than there are sessions.
LEMMA PairsCount ==
  ASSUME IsFiniteSet(Sessions), DOMAIN index \in SUBSET Sessions, NEW b, PairsOf(b) # {}
  PROVE  Cardinality(PairsOf(b)) \in 1..Cardinality(Sessions)
<1> DEFINE D == b.ids \cap DOMAIN index
           f == [s \in D |-> <<s, index[s].payload>>]
<1>1. D \in SUBSET Sessions
  OBVIOUS
<1>2. IsFiniteSet(D) /\ Cardinality(D) <= Cardinality(Sessions)
  BY <1>1, FS_Subset
<1>3. PairsOf(b) = {f[s] : s \in D} /\ DOMAIN f = D
  BY DEF PairsOf
<1> HIDE DEF f, D
<1>4. IsFiniteSet(PairsOf(b)) /\ Cardinality(PairsOf(b)) <= Cardinality(D)
  BY <1>2, <1>3, CardinalityOfImage
<1>5. /\ Cardinality(PairsOf(b)) \in Nat /\ Cardinality(D) \in Nat /\ Cardinality(Sessions) \in Nat
      /\ Cardinality(PairsOf(b)) # 0
  BY <1>2, <1>4, FS_CardinalityType, FS_EmptySet
<1> QED  BY <1>2, <1>4, <1>5

\* Importing anchors keeps the types.
LEMMA ImportAnchorsTypes ==
  ASSUME IsFiniteSet(Sessions), IInv, TypesInv, ImportAnchors
  PROVE  TypesInv'
<1>1. op' = Idle /\ UNCHANGED <<rows, sealed>>
  BY DEF ImportAnchors, history
<1>2. FoundOnce'
  BY <1>1 DEF FoundOnce, Idle
<1>3. CASE anchors' = anchors
  BY <1>1, <1>2, <1>3 DEF TypesInv
<1>4. CASE anchors' # anchors
  <2>1. /\ {index, batches} \cap Unreadable = {}
        /\ anchors' = {a \in anchors : \A i \in ImportableBatches : ~SameRow(a, batches[i])}
                        \cup {RowAfter(batches[i]) : i \in ImportableBatches}
    BY <1>4 DEF ImportAnchors
  <2>2. DOMAIN index \in SUBSET Sessions /\ batches \in Seq(AnyBatch)
    <3>1. index \notin Unreadable /\ batches \notin Unreadable
      BY <2>1
    <3> QED  BY <3>1, IndexParts DEF IInv, Shape
  <2>3. ASSUME NEW i \in ImportableBatches
        PROVE  /\ RowAfter(batches[i]).count \in 1..Cardinality(Sessions)
               /\ RowAfter(batches[i]).prefix \in Prefixes
    <3> DEFINE b == batches[i]
               old == {a \in anchors : SameRow(a, b)}
    <3>1. i \in DOMAIN batches /\ PairsOf(b) # {}
      BY DEF ImportableBatches
    <3>2. b \in AnyBatch
      BY <2>2, <3>1
    <3> HIDE DEF b
    <3>3. /\ RowAfter(b).prefix = b.prefix
          /\ RowAfter(b).count = IF old = {} THEN Cardinality(PairsOf(b))
                                 ELSE (CHOOSE a \in old : TRUE).count
      BY DEF RowAfter
    <3>4. old \subseteq anchors /\ AnchorTypes(anchors)
      BY DEF TypesInv
    <3> HIDE DEF old
    <3>5. CASE old = {}
      BY <2>2, <3>1, <3>2, <3>3, <3>5, PairsCount DEF AnyBatch, b
    <3>6. CASE old # {}
      <4>1. (CHOOSE a \in old : TRUE) \in old
        BY <3>6
      <4> QED  BY <3>2, <3>3, <3>4, <3>6, <4>1 DEF AnchorTypes, AnyBatch, b
    <3> QED  BY <3>5, <3>6 DEF b
  <2>4. AnchorTypes(anchors')
    BY <2>1, <2>3 DEF AnchorTypes, TypesInv
  <2> QED  BY <1>1, <1>2, <2>4 DEF TypesInv
<1> QED  BY <1>3, <1>4

\* Every step keeps the types, whoever is disturbed.
LEMMA NextTypes ==
  ASSUME IsFiniteSet(Sessions), IInv, RootsSorted, TypesInv, [Next]_vars
  PROVE  TypesInv'
<1>1. CASE UNCHANGED <<op, rows, sealed, anchors>>
  BY <1>1, TypesKept
<1>2. CASE \/ StartImport \/ \E s \in Sessions : StartTamper(s)
           \/ \E prefix \in Prefixes : \/ \E day \in Days : StartAnchorDay(day, prefix)
                                       \/ StartAnchorAllDays(prefix)
  <2>1. PICK cmd, phase, prefix, days, sessions : Start(cmd, phase, prefix, days, sessions)
    BY <1>2 DEF StartImport, StartTamper, StartAnchorDay, StartAnchorAllDays
  <2>2. op'.found = {} /\ UNCHANGED <<rows, sealed, anchors>>
    BY <2>1, StartFound DEF Start, database
  <2> QED  BY <2>2, TypesKept
<1>3. CASE OpLoad \/ OpReadDone \/ OpOpenAnchors \/ OpOpenIndex \/ OpFillIndex
  <2>1. UNCHANGED <<rows, sealed, anchors>>
    BY <1>3 DEF OpLoad, OpReadDone, OpOpenAnchors, OpOpenIndex, OpFillIndex, database, history
  <2>2. op'.found = {} \/ (op'.found = op.found /\ op'.phase # "read")
    <3>1. op \in AnyOp /\ Idle.found = {}
      BY OpParts DEF Idle
    <3>2. CASE OpLoad
      BY <3>1, <3>2 DEF OpLoad, AnyOp, TamperPhases
    <3>3. CASE OpReadDone
      <4>2. op.cmd \in {"day", "all", "import"}
        BY <3>3, OpParts DEF OpReadDone, TamperPhases
      <4>1. \/ op' = Idle
            \/ op' = [op EXCEPT !.phase = "import"] \/ op' = [op EXCEPT !.phase = "anchors"]
            \/ op' = [op EXCEPT !.cmd = "day", !.phase = "load", !.todo = {DayOf[x[2]] : x \in Found}]
        BY <3>3, <4>2 DEF OpReadDone
      <4> QED  BY <3>1, <4>1 DEF AnyOp, TamperPhases
    <3>4. CASE OpOpenAnchors
      BY <3>1, <3>4 DEF OpOpenAnchors, AnyOp, TamperPhases
    <3>5. CASE OpOpenIndex
      BY <3>1, <3>5 DEF OpOpenIndex, AnyOp, TamperPhases
    <3>6. CASE OpFillIndex
      BY <3>1, <3>6 DEF OpFillIndex, AnyOp, TamperPhases
    <3> QED  BY <1>3, <3>2, <3>3, <3>4, <3>5, <3>6
  <2> QED  BY <2>1, <2>2, TypesKept
<1>4. CASE OpStep
  BY <1>3, <1>4, ReadTypes, SealTypes, ImportTypes, ImportAnchorsTypes,
     TamperTypes DEF OpStep
<1>5. CASE UNCHANGED vars
  BY <1>1, <1>5 DEF vars, database, history
<1>6. CASE \E r \in Requests : (\E s \in Sessions, p \in Payloads : Begin(r, s, p)) \/ RequestStep(r)
  BY <1>1, <1>6, PersistTypes DEF Begin, RequestStep, PersistFails, OpenReceipt, FillReceipt,
     LoadIndex, OpenIndex, FillIndex, database, history
<1>7. CASE EnableDatabase \/ CrashServer
  BY <1>1, <1>7 DEF EnableDatabase, CrashServer, database, history
<1>8. CASE CrashOperator
  <2>1. op'.found = {} /\ UNCHANGED <<rows, sealed, anchors>>
    BY <1>8 DEF CrashOperator, database, Idle
  <2> QED  BY <2>1, TypesKept
<1> QED  BY <1>2, <1>4, <1>5, <1>6, <1>7, <1>8 DEF Next

\* They hold at first.
LEMMA InitTypes == Init => TypesInv
<1> SUFFICES ASSUME Init PROVE TypesInv
  OBVIOUS
<1>1. op.found = {} /\ DOMAIN sealed = {} /\ anchors = {}
  BY DEF Init, Idle
<1>2. rows \in [Sessions -> Content \cup {Absent}]
  BY DEF Init
<1> QED  BY <1>1, <1>2 DEF TypesInv, FoundOnce, AnchorTypes

\* Every file holds what its writer writes, or cannot be read.
THEOREM TypeCorrect ==
  ASSUME IsFiniteSet(Sessions)
  PROVE  Spec => []TypeOK
<1>1. Init => TypesInv
  BY InitTypes
<1>2. IInv /\ RootsSorted /\ SerialInv /\ TypesInv /\ [Next]_vars => TypesInv'
  BY NextTypes
<1>3. ASSUME IInv, SerialInv, TypesInv PROVE TypeOK
  <2>1. mode \in {"files", "both", "database"}
    BY <1>3 DEF SerialInv
  <2>2. /\ \A s \in Sessions : files[s] \in Content \cup {Absent} \cup Unreadable
        /\ \A s \in Sessions : rows[s] \in Content \cup {Absent}
    BY <1>3 DEF IInv, Shape, FileStates, TypesInv
  <2>3. index \in Unreadable \/ index \in IndexFiles
    BY <1>3, IndexTyped DEF IInv, Shape, IndexesMarked
  <2>4. batches \in Unreadable \/ \A i \in DOMAIN batches : batches[i] \in Batch
    <3> SUFFICES ASSUME batches \notin Unreadable, NEW i \in DOMAIN batches PROVE batches[i] \in Batch
      OBVIOUS
    <3>1. batches = sealed /\ sealed \in Seq(AnyBatch)
      BY <1>3 DEF IInv, Shape, ReadableAnchorsComplete
    <3>2. sealed[i] \in AnyBatch /\ sealed[i].root \in Roots
      BY <1>3, <3>1 DEF TypesInv
    <3> QED  BY <3>1, <3>2 DEF AnyBatch, Batch
  <2>5. \A a \in anchors : a.count \in 1..Cardinality(Sessions) /\ a.prefix \in Prefixes
    BY <1>3 DEF TypesInv, AnchorTypes
  <2>6. ASSUME NEW r \in Requests PROVE request[r] \in Calls
    <3>1. request[r] \in AnyCall /\ request[r].index \in IndexFiles
      BY <1>3, CallParts, IndexTyped
    <3> QED  BY <3>1 DEF AnyCall, Calls
  <2>7. op.left \subseteq Sessions /\ op.todo \subseteq Days /\ op.index \in IndexFiles
    BY <1>3, OpParts, IndexTyped
  <2> QED  BY <2>1, <2>2, <2>3, <2>4, <2>5, <2>6, <2>7 DEF TypeOK
<1> QED  BY <1>1, <1>2, <1>3, SerialInvariance, PTL DEF Spec
=============================================================================
