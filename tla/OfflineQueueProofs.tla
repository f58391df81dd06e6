------------------------ MODULE OfflineQueueProofs ------------------------
(***************************************************************************)
(* Proofs about OfflineQueue for any number of callers, requests and        *)
(* retries, whether localStorage can be written or not: the types, that a   *)
(* flush takes nothing out of the queue that the server has not applied,    *)
(* and that the server applies a request again only if localStorage did not *)
(* hear of the answer.                                                      *)
(*                                                                          *)
(* What a flush has before it (Pending) is a set of requests, and the      *)
(* lemmas say what loading, putting back and persisting do to that set.    *)
(* From there on the proofs are about sets alone.                           *)
(***************************************************************************)
EXTENDS OfflineQueue, TLAPS

\* No request is in a queue twice.
Distinct(q) == \A i, j \in DOMAIN q : q[i].id = q[j].id => i = j

\* What a flush with queue q, at entry i, has yet to send or has put back in r.
Before(q, i, r) == Ids(r) \cup {q[j].id : j \in i .. Len(q)}
Pending(f) == Before(queue[f], index[f], remaining[f])

\* What holds of the local variables of a flush under way: what it has put back
\* are entries it has passed, each of them once.
Sound(step, q, i, r) ==
    /\ q \in Seq(EntryType) /\ r \in Seq(EntryType)
    /\ i \in 1 .. Len(q) + 1
    /\ step # "loop" => i <= Len(q)
    /\ Distinct(q) /\ Distinct(r)
    /\ \A k \in DOMAIN r : \E j \in 1 .. i - 1 : r[k].id = q[j].id

FlushesSound ==
    \A f \in Flushes : pc[f] # "idle" => Sound(pc[f], queue[f], index[f], remaining[f])

\* isFlushing says that a flush is under way, and there is only one.
OneFlush ==
    /\ isFlushing <=> \E f \in Flushes : pc[f] # "idle"
    /\ \A f, g \in Flushes : pc[f] # "idle" /\ pc[g] # "idle" => f = g

\* The requests that are stored, in localStorage or in the memory of the page; the
\* latter is empty while localStorage can be used.
Kept == Ids(disk) \cup Ids(memory)
MemoryUnused == native => memory = <<>>

\* Only requests that were made are stored, on their way or applied.
OnlyAdded ==
    /\ Kept \subseteq added
    /\ \A f \in Flushes : pc[f] # "idle" => Pending(f) \subseteq added
    /\ \A x \in Items \ added : applied[x] = 0

PendingIsStored ==
    \A f \in Flushes : pc[f] # "idle" =>
        \A x \in Pending(f) : applied[x] = 0 => x \in Kept

\* The request may be sent again: it is stored, or a flush has it before it.
MayBeSent(x) ==
    \/ x \in Kept
    \/ \E f \in Flushes : pc[f] # "idle" /\ x \in Pending(f)

\* Its answer is on the way.
Answering(x) == \E f \in Flushes : pc[f] = "applied" /\ Current(f).id = x

\* A request that may be sent again was not applied but for the answers lost,
\* unless its answer is on the way.
EachAnswered ==
    \A x \in Items :
        /\ applied[x] <= 1 + lost[x]
        /\ MayBeSent(x) /\ ~Answering(x) => applied[x] <= lost[x]

IInv ==
    /\ TypeOK
    /\ FlushesSound
    /\ OneFlush
    /\ MemoryUnused
    /\ OnlyAdded
    /\ PendingIsStored
    /\ EachAnswered

----------------------------------------------------------------------------
\* What the operations do to a queue.

\* An entry at the end adds its request.
LEMMA IdsOfAppend ==
    ASSUME NEW q \in Seq(EntryType), NEW e \in EntryType
    PROVE  /\ Append(q, e) \in Seq(EntryType)
           /\ Ids(Append(q, e)) = Ids(q) \cup {e.id}
           /\ Distinct(q) /\ e.id \notin Ids(q) => Distinct(Append(q, e))
<1> DEFINE p == Append(q, e)
<1>1. p \in Seq(EntryType) /\ Len(p) = Len(q) + 1 /\ DOMAIN p = 1 .. Len(q) + 1
          /\ DOMAIN q = 1 .. Len(q) /\ Len(q) \in Nat
  OBVIOUS
<1>2. \A i \in 1 .. Len(q) : p[i] = q[i]
  OBVIOUS
<1>3. p[Len(q) + 1] = e
  OBVIOUS
<1> HIDE DEF p
<1>4. \A i \in DOMAIN p : i \in 1 .. Len(q) \/ i = Len(q) + 1
  BY <1>1
<1>5. Ids(p) = Ids(q) \cup {e.id}
  <2>1. ASSUME NEW x \in Ids(p) PROVE x \in Ids(q) \cup {e.id}
    <3>1. PICK i \in DOMAIN p : x = p[i].id
      BY DEF Ids
    <3>2. CASE i = Len(q) + 1
      BY <3>1, <3>2, <1>3
    <3>3. CASE i \in 1 .. Len(q)
      BY <3>1, <3>3, <1>1, <1>2 DEF Ids
    <3> QED  BY <3>2, <3>3, <1>4
  <2>2. Ids(q) \subseteq Ids(p)
    <3>1. \A i \in 1 .. Len(q) : i \in DOMAIN p
      BY <1>1
    <3> QED  BY <3>1, <1>1, <1>2 DEF Ids
  <2>3. e.id \in Ids(p)
    <3>1. Len(q) + 1 \in DOMAIN p
      BY <1>1
    <3> QED  BY <3>1, <1>3 DEF Ids
  <2> QED  BY <2>1, <2>2, <2>3
<1>6. ASSUME Distinct(q), e.id \notin Ids(q) PROVE Distinct(p)
  <2> SUFFICES ASSUME NEW i \in DOMAIN p, NEW j \in DOMAIN p, p[i].id = p[j].id
               PROVE  i = j
    BY DEF Distinct
  <2>1. CASE i \in 1 .. Len(q) /\ j \in 1 .. Len(q)
    BY <2>1, <1>1, <1>2, <1>6 DEF Distinct
  <2>2. CASE i \in 1 .. Len(q) /\ j = Len(q) + 1
    BY <2>2, <1>1, <1>2, <1>3, <1>6 DEF Ids
  <2>3. CASE i = Len(q) + 1 /\ j \in 1 .. Len(q)
    BY <2>3, <1>1, <1>2, <1>3, <1>6 DEF Ids
  <2> QED  BY <2>1, <2>2, <2>3, <1>4
<1> QED  BY <1>1, <1>5, <1>6 DEF p

\* The queue without its first d entries.
LEMMA Dropping ==
    ASSUME NEW q \in Seq(EntryType), NEW d \in Nat, d <= Len(q), Len(q) \in Nat
    PROVE  LET p == SubSeq(q, d + 1, Len(q)) IN
           /\ p \in Seq(EntryType) /\ Len(p) = Len(q) - d /\ DOMAIN p = 1 .. Len(q) - d
           /\ \A k \in 1 .. Len(q) - d : p[k] = q[k + d]
OBVIOUS

\* The requests of a queue from entry i on.
LEMMA IdsFrom ==
    ASSUME NEW q \in Seq(EntryType), NEW i \in 1 .. Len(q) + 1
    PROVE  Ids(SubSeq(q, i, Len(q))) \subseteq {q[j].id : j \in i .. Len(q)}
<1> DEFINE d == i - 1
           p == SubSeq(q, i, Len(q))
<1>1. d \in Nat /\ d <= Len(q) /\ Len(q) \in Nat /\ d + 1 = i
  OBVIOUS
<1>2. p = SubSeq(q, d + 1, Len(q))
  BY <1>1
<1> HIDE DEF d, p
<1>3. DOMAIN p = 1 .. Len(q) - d /\ \A k \in 1 .. Len(q) - d : p[k] = q[k + d]
  BY <1>1, <1>2, Dropping
<1>4. \A k \in DOMAIN p : k + d \in i .. Len(q) /\ p[k] = q[k + d]
  BY <1>1, <1>3
<1> QED  BY <1>4 DEF Ids, p

----------------------------------------------------------------------------
\* What the steps of a flush do to what it has before it.

\* A flush begins with what is stored.
LEMMA Starting ==
    ASSUME NEW q \in Seq(EntryType), Distinct(q)
    PROVE  /\ Sound("loop", q, 1, <<>>)
           /\ Before(q, 1, <<>>) = Ids(q)
<1>1. Len(q) \in Nat /\ DOMAIN q = 1 .. Len(q)
  OBVIOUS
<1>2. <<>> \in Seq(EntryType) /\ DOMAIN <<>> = {}
  OBVIOUS
<1>3. Ids(<<>>) = {} /\ Distinct(<<>>)
  BY <1>2 DEF Ids, Distinct
<1>4. 1 \in 1 .. Len(q) + 1
  BY <1>1
<1> QED  BY <1>1, <1>2, <1>3, <1>4 DEF Sound, Before, Ids

\* The entries before and after the current one.
LEMMA Passing ==
    ASSUME NEW q, NEW r, NEW i, NEW step, Sound(step, q, i, r), i <= Len(q)
    PROVE  /\ i \in Nat \ {0} /\ Len(q) \in Nat /\ DOMAIN q = 1 .. Len(q)
           /\ i \in DOMAIN q /\ q[i] \in EntryType
           /\ q[i].id \notin Ids(r)
           /\ q[i].id \notin {q[j].id : j \in i + 1 .. Len(q)}
           /\ {q[j].id : j \in i .. Len(q)}
                  = {q[i].id} \cup {q[j].id : j \in i + 1 .. Len(q)}
           /\ Before(q, i, r) = {q[i].id} \cup Before(q, i + 1, r)
           /\ q[i].id \notin Before(q, i + 1, r)
<1>1. i \in Nat \ {0} /\ Len(q) \in Nat /\ DOMAIN q = 1 .. Len(q)
          /\ i \in DOMAIN q /\ q[i] \in EntryType
  BY DEF Sound
<1>2. q[i].id \notin Ids(r)
  <2> SUFFICES ASSUME NEW k \in DOMAIN r, r[k].id = q[i].id PROVE FALSE
    BY DEF Ids
  <2>1. PICK j \in 1 .. i - 1 : q[i].id = q[j].id
    BY DEF Sound
  <2>2. j \in DOMAIN q /\ j # i
    BY <1>1
  <2> QED  BY <2>1, <2>2, <1>1 DEF Sound, Distinct
<1>3. q[i].id \notin {q[j].id : j \in i + 1 .. Len(q)}
  <2> SUFFICES ASSUME NEW j \in i + 1 .. Len(q), q[i].id = q[j].id PROVE FALSE
    OBVIOUS
  <2>1. j \in DOMAIN q /\ j # i
    BY <1>1
  <2> QED  BY <2>1, <1>1 DEF Sound, Distinct
<1>4. {q[j].id : j \in i .. Len(q)} = {q[i].id} \cup {q[j].id : j \in i + 1 .. Len(q)}
  <2>1. \A j : j \in i .. Len(q) <=> j = i \/ j \in i + 1 .. Len(q)
    BY <1>1
  <2> QED  BY <2>1
<1> QED  BY <1>1, <1>2, <1>3, <1>4 DEF Before

\* An entry that is put back is still before the flush.
LEMMA PuttingBack ==
    ASSUME NEW q, NEW r, NEW i, NEW step, NEW e \in EntryType,
           Sound(step, q, i, r), i <= Len(q), e.id = q[i].id
    PROVE  /\ Sound("loop", q, i + 1, Append(r, e))
           /\ Before(q, i + 1, Append(r, e)) = Before(q, i, r)
<1>1. r \in Seq(EntryType) /\ q \in Seq(EntryType) /\ Distinct(r) /\ Distinct(q)
  BY DEF Sound
<1>2. /\ i \in Nat \ {0} /\ Len(q) \in Nat
      /\ q[i].id \notin Ids(r)
      /\ {q[j].id : j \in i .. Len(q)} = {q[i].id} \cup {q[j].id : j \in i + 1 .. Len(q)}
  BY Passing
<1>3. /\ Append(r, e) \in Seq(EntryType)
      /\ Ids(Append(r, e)) = Ids(r) \cup {e.id}
      /\ Distinct(Append(r, e))
  BY <1>1, <1>2, IdsOfAppend
<1>4. \A k \in DOMAIN Append(r, e) : \E j \in 1 .. i : Append(r, e)[k].id = q[j].id
  <2> TAKE k \in DOMAIN Append(r, e)
  <2>1. Append(r, e)[k].id \in Ids(r) \cup {e.id}
    BY <1>3 DEF Ids
  <2>2. CASE Append(r, e)[k].id = e.id
    BY <2>2, <1>2
  <2>3. CASE Append(r, e)[k].id \in Ids(r)
    <3>1. PICK m \in DOMAIN r : Append(r, e)[k].id = r[m].id
      BY <2>3 DEF Ids
    <3>2. PICK j \in 1 .. i - 1 : r[m].id = q[j].id
      BY DEF Sound
    <3>3. j \in 1 .. i
      BY <1>2
    <3> QED  BY <3>1, <3>2, <3>3
  <2> QED  BY <2>1, <2>2, <2>3
<1>5. i + 1 \in 1 .. Len(q) + 1 /\ (i + 1) - 1 = i
  BY <1>2
<1>6. Sound("loop", q, i + 1, Append(r, e))
  BY <1>1, <1>3, <1>4, <1>5 DEF Sound
<1>7. Before(q, i + 1, Append(r, e)) = Before(q, i, r)
  BY <1>2, <1>3 DEF Before
<1> QED  BY <1>6, <1>7

\* The queue that a flush leaves behind holds what it still has before it.
LEMMA Leaving ==
    ASSUME NEW q, NEW r, NEW i, NEW step, Sound(step, q, i, r), i <= Len(q)
    PROVE  LET rest == r \o SubSeq(q, i + 1, Len(q)) IN
           /\ Sound("loop", q, i + 1, r)
           /\ rest \in Seq(EntryType) /\ Distinct(rest)
           /\ Ids(rest) = Before(q, i + 1, r)
<1> DEFINE t == SubSeq(q, i + 1, Len(q))
           rest == r \o t
<1>1. r \in Seq(EntryType) /\ q \in Seq(EntryType) /\ Distinct(r) /\ Distinct(q)
  BY DEF Sound
<1>2. /\ i \in Nat \ {0} /\ Len(q) \in Nat /\ DOMAIN q = 1 .. Len(q)
      /\ {q[j].id : j \in i .. Len(q)} = {q[i].id} \cup {q[j].id : j \in i + 1 .. Len(q)}
  BY Passing
<1>3. Sound("loop", q, i + 1, r)
  <2>1. i + 1 \in 1 .. Len(q) + 1 /\ (i + 1) - 1 = i
    BY <1>2
  <2>2. \A j \in 1 .. i - 1 : j \in 1 .. i
    BY <1>2
  <2> QED  BY <2>1, <2>2, <1>1 DEF Sound
<1>4. /\ t \in Seq(EntryType) /\ Len(t) = Len(q) - i /\ DOMAIN t = 1 .. Len(q) - i
      /\ \A k \in 1 .. Len(q) - i : t[k] = q[k + i]
  BY <1>1, <1>2, Dropping DEF t
<1> HIDE DEF t
<1>5. Len(r) \in Nat /\ DOMAIN r = 1 .. Len(r)
  BY <1>1
<1>6. /\ rest \in Seq(EntryType) /\ DOMAIN rest = 1 .. Len(r) + Len(t)
      /\ \A k \in 1 .. Len(r) : rest[k] = r[k]
      /\ \A k \in Len(r) + 1 .. Len(r) + Len(t) : rest[k] = t[k - Len(r)]
  BY <1>1, <1>4
<1> HIDE DEF rest
<1>7. \A k \in DOMAIN rest :
          \/ k \in DOMAIN r /\ rest[k] = r[k]
          \/ /\ k - Len(r) + i \in i + 1 .. Len(q)
             /\ k \notin DOMAIN r
             /\ rest[k] = q[k - Len(r) + i]
  <2> TAKE k \in DOMAIN rest
  <2>1. k \in Int
    BY <1>2, <1>4, <1>5, <1>6
  <2>2. CASE k <= Len(r)
    BY <2>1, <2>2, <1>5, <1>6, <1>2, <1>4
  <2>3. CASE k > Len(r)
    <3>1. k \in Len(r) + 1 .. Len(r) + Len(t) /\ k - Len(r) \in 1 .. Len(q) - i
      BY <2>1, <2>3, <1>2, <1>4, <1>5, <1>6
    <3>2. rest[k] = t[k - Len(r)] /\ t[k - Len(r)] = q[(k - Len(r)) + i]
      BY <3>1, <1>4, <1>6
    <3>3. k - Len(r) + i \in i + 1 .. Len(q) /\ k \notin DOMAIN r
      BY <3>1, <2>1, <2>3, <1>2, <1>5
    <3> QED  BY <3>2, <3>3
  <2> QED  BY <2>1, <2>2, <2>3, <1>5
<1>8. Ids(rest) = Before(q, i + 1, r)
  <2>1. Ids(rest) \subseteq Before(q, i + 1, r)
    BY <1>7 DEF Ids, Before
  <2>2. Ids(r) \subseteq Ids(rest)
    <3>1. \A k \in DOMAIN r : k \in DOMAIN rest /\ rest[k] = r[k]
      BY <1>2, <1>4, <1>5, <1>6
    <3> QED  BY <3>1 DEF Ids
  <2>3. ASSUME NEW j \in i + 1 .. Len(q) PROVE q[j].id \in Ids(rest)
    <3>1. /\ j - i \in 1 .. Len(q) - i
          /\ j - i + Len(r) \in Len(r) + 1 .. Len(r) + Len(t)
          /\ j - i + Len(r) \in DOMAIN rest
          /\ (j - i + Len(r)) - Len(r) = j - i
          /\ (j - i) + i = j
      BY <1>2, <1>4, <1>5, <1>6
    <3>2. rest[j - i + Len(r)] = q[j]
      BY <3>1, <1>4, <1>6
    <3> QED  BY <3>1, <3>2 DEF Ids
  <2> QED  BY <2>1, <2>2, <2>3 DEF Before
<1>9. Distinct(rest)
  <2> SUFFICES ASSUME NEW k \in DOMAIN rest, NEW m \in DOMAIN rest, rest[k].id = rest[m].id
               PROVE  k = m
    BY DEF Distinct
  <2>1. \A n \in DOMAIN r, j \in i + 1 .. Len(q) : r[n].id # q[j].id
    <3> TAKE n \in DOMAIN r, j \in i + 1 .. Len(q)
    <3>1. PICK o \in 1 .. i - 1 : r[n].id = q[o].id
      BY DEF Sound
    <3>2. o \in DOMAIN q /\ j \in DOMAIN q /\ o # j
      BY <1>2
    <3> QED  BY <3>1, <3>2, <1>1 DEF Distinct
  <2>2. CASE k \in DOMAIN r /\ m \in DOMAIN r
    BY <2>2, <1>1, <1>7 DEF Distinct
  <2>3. CASE k \notin DOMAIN r /\ m \notin DOMAIN r
    <3>1. q[k - Len(r) + i].id = q[m - Len(r) + i].id
      BY <2>3, <1>7
    <3>2. k - Len(r) + i \in DOMAIN q /\ m - Len(r) + i \in DOMAIN q
      <4>1. k - Len(r) + i \in i + 1 .. Len(q) /\ m - Len(r) + i \in i + 1 .. Len(q)
        BY <2>3, <1>7
      <4> QED  BY <4>1, <1>2
    <3>3. k - Len(r) + i = m - Len(r) + i
      BY <3>1, <3>2, <1>1 DEF Distinct
    <3>4. k \in Int /\ m \in Int
      BY <1>2, <1>4, <1>5, <1>6
    <3> QED  BY <3>3, <3>4, <1>2, <1>5
  <2>4. CASE k \in DOMAIN r /\ m \notin DOMAIN r
    BY <2>4, <2>1, <1>7
  <2>5. CASE k \notin DOMAIN r /\ m \in DOMAIN r
    BY <2>5, <2>1, <1>7
  <2> QED  BY <2>2, <2>3, <2>4, <2>5
<1> QED  BY <1>3, <1>6, <1>8, <1>9 DEF rest, t

----------------------------------------------------------------------------
\* The steps preserve IInv.

\* The injection of TypeOK says that the stored requests are distinct.
LEMMA StoredDistinct ==
    ASSUME NEW q
    PROVE  IsInjective([i \in DOMAIN q |-> q[i].id]) <=> Distinct(q)
<1> DEFINE ids == [i \in DOMAIN q |-> q[i].id]
<1>1. DOMAIN ids = DOMAIN q /\ \A i \in DOMAIN q : ids[i] = q[i].id
  OBVIOUS
<1> HIDE DEF ids
<1>2. IsInjective(ids) <=> \A i, j \in DOMAIN ids : ids[i] = ids[j] => i = j
  BY DEF IsInjective
<1>3. IsInjective(ids) <=> Distinct(q)
  BY <1>1, <1>2 DEF Distinct
<1> QED  BY <1>3 DEF ids

\* The empty queue.
LEMMA EmptyQueue == QueueType(<<>>) /\ Ids(<<>>) = {}
<1>1. <<>> \in Seq(EntryType) /\ DOMAIN <<>> = {}
  OBVIOUS
<1>2. Distinct(<<>>) /\ Ids(<<>>) = {}
  BY <1>1 DEF Distinct, Ids
<1> QED  BY <1>1, <1>2, StoredDistinct DEF QueueType

\* What getItem answers is a queue, and part of what is stored.
LEMMA Reading ==
    ASSUME IInv
    PROVE  Stored \in Seq(EntryType) /\ Distinct(Stored) /\ Ids(Stored) \subseteq Kept
<1>1. CASE native
  <2>1. Stored = disk
    BY <1>1 DEF Stored
  <2> QED  BY <2>1, StoredDistinct DEF IInv, TypeOK, QueueType, Kept
<1>2. CASE ~native
  <2>1. Stored = memory
    BY <1>2 DEF Stored
  <2> QED  BY <2>1, StoredDistinct DEF IInv, TypeOK, QueueType, Kept
<1> QED  BY <1>1, <1>2

\* What saveQueue does to the stored requests, wherever it writes them.
LEMMA Saving ==
    ASSUME IInv, NEW q \in Seq(EntryType), Distinct(q), SaveQueue(q)
    PROVE  /\ QueueType(disk') /\ QueueType(memory') /\ native' \in BOOLEAN
           /\ MemoryUnused'
           /\ Ids(q) \subseteq Kept'
           /\ Kept' \subseteq Ids(disk) \cup Ids(q)
           /\ Ids(memory') \subseteq Ids(q)
           /\ Ids(Stored) \subseteq Ids(q) => Kept \subseteq Kept'
<1>1. QueueType(disk) /\ QueueType(memory) /\ native \in BOOLEAN
  BY DEF IInv, TypeOK
<1>2. QueueType(q)
  BY StoredDistinct DEF QueueType
<1>3. native => Ids(memory) = {}
  BY DEF IInv, MemoryUnused, Ids
<1>4. CASE native /\ disk' = q /\ UNCHANGED <<memory, native>>
  <2>1. Stored = disk /\ Kept = Ids(disk) /\ Kept' = Ids(q)
    BY <1>3, <1>4 DEF Stored, Kept
  <2> QED  BY <2>1, <1>1, <1>2, <1>3, <1>4 DEF IInv, MemoryUnused
<1>5. CASE native /\ memory' = q /\ native' = FALSE /\ UNCHANGED disk
  <2>1. Kept = Ids(disk) /\ Kept' = Ids(disk) \cup Ids(q)
    BY <1>3, <1>5 DEF Kept
  <2> QED  BY <2>1, <1>1, <1>2, <1>5 DEF MemoryUnused
<1>6. CASE ~native /\ memory' = q /\ UNCHANGED <<disk, native>>
  <2>1. Stored = memory /\ Kept' = Ids(disk) \cup Ids(q)
    BY <1>6 DEF Stored, Kept
  <2> QED  BY <2>1, <1>1, <1>2, <1>6 DEF MemoryUnused, Kept
<1> QED  BY <1>4, <1>5, <1>6 DEF SaveQueue

\* A step of the flush under way that keeps what it has before it among what it
\* had, and leaves the queue so that each request is answered.
LEMMA FlushStep ==
    ASSUME IInv, TypeOK', MemoryUnused', NEW f \in Flushes,
           pc[f] # "idle", pc'[f] # "idle", \A g \in Flushes \ {f} : pc'[g] = pc[g],
           isFlushing' = isFlushing, added' = added,
           Sound(pc'[f], queue'[f], index'[f], remaining'[f]),
           Pending(f)' \subseteq Pending(f),
           Kept' \subseteq Kept \cup Pending(f),
           Kept' = Kept \/ Pending(f)' \subseteq Kept',
           \A x \in Items :
               /\ applied[x] <= applied'[x]
               /\ x \notin added => applied'[x] = 0
               /\ applied'[x] <= 1 + lost'[x],
           ASSUME NEW x \in Items, x \in Kept' \cup Pending(f)',
                  ~(pc'[f] = "applied" /\ (Current(f).id)' = x),
                  ~(pc[f] = "applied" /\ Current(f).id = x) => applied[x] <= lost[x]
           PROVE  applied'[x] <= lost'[x]
    PROVE  IInv'
<1>1. \A g \in Flushes : pc[g] # "idle" => g = f
  BY DEF IInv, OneFlush
<1>2. \A g \in Flushes : pc'[g] # "idle" => g = f
  BY <1>1
<1>3. OneFlush'
  BY <1>2 DEF IInv, OneFlush
<1>4. FlushesSound'
  BY <1>2 DEF FlushesSound
<1>5. OnlyAdded'
  <2>1. Kept \cup Pending(f) \subseteq added
    BY DEF IInv, OnlyAdded
  <2> QED  BY <2>1, <1>2 DEF OnlyAdded
<1>6. PendingIsStored'
  <2> SUFFICES ASSUME NEW x \in Pending(f)', applied'[x] = 0
               PROVE  x \in Kept'
    BY <1>2 DEF PendingIsStored
  <2>1. x \in Pending(f) /\ x \in Items
    BY DEF IInv, OnlyAdded, TypeOK
  <2>2. applied[x] = 0
    BY <2>1 DEF IInv, TypeOK
  <2>3. x \in Kept
    BY <2>1, <2>2 DEF IInv, PendingIsStored
  <2> QED  BY <2>3
<1>7. EachAnswered'
  <2> SUFFICES ASSUME NEW x \in Items, MayBeSent(x)', ~Answering(x)'
               PROVE  applied'[x] <= lost'[x]
    BY DEF EachAnswered
  <2>1. x \in Kept' \cup Pending(f)'
    BY <1>2 DEF MayBeSent
  <2>2. ~(pc'[f] = "applied" /\ (Current(f).id)' = x)
    BY DEF Answering
  <2>3. MayBeSent(x)
    BY <2>1 DEF MayBeSent
  <2>4. ASSUME ~(pc[f] = "applied" /\ Current(f).id = x) PROVE applied[x] <= lost[x]
    <3>1. ~Answering(x)
      BY <2>4, <1>1 DEF Answering
    <3> QED  BY <2>3, <3>1 DEF IInv, EachAnswered
  <2> QED  BY <2>1, <2>2, <2>4
<1> QED  BY <1>3, <1>4, <1>5, <1>6, <1>7 DEF IInv

\* The current entry of a flush that is not at its end.
LEMMA AtCurrent ==
    ASSUME IInv, NEW f \in Flushes, pc[f] # "idle", index[f] <= Len(queue[f])
    PROVE  /\ Sound(pc[f], queue[f], index[f], remaining[f])
           /\ Current(f) \in EntryType /\ Current(f).id \in Items
           /\ Current(f).id \in Pending(f)
           /\ Current(f).id \in added
<1>1. Sound(pc[f], queue[f], index[f], remaining[f])
  BY DEF IInv, FlushesSound
<1>2. Current(f) \in EntryType /\ Current(f).id \in Pending(f)
  BY <1>1, Passing DEF Current, Pending
<1> QED  BY <1>1, <1>2 DEF IInv, OnlyAdded, EntryType

\* addToQueue.
LEMMA AddStep ==
    ASSUME IInv, NEW x \in Items, Add(x)
    PROVE  IInv'
<1> DEFINE e == [id |-> x, retries |-> 0, waits |-> FALSE]
<1>1. /\ x \notin added /\ added' = added \cup {x}
      /\ SaveQueue(Append(Stored, e))
      /\ UNCHANGED <<applied, lost, isFlushing, pc, queue, index, remaining>>
  BY DEF Add, page
<1>2. e \in EntryType /\ e.id = x
  BY QueueAssumption DEF EntryType, QueueAssumption
<1> HIDE DEF e
<1>3. /\ Stored \in Seq(EntryType) /\ Distinct(Stored) /\ Ids(Stored) \subseteq Kept
      /\ x \notin Ids(Stored)
  BY <1>1, Reading DEF IInv, OnlyAdded
<1>4. /\ Append(Stored, e) \in Seq(EntryType) /\ Distinct(Append(Stored, e))
      /\ Ids(Append(Stored, e)) = Ids(Stored) \cup {x}
  BY <1>2, <1>3, IdsOfAppend
<1>5. /\ QueueType(disk') /\ QueueType(memory') /\ native' \in BOOLEAN
      /\ MemoryUnused'
      /\ Kept' \subseteq Ids(disk) \cup Ids(Stored) \cup {x}
      /\ Kept \subseteq Kept'
  BY <1>1, <1>4, Saving
<1>6. Kept' \subseteq Kept \cup {x}
  BY <1>3, <1>5 DEF Kept
<1>7. TypeOK'
  BY <1>1, <1>5 DEF IInv, TypeOK
<1>8. \A f \in Flushes : Pending(f)' = Pending(f) /\ Current(f)' = Current(f)
  BY <1>1 DEF Pending, Current
<1>9. FlushesSound' /\ OneFlush'
  BY <1>1 DEF IInv, FlushesSound, OneFlush
<1>10. OnlyAdded'
  BY <1>1, <1>6, <1>8 DEF IInv, OnlyAdded
<1>11. PendingIsStored'
  BY <1>1, <1>5, <1>8 DEF IInv, PendingIsStored
<1>12. EachAnswered'
  <2> SUFFICES ASSUME NEW y \in Items, MayBeSent(y)', ~Answering(y)'
               PROVE  applied[y] <= lost[y]
    BY <1>1 DEF EachAnswered, IInv
  <2>1. CASE y = x
    BY <2>1, <1>1 DEF IInv, OnlyAdded, TypeOK
  <2>2. CASE y # x
    BY <2>2, <1>1, <1>6, <1>8 DEF IInv, EachAnswered, MayBeSent, Answering
  <2> QED  BY <2>1, <2>2
<1> QED  BY <1>5, <1>7, <1>9, <1>10, <1>11, <1>12 DEF IInv

\* A step that changes neither the requests stored nor any flush.
LEMMA SameQueueStep ==
    ASSUME IInv, TypeOK', MemoryUnused', Kept' = Kept,
           UNCHANGED <<added, applied, lost, isFlushing, pc, queue, index, remaining>>
    PROVE  IInv'
<1>1. \A f \in Flushes : Pending(f)' = Pending(f) /\ Current(f)' = Current(f)
  BY DEF Pending, Current
<1>2. FlushesSound' /\ OneFlush'
  BY DEF IInv, FlushesSound, OneFlush
<1>3. OnlyAdded' /\ PendingIsStored'
  BY <1>1 DEF IInv, OnlyAdded, PendingIsStored
<1>4. \A x : (MayBeSent(x)' <=> MayBeSent(x)) /\ (Answering(x)' <=> Answering(x))
  BY <1>1 DEF MayBeSent, Answering
<1>5. EachAnswered'
  BY <1>4 DEF IInv, EachAnswered
<1> QED  BY <1>2, <1>3, <1>5 DEF IInv

\* retryFailedRequests changes entries in place.
LEMMA RetryStep ==
    ASSUME IInv, RetryFailed
    PROVE  IInv'
<1> DEFINE s == Stored
           e(i) == IF s[i].retries = MaxRetries
                   THEN [s[i] EXCEPT !.retries = MaxRetries - 1, !.waits = FALSE]
                   ELSE s[i]
           q == [i \in DOMAIN s |-> e(i)]
<1>1. /\ SaveQueue(q)
      /\ UNCHANGED <<added, applied, lost, isFlushing, pc, queue, index, remaining>>
  BY DEF RetryFailed, page
<1>2. s \in Seq(EntryType) /\ Distinct(s) /\ Ids(s) \subseteq Kept /\ s = Stored
  BY Reading
<1> HIDE DEF s
<1>3. ASSUME NEW i \in DOMAIN s PROVE e(i) \in EntryType /\ e(i).id = s[i].id
  <2>1. s[i] \in EntryType
    BY <1>2
  <2>2. MaxRetries - 1 \in 0 .. MaxRetries
    BY QueueAssumption DEF QueueAssumption
  <2>3. \A r \in EntryType :
            LET n == [r EXCEPT !.retries = MaxRetries - 1, !.waits = FALSE]
            IN  n \in EntryType /\ n.id = r.id
    BY <2>2 DEF EntryType
  <2> QED  BY <2>1, <2>3
<1> HIDE DEF e
<1>4. /\ q \in Seq(EntryType) /\ DOMAIN q = DOMAIN s
      /\ \A i \in DOMAIN s : q[i].id = s[i].id
  <2>1. DOMAIN s = 1 .. Len(s) /\ Len(s) \in Nat
    BY <1>2
  <2> QED  BY <2>1, <1>3
<1> HIDE DEF q
<1>5. Distinct(q) /\ Ids(q) = Ids(s)
  BY <1>2, <1>4 DEF Distinct, Ids
<1>6. /\ QueueType(disk') /\ QueueType(memory') /\ native' \in BOOLEAN
      /\ MemoryUnused'
      /\ Kept' \subseteq Ids(disk) \cup Ids(s)
      /\ Kept \subseteq Kept'
  BY <1>1, <1>2, <1>4, <1>5, Saving
<1>7. TypeOK'
  BY <1>1, <1>6 DEF IInv, TypeOK
<1>8. Kept' = Kept
  BY <1>2, <1>6 DEF Kept
<1> QED  BY <1>1, <1>6, <1>7, <1>8, SameQueueStep

\* The page turns to its memory, where nothing is yet.
LEMMA OtherWriteFailsStep ==
    ASSUME IInv, OtherWriteFails
    PROVE  IInv'
<1>1. /\ native' = FALSE
      /\ UNCHANGED <<disk, memory, added, applied, lost, isFlushing, pc, queue, index,
                     remaining>>
  BY DEF OtherWriteFails, page
<1>2. TypeOK' /\ MemoryUnused' /\ Kept' = Kept
  BY <1>1 DEF IInv, TypeOK, MemoryUnused, Kept
<1> QED  BY <1>1, <1>2, SameQueueStep

\* flushQueue begins with the stored queue, and alone.
LEMMA StartStep ==
    ASSUME IInv, NEW f \in Flushes, Start(f)
    PROVE  IInv'
<1>1. /\ pc[f] = "idle" /\ isFlushing = FALSE /\ isFlushing' = TRUE
      /\ pc' = [pc EXCEPT ![f] = "loop"]
      /\ queue' = [queue EXCEPT ![f] = Stored]
      /\ index' = [index EXCEPT ![f] = 1]
      /\ remaining' = [remaining EXCEPT ![f] = <<>>]
      /\ UNCHANGED <<disk, memory, native, added, applied, lost>>
  BY DEF Start, MayStart, storage, IInv, TypeOK
<1>2. /\ Stored \in Seq(EntryType) /\ Distinct(Stored)
      /\ Ids(Stored) \subseteq Kept /\ Kept' = Kept /\ MemoryUnused'
  BY <1>1, Reading DEF Kept, IInv, MemoryUnused
<1>3. \A g \in Flushes : pc[g] = "idle"
  BY <1>1 DEF IInv, OneFlush
<1>4. TypeOK'
  BY <1>1, <1>2 DEF IInv, TypeOK
<1>5. TypeOK
  BY DEF IInv
<1>6.
      /\ pc'[f] = "loop" /\ queue'[f] = Stored /\ index'[f] = 1 /\ remaining'[f] = <<>>
      /\ \A g \in Flushes : pc'[g] # "idle" => g = f
  BY <1>1, <1>3, <1>5 DEF TypeOK
<1>7. Sound("loop", Stored, 1, <<>>) /\ Pending(f)' = Ids(Stored)
  BY <1>2, <1>6, Starting DEF Pending
<1>8. FlushesSound'
  BY <1>6, <1>7 DEF FlushesSound
<1>9. OneFlush'
  BY <1>1, <1>6 DEF OneFlush
<1>10. OnlyAdded' /\ PendingIsStored'
  BY <1>1, <1>2, <1>6, <1>7 DEF IInv, OnlyAdded, PendingIsStored
<1>11. \A x : (MayBeSent(x)' => MayBeSent(x)) /\ ~Answering(x)
  BY <1>1, <1>2, <1>3, <1>6, <1>7 DEF MayBeSent, Answering
<1>12. EachAnswered'
  BY <1>1, <1>11 DEF IInv, EachAnswered
<1> QED  BY <1>2, <1>4, <1>8, <1>9, <1>10, <1>12 DEF IInv

\* Going on to the next entry after one that is put back.
LEMMA PutBackStep ==
    ASSUME IInv, NEW f \in Flushes, pc[f] # "idle", index[f] <= Len(queue[f]),
           NEW e \in EntryType, e.id = Current(f).id,
           Advance(f), remaining' = [remaining EXCEPT ![f] = Append(@, e)],
           UNCHANGED <<disk, memory, native, added, applied, isFlushing, queue>>,
           lost' \in [Items -> Nat],
           \A x \in Items : lost[x] <= lost'[x],
           pc[f] = "applied" => lost[Current(f).id] < lost'[Current(f).id]
    PROVE  IInv'
<1>1. TypeOK
  BY DEF IInv
<1>2. /\ Sound(pc[f], queue[f], index[f], remaining[f])
      /\ Current(f) \in EntryType /\ Current(f).id \in Items
  BY AtCurrent
<1>3. /\ Sound("loop", queue[f], index[f] + 1, Append(remaining[f], e))
      /\ Before(queue[f], index[f] + 1, Append(remaining[f], e)) = Pending(f)
  BY <1>2, PuttingBack DEF Current, Pending
<1>4. /\ pc' = [pc EXCEPT ![f] = "loop"]
      /\ index' = [index EXCEPT ![f] = index[f] + 1]
      /\ remaining' = [remaining EXCEPT ![f] = Append(remaining[f], e)]
  BY DEF Advance
<1>5. /\ pc'[f] = "loop" /\ queue'[f] = queue[f] /\ index'[f] = index[f] + 1
      /\ remaining'[f] = Append(remaining[f], e)
      /\ \A g \in Flushes \ {f} : pc'[g] = pc[g]
  BY <1>1, <1>4 DEF TypeOK
<1>6. TypeOK'
  <2>1. index[f] + 1 \in Nat /\ Append(remaining[f], e) \in Seq(EntryType)
    BY <1>1 DEF TypeOK
  <2> QED  BY <2>1, <1>1, <1>4 DEF TypeOK
<1>7. Sound(pc'[f], queue'[f], index'[f], remaining'[f]) /\ Pending(f)' = Pending(f)
  BY <1>3, <1>5 DEF Pending
<1>8. \A x \in Items :
          /\ applied[x] <= applied'[x]
          /\ x \notin added => applied'[x] = 0
          /\ applied'[x] <= 1 + lost'[x]
  <2> TAKE x \in Items
  <2>1. applied[x] \in Nat /\ lost[x] \in Nat /\ lost'[x] \in Nat /\ lost[x] <= lost'[x]
    BY <1>1 DEF TypeOK
  <2>2. applied[x] <= 1 + lost[x] /\ (x \notin added => applied[x] = 0)
    BY DEF IInv, EachAnswered, OnlyAdded
  <2> QED  BY <2>1, <2>2
<1>9. ASSUME NEW x \in Items, x \in Kept' \cup Pending(f)',
             ~(pc[f] = "applied" /\ Current(f).id = x) => applied[x] <= lost[x]
      PROVE  applied'[x] <= lost'[x]
  <2>1. applied[x] \in Nat /\ lost[x] \in Nat /\ lost'[x] \in Nat /\ lost[x] <= lost'[x]
    BY <1>1 DEF TypeOK
  <2>2. applied[x] <= 1 + lost[x]
    BY DEF IInv, EachAnswered
  <2>3. CASE pc[f] = "applied" /\ Current(f).id = x
    BY <2>1, <2>2, <2>3
  <2>4. CASE ~(pc[f] = "applied" /\ Current(f).id = x)
    BY <2>1, <2>4, <1>9
  <2> QED  BY <2>3, <2>4
<1>10. Kept' = Kept /\ MemoryUnused'
  BY DEF Kept, IInv, MemoryUnused
<1> QED  BY <1>5, <1>6, <1>7, <1>8, <1>9, <1>10, FlushStep

\* An entry that is not due.
LEMMA SkipStep ==
    ASSUME IInv, NEW f \in Flushes, Skip(f)
    PROVE  IInv'
<1>1. /\ pc[f] = "loop" /\ index[f] <= Len(queue[f]) /\ Advance(f)
      /\ remaining' = [remaining EXCEPT ![f] = Append(@, Current(f))]
      /\ UNCHANGED <<disk, memory, native, added, applied, isFlushing, queue>>
      /\ lost' = lost
  BY DEF Skip, InLoop, storage
<1>2. Current(f) \in EntryType
  BY <1>1, AtCurrent
<1>3. lost' \in [Items -> Nat] /\ \A x \in Items : lost[x] <= lost'[x]
  BY <1>1 DEF IInv, TypeOK
<1> QED  BY <1>1, <1>2, <1>3, PutBackStep

\* The entry that the catch branch puts back.
LEMMA PutBackEntry ==
    ASSUME IInv, NEW f \in Flushes, Current(f) \in EntryType, PutBack(f)
    PROVE  \E e \in EntryType :
               /\ e.id = Current(f).id
               /\ remaining' = [remaining EXCEPT ![f] = Append(@, e)]
<1> DEFINE n == Current(f).retries
           e == [id |-> Current(f).id, waits |-> TRUE,
                 retries |-> IF n < MaxRetries THEN n + 1 ELSE n]
<1>1. Current(f).id \in Items /\ n \in 0 .. MaxRetries /\ MaxRetries \in Nat
  BY QueueAssumption DEF EntryType, QueueAssumption
<1>2. e \in EntryType /\ e.id = Current(f).id
  <2>1. (IF n < MaxRetries THEN n + 1 ELSE n) \in 0 .. MaxRetries
    BY <1>1
  <2> HIDE DEF n
  <2> QED  BY <2>1, <1>1 DEF EntryType
<1>3. remaining' = [remaining EXCEPT ![f] = Append(@, e)]
  BY DEF PutBack
<1> QED  BY <1>2, <1>3

\* The server refuses the request or is not reached.
LEMMA FailStep ==
    ASSUME IInv, NEW f \in Flushes, Fail(f)
    PROVE  IInv'
<1>1. /\ pc[f] = "sent" /\ Advance(f) /\ PutBack(f)
      /\ UNCHANGED <<disk, memory, native, added, applied, isFlushing, queue>>
      /\ lost' = lost
  BY DEF Fail, storage
<1>2. index[f] <= Len(queue[f])
  BY <1>1 DEF IInv, FlushesSound, Sound
<1>3. PICK e \in EntryType : /\ e.id = Current(f).id
                             /\ remaining' = [remaining EXCEPT ![f] = Append(@, e)]
  BY <1>1, <1>2, AtCurrent, PutBackEntry
<1>4. lost' \in [Items -> Nat] /\ \A x \in Items : lost[x] <= lost'[x]
  BY <1>1 DEF IInv, TypeOK
<1> QED  BY <1>1, <1>2, <1>3, <1>4, PutBackStep

\* The request is applied and its answer lost.
LEMMA LoseAnswerStep ==
    ASSUME IInv, NEW f \in Flushes, LoseAnswer(f)
    PROVE  IInv'
<1>1. /\ pc[f] = "applied" /\ Advance(f) /\ PutBack(f)
      /\ lost' = [lost EXCEPT ![Current(f).id] = @ + 1]
      /\ UNCHANGED <<disk, memory, native, added, applied, isFlushing, queue>>
  BY DEF LoseAnswer, storage
<1>2. index[f] <= Len(queue[f])
  BY <1>1 DEF IInv, FlushesSound, Sound
<1>3. PICK e \in EntryType : /\ e.id = Current(f).id
                             /\ remaining' = [remaining EXCEPT ![f] = Append(@, e)]
  BY <1>1, <1>2, AtCurrent, PutBackEntry
<1>4. Current(f).id \in Items
  BY <1>1, <1>2, AtCurrent
<1>5. /\ lost' \in [Items -> Nat] /\ \A x \in Items : lost[x] <= lost'[x]
      /\ lost[Current(f).id] < lost'[Current(f).id]
  BY <1>1, <1>4 DEF IInv, TypeOK
<1> QED  BY <1>1, <1>2, <1>3, <1>5, PutBackStep

\* The request is sent, or applied by the server.
LEMMA SendStep ==
    ASSUME IInv, NEW f \in Flushes, Send(f) \/ Apply(f)
    PROVE  IInv'
<1>1. TypeOK
  BY DEF IInv
<1>2. /\ pc[f] # "idle" /\ index[f] <= Len(queue[f]) /\ pc[f] # "applied"
      /\ UNCHANGED <<disk, memory, native, added, lost, isFlushing, queue, index, remaining>>
      /\ \/ pc' = [pc EXCEPT ![f] = "sent"] /\ applied' = applied
         \/ /\ pc' = [pc EXCEPT ![f] = "applied"]
            /\ applied' = [applied EXCEPT ![Current(f).id] = @ + 1]
  <2>1. CASE Send(f)
    BY <2>1 DEF Send, InLoop, storage
  <2>2. CASE Apply(f)
    BY <2>2 DEF Apply, storage, IInv, FlushesSound, Sound
  <2> QED  BY <2>1, <2>2
<1>3. /\ Sound(pc[f], queue[f], index[f], remaining[f])
      /\ Current(f).id \in Items /\ Current(f).id \in added
      /\ Current(f).id \in Pending(f)
  BY <1>2, AtCurrent
<1>4. /\ pc'[f] \in {"sent", "applied"}
      /\ pc' \in [Flushes -> {"idle", "loop", "sent", "applied"}]
      /\ \A g \in Flushes \ {f} : pc'[g] = pc[g]
      /\ Pending(f)' = Pending(f) /\ Current(f)' = Current(f)
  BY <1>1, <1>2 DEF TypeOK, Pending, Current
<1>5. /\ applied' \in [Items -> Nat]
      /\ \A x \in Items :
             /\ applied[x] \in Nat /\ lost[x] \in Nat
             /\ \/ applied'[x] = applied[x]
                \/ applied'[x] = applied[x] + 1 /\ x = Current(f).id /\ pc'[f] = "applied"
  <2>1. /\ applied \in [Items -> Nat] /\ lost \in [Items -> Nat]
        /\ pc \in [Flushes -> {"idle", "loop", "sent", "applied"}]
    BY <1>1 DEF TypeOK
  <2>2. CASE applied' = applied
    BY <2>1, <2>2
  <2>3. CASE /\ pc' = [pc EXCEPT ![f] = "applied"]
             /\ applied' = [applied EXCEPT ![Current(f).id] = @ + 1]
    <3>1. pc'[f] = "applied"
      BY <2>1, <2>3
    <3> DEFINE x0 == Current(f).id
    <3>2. applied' = [applied EXCEPT ![x0] = @ + 1] /\ x0 \in Items
      BY <2>3, <1>3
    <3> HIDE DEF x0
    <3>3. /\ applied' \in [Items -> Nat]
          /\ \A x \in Items : applied'[x] = IF x = x0 THEN applied[x] + 1 ELSE applied[x]
      BY <2>1, <3>2
    <3> QED  BY <2>1, <3>1, <3>3 DEF x0
  <2> QED  BY <2>2, <2>3, <1>2
<1>6. TypeOK'
  BY <1>1, <1>2, <1>4, <1>5 DEF TypeOK
<1>7. Sound(pc'[f], queue'[f], index'[f], remaining'[f])
  BY <1>2, <1>3 DEF Sound
<1>8. applied[Current(f).id] <= lost[Current(f).id]
  <2>1. MayBeSent(Current(f).id)
    BY <1>2, <1>3 DEF MayBeSent
  <2>2. ~Answering(Current(f).id)
    BY <1>2 DEF IInv, OneFlush, Answering
  <2> QED  BY <2>1, <2>2, <1>3 DEF IInv, EachAnswered
<1>9. \A x \in Items :
          /\ applied[x] <= applied'[x]
          /\ x \notin added => applied'[x] = 0
          /\ applied'[x] <= 1 + lost'[x]
  <2> TAKE x \in Items
  <2>1. applied[x] <= 1 + lost[x] /\ (x \notin added => applied[x] = 0)
    BY DEF IInv, EachAnswered, OnlyAdded
  <2> QED  BY <2>1, <1>2, <1>3, <1>5, <1>8
<1>10. ASSUME NEW x \in Items, ~(pc'[f] = "applied" /\ (Current(f).id)' = x),
              ~(pc[f] = "applied" /\ Current(f).id = x) => applied[x] <= lost[x]
       PROVE  applied'[x] <= lost'[x]
  BY <1>2, <1>4, <1>5, <1>10
<1>11. Kept' = Kept /\ MemoryUnused'
  BY <1>2 DEF Kept, IInv, MemoryUnused
<1> QED  BY <1>2, <1>4, <1>6, <1>7, <1>9, <1>10, <1>11, FlushStep

\* The answer arrives, and the queue is stored without the entry.
LEMMA SucceedStep ==
    ASSUME IInv, NEW f \in Flushes, Succeed(f)
    PROVE  IInv'
<1> DEFINE rest == ToPersist(f)
           x0 == Current(f).id
<1>1. TypeOK
  BY DEF IInv
<1>2. /\ pc[f] = "applied" /\ SaveQueue(rest)
      /\ pc' = [pc EXCEPT ![f] = "loop"]
      /\ index' = [index EXCEPT ![f] = index[f] + 1]
      /\ lost' = [lost EXCEPT ![x0] = IF x0 \in Ids(disk') THEN lost[x0] + 1 ELSE lost[x0]]
      /\ UNCHANGED <<added, applied, isFlushing, queue, remaining>>
  BY DEF Succeed, Advance
<1>3. index[f] <= Len(queue[f])
  BY <1>2 DEF IInv, FlushesSound, Sound
<1>4. Sound(pc[f], queue[f], index[f], remaining[f]) /\ x0 \in Items
  BY <1>2, <1>3, AtCurrent
<1>5. /\ Sound("loop", queue[f], index[f] + 1, remaining[f])
      /\ rest \in Seq(EntryType) /\ Distinct(rest)
      /\ Ids(rest) = Before(queue[f], index[f] + 1, remaining[f])
  BY <1>3, <1>4, Leaving DEF ToPersist
<1>6. /\ Pending(f) = {x0} \cup Before(queue[f], index[f] + 1, remaining[f])
      /\ x0 \notin Before(queue[f], index[f] + 1, remaining[f])
  BY <1>3, <1>4, Passing DEF Pending, Current
<1> HIDE DEF rest
<1>7. /\ QueueType(disk') /\ QueueType(memory') /\ native' \in BOOLEAN
      /\ MemoryUnused'
      /\ Ids(rest) \subseteq Kept' /\ Kept' \subseteq Ids(disk) \cup Ids(rest)
      /\ Ids(memory') \subseteq Ids(rest)
  BY <1>2, <1>5, Saving
<1>8. /\ pc'[f] = "loop" /\ queue'[f] = queue[f] /\ index'[f] = index[f] + 1
      /\ remaining'[f] = remaining[f]
      /\ \A g \in Flushes \ {f} : pc'[g] = pc[g]
  BY <1>1, <1>2 DEF TypeOK
<1> DEFINE n == IF x0 \in Ids(disk') THEN lost[x0] + 1 ELSE lost[x0]
<1>14. /\ lost' \in [Items -> Nat]
       /\ lost'[x0] = n
       /\ \A x \in Items : x # x0 => lost'[x] = lost[x]
       /\ \A x \in Items : lost[x] \in Nat /\ applied[x] \in Nat /\ lost[x] <= lost'[x]
  <2>1. \A x \in Items : lost[x] \in Nat /\ applied[x] \in Nat
    BY <1>1 DEF TypeOK
  <2>2. n \in Nat /\ lost[x0] <= n
    BY <2>1, <1>4
  <2>3. lost' = [lost EXCEPT ![x0] = n]
    BY <1>2
  <2> HIDE DEF n, x0
  <2>4. lost \in [Items -> Nat] /\ x0 \in Items
    BY <1>1, <1>4 DEF TypeOK
  <2>5. \A x \in Items : lost'[x] = IF x = x0 THEN n ELSE lost[x]
    BY <2>3, <2>4
  <2>6. lost' \in [Items -> Nat]
    BY <2>2, <2>3, <2>4
  <2> QED  BY <2>1, <2>2, <2>4, <2>5, <2>6
<1> HIDE DEF n
<1>9. TypeOK'
  <2>1. index[f] + 1 \in Nat
    BY <1>1 DEF TypeOK
  <2> QED  BY <2>1, <1>1, <1>2, <1>7, <1>14 DEF TypeOK
<1>10. Pending(f)' = Ids(rest)
  BY <1>5, <1>8 DEF Pending
<1>11. \A x \in Items :
           /\ applied[x] <= applied'[x]
           /\ x \notin added => applied'[x] = 0
           /\ applied'[x] <= 1 + lost'[x]
  <2> TAKE x \in Items
  <2>1. applied[x] <= 1 + lost[x] /\ (x \notin added => applied[x] = 0)
    BY DEF IInv, EachAnswered, OnlyAdded
  <2>2. lost'[x] \in Nat
    BY <1>14
  <2> QED  BY <2>1, <2>2, <1>2, <1>14
<1>12. ASSUME NEW x \in Items, x \in Kept' \cup Pending(f)',
              ~(pc[f] = "applied" /\ Current(f).id = x) => applied[x] <= lost[x]
       PROVE  applied'[x] <= lost'[x]
  <2>1. applied[x] <= 1 + lost[x] /\ lost'[x] \in Nat
    BY <1>14 DEF IInv, EachAnswered
  <2>2. CASE x = x0
    <3>1. x0 \in Ids(disk')
      BY <2>2, <1>5, <1>6, <1>7, <1>10, <1>12 DEF Kept
    <3>2. lost'[x0] = lost[x0] + 1
      BY <3>1, <1>14 DEF n
    <3> QED  BY <2>1, <2>2, <3>2, <1>2, <1>14
  <2>3. CASE x # x0
    BY <2>3, <1>2, <1>12, <1>14
  <2> QED  BY <2>2, <2>3
<1>13. /\ Sound(pc'[f], queue'[f], index'[f], remaining'[f])
       /\ Pending(f)' \subseteq Pending(f)
       /\ Kept' \subseteq Kept \cup Pending(f)
       /\ Pending(f)' \subseteq Kept'
  <2>1. Ids(disk) \subseteq Kept
    BY DEF Kept
  <2> QED  BY <2>1, <1>5, <1>6, <1>7, <1>8, <1>10
<1> QED  BY <1>2, <1>7, <1>8, <1>9, <1>11, <1>12, <1>13, FlushStep

\* The flush ends.
LEMMA FinishStep ==
    ASSUME IInv, NEW f \in Flushes, Finish(f)
    PROVE  IInv'
<1>1. /\ pc[f] = "loop" /\ pc' = [pc EXCEPT ![f] = "idle"] /\ isFlushing' = FALSE
      /\ UNCHANGED <<disk, memory, native, added, applied, lost, queue, index, remaining>>
      /\ Kept' = Kept /\ MemoryUnused'
  BY DEF Finish, storage, Kept, IInv, MemoryUnused
<1>2. TypeOK
  BY DEF IInv
<1>3. \A g \in Flushes : pc'[g] = "idle"
  BY <1>1, <1>2 DEF IInv, OneFlush, TypeOK
<1>4. TypeOK'
  BY <1>1, <1>2 DEF TypeOK
<1>5. FlushesSound' /\ OneFlush' /\ OnlyAdded' /\ PendingIsStored'
  BY <1>1, <1>3 DEF IInv, FlushesSound, OneFlush, OnlyAdded, PendingIsStored
<1>6. \A x : (MayBeSent(x)' => MayBeSent(x)) /\ ~Answering(x)
  BY <1>1, <1>3 DEF MayBeSent, Answering, IInv, OneFlush
<1>7. EachAnswered'
  BY <1>1, <1>6 DEF IInv, EachAnswered
<1> QED  BY <1>1, <1>4, <1>5, <1>7 DEF IInv

\* The page is closed and opened again.
LEMMA ReloadStep ==
    ASSUME IInv, Reload
    PROVE  IInv'
<1>1. /\ lost' = [x \in Items |->
                     lost[x] + IF \E f \in Flushes : pc[f] = "applied" /\ Current(f).id = x
                               THEN 1 ELSE 0]
      /\ isFlushing' = FALSE
      /\ pc' = [f \in Flushes |-> "idle"]
      /\ queue' = [f \in Flushes |-> <<>>]
      /\ index' = [f \in Flushes |-> 1]
      /\ remaining' = [f \in Flushes |-> <<>>]
      /\ memory' = <<>> /\ native' \in BOOLEAN
      /\ UNCHANGED <<disk, added, applied>>
  BY DEF Reload, Probed
<1>2. TypeOK
  BY DEF IInv
<1>3. \A x \in Items : /\ applied[x] \in Nat /\ lost[x] \in Nat /\ lost'[x] \in Nat
                       /\ lost[x] <= lost'[x]
                       /\ Answering(x) => lost'[x] = lost[x] + 1
  <2> TAKE x \in Items
  <2>1. applied[x] \in Nat /\ lost[x] \in Nat
    BY <1>2 DEF TypeOK
  <2>2. lost'[x] = lost[x] + IF Answering(x) THEN 1 ELSE 0
    BY <1>1 DEF Answering
  <2> QED  BY <2>1, <2>2
<1>4. TypeOK'
  <2>1. <<>> \in Seq(EntryType) /\ 1 \in Nat
    OBVIOUS
  <2>2. lost' \in [Items -> Nat]
    BY <1>1, <1>3
  <2>3. QueueType(memory')
    BY <1>1, EmptyQueue
  <2> QED  BY <2>1, <2>2, <2>3, <1>1, <1>2 DEF TypeOK
<1>5. /\ \A g \in Flushes : pc'[g] = "idle"
      /\ Kept' \subseteq Kept /\ MemoryUnused'
  <2>1. Ids(memory') = {}
    BY <1>1, EmptyQueue
  <2> QED  BY <2>1, <1>1 DEF Kept, MemoryUnused
<1>6. FlushesSound' /\ OneFlush' /\ OnlyAdded' /\ PendingIsStored'
  BY <1>1, <1>5 DEF IInv, FlushesSound, OneFlush, OnlyAdded, PendingIsStored
<1>7. EachAnswered'
  <2> SUFFICES ASSUME NEW x \in Items
               PROVE  /\ applied'[x] <= 1 + lost'[x]
                      /\ MayBeSent(x)' /\ ~Answering(x)' => applied'[x] <= lost'[x]
    BY DEF EachAnswered
  <2>1. applied[x] <= 1 + lost[x] /\ (MayBeSent(x) /\ ~Answering(x) => applied[x] <= lost[x])
    BY DEF IInv, EachAnswered
  <2>2. MayBeSent(x)' => MayBeSent(x)
    BY <1>1, <1>5 DEF MayBeSent
  <2> QED  BY <2>1, <2>2, <1>1, <1>3
<1> QED  BY <1>4, <1>5, <1>6, <1>7 DEF IInv

\* Nothing is stored or under way at the start.
LEMMA InitHolds ==
    ASSUME Init
    PROVE  IInv
<1>1. /\ disk = <<>> /\ memory = <<>> /\ native \in BOOLEAN
      /\ \A f \in Flushes : pc[f] = "idle"
      /\ isFlushing = FALSE
      /\ \A x \in Items : applied[x] = 0 /\ lost[x] = 0
  BY DEF Init, Probed
<1>2. TypeOK
  <2>1. <<>> \in Seq(EntryType) /\ 1 \in Nat
    OBVIOUS
  <2>2. /\ applied \in [Items -> Nat] /\ lost \in [Items -> Nat]
        /\ pc \in [Flushes -> {"idle", "loop", "sent", "applied"}]
        /\ queue \in [Flushes -> Seq(EntryType)] /\ index \in [Flushes -> Nat]
        /\ remaining \in [Flushes -> Seq(EntryType)]
        /\ added \subseteq Items
    BY <2>1 DEF Init
  <2> QED  BY <2>2, <1>1, EmptyQueue DEF TypeOK
<1>3. Kept = {} /\ MemoryUnused
  BY <1>1, EmptyQueue DEF Kept, MemoryUnused
<1> QED  BY <1>1, <1>2, <1>3
         DEF IInv, FlushesSound, OneFlush, OnlyAdded, PendingIsStored, EachAnswered,
             MayBeSent

\* The invariant that the proofs rest on, of every behaviour of the queue.
THEOREM Invariance == Spec => []IInv
<1>1. Init => IInv
  BY InitHolds
<1>2. IInv /\ [Next]_vars => IInv'
  <2> SUFFICES ASSUME IInv, [Next]_vars PROVE IInv'
    OBVIOUS
  <2>1. ASSUME NEW x \in Items, Add(x) PROVE IInv'
    BY <2>1, AddStep
  <2>2. ASSUME NEW f \in Flushes, Flush(f) PROVE IInv'
    <3>1. CASE Start(f)
      BY <3>1, StartStep
    <3>2. CASE Skip(f)
      BY <3>2, SkipStep
    <3>3. CASE Send(f) \/ Apply(f)
      BY <3>3, SendStep
    <3>4. CASE Succeed(f)
      BY <3>4, SucceedStep
    <3>5. CASE Fail(f)
      BY <3>5, FailStep
    <3>6. CASE LoseAnswer(f)
      BY <3>6, LoseAnswerStep
    <3>7. CASE Finish(f)
      BY <3>7, FinishStep
    <3> QED  BY <2>2, <3>1, <3>2, <3>3, <3>4, <3>5, <3>6, <3>7 DEF Flush
  <2>3. CASE RetryFailed
    BY <2>3, RetryStep
  <2>4. CASE Reload
    BY <2>4, ReloadStep
  <2>5. CASE OtherWriteFails
    BY <2>5, OtherWriteFailsStep
  <2>6. CASE Idle \/ UNCHANGED vars
    <3>1. UNCHANGED <<disk, memory, native, added, applied, lost, isFlushing, pc, queue,
                      index, remaining>>
      BY <2>6 DEF Idle, vars, storage, page
    <3>2. TypeOK' /\ MemoryUnused' /\ Kept' = Kept
      BY <3>1 DEF IInv, TypeOK, MemoryUnused, Kept
    <3> QED  BY <3>1, <3>2, SameQueueStep
  <2> QED  BY <2>1, <2>2, <2>3, <2>4, <2>5, <2>6 DEF Next
<1> QED  BY <1>1, <1>2, PTL DEF Spec

----------------------------------------------------------------------------
\* What it says of the queue.

\* Every variable has its type, and no queue holds a request twice, whatever
\* flushes, additions, failing writes and reloads do.
THEOREM TypeCorrect == Spec => []TypeOK
<1>1. IInv => TypeOK
  BY DEF IInv
<1> QED  BY <1>1, Invariance, PTL

\* What a flush has yet to send, or has failed to send, is in localStorage; only
\* what was added since a page lost its localStorage is in memory alone.
THEOREM UnsentSurvives == Spec => []UnsentIsStored
<1>1. IInv => UnsentIsStored
  <2> SUFFICES ASSUME IInv, NEW f \in Flushes, pc[f] # "idle",
                      NEW x \in Ids(remaining[f])
                                  \cup Ids(SubSeq(queue[f], index[f], Len(queue[f]))),
                      applied[x] = 0
               PROVE  x \in Ids(disk) \/ (~native /\ x \in Ids(memory))
    BY DEF UnsentIsStored
  <2>1. Sound(pc[f], queue[f], index[f], remaining[f])
    BY DEF IInv, FlushesSound
  <2>2. Ids(SubSeq(queue[f], index[f], Len(queue[f])))
            \subseteq {queue[f][j].id : j \in index[f] .. Len(queue[f])}
    BY <2>1, IdsFrom DEF Sound
  <2>3. x \in Pending(f)
    BY <2>2 DEF Pending, Before
  <2>4. x \in Kept
    BY <2>3 DEF IInv, PendingIsStored
  <2>5. native => Ids(memory) = {}
    BY EmptyQueue DEF IInv, MemoryUnused
  <2> QED  BY <2>4, <2>5 DEF Kept
<1> QED  BY <1>1, Invariance, PTL

\* The server applies a request at most once more than answers to it left
\* localStorage as it was, however the two callers of flushQueue, additions,
\* failing writes and reloads interleave.
THEOREM AppliedOnce == Spec => []AppliedOncePerAnswer
<1>1. IInv => AppliedOncePerAnswer
  BY DEF IInv, EachAnswered, AppliedOncePerAnswer
<1> QED  BY <1>1, Invariance, PTL
=============================================================================
