-------------------------- MODULE AuditTrail_proofs --------------------------
(***************************************************************************)
(* The audit trail of module AuditTrail, for every number of events, every *)
(* file size and every number of crashes: the files hold the events in the *)
(* order they were appended, and every file verifies.                      *)
(*                                                                         *)
(* An event is its number, so the queue is a run of consecutive numbers    *)
(* that ends with the last one appended.  The invariant says where every   *)
(* event of that run stands: `next` is the one the chain of writes is at,  *)
(* everything on disk is below it, and everything behind it is linked to   *)
(* its neighbour.  Where the first of the run is linked depends on what    *)
(* went wrong before: to the last line of the file when nothing did, to    *)
(* that line or to an event which is on no file when a write was refused,  *)
(* to anything older when the cache was reloaded under an append().        *)
(***************************************************************************)
EXTENDS AuditTrail, SequenceTheorems, TLAPS

\* The event the chain of writes is at, or will be when it has one.
next == appended - Len(eventQueue) + 1

\* Everything on disk is below this.
bound == IF writer = "hash" THEN next + 1 ELSE next

Calm == ~raced
Sound == ~raced /\ ~failed
Whole == crashes = 0 /\ ~failed

Queued ==
    /\ \A i \in 1..Len(eventQueue) : eventQueue[i] = next + i - 1
    /\ eventCache = <<>> => eventQueue = <<>>
    /\ writer = "hash" => file # <<>> /\ file[Len(file)] = next

Below ==
    \A k \in DOMAIN files : \A i \in DOMAIN files[k] : files[k][i] < bound

LinkedBack == \A e \in 1..appended : previousHash[e] < e

\* What the next event to be written is linked to, seen from the file.
Neighbours == \A e \in 1..appended : e > next => previousHash[e] = e - 1

FileBehind ==
    file # <<>> /\ eventQueue # <<>> /\ writer # "hash" =>
        file[Len(file)] <= previousHash[next]

LinesBehind == \A i \in 2..Len(file) : file[i - 1] <= previousHash[file[i]]

CacheLast ==
    eventCache # <<>> =>
        \/ eventCache[Len(eventCache)] = appended
        \/ /\ eventQueue = <<>> /\ file # <<>>
           /\ eventCache[Len(eventCache)] = file[Len(file)]

CacheOfQueue ==
    eventQueue # <<>> => eventCache[Len(eventCache)] = appended

ReadingIsCalm ==
    /\ reading # "no" => eventCache = <<>>
    /\ reading = "read" => linesRead = file

CalmLinks == Neighbours /\ FileBehind /\ LinesBehind /\ CacheLast
             /\ CacheOfQueue /\ ReadingIsCalm

FileMeets ==
    file # <<>> /\ eventQueue # <<>> /\ writer # "hash" =>
        file[Len(file)] = previousHash[next]

CacheMeets ==
    eventCache # <<>> /\ eventQueue = <<>> =>
        file # <<>> /\ eventCache[Len(eventCache)] = file[Len(file)]

SoundLinks == FileMeets /\ CacheMeets /\ filesChained

HashesFollow ==
    /\ writer \in {"idle", "event"} => hashFile = file
    /\ writer = "rotateHash" => file = <<>>
    /\ writer = "hash" => file = Append(hashFile, next)

\* What the files and the chain of hashes come to.
Trail ==
    /\ Queued /\ DiskInOrder /\ Below /\ LinkedBack
    /\ Calm => CalmLinks
    /\ Sound => SoundLinks
    /\ Whole => HashesFollow

TrailInv == TypeOK /\ Trail
-----------------------------------------------------------------------------
\* TypeOK without the two history flags.
Shapes ==
    /\ appended \in 0..MaxEvents
    /\ previousHash \in [Events -> 0..MaxEvents]
    /\ {eventCache, file, hashFile, eventQueue, linesRead}
          \subseteq Seq(1..appended)
    /\ archives \in Seq(Seq(1..appended))
    /\ writer \in WriterSteps
    /\ reading \in {"no", "reading", "read"}
    /\ crashes \in 0..MaxCrashes
    /\ writer # "idle" => eventQueue # <<>>

(***************************************************************************)
(* What Append() does, position by position.                               *)
(***************************************************************************)
LEMMA OneMore ==
    ASSUME NEW S, NEW seq \in Seq(S), NEW x \in S, NEW longer, longer = Append(seq, x),
           NEW n \in Nat, n = Len(seq)
    PROVE  /\ longer \in Seq(S) /\ longer # <<>>
           /\ Len(longer) = n + 1
           /\ DOMAIN seq = 1..n /\ DOMAIN longer = 1..(n + 1)
           /\ \A i \in 1..n : longer[i] = seq[i]
           /\ longer[n + 1] = x
  BY AppendProperties

(***************************************************************************)
(* A sequence over a set is one over a larger set.                         *)
(***************************************************************************)
LEMMA WiderSeq ==
    ASSUME NEW S, NEW T, S \subseteq T, NEW s \in Seq(S)
    PROVE  s \in Seq(T)
  BY ElementOfSeq, LenProperties, SeqDef

(***************************************************************************)
(* The last hash append() finds is an event, or none.                      *)
(***************************************************************************)
LEMMA LastHashTyped ==
    ASSUME NEW n \in Nat, NEW cache \in Seq(1..n), NEW lines \in Seq(1..n)
    PROVE  /\ getLastHashSync(cache, lines) \in 0..n
           /\ cache # <<>> => getLastHashSync(cache, lines) = cache[Len(cache)]
           /\ cache = <<>> /\ lines # <<>> =>
                 getLastHashSync(cache, lines) = lines[Len(lines)]
  <1>1. ASSUME NEW s \in Seq(1..n)
        PROVE  lastOr0(s) \in 0..n /\ (s # <<>> => lastOr0(s) = s[Len(s)])
    <2>1. CASE s = <<>>
      BY <2>1 DEF lastOr0
    <2>2. CASE s # <<>>
      <3>1. Len(s) \in DOMAIN s
        BY <2>2, EmptySeq, LenProperties
      <3>2. s[Len(s)] \in 1..n
        BY <3>1, ElementOfSeq
      <3> QED
        BY <2>2, <3>2 DEF lastOr0, Last
    <2> QED
      BY <2>1, <2>2
  <1> QED
    BY <1>1 DEF getLastHashSync

(***************************************************************************)
(* append() keeps the shape of everything.                                 *)
(***************************************************************************)
LEMMA AppendShapes ==
    ASSUME Shapes, append
    PROVE  Shapes'
  <1>1. PICK n \in Nat : n = appended
    BY DEF Shapes
  <1>2. PICK link : link = getLastHashSync(eventCache, file)
    OBVIOUS
  <1>3. /\ eventCache \in Seq(1..n) /\ file \in Seq(1..n)
        /\ eventQueue \in Seq(1..n) /\ hashFile \in Seq(1..n)
        /\ linesRead \in Seq(1..n) /\ archives \in Seq(Seq(1..n))
        /\ n \in 0..MaxEvents /\ n < MaxEvents /\ MaxEvents \in Nat
    BY <1>1, BoundsAssumption DEF Shapes, append
  <1>4. /\ appended' = n + 1
        /\ previousHash' = [previousHash EXCEPT ![n + 1] = link]
        /\ eventQueue' = Append(eventQueue, n + 1)
        /\ eventCache' = Append(eventCache, n + 1)
        /\ file' = file /\ hashFile' = hashFile /\ linesRead' = linesRead
        /\ archives' = archives /\ writer' = writer /\ reading' = reading
        /\ crashes' = crashes
    BY <1>1, <1>2 DEF append, disk
  <1>5. link \in 0..MaxEvents
    <2>1. getLastHashSync(eventCache, file) \in 0..n
      BY <1>3, LastHashTyped
    <2> QED
      BY <1>2, <1>3, <2>1
  <1>6. 1..n \subseteq 1..(n + 1) /\ n + 1 \in 1..(n + 1)
    OBVIOUS
  <1>7. Seq(1..n) \subseteq Seq(1..(n + 1))
    BY <1>6, WiderSeq
  <1>8. archives \in Seq(Seq(1..(n + 1)))
    BY <1>3, <1>7, WiderSeq
  <1>9. eventQueue \in Seq(1..(n + 1)) /\ eventCache \in Seq(1..(n + 1))
    BY <1>3, <1>7
  <1>10. /\ eventQueue' \in Seq(1..(n + 1)) /\ eventQueue' # <<>>
         /\ eventCache' \in Seq(1..(n + 1))
    BY <1>4, <1>6, <1>9, AppendProperties
  <1>11. previousHash' \in [Events -> 0..MaxEvents]
    BY <1>3, <1>4, <1>5 DEF Shapes
  <1>12. appended' \in 0..MaxEvents
    BY <1>3, <1>4
  <1> QED
    BY <1>3, <1>4, <1>7, <1>8, <1>10, <1>11, <1>12 DEF Shapes

(***************************************************************************)
(* So does every other step.                                               *)
(***************************************************************************)
LEMMA StepShapes ==
    ASSUME Shapes, Next
    PROVE  Shapes'
  <1> DEFINE S == Seq(1..appended)
  <1>1. /\ eventCache \in S /\ file \in S /\ hashFile \in S
        /\ eventQueue \in S /\ linesRead \in S /\ archives \in Seq(S)
        /\ <<>> \in S
    BY DEF Shapes
  <1>2. CASE append
    BY <1>2, AppendShapes
  <1>3. ASSUME eventQueue # <<>>
        PROVE  Head(eventQueue) \in 1..appended /\ Tail(eventQueue) \in S
    BY <1>1, <1>3, HeadTailProperties
  <1>4. CASE rotateFile
    <2>1. archives' = Append(archives, file) \/ archives' = archives
      BY <1>4 DEF rotateFile
    <2>2. archives' \in Seq(S)
      <3> HIDE DEF S
      <3> QED
        BY <1>1, <2>1, AppendProperties
    <2> QED
      BY <1>1, <1>4, <2>2 DEF rotateFile, Shapes, WriterSteps, memory
  <1>5. CASE rotateHash
    BY <1>1, <1>5 DEF rotateHash, Shapes, WriterSteps, memory
  <1>6. CASE writeEvent
    <2>1. file' = Append(file, Head(eventQueue))
      BY <1>6 DEF writeEvent, nextEvent
    <2>2. eventQueue # <<>>
      BY <1>6 DEF writeEvent, Shapes
    <2>3. file' \in S
      BY <1>1, <1>3, <2>1, <2>2, AppendProperties
    <2> QED
      BY <1>1, <1>6, <2>2, <2>3 DEF writeEvent, Shapes, WriterSteps, memory
  <1>7. CASE writeHash
    <2>1. eventQueue # <<>>
      BY <1>7 DEF writeHash, Shapes
    <2>2. hashFile' \in S /\ eventQueue' \in S
      BY <1>1, <1>3, <1>7, <2>1, AppendProperties DEF writeHash
    <2> QED
      BY <1>1, <1>7, <2>2 DEF writeHash, Shapes, WriterSteps, memory
  <1>8. CASE refuseWrite
    <2>1. eventQueue # <<>>
      BY <1>8 DEF refuseWrite, Shapes
    <2>2. eventQueue' \in S
      BY <1>3, <1>8, <2>1 DEF refuseWrite, afterRefusal
    <2> QED
      BY <1>1, <1>8, <2>2 DEF refuseWrite, Shapes, WriterSteps, memory, disk
  <1>9. CASE refuseRotation
    BY <1>1, <1>9 DEF refuseRotation, Shapes, WriterSteps, memory, disk
  <1>10. CASE loadAsync
    BY <1>1, <1>10 DEF loadAsync, Shapes, disk
  <1>11. CASE readFile
    BY <1>1, <1>11 DEF readFile, Shapes, disk
  <1>12. CASE loadAsyncReturns
    BY <1>1, <1>12 DEF loadAsyncReturns, Shapes, disk
  <1>13. CASE Crash
    BY <1>1, <1>13, BoundsAssumption DEF Crash, Shapes, disk, WriterSteps
  <1> QED
    BY <1>2, <1>4, <1>5, <1>6, <1>7, <1>8, <1>9, <1>10, <1>11, <1>12, <1>13
       DEF Next, writerStep

(***************************************************************************)
(* TypeOK is the shape and the two flags.                                  *)
(***************************************************************************)
LEMMA TypeStep ==
    ASSUME TypeOK, Next
    PROVE  TypeOK'
  <1>1. Shapes'
    BY StepShapes DEF TypeOK, Shapes
  <1>2. raced' \in BOOLEAN /\ failed' \in BOOLEAN
    BY DEF TypeOK, Next, writerStep, append, rotateFile, rotateHash,
           writeEvent, writeHash, refuseWrite, refuseRotation, loadAsync,
           readFile, loadAsyncReturns, Crash
  <1> QED
    BY <1>1, <1>2 DEF TypeOK, Shapes
-----------------------------------------------------------------------------
(***************************************************************************)
(* The event the chain is at is the head of the queue, or not there yet.   *)
(***************************************************************************)
LEMMA NextIs ==
    ASSUME Shapes, Queued, NEW q \in Nat, q = Len(eventQueue),
           NEW n \in Nat, n = appended
    PROVE  /\ next \in Nat /\ next >= 1 /\ next + q = n + 1
           /\ eventQueue # <<>> =>
                 q > 0 /\ next = Head(eventQueue) /\ next \in 1..n
           /\ eventQueue = <<>> => q = 0 /\ next = n + 1
           /\ bound \in Nat /\ next <= bound /\ bound <= next + 1
  <1>1. eventQueue \in Seq(1..n)
    BY DEF Shapes
  <1>2. CASE eventQueue = <<>>
    <2>1. q = 0
      BY <1>2, EmptySeq
    <2>2. next = n + 1
      BY <2>1 DEF next
    <2> QED
      BY <1>2, <2>1, <2>2 DEF bound
  <1>3. CASE eventQueue # <<>>
    <2>1. q > 0 /\ Head(eventQueue) = eventQueue[1]
      BY <1>1, <1>3, EmptySeq, LenProperties
    <2>2. eventQueue[1] \in 1..n
      BY <1>1, <2>1, ElementOfSeq
    <2>3. eventQueue[1] = next + 1 - 1
      BY <2>1 DEF Queued
    <2>4. next = n - q + 1
      BY DEF next
    <2>5. next = eventQueue[1]
      BY <2>3, <2>4
    <2> QED
      BY <1>3, <2>1, <2>2, <2>4, <2>5 DEF bound
  <1> QED
    BY <1>2, <1>3

(***************************************************************************)
(* A step that leaves the files alone and moves the bound, if at all, up.  *)
(***************************************************************************)
LEMMA DiskStays ==
    ASSUME Shapes, DiskInOrder, Below, archives' = archives, file' = file,
           NEW b \in Nat, NEW c \in Nat, b = bound, c = bound', b <= c
    PROVE  DiskInOrder' /\ Below'
  <1>1. files' = files
    BY DEF files
  <1>2. DiskInOrder'
    BY <1>1 DEF DiskInOrder
  <1>3. ASSUME NEW k \in DOMAIN files, NEW i \in DOMAIN files[k]
        PROVE  files[k][i] < c
    <2>1. files[k][i] < b
      BY <1>3 DEF Below
    <2>2. files[k] \in Seq(1..appended)
      <3>1. files \in Seq(Seq(1..appended))
        BY AppendProperties DEF files, Shapes
      <3> QED
        BY <1>3, <3>1, ElementOfSeq, LenProperties
    <2>3. files[k][i] \in 1..appended
      BY <1>3, <2>2, ElementOfSeq, LenProperties
    <2>4. files[k][i] \in Nat
      BY <2>3
    <2> QED
      BY <2>1, <2>4
  <1> QED
    BY <1>1, <1>2, <1>3 DEF Below

(***************************************************************************)
(* The file in use and the rotated ones are the files, in this order.      *)
(***************************************************************************)
LEMMA FilesAre ==
    ASSUME Shapes, NEW n \in Nat, n = Len(archives)
    PROVE  /\ DOMAIN files = 1..(n + 1) /\ DOMAIN archives = 1..n
           /\ \A k \in 1..n : files[k] = archives[k]
           /\ files[n + 1] = file
           /\ \A k \in 1..(n + 1) :
                 /\ files[k] \in Seq(1..appended)
                 /\ \A i \in DOMAIN files[k] : files[k][i] \in 1..appended
  <1>1. archives \in Seq(Seq(1..appended)) /\ file \in Seq(1..appended)
    BY DEF Shapes
  <1>2. /\ files \in Seq(Seq(1..appended))
        /\ DOMAIN files = 1..(n + 1) /\ DOMAIN archives = 1..n
        /\ \A k \in 1..n : files[k] = archives[k]
        /\ files[n + 1] = file
    BY <1>1, OneMore DEF files
  <1>3. \A k \in 1..(n + 1) : files[k] \in Seq(1..appended)
    BY <1>2, ElementOfSeq, LenProperties
  <1>4. ASSUME NEW s \in Seq(1..appended), NEW i \in DOMAIN s
        PROVE  s[i] \in 1..appended
    BY <1>4, ElementOfSeq, LenProperties
  <1> QED
    BY <1>2, <1>3, <1>4

(***************************************************************************)
(* Rotation leaves an empty file behind, and everything where it was.      *)
(***************************************************************************)
LEMMA DiskRotates ==
    ASSUME Shapes, DiskInOrder, Below, bound' = bound,
           archives' = Append(archives, file), file' = <<>>
    PROVE  DiskInOrder' /\ Below'
  <1>1. PICK n \in Nat : n = Len(archives)
    BY LenProperties DEF Shapes
  <1>2. PICK all : all = files
    OBVIOUS
  <1>3. PICK more : more = files'
    OBVIOUS
  <1>4. more = Append(all, <<>>)
    BY <1>2, <1>3 DEF files
  <1>5. all \in Seq(Seq(1..appended)) /\ Len(all) = n + 1
    <2>1. archives \in Seq(Seq(1..appended)) /\ file \in Seq(1..appended)
      BY DEF Shapes
    <2> QED
      BY <1>1, <1>2, <2>1, AppendProperties DEF files
  <1>6. <<>> \in Seq(1..appended)
    BY EmptySeq
  <1>7. /\ DOMAIN all = 1..(n + 1) /\ DOMAIN more = 1..(n + 2)
        /\ \A k \in 1..(n + 1) : more[k] = all[k]
        /\ more[n + 2] = <<>>
    BY <1>4, <1>5, <1>6, AppendProperties, LenProperties
  <1>8. \A k \in DOMAIN more : \A i \in DOMAIN more[k] : k \in DOMAIN all
    BY <1>7
  <1>9. \A k \in DOMAIN all : more[k] = all[k]
    BY <1>7
  <1>10. DiskInOrder'
    <2>1. ASSUME NEW k \in DOMAIN more, NEW l \in DOMAIN more,
                 NEW i \in DOMAIN more[k], NEW j \in DOMAIN more[l],
                 k < l \/ (k = l /\ i < j)
          PROVE  more[k][i] < more[l][j]
      BY <1>2, <1>8, <1>9, <2>1 DEF DiskInOrder
    <2> QED
      BY <1>3, <2>1 DEF DiskInOrder
  <1>11. Below'
    BY <1>2, <1>3, <1>8, <1>9 DEF Below
  <1> QED
    BY <1>10, <1>11

(***************************************************************************)
(* A line at the bound goes behind all the others.                         *)
(***************************************************************************)
LEMMA DiskGrows ==
    ASSUME Shapes, DiskInOrder, Below, NEW e \in 1..appended, bound = e,
           bound' = e + 1, archives' = archives, file' = Append(file, e)
    PROVE  DiskInOrder' /\ Below'
  <1>1. PICK n \in Nat : n = Len(archives)
    BY LenProperties DEF Shapes
  <1>2. file \in Seq(1..appended)
    BY DEF Shapes
  <1>3. PICK m \in Nat : m = Len(file)
    BY <1>2, LenProperties
  <1>4. PICK longer : longer = file'
    OBVIOUS
  <1>5. /\ longer \in Seq(1..appended)
        /\ DOMAIN file = 1..m /\ DOMAIN longer = 1..(m + 1)
        /\ \A i \in 1..m : longer[i] = file[i]
        /\ longer[m + 1] = e
    BY <1>2, <1>3, <1>4, OneMore
  <1>6. PICK all : all = files
    OBVIOUS
  <1>7. PICK more : more = files'
    OBVIOUS
  <1>8. /\ DOMAIN all = 1..(n + 1) /\ all[n + 1] = file
        /\ \A k \in 1..(n + 1) : \A i \in DOMAIN all[k] :
              all[k][i] \in 1..appended
        /\ \A k \in 1..n : all[k] = archives[k]
    BY <1>1, <1>6, FilesAre
  <1>9. /\ DOMAIN more = 1..(n + 1) /\ more[n + 1] = longer
        /\ \A k \in 1..n : more[k] = archives[k]
    <2>1. archives \in Seq(Seq(1..appended))
      BY DEF Shapes
    <2>2. more = Append(archives, longer)
      BY <1>4, <1>7 DEF files
    <2> QED
      BY <1>1, <1>5, <2>1, <2>2, OneMore
  <1>10. \A k \in 1..n : more[k] = all[k]
    BY <1>8, <1>9
  <1>11. ASSUME NEW k \in DOMAIN more, NEW i \in DOMAIN more[k]
         PROVE  \/ /\ i \in DOMAIN all[k] /\ more[k][i] = all[k][i]
                   /\ more[k][i] \in 1..appended /\ more[k][i] < e
                \/ k = n + 1 /\ i = m + 1 /\ more[k][i] = e
    <2>1. CASE k \in 1..n
      BY <1>6, <1>8, <1>10, <1>11, <2>1 DEF Below
    <2>2. CASE k = n + 1 /\ i \in 1..m
      BY <1>5, <1>6, <1>8, <1>9, <2>2 DEF Below
    <2>3. CASE k = n + 1 /\ i = m + 1
      BY <1>5, <1>9, <2>3
    <2> QED
      BY <1>5, <1>9, <1>11, <2>1, <2>2, <2>3
  <1>12. Below'
    <2>1. ASSUME NEW k \in DOMAIN more, NEW i \in DOMAIN more[k]
          PROVE  more[k][i] < e + 1
      BY <1>11, <2>1
    <2> QED
      BY <1>7, <2>1 DEF Below
  <1>13. DiskInOrder'
    <2>1. ASSUME NEW k \in DOMAIN more, NEW l \in DOMAIN more,
                 NEW i \in DOMAIN more[k], NEW j \in DOMAIN more[l],
                 k < l \/ (k = l /\ i < j)
          PROVE  more[k][i] < more[l][j]
      <3>1. CASE l = n + 1 /\ j = m + 1
        <4>1. ~(k = n + 1 /\ i = m + 1)
          BY <1>9, <2>1, <3>1
        <4>2. more[k][i] < e
          BY <1>11, <2>1, <4>1
        <4>3. more[l][j] = e
          BY <1>5, <1>9, <3>1
        <4> QED
          BY <4>2, <4>3
      <3>2. CASE ~(l = n + 1 /\ j = m + 1)
        <4>1. j \in DOMAIN all[l] /\ more[l][j] = all[l][j]
          BY <1>11, <2>1, <3>2
        <4>2. ~(k = n + 1 /\ i = m + 1)
          <5>1. SUFFICES ASSUME k = n + 1, i = m + 1 PROVE FALSE
            OBVIOUS
          <5>2. l = n + 1
            BY <1>9, <2>1, <5>1
          <5>3. j \in 1..m
            BY <1>8, <4>1, <1>5, <5>2
          <5> QED
            BY <2>1, <5>1, <5>2, <5>3
        <4>3. i \in DOMAIN all[k] /\ more[k][i] = all[k][i]
          BY <1>11, <2>1, <4>2
        <4>4. all[k][i] < all[l][j]
          BY <1>6, <1>8, <1>9, <2>1, <4>1, <4>3 DEF DiskInOrder
        <4> QED
          BY <4>1, <4>3, <4>4
      <3> QED
        BY <3>1, <3>2
    <2> QED
      BY <1>7, <2>1 DEF DiskInOrder
  <1> QED
    BY <1>12, <1>13
-----------------------------------------------------------------------------
(***************************************************************************)
(* append() links the event to its neighbour in the queue, or to what the  *)
(* cache or the file ends with.                                            *)
(***************************************************************************)
LEMMA AppendKeeps ==
    ASSUME Shapes, Trail, append, Shapes'
    PROVE  Trail'
  <1>1. PICK n \in Nat : n = appended
    BY DEF Shapes
  <1>2. /\ eventCache \in Seq(1..n) /\ file \in Seq(1..n)
        /\ eventQueue \in Seq(1..n) /\ eventQueue \in Seq(Nat)
        /\ n + 1 \in Events /\ n + 1 \in Nat
    <2>1. eventQueue \in Seq(1..n) /\ 1..n \subseteq Nat
      BY <1>1 DEF Shapes
    <2>2. eventQueue \in Seq(Nat)
      BY <2>1, WiderSeq
    <2> QED
      BY <1>1, <2>2, BoundsAssumption DEF Shapes, append, Events
  <1>3. PICK q \in Nat : q = Len(eventQueue)
    BY <1>2, LenProperties
  <1>4. PICK c \in Nat : c = Len(eventCache)
    BY <1>2, LenProperties
  <1>5. PICK link : link = getLastHashSync(eventCache, file)
    OBVIOUS
  <1>6. /\ link \in 0..n
        /\ eventCache # <<>> => link = eventCache[c]
        /\ eventCache = <<>> /\ file # <<>> => link = file[Len(file)]
    <2>1. /\ getLastHashSync(eventCache, file) \in 0..n
          /\ eventCache # <<>> =>
                getLastHashSync(eventCache, file) = eventCache[Len(eventCache)]
          /\ eventCache = <<>> /\ file # <<>> =>
                getLastHashSync(eventCache, file) = file[Len(file)]
      BY <1>2, LastHashTyped
    <2> QED
      BY <1>4, <1>5, <2>1
  <1>7. /\ appended' = n + 1
        /\ previousHash' = [previousHash EXCEPT ![n + 1] = link]
        /\ eventQueue' = Append(eventQueue, n + 1)
        /\ eventCache' = Append(eventCache, n + 1)
        /\ file' = file /\ hashFile' = hashFile /\ archives' = archives
        /\ linesRead' = linesRead /\ writer' = writer /\ reading' = reading
        /\ crashes' = crashes
    BY <1>1, <1>5 DEF append, disk
  <1>8. PICK longer : longer = eventQueue'
    OBVIOUS
  <1>9. /\ Len(longer) = q + 1 /\ longer # <<>>
        /\ \A i \in 1..q : longer[i] = eventQueue[i]
        /\ longer[q + 1] = n + 1
    <2>1. PICK new \in Nat : new = n + 1
      OBVIOUS
    <2>2. longer = Append(eventQueue, new)
      BY <1>7, <1>8, <2>1
    <2>3. eventQueue \in Seq(Nat)
      BY <1>2
    <2>4. /\ Len(longer) = q + 1 /\ longer # <<>>
          /\ \A i \in 1..q : longer[i] = eventQueue[i]
          /\ longer[q + 1] = new
      BY <1>3, <2>2, <2>3, OneMore
    <2> QED
      BY <2>1, <2>4
  <1>10. PICK cached : cached = eventCache'
    OBVIOUS
  <1>11. cached # <<>> /\ cached[Len(cached)] = n + 1
    <2>1. 1..n \subseteq Nat
      OBVIOUS
    <2>2. eventCache \in Seq(Nat)
      BY <1>2, <2>1, WiderSeq
    <2>3. PICK new \in Nat : new = n + 1
      OBVIOUS
    <2>4. cached = Append(eventCache, new)
      BY <1>7, <1>10, <2>3
    <2>5. cached # <<>> /\ Len(cached) = c + 1 /\ cached[c + 1] = new
      BY <1>4, <2>2, <2>4, OneMore
    <2> QED
      BY <2>3, <2>5
  <1>12. PICK x \in Nat : x = next
    BY <1>1, <1>3, NextIs DEF Trail
  <1>13. /\ x >= 1 /\ x + q = n + 1
         /\ eventQueue # <<>> => q > 0 /\ x \in 1..n
         /\ eventQueue = <<>> => q = 0 /\ x = n + 1
    BY <1>1, <1>3, <1>12, NextIs DEF Trail
  <1>14. next' = x
    <2>1. next' = n + 1 - (q + 1) + 1
      BY <1>7, <1>8, <1>9 DEF next
    <2> QED
      BY <1>13, <2>1
  <1>15. bound' = bound
    BY <1>7, <1>12, <1>14 DEF bound
  <1>16. Queued'
    <2>1. ASSUME NEW i \in 1..(q + 1)
          PROVE  longer[i] = x + i - 1
      <3>1. CASE i \in 1..q
        BY <1>3, <1>9, <1>12, <3>1 DEF Trail, Queued
      <3>2. CASE i = q + 1
        BY <1>9, <1>13, <3>2
      <3> QED
        BY <3>1, <3>2
    <2>2. \A i \in 1..Len(longer) : longer[i] = x + i - 1
      BY <1>9, <2>1
    <2>3. writer' = "hash" => file' # <<>> /\ file'[Len(file')] = x
      BY <1>7, <1>12 DEF Trail, Queued
    <2> QED
      BY <1>8, <1>10, <1>11, <1>14, <2>2, <2>3 DEF Queued
  <1>17. DiskInOrder' /\ Below'
    <2>1. PICK b \in Nat : b = bound
      BY <1>1, <1>3, NextIs DEF Trail
    <2> QED
      BY <1>7, <1>15, <2>1, DiskStays DEF Trail
  <1>18. previousHash'[n + 1] = link
         /\ \A e \in 1..n : previousHash'[e] = previousHash[e]
    <2>1. previousHash \in [Events -> 0..MaxEvents] /\ n \in 0..MaxEvents
      BY <1>1 DEF Shapes
    <2>2. 1..n \subseteq Events
      BY <2>1, BoundsAssumption DEF Events
    <2> QED
      BY <1>2, <1>7, <2>1, <2>2
  <1>19. LinkedBack'
    <2>1. ASSUME NEW e \in 1..(n + 1) PROVE previousHash'[e] < e
      BY <1>1, <1>6, <1>18 DEF Trail, LinkedBack
    <2> QED
      BY <1>7, <2>1 DEF LinkedBack
  <1>20. file # <<>> => Len(file) \in DOMAIN file /\ file[Len(file)] \in 1..n
    <2>1. file # <<>> => Len(file) \in DOMAIN file
      BY <1>2, EmptySeq, LenProperties
    <2> QED
      BY <1>2, <2>1, ElementOfSeq
  <1>21. \A i \in 2..Len(file) : file[i] \in 1..n /\ file[i - 1] \in 1..n
    BY <1>2, ElementOfSeq, LenProperties
  <1>22. Calm' => Calm /\ reading = "no"
    BY DEF append, Calm
  <1>23. Sound' => Sound
    BY DEF append, Sound
  <1>24. Whole' => Whole
    BY DEF append, Whole
  <1>25. writer # "idle" => eventQueue # <<>>
    BY DEF Shapes
  <1>26. ASSUME CalmLinks, reading = "no"
         PROVE  CalmLinks'
    <2>1. eventQueue # <<>> => link = n
      BY <1>1, <1>4, <1>6, <1>26 DEF Trail, Queued, CalmLinks, CacheOfQueue
    <2>2. Neighbours'
      <3>1. ASSUME NEW e \in 1..(n + 1), e > x
            PROVE  previousHash'[e] = e - 1
        <4>1. CASE e \in 1..n
          BY <1>1, <1>12, <1>18, <1>26, <3>1, <4>1 DEF CalmLinks, Neighbours
        <4>2. CASE e = n + 1
          BY <1>13, <1>18, <2>1, <3>1, <4>2
        <4> QED
          BY <4>1, <4>2
      <3> QED
        BY <1>7, <1>14, <3>1 DEF Neighbours
    <2>3. ASSUME file # <<>>, writer # "hash"
          PROVE  file[Len(file)] <= previousHash'[x]
      <3>1. CASE eventQueue # <<>>
        <4>1. file[Len(file)] <= previousHash[x]
          BY <1>12, <1>26, <2>3, <3>1 DEF CalmLinks, FileBehind
        <4> QED
          BY <1>13, <1>18, <3>1, <4>1
      <3>2. CASE eventQueue = <<>> /\ eventCache = <<>>
        BY <1>6, <1>13, <1>18, <1>20, <2>3, <3>2
      <3>3. CASE eventQueue = <<>> /\ eventCache # <<>>
        <4>1. link = n \/ link = file[Len(file)]
          BY <1>1, <1>4, <1>6, <1>26, <3>3 DEF CalmLinks, CacheLast
        <4> QED
          BY <1>13, <1>18, <1>20, <2>3, <3>3, <4>1
      <3> QED
        BY <3>1, <3>2, <3>3
    <2>4. FileBehind'
      BY <1>7, <1>14, <2>3 DEF FileBehind
    <2>5. LinesBehind'
      <3>1. LinesBehind
        BY <1>26 DEF CalmLinks
      <3> QED
        BY <1>7, <1>18, <1>21, <3>1 DEF LinesBehind
    <2>6. CacheLast' /\ CacheOfQueue'
      BY <1>7, <1>10, <1>11 DEF CacheLast, CacheOfQueue
    <2>7. ReadingIsCalm'
      BY <1>7, <1>26 DEF ReadingIsCalm
    <2> QED
      BY <2>2, <2>4, <2>5, <2>6, <2>7 DEF CalmLinks
  <1>27. ASSUME SoundLinks
         PROVE  SoundLinks'
    <2>1. ASSUME file # <<>>, writer # "hash"
          PROVE  file[Len(file)] = previousHash'[x]
      <3>1. CASE eventQueue # <<>>
        <4>1. file[Len(file)] = previousHash[x]
          BY <1>12, <1>27, <2>1, <3>1 DEF SoundLinks, FileMeets
        <4> QED
          BY <1>13, <1>18, <3>1, <4>1
      <3>2. CASE eventQueue = <<>> /\ eventCache = <<>>
        BY <1>6, <1>13, <1>18, <2>1, <3>2
      <3>3. CASE eventQueue = <<>> /\ eventCache # <<>>
        <4>1. link = file[Len(file)]
          BY <1>4, <1>6, <1>27, <3>3 DEF SoundLinks, CacheMeets
        <4> QED
          BY <1>13, <1>18, <3>3, <4>1
      <3> QED
        BY <3>1, <3>2, <3>3
    <2>2. FileMeets'
      BY <1>7, <1>14, <2>1 DEF FileMeets
    <2>3. CacheMeets'
      BY <1>8, <1>9 DEF CacheMeets
    <2>4. ASSUME NEW lines \in Seq(1..n), chained(lines)
          PROVE  chained(lines)'
      <3>1. \A i \in 2..Len(lines) : lines[i] \in 1..n
        BY <2>4, ElementOfSeq, LenProperties
      <3> QED
        BY <1>18, <2>4, <3>1 DEF chained
    <2>5. filesChained'
      <3>1. \A k \in DOMAIN archives : archives[k] \in Seq(1..n)
        <4>1. archives \in Seq(Seq(1..n))
          BY <1>1 DEF Shapes
        <4> QED
          BY <4>1, ElementOfSeq, LenProperties
      <3>2. chained(file) /\ \A k \in DOMAIN archives : chained(archives[k])
        BY <1>27 DEF SoundLinks, filesChained
      <3>3. /\ \A i \in 2..Len(file) : previousHash'[file[i]] = file[i - 1]
            /\ \A k \in DOMAIN archives : \A i \in 2..Len(archives[k]) :
                  previousHash'[archives[k][i]] = archives[k][i - 1]
        BY <1>2, <2>4, <3>1, <3>2 DEF chained
      <3> QED
        BY <1>7, <3>3 DEF filesChained, chained
    <2> QED
      BY <2>2, <2>3, <2>5 DEF SoundLinks
  <1>28. ASSUME HashesFollow
         PROVE  HashesFollow'
    BY <1>7, <1>12, <1>14, <1>28 DEF HashesFollow
  <1> QED
    BY <1>16, <1>17, <1>19, <1>22, <1>23, <1>24, <1>26, <1>27, <1>28
       DEF Trail

(***************************************************************************)
(* The last line of the file is an event below the bound.                  *)
(***************************************************************************)
LEMMA LastLine ==
    ASSUME Shapes, Below, file # <<>>, NEW m \in Nat, m = Len(file),
           NEW b \in Nat, b = bound
    PROVE  m \in DOMAIN file /\ file[m] \in 1..appended /\ file[m] < b
  <1>1. PICK n \in Nat : n = Len(archives)
    BY LenProperties DEF Shapes
  <1>2. n + 1 \in DOMAIN files /\ files[n + 1] = file
    BY <1>1, FilesAre
  <1>3. file \in Seq(1..appended)
    BY DEF Shapes
  <1>4. m \in DOMAIN file
    BY <1>3, EmptySeq, LenProperties
  <1>5. file[m] \in 1..appended
    BY <1>3, <1>4, LenProperties, ElementOfSeq
  <1> QED
    BY <1>2, <1>4, <1>5 DEF Below

(***************************************************************************)
(* The head of the queue is done with, written or refused: the chain goes  *)
(* on to its neighbour, which is linked to it.                             *)
(***************************************************************************)
LEMMA QueueMoves ==
    ASSUME Shapes, Trail, eventQueue # <<>>, eventQueue' = Tail(eventQueue),
           writer' = "idle", appended' = appended,
           previousHash' = previousHash, eventCache' = eventCache,
           file' = file, archives' = archives, reading' = reading,
           linesRead' = linesRead
    PROVE  /\ Queued' /\ DiskInOrder' /\ Below' /\ LinkedBack'
           /\ CalmLinks => CalmLinks'
           /\ CalmLinks /\ SoundLinks /\ writer = "hash" => SoundLinks'
           /\ Head(eventQueue) = next
  <1>1. PICK n \in Nat : n = appended
    BY DEF Shapes
  <1>2. eventQueue \in Seq(1..n)
    BY <1>1 DEF Shapes
  <1>3. PICK q \in Nat : q = Len(eventQueue)
    BY <1>2, LenProperties
  <1>4. PICK x \in Nat : x = next
    BY <1>1, <1>3, NextIs DEF Trail
  <1>5. /\ x >= 1 /\ x + q = n + 1 /\ q > 0 /\ x \in 1..n
        /\ x = Head(eventQueue)
    BY <1>1, <1>3, <1>4, NextIs DEF Trail
  <1>6. PICK rest : rest = eventQueue'
    OBVIOUS
  <1>7. /\ rest \in Seq(1..n) /\ Len(rest) = q - 1
        /\ \A i \in 1..(q - 1) : rest[i] = eventQueue[i + 1]
    BY <1>2, <1>3, <1>6, HeadTailProperties
  <1>8. rest # <<>> => q > 1
    BY <1>5, <1>7, EmptySeq
  <1>9. next' = x + 1
    <2>1. next' = n - (q - 1) + 1
      BY <1>1, <1>6, <1>7 DEF next
    <2> QED
      BY <1>5, <2>1
  <1>10. bound' = x + 1
    BY <1>9 DEF bound
  <1>11. PICK b \in Nat : b = bound /\ b <= x + 1
    BY <1>1, <1>3, <1>4, NextIs DEF Trail
  <1>12. Queued'
    <2>1. ASSUME NEW i \in 1..(q - 1)
          PROVE  rest[i] = (x + 1) + i - 1
      <3>1. i + 1 \in 1..q
        BY <2>1
      <3>2. eventQueue[i + 1] = x + (i + 1) - 1
        BY <1>3, <1>4, <3>1 DEF Trail, Queued
      <3> QED
        BY <1>7, <2>1, <3>2
    <2>2. eventCache # <<>>
      BY DEF Trail, Queued
    <2> QED
      BY <1>6, <1>7, <1>9, <2>1, <2>2 DEF Queued
  <1>13. DiskInOrder' /\ Below'
    <2>1. PICK c \in Nat : c = x + 1
      OBVIOUS
    <2> QED
      BY <1>10, <1>11, <2>1, DiskStays DEF Trail
  <1>14. LinkedBack'
    BY DEF Trail, LinkedBack
  <1>15. ASSUME CalmLinks
         PROVE  CalmLinks'
    <2>1. Neighbours'
      <3>1. \A e \in 1..n : e > x + 1 => previousHash[e] = e - 1
        BY <1>1, <1>4, <1>15 DEF CalmLinks, Neighbours
      <3> QED
        BY <1>1, <1>9, <3>1 DEF Neighbours
    <2>2. ASSUME file # <<>>, rest # <<>>
          PROVE  file[Len(file)] <= previousHash[x + 1]
      <3>1. PICK m \in Nat : m = Len(file)
        BY LenProperties DEF Shapes
      <3>2. file[m] \in 1..n /\ file[m] < b
        BY <1>1, <1>11, <2>2, <3>1, LastLine DEF Trail
      <3>3. x + 1 \in 1..n
        BY <1>5, <1>8, <2>2
      <3>4. previousHash[x + 1] = x + 1 - 1
        BY <1>1, <1>4, <1>15, <3>3 DEF CalmLinks, Neighbours
      <3> QED
        BY <1>11, <3>1, <3>2, <3>4
    <2>3. FileBehind'
      BY <1>6, <1>9, <2>2 DEF FileBehind
    <2>4. LinesBehind'
      BY <1>15 DEF CalmLinks, LinesBehind
    <2>5. CacheLast' /\ CacheOfQueue'
      BY <1>15 DEF CalmLinks, CacheLast, CacheOfQueue
    <2>6. ReadingIsCalm'
      BY <1>15 DEF CalmLinks, ReadingIsCalm
    <2> QED
      BY <2>1, <2>3, <2>4, <2>5, <2>6 DEF CalmLinks
  <1>16. ASSUME CalmLinks, SoundLinks, writer = "hash"
         PROVE  SoundLinks'
    <2>1. file # <<>> /\ file[Len(file)] = x
      BY <1>4, <1>16 DEF Trail, Queued
    <2>2. ASSUME rest # <<>>
          PROVE  x = previousHash[x + 1]
      <3>1. x + 1 \in 1..n
        BY <1>5, <1>8, <2>2
      <3>2. previousHash[x + 1] = x + 1 - 1
        BY <1>1, <1>4, <1>16, <3>1 DEF CalmLinks, Neighbours
      <3> QED
        BY <3>2
    <2>3. FileMeets'
      BY <1>6, <1>9, <2>1, <2>2 DEF FileMeets
    <2>4. CacheMeets'
      <3>1. rest = <<>> => x = n
        BY <1>5, <1>7, EmptySeq
      <3>2. eventCache[Len(eventCache)] = n
        BY <1>1, <1>16 DEF CalmLinks, CacheOfQueue
      <3> QED
        BY <1>6, <2>1, <3>1, <3>2 DEF CacheMeets
    <2>5. filesChained'
      BY <1>16 DEF SoundLinks, filesChained, chained
    <2> QED
      BY <2>3, <2>4, <2>5 DEF SoundLinks
  <1> QED
    BY <1>4, <1>5, <1>12, <1>13, <1>14, <1>15, <1>16

(***************************************************************************)
(* The hash of the head is written, and the two files agree again.         *)
(***************************************************************************)
LEMMA WriteHashKeeps ==
    ASSUME Shapes, Trail, writeHash
    PROVE  Trail'
  <1>1. eventQueue # <<>>
    BY DEF Shapes, writeHash
  <1>2. /\ eventQueue' = Tail(eventQueue) /\ writer' = "idle"
        /\ hashFile' = Append(hashFile, Head(eventQueue))
        /\ appended' = appended /\ previousHash' = previousHash
        /\ eventCache' = eventCache /\ file' = file /\ archives' = archives
        /\ reading' = reading /\ linesRead' = linesRead /\ writer = "hash"
    BY DEF writeHash, memory
  <1>3. Calm' => Calm
    BY DEF writeHash, Calm
  <1>4. Sound' => Sound /\ Calm
    BY DEF writeHash, Sound, Calm
  <1>5. Whole' => Whole
    BY DEF writeHash, Whole
  <1>6. /\ Queued' /\ DiskInOrder' /\ Below' /\ LinkedBack'
        /\ CalmLinks => CalmLinks'
        /\ CalmLinks /\ SoundLinks => SoundLinks'
        /\ Head(eventQueue) = next
    BY <1>1, <1>2, QueueMoves
  <1>7. HashesFollow => HashesFollow'
    BY <1>2, <1>6 DEF HashesFollow
  <1> QED
    BY <1>3, <1>4, <1>5, <1>6, <1>7 DEF Trail

(***************************************************************************)
(* A refused write loses its event, on the file or on its hash file.       *)
(***************************************************************************)
LEMMA RefuseWriteKeeps ==
    ASSUME Shapes, Trail, refuseWrite
    PROVE  Trail'
  <1>1. eventQueue # <<>>
    BY DEF Shapes, refuseWrite
  <1>2. /\ eventQueue' = Tail(eventQueue) /\ writer' = "idle"
        /\ appended' = appended /\ previousHash' = previousHash
        /\ eventCache' = eventCache /\ file' = file /\ archives' = archives
        /\ reading' = reading /\ linesRead' = linesRead
    BY DEF refuseWrite, memory, disk, afterRefusal
  <1>3. Calm' => Calm
    BY DEF refuseWrite, Calm
  <1>4. ~Sound' /\ ~Whole'
    BY DEF refuseWrite, Sound, Whole
  <1>5. /\ Queued' /\ DiskInOrder' /\ Below' /\ LinkedBack'
        /\ CalmLinks => CalmLinks'
    BY <1>1, <1>2, QueueMoves
  <1> QED
    BY <1>3, <1>4, <1>5 DEF Trail

(***************************************************************************)
(* The chain goes from one step to the next beside the event file.         *)
(***************************************************************************)
LEMMA WriterMoves ==
    ASSUME Shapes, Trail, writer # "hash", writer' # "hash",
           eventQueue' = eventQueue, appended' = appended,
           previousHash' = previousHash, eventCache' = eventCache,
           file' = file, archives' = archives, reading' = reading,
           linesRead' = linesRead
    PROVE  /\ Queued' /\ DiskInOrder' /\ Below' /\ LinkedBack'
           /\ CalmLinks => CalmLinks'
           /\ SoundLinks => SoundLinks'
  <1>1. next' = next
    BY DEF next
  <1>2. Queued' /\ LinkedBack'
    BY <1>1 DEF Trail, Queued, LinkedBack
  <1>3. DiskInOrder' /\ Below'
    <2>1. bound' = bound
      BY <1>1 DEF bound
    <2> QED
      BY <2>1 DEF Trail, DiskInOrder, Below, files
  <1>4. CalmLinks => CalmLinks'
    BY <1>1 DEF CalmLinks, Neighbours, FileBehind, LinesBehind, CacheLast,
                CacheOfQueue, ReadingIsCalm
  <1>5. SoundLinks => SoundLinks'
    BY <1>1 DEF SoundLinks, FileMeets, CacheMeets, filesChained, chained
  <1> QED
    BY <1>2, <1>3, <1>4, <1>5

(***************************************************************************)
(* A full file is moved behind the rotated ones.                           *)
(***************************************************************************)
LEMMA RotateFileKeeps ==
    ASSUME Shapes, Trail, rotateFile
    PROVE  Trail'
  <1>1. /\ writer = "idle" /\ eventQueue # <<>> /\ eventQueue' = eventQueue
        /\ appended' = appended /\ previousHash' = previousHash
        /\ eventCache' = eventCache /\ hashFile' = hashFile
        /\ reading' = reading /\ linesRead' = linesRead
    BY DEF rotateFile, memory
  <1>2. Calm' => Calm
    BY DEF rotateFile, Calm
  <1>3. Sound' => Sound
    BY DEF rotateFile, Sound
  <1>4. Whole' => Whole
    BY DEF rotateFile, Whole
  <1>5. next' = next
    BY <1>1 DEF next
  <1>6. CASE ~full
    <2>1. writer' = "event" /\ file' = file /\ archives' = archives
      BY <1>6 DEF rotateFile
    <2>2. /\ Queued' /\ DiskInOrder' /\ Below' /\ LinkedBack'
          /\ CalmLinks => CalmLinks'
          /\ SoundLinks => SoundLinks'
      BY <1>1, <2>1, WriterMoves
    <2>3. HashesFollow => HashesFollow'
      BY <1>1, <2>1 DEF HashesFollow
    <2> QED
      BY <1>2, <1>3, <1>4, <2>2, <2>3 DEF Trail
  <1>7. CASE full
    <2>1. /\ writer' = "rotateHash" /\ file' = <<>>
          /\ archives' = Append(archives, file)
      BY <1>7 DEF rotateFile
    <2>2. Queued' /\ LinkedBack'
      BY <1>1, <1>5, <2>1 DEF Trail, Queued, LinkedBack
    <2>3. DiskInOrder' /\ Below'
      <3>1. bound' = bound
        BY <1>1, <1>5, <2>1 DEF bound
      <3> QED
        BY <2>1, <3>1, DiskRotates DEF Trail
    <2>4. Len(<<>>) = 0
      BY EmptySeq
    <2>5. eventCache # <<>>
      BY <1>1 DEF Trail, Queued
    <2>6. ASSUME CalmLinks
          PROVE  CalmLinks'
      <3>1. Neighbours'
        BY <1>1, <1>5, <2>6 DEF CalmLinks, Neighbours
      <3>2. FileBehind'
        BY <2>1 DEF FileBehind
      <3>3. LinesBehind'
        BY <2>1, <2>4 DEF LinesBehind
      <3>4. CacheLast' /\ CacheOfQueue'
        BY <1>1, <2>6 DEF CalmLinks, CacheLast, CacheOfQueue
      <3>5. ReadingIsCalm'
        BY <1>1, <2>5, <2>6 DEF CalmLinks, ReadingIsCalm
      <3> QED
        BY <3>1, <3>2, <3>3, <3>4, <3>5 DEF CalmLinks
    <2>7. ASSUME SoundLinks
          PROVE  SoundLinks'
      <3>1. PICK n \in Nat : n = Len(archives)
        BY LenProperties DEF Shapes
      <3>2. PICK more : more = archives'
        OBVIOUS
      <3>3. /\ DOMAIN archives = 1..n /\ DOMAIN more = 1..(n + 1)
            /\ \A k \in 1..n : more[k] = archives[k]
            /\ more[n + 1] = file
        <4>1. archives \in Seq(Seq(1..appended)) /\ file \in Seq(1..appended)
          BY DEF Shapes
        <4> QED
          BY <2>1, <3>1, <3>2, <4>1, OneMore
      <3>4. chained(file) /\ \A k \in 1..n : chained(archives[k])
        BY <2>7, <3>3 DEF SoundLinks, filesChained
      <3>5. \A k \in 1..(n + 1) : chained(more[k])
        <4>1. ASSUME NEW k \in 1..(n + 1) PROVE chained(more[k])
          <5>1. CASE k \in 1..n
            BY <3>3, <3>4, <5>1
          <5>2. CASE k = n + 1
            BY <3>3, <3>4, <5>2
          <5> QED
            BY <4>1, <5>1, <5>2
        <4> QED
          BY <4>1
      <3>6. filesChained'
        BY <1>1, <2>1, <2>4, <3>2, <3>3, <3>5 DEF filesChained, chained
      <3>7. FileMeets' /\ CacheMeets'
        BY <1>1, <2>1 DEF FileMeets, CacheMeets
      <3> QED
        BY <3>6, <3>7 DEF SoundLinks
    <2>8. HashesFollow'
      BY <2>1 DEF HashesFollow
    <2> QED
      BY <1>2, <1>3, <2>2, <2>3, <2>6, <2>7, <2>8 DEF Trail
  <1> QED
    BY <1>6, <1>7

(***************************************************************************)
(* The hash file follows it.                                               *)
(***************************************************************************)
LEMMA RotateHashKeeps ==
    ASSUME Shapes, Trail, rotateHash
    PROVE  Trail'
  <1>1. /\ writer = "rotateHash" /\ writer' = "event" /\ hashFile' = <<>>
        /\ eventQueue' = eventQueue
        /\ appended' = appended /\ previousHash' = previousHash
        /\ eventCache' = eventCache /\ file' = file /\ archives' = archives
        /\ reading' = reading /\ linesRead' = linesRead
    BY DEF rotateHash, memory
  <1>2. Calm' => Calm
    BY DEF rotateHash, Calm
  <1>3. Sound' => Sound
    BY DEF rotateHash, Sound
  <1>4. Whole' => Whole
    BY DEF rotateHash, Whole
  <1>5. /\ Queued' /\ DiskInOrder' /\ Below' /\ LinkedBack'
        /\ CalmLinks => CalmLinks'
        /\ SoundLinks => SoundLinks'
    BY <1>1, WriterMoves
  <1>6. HashesFollow => HashesFollow'
    BY <1>1 DEF HashesFollow
  <1> QED
    BY <1>2, <1>3, <1>4, <1>5, <1>6 DEF Trail

(***************************************************************************)
(* A refused renaming leaves both files where they were.                   *)
(***************************************************************************)
LEMMA RefuseRotationKeeps ==
    ASSUME Shapes, Trail, refuseRotation
    PROVE  Trail'
  <1>1. /\ writer # "hash" /\ writer' = "event" /\ eventQueue' = eventQueue
        /\ appended' = appended /\ previousHash' = previousHash
        /\ eventCache' = eventCache /\ file' = file /\ archives' = archives
        /\ reading' = reading /\ linesRead' = linesRead
    BY DEF refuseRotation, memory, disk
  <1>2. Calm' => Calm
    BY DEF refuseRotation, Calm
  <1>3. ~Sound' /\ ~Whole'
    BY DEF refuseRotation, Sound, Whole
  <1>4. /\ Queued' /\ DiskInOrder' /\ Below' /\ LinkedBack'
        /\ CalmLinks => CalmLinks'
    BY <1>1, WriterMoves
  <1> QED
    BY <1>2, <1>3, <1>4 DEF Trail

(***************************************************************************)
(* The event goes behind the line it is linked to, or behind one from      *)
(* before it.                                                              *)
(***************************************************************************)
LEMMA WriteEventKeeps ==
    ASSUME Shapes, Trail, writeEvent
    PROVE  Trail'
  <1>1. /\ writer = "event" /\ writer' = "hash" /\ eventQueue # <<>>
        /\ eventQueue' = eventQueue /\ file' = Append(file, Head(eventQueue))
        /\ appended' = appended /\ previousHash' = previousHash
        /\ eventCache' = eventCache /\ hashFile' = hashFile
        /\ archives' = archives /\ reading' = reading
        /\ linesRead' = linesRead
    BY DEF writeEvent, nextEvent, memory, Shapes
  <1>2. PICK n \in Nat : n = appended
    BY DEF Shapes
  <1>3. PICK q \in Nat : q = Len(eventQueue)
    BY LenProperties DEF Shapes
  <1>4. PICK x \in Nat : x = next
    BY <1>2, <1>3, NextIs DEF Trail
  <1>5. x \in 1..n /\ x = Head(eventQueue)
    BY <1>1, <1>2, <1>3, <1>4, NextIs DEF Trail
  <1>6. next' = x
    BY <1>1, <1>4 DEF next
  <1>7. bound = x /\ bound' = x + 1
    BY <1>1, <1>4, <1>6 DEF bound
  <1>8. PICK m \in Nat : m = Len(file)
    BY LenProperties DEF Shapes
  <1>9. PICK longer : longer = file'
    OBVIOUS
  <1>10. /\ Len(longer) = m + 1 /\ longer # <<>>
         /\ \A i \in 1..m : longer[i] = file[i]
         /\ longer[m + 1] = x
    <2>1. file \in Seq(1..n)
      BY <1>2 DEF Shapes
    <2>2. longer = Append(file, x)
      BY <1>1, <1>5, <1>9
    <2> QED
      BY <1>5, <1>8, <2>1, <2>2, OneMore
  <1>11. Queued'
    <2>1. /\ \A i \in 1..Len(eventQueue') : eventQueue'[i] = x + i - 1
          /\ eventCache' = <<>> => eventQueue' = <<>>
      BY <1>1, <1>4 DEF Trail, Queued
    <2> QED
      BY <1>6, <1>9, <1>10, <2>1 DEF Queued
  <1>12. DiskInOrder' /\ Below'
    BY <1>1, <1>2, <1>5, <1>7, DiskGrows DEF Trail
  <1>13. LinkedBack'
    BY <1>1 DEF Trail, LinkedBack
  <1>14. eventCache # <<>>
    BY <1>1 DEF Trail, Queued
  <1>15. m > 0 => file # <<>>
    BY <1>8, EmptySeq
  <1>16. Calm' => Calm
    BY DEF writeEvent, Calm
  <1>17. Sound' => Sound
    BY DEF writeEvent, Sound
  <1>18. Whole' => Whole
    BY DEF writeEvent, Whole
  <1>19. ASSUME CalmLinks
         PROVE  CalmLinks'
    <2>1. Neighbours'
      BY <1>1, <1>4, <1>6, <1>19 DEF CalmLinks, Neighbours
    <2>2. FileBehind'
      BY <1>1 DEF FileBehind
    <2>3. ASSUME NEW i \in 2..(m + 1)
          PROVE  longer[i - 1] <= previousHash[longer[i]]
      <3>1. CASE i \in 2..m
        <4>1. longer[i] = file[i] /\ longer[i - 1] = file[i - 1]
          BY <1>10, <3>1
        <4> QED
          BY <1>8, <1>19, <3>1, <4>1 DEF CalmLinks, LinesBehind
      <3>2. CASE i = m + 1
        <4>1. file # <<>> /\ m \in 1..m
          BY <1>15, <2>3, <3>2
        <4>2. file[m] <= previousHash[x]
          BY <1>1, <1>4, <1>8, <1>19, <4>1 DEF CalmLinks, FileBehind
        <4>3. longer[i - 1] = file[m] /\ longer[i] = x
          BY <1>10, <3>2, <4>1
        <4> QED
          BY <4>2, <4>3
      <3> QED
        BY <2>3, <3>1, <3>2
    <2>4. LinesBehind'
      BY <1>1, <1>9, <1>10, <2>3 DEF LinesBehind
    <2>5. CacheLast' /\ CacheOfQueue'
      BY <1>1, <1>19 DEF CalmLinks, CacheLast, CacheOfQueue
    <2>6. ReadingIsCalm'
      BY <1>1, <1>14, <1>19 DEF CalmLinks, ReadingIsCalm
    <2> QED
      BY <2>1, <2>2, <2>4, <2>5, <2>6 DEF CalmLinks
  <1>20. ASSUME SoundLinks
         PROVE  SoundLinks'
    <2>1. ASSUME NEW i \in 2..(m + 1)
          PROVE  previousHash[longer[i]] = longer[i - 1]
      <3>1. CASE i \in 2..m
        <4>1. longer[i] = file[i] /\ longer[i - 1] = file[i - 1]
          BY <1>10, <3>1
        <4> QED
          BY <1>8, <1>20, <3>1, <4>1 DEF SoundLinks, filesChained, chained
      <3>2. CASE i = m + 1
        <4>1. file # <<>> /\ m \in 1..m
          BY <1>15, <2>1, <3>2
        <4>2. file[m] = previousHash[x]
          BY <1>1, <1>4, <1>8, <1>20, <4>1 DEF SoundLinks, FileMeets
        <4>3. longer[i - 1] = file[m] /\ longer[i] = x
          BY <1>10, <3>2, <4>1
        <4> QED
          BY <4>2, <4>3
      <3> QED
        BY <2>1, <3>1, <3>2
    <2>2. filesChained'
      BY <1>1, <1>9, <1>10, <1>20, <2>1 DEF SoundLinks, filesChained, chained
    <2>3. FileMeets' /\ CacheMeets'
      BY <1>1 DEF FileMeets, CacheMeets
    <2> QED
      BY <2>2, <2>3 DEF SoundLinks
  <1>21. HashesFollow => HashesFollow'
    BY <1>1, <1>4, <1>5, <1>6 DEF HashesFollow
  <1> QED
    BY <1>11, <1>12, <1>13, <1>16, <1>17, <1>18, <1>19, <1>20, <1>21 DEF Trail

(***************************************************************************)
(* loadAsync() starts, and reads the file.                                 *)
(***************************************************************************)
LEMMA ReaderKeeps ==
    ASSUME Shapes, Trail, loadAsync \/ readFile
    PROVE  Trail'
  <1>1. /\ writer' = writer /\ eventQueue' = eventQueue
        /\ appended' = appended /\ previousHash' = previousHash
        /\ eventCache' = eventCache /\ file' = file /\ hashFile' = hashFile
        /\ archives' = archives
    BY DEF loadAsync, readFile, disk
  <1>2. next' = next
    BY <1>1 DEF next
  <1>3. Queued' /\ LinkedBack'
    BY <1>1, <1>2 DEF Trail, Queued, LinkedBack
  <1>4. DiskInOrder' /\ Below'
    <2>1. bound' = bound
      BY <1>1, <1>2 DEF bound
    <2> QED
      BY <1>1, <2>1 DEF Trail, DiskInOrder, Below, files
  <1>5. Calm' => Calm
    BY DEF loadAsync, readFile, Calm
  <1>6. Sound' => Sound
    BY DEF loadAsync, readFile, Sound
  <1>7. Whole' => Whole
    BY DEF loadAsync, readFile, Whole
  <1>8. CalmLinks => CalmLinks'
    <2>1. ReadingIsCalm => ReadingIsCalm'
      BY DEF ReadingIsCalm, loadAsync, readFile, disk
    <2> QED
      BY <1>1, <1>2, <2>1 DEF CalmLinks, Neighbours, FileBehind, LinesBehind,
         CacheLast, CacheOfQueue
  <1>9. SoundLinks => SoundLinks'
    BY <1>1, <1>2 DEF SoundLinks, FileMeets, CacheMeets, filesChained, chained
  <1>10. HashesFollow => HashesFollow'
    BY <1>1, <1>2 DEF HashesFollow
  <1> QED
    BY <1>3, <1>4, <1>5, <1>6, <1>7, <1>8, <1>9, <1>10 DEF Trail

(***************************************************************************)
(* What was read becomes the cache: the whole file, when nothing was       *)
(* appended meanwhile.                                                     *)
(***************************************************************************)
LEMMA LoadReturnsKeeps ==
    ASSUME Shapes, Trail, loadAsyncReturns
    PROVE  Trail'
  <1>1. /\ writer' = writer /\ eventQueue' = eventQueue
        /\ appended' = appended /\ previousHash' = previousHash
        /\ file' = file /\ hashFile' = hashFile /\ archives' = archives
        /\ eventCache' = IF linesRead = <<>> THEN eventCache ELSE linesRead
        /\ reading = "read" /\ reading' = "no"
    BY DEF loadAsyncReturns, disk
  <1>2. next' = next
    BY <1>1 DEF next
  <1>3. Queued' /\ LinkedBack'
    BY <1>1, <1>2 DEF Trail, Queued, LinkedBack
  <1>4. DiskInOrder' /\ Below'
    <2>1. bound' = bound
      BY <1>1, <1>2 DEF bound
    <2> QED
      BY <1>1, <2>1 DEF Trail, DiskInOrder, Below, files
  <1>5. Calm' => Calm
    BY DEF loadAsyncReturns, Calm
  <1>6. Sound' => Sound /\ Calm
    BY DEF loadAsyncReturns, Sound, Calm
  <1>7. Whole' => Whole
    BY DEF loadAsyncReturns, Whole
  <1>8. ASSUME CalmLinks
        PROVE  /\ eventQueue = <<>>
               /\ eventCache' = <<>> \/ (file # <<>> /\ eventCache' = file)
    BY <1>1, <1>8 DEF CalmLinks, ReadingIsCalm, Trail, Queued
  <1>9. CalmLinks => CalmLinks'
    BY <1>1, <1>2, <1>8 DEF CalmLinks, Neighbours, FileBehind, LinesBehind,
       CacheLast, CacheOfQueue, ReadingIsCalm
  <1>10. CalmLinks /\ SoundLinks => SoundLinks'
    BY <1>1, <1>2, <1>8
       DEF SoundLinks, FileMeets, CacheMeets, filesChained, chained
  <1>11. HashesFollow => HashesFollow'
    BY <1>1, <1>2 DEF HashesFollow
  <1> QED
    BY <1>3, <1>4, <1>5, <1>6, <1>7, <1>9, <1>10, <1>11 DEF Trail

(***************************************************************************)
(* A crash empties the memory: what was queued is lost, and the next event *)
(* will be linked to the last line of the file.                            *)
(***************************************************************************)
LEMMA CrashKeeps ==
    ASSUME Shapes, Trail, Crash
    PROVE  Trail'
  <1>1. /\ writer' = "idle" /\ eventQueue' = <<>> /\ eventCache' = <<>>
        /\ appended' = appended /\ previousHash' = previousHash
        /\ file' = file /\ archives' = archives /\ reading' = "no"
    BY DEF Crash, disk
  <1>2. PICK n \in Nat : n = appended
    BY DEF Shapes
  <1>3. PICK q \in Nat : q = Len(eventQueue)
    BY LenProperties DEF Shapes
  <1>4. Len(<<>>) = 0
    BY EmptySeq
  <1>5. next' = n + 1
    BY <1>1, <1>2, <1>4 DEF next
  <1>6. bound' = n + 1
    BY <1>1, <1>5 DEF bound
  <1>7. PICK b \in Nat : b = bound /\ b <= n + 1
    <2>1. /\ bound \in Nat /\ next \in Nat /\ next + q = n + 1
          /\ writer = "hash" => eventQueue # <<>>
          /\ eventQueue # <<>> => q > 0
      BY <1>2, <1>3, NextIs DEF Trail, Shapes
    <2> QED
      BY <2>1 DEF bound
  <1>8. Queued'
    BY <1>1, <1>4 DEF Queued
  <1>9. DiskInOrder' /\ Below'
    <2>1. PICK c \in Nat : c = n + 1
      OBVIOUS
    <2> QED
      BY <1>1, <1>6, <1>7, <2>1, DiskStays DEF Trail
  <1>10. LinkedBack'
    BY <1>1 DEF Trail, LinkedBack
  <1>11. Calm' => Calm
    BY DEF Crash, Calm
  <1>12. Sound' => Sound
    BY DEF Crash, Sound
  <1>13. ~Whole'
    BY BoundsAssumption DEF Crash, Whole, Shapes
  <1>14. ASSUME CalmLinks
         PROVE  CalmLinks'
    <2>1. Neighbours'
      BY <1>1, <1>2, <1>5 DEF Neighbours
    <2>2. LinesBehind'
      BY <1>1, <1>14 DEF CalmLinks, LinesBehind
    <2>3. FileBehind' /\ CacheLast' /\ CacheOfQueue' /\ ReadingIsCalm'
      BY <1>1 DEF FileBehind, CacheLast, CacheOfQueue, ReadingIsCalm
    <2> QED
      BY <2>1, <2>2, <2>3 DEF CalmLinks
  <1>15. SoundLinks => SoundLinks'
    BY <1>1 DEF SoundLinks, FileMeets, CacheMeets, filesChained, chained
  <1> QED
    BY <1>8, <1>9, <1>10, <1>11, <1>12, <1>13, <1>14, <1>15 DEF Trail

-----------------------------------------------------------------------------
(***************************************************************************)
(* The invariant holds of an empty trail, and every step keeps it.         *)
(***************************************************************************)
LEMMA TrailInvariance == Init /\ [][Next]_vars => []TrailInv
  <1>1. Init => TrailInv
    <2> SUFFICES ASSUME Init PROVE TrailInv
      OBVIOUS
    <2>1. TypeOK
      <3>1. \A s : <<>> \in Seq(s)
        BY EmptySeq
      <3>2. {MaxEvents, MAX_BYTES, MaxCrashes} \subseteq Nat
        BY BoundsAssumption
      <3>3. Shapes
        BY <3>1, <3>2 DEF Init, Shapes, WriterSteps
      <3>4. failed \in BOOLEAN /\ raced \in BOOLEAN
        BY DEF Init
      <3> QED
        BY <3>3, <3>4 DEF Shapes, TypeOK
    <2>2. /\ eventCache = <<>> /\ file = <<>> /\ hashFile = <<>>
          /\ archives = <<>> /\ eventQueue = <<>> /\ writer = "idle"
          /\ reading = "no" /\ appended = 0
      BY DEF Init
    <2>3. Len(<<>>) = 0
      BY EmptySeq
    <2>4. Queued /\ LinkedBack
      BY <2>2, <2>3 DEF Queued, LinkedBack
    <2>5. DiskInOrder /\ Below
      <3>1. Shapes
        BY <2>1 DEF TypeOK, Shapes
      <3>2. DOMAIN files = 1..(0 + 1) /\ files[0 + 1] = file
        BY <2>2, <2>3, <3>1, FilesAre
      <3>3. \A k \in DOMAIN files : DOMAIN files[k] = {}
        BY <2>2, <3>2, EmptySeq
      <3> QED
        BY <3>3 DEF DiskInOrder, Below
    <2>6. CalmLinks
      BY <2>2, <2>3 DEF CalmLinks, Neighbours, FileBehind, LinesBehind,
         CacheLast, CacheOfQueue, ReadingIsCalm
    <2>7. SoundLinks
      <3>1. DOMAIN archives = {}
        BY <2>2, EmptySeq
      <3> QED
        BY <2>2, <2>3, <3>1
           DEF SoundLinks, FileMeets, CacheMeets, filesChained, chained
    <2>8. HashesFollow
      BY <2>2 DEF HashesFollow
    <2> QED
      BY <2>1, <2>4, <2>5, <2>6, <2>7, <2>8 DEF TrailInv, Trail
  <1>2. TrailInv /\ [Next]_vars => TrailInv'
    <2> SUFFICES ASSUME TrailInv, [Next]_vars PROVE TrailInv'
      OBVIOUS
    <2>1. CASE Next
      <3>1. Shapes
        BY DEF TrailInv, TypeOK, Shapes
      <3>2. Shapes'
        BY <2>1, <3>1, StepShapes
      <3>3. TypeOK'
        BY <2>1, TypeStep DEF TrailInv
      <3>4. Trail
        BY DEF TrailInv
      <3>5. CASE append
        BY <3>1, <3>2, <3>3, <3>4, <3>5, AppendKeeps DEF TrailInv
      <3>6. CASE rotateFile
        BY <3>1, <3>3, <3>4, <3>6, RotateFileKeeps DEF TrailInv
      <3>7. CASE rotateHash
        BY <3>1, <3>3, <3>4, <3>7, RotateHashKeeps DEF TrailInv
      <3>8. CASE writeEvent
        BY <3>1, <3>3, <3>4, <3>8, WriteEventKeeps DEF TrailInv
      <3>9. CASE writeHash
        BY <3>1, <3>3, <3>4, <3>9, WriteHashKeeps DEF TrailInv
      <3>10. CASE refuseWrite
        BY <3>1, <3>3, <3>4, <3>10, RefuseWriteKeeps DEF TrailInv
      <3>11. CASE refuseRotation
        BY <3>1, <3>3, <3>4, <3>11, RefuseRotationKeeps DEF TrailInv
      <3>12. CASE loadAsync \/ readFile
        BY <3>1, <3>3, <3>4, <3>12, ReaderKeeps DEF TrailInv
      <3>13. CASE loadAsyncReturns
        BY <3>1, <3>3, <3>4, <3>13, LoadReturnsKeeps DEF TrailInv
      <3>14. CASE Crash
        BY <3>1, <3>3, <3>4, <3>14, CrashKeeps DEF TrailInv
      <3> QED
        BY <2>1, <3>5, <3>6, <3>7, <3>8, <3>9, <3>10, <3>11, <3>12, <3>13,
           <3>14 DEF Next, writerStep
    <2>2. CASE UNCHANGED vars
      <3>1. /\ TypeOK' = TypeOK /\ Queued' = Queued
            /\ DiskInOrder' = DiskInOrder /\ Below' = Below
            /\ LinkedBack' = LinkedBack
        BY <2>2 DEF vars, memory, disk, TypeOK, Queued, DiskInOrder, Below,
           LinkedBack, files, next, bound
      <3>2. CalmLinks' = CalmLinks
        BY <2>2 DEF vars, memory, disk, CalmLinks, Neighbours, FileBehind,
           LinesBehind, CacheLast, CacheOfQueue, ReadingIsCalm, next
      <3>3. SoundLinks' = SoundLinks /\ HashesFollow' = HashesFollow
        BY <2>2 DEF vars, memory, disk, SoundLinks, FileMeets, CacheMeets,
           filesChained, chained, HashesFollow, next
      <3>4. Calm' = Calm /\ Sound' = Sound /\ Whole' = Whole
        BY <2>2 DEF vars, memory, disk, Calm, Sound, Whole
      <3> QED
        BY <3>1, <3>2, <3>3, <3>4 DEF TrailInv, Trail
    <2> QED
      BY <2>1, <2>2
  <1> QED
    BY <1>1, <1>2, PTL

(***************************************************************************)
(* A link that skips the line before it names an event between the two,    *)
(* and the order of the files has no place for one.                        *)
(***************************************************************************)
LEMMA BreaksAreLosses ==
    ASSUME Shapes, DiskInOrder, LinkedBack, LinesBehind
    PROVE  \A i \in 2..Len(file) :
              previousHash[file[i]] # file[i - 1] =>
                  \A k \in DOMAIN files :
                      ~Contains(files[k], previousHash[file[i]])
  <1> SUFFICES ASSUME NEW i \in 2..Len(file), NEW k \in DOMAIN files,
                      previousHash[file[i]] # file[i - 1],
                      NEW j \in 1..Len(files[k]),
                      files[k][j] = previousHash[file[i]]
               PROVE  FALSE
    BY DEF Contains
  <1>1. PICK n \in Nat : n = Len(archives)
    BY LenProperties DEF Shapes
  <1>2. /\ DOMAIN files = 1..(n + 1) /\ files[n + 1] = file
        /\ \A l \in 1..(n + 1) :
              /\ files[l] \in Seq(1..appended)
              /\ \A h \in DOMAIN files[l] : files[l][h] \in 1..appended
    BY <1>1, FilesAre
  <1>3. PICK m \in Nat : m = Len(file) /\ DOMAIN file = 1..m
    BY LenProperties DEF Shapes
  <1>4. j \in DOMAIN files[k] /\ k \in 1..(n + 1)
    BY <1>2, LenProperties
  <1>5. i \in 2..m /\ i - 1 \in 1..m /\ i \in 1..m
    BY <1>3
  <1>6. file[i] \in 1..appended /\ file[i - 1] \in 1..appended
        /\ files[k][j] \in 1..appended
    BY <1>2, <1>3, <1>4, <1>5
  <1>7. file[i - 1] < files[k][j] /\ files[k][j] < file[i]
    <2>1. file[i - 1] <= previousHash[file[i]]
      BY DEF LinesBehind
    <2>2. previousHash[file[i]] < file[i]
      BY <1>6 DEF LinkedBack
    <2> QED
      BY <1>6, <2>1, <2>2
  <1>8. CASE k < n + 1
    <2>1. files[k][j] < files[n + 1][i - 1]
      <3>1. k \in DOMAIN files /\ n + 1 \in DOMAIN files
        BY <1>2
      <3>2. i - 1 \in DOMAIN files[n + 1]
        BY <1>2, <1>3, <1>5
      <3> QED
        BY <1>4, <1>8, <3>1, <3>2 DEF DiskInOrder
    <2> QED
      BY <1>2, <1>6, <1>7, <2>1
  <1>9. CASE k = n + 1
    <2>1. files[k] = file /\ j \in 1..m
      BY <1>2, <1>3, <1>4, <1>9
    <2>2. ASSUME NEW a \in 1..m, NEW b \in 1..m, a < b
          PROVE  file[a] < file[b]
      <3>1. files[n + 1][a] < files[n + 1][b]
        <4>1. n + 1 \in DOMAIN files /\ a \in DOMAIN files[n + 1]
              /\ b \in DOMAIN files[n + 1]
          BY <1>2, <1>3, <2>2
        <4> QED
          BY <2>2, <4>1 DEF DiskInOrder
      <3> QED
        BY <1>2, <3>1
    <2>3. j = i - 1 \/ j < i - 1 \/ j = i \/ j > i
      BY <1>5, <2>1
    <2>4. j < i - 1 => file[j] < file[i - 1]
      BY <1>5, <2>1, <2>2
    <2>5. j > i => file[i] < file[j]
      BY <1>5, <2>1, <2>2
    <2> QED
      BY <1>6, <1>7, <2>1, <2>3, <2>4, <2>5
  <1> QED
    BY <1>4, <1>8, <1>9

(***************************************************************************)
(* Whatever is refused, rotated, reloaded or lost in a crash, the files    *)
(* hold the events in the order append() was called, none twice.           *)
(***************************************************************************)
THEOREM TrailStaysInOrder == Spec => []DiskInOrder
  <1>1. TrailInv => DiskInOrder
    BY DEF TrailInv, Trail
  <1> QED
    BY <1>1, TrailInvariance, PTL DEF Spec

(***************************************************************************)
(* The queue, the cache, the files and the write under way stay in their   *)
(* types, for any number of events and of a file's lines.                  *)
(***************************************************************************)
THEOREM TrailStaysTyped == Spec => []TypeOK
  <1>1. TrailInv => TypeOK
    BY DEF TrailInv
  <1> QED
    BY <1>1, TrailInvariance, PTL DEF Spec

(***************************************************************************)
(* Every file verifies unless a write was refused or the cache reloaded    *)
(* under an append(); a broken link names an event that is on no file; and *)
(* the hash file has the hash of every line between writes.                *)
(***************************************************************************)
THEOREM TrailStaysChained == Spec => []FilesVerify
  <1>1. TrailInv => FilesVerify
    <2> SUFFICES ASSUME TrailInv PROVE FilesVerify
      OBVIOUS
    <2>1. Shapes
      BY DEF TrailInv, TypeOK, Shapes
    <2>2. filesVerify
      BY DEF TrailInv, Trail, filesVerify, Sound, SoundLinks
    <2>3. hashesMatch
      BY DEF TrailInv, Trail, hashesMatch, Whole, HashesFollow
    <2>4. ~raced => LinesBehind
      BY DEF TrailInv, Trail, Calm, CalmLinks
    <2>5. breaksAreLosses
      BY <2>1, <2>4, BreaksAreLosses DEF TrailInv, Trail, breaksAreLosses
    <2> QED
      BY <2>2, <2>3, <2>5 DEF FilesVerify
  <1> QED
    BY <1>1, TrailInvariance, PTL DEF Spec
=============================================================================
