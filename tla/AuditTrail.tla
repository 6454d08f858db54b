----------------------------- MODULE AuditTrail -----------------------------
(***************************************************************************)
(* packages/audit-trail/src/audit-trail.ts: an append-only event file in   *)
(* which every event carries the hash of the one before it.  append()      *)
(* links the event in memory and returns; a promise chain writes it later, *)
(* rotating the file when it is full.  The process may crash between any   *)
(* two writes, and a new one then goes on with the same files.             *)
(*                                                                         *)
(* An event is the number of its append(), which also stands for its hash; *)
(* 0 is the absent hash.  A line is written whole or not at all.           *)
(***************************************************************************)
EXTENDS Naturals, Sequences, SequencesExt, Functions

CONSTANTS
    MaxEvents,     \* bound on append() calls
    MAX_BYTES,     \* lines the file may hold before it is rotated
    MaxCrashes     \* bound on restarts

ASSUME BoundsAssumption == {MaxEvents, MAX_BYTES, MaxCrashes} \subseteq Nat

Events == 1..MaxEvents

VARIABLES
    appended,      \* events appended so far, by all processes
    previousHash,  \* event -> the event it names as its predecessor
    eventCache,
    file, hashFile,        \* lines of the event file and of its .hash file
    archives,              \* rotated event files, oldest first
    eventQueue, writer,    \* the promise chain, and the step its head is at
    reading,       \* loadAsync: "no", "reading" or "read"
    linesRead,     \* the lines it has read
    crashes,
    failed,        \* history: some write was refused
    raced          \* history: append() was called while loadAsync was reading

memory == <<eventCache, reading, linesRead>>
disk == <<file, hashFile, archives>>
vars == <<appended, previousHash, memory, disk, eventQueue, writer, crashes,
          failed, raced>>

WriterSteps == {"idle", "rotateHash", "event", "hash"}

TypeOK ==
    /\ appended \in 0..MaxEvents
    /\ previousHash \in [Events -> 0..MaxEvents]
    /\ {eventCache, file, hashFile, eventQueue, linesRead}
          \subseteq Seq(1..appended)
    /\ archives \in Seq(Seq(1..appended))
    /\ writer \in WriterSteps
    /\ reading \in {"no", "reading", "read"}
    /\ crashes \in 0..MaxCrashes
    /\ failed \in BOOLEAN /\ raced \in BOOLEAN
    /\ writer # "idle" => eventQueue # <<>>

Init ==
    /\ appended = 0
    /\ previousHash = [e \in Events |-> 0]
    /\ eventCache = <<>> /\ file = <<>> /\ hashFile = <<>> /\ archives = <<>>
    /\ eventQueue = <<>> /\ writer = "idle"
    /\ reading = "no" /\ linesRead = <<>>
    /\ crashes = 0 /\ failed = FALSE /\ raced = FALSE

-----------------------------------------------------------------------------
lastOr0(lines) == IF lines = <<>> THEN 0 ELSE Last(lines)

\* Mutant: a fresh process does not look into the file it goes on with.
getLastHashSync_CacheOnly(cache, lines) == lastOr0(cache)

\* Mutant: only what is on disk counts, not what is still queued.
getLastHashSync_DiskOnly(cache, lines) == lastOr0(lines)

getLastHashSync(cache, lines) ==
    IF cache # <<>> THEN lastOr0(cache) ELSE lastOr0(lines)

append ==
    /\ appended < MaxEvents
    /\ LET e == appended + 1 IN
       /\ appended' = e
       /\ previousHash' =
             [previousHash EXCEPT ![e] = getLastHashSync(eventCache, file)]
       /\ eventQueue' = Append(eventQueue, e)
       /\ eventCache' = Append(eventCache, e)
    /\ raced' = (raced \/ reading # "no")
    /\ UNCHANGED <<disk, writer, reading, linesRead, crashes, failed>>

-----------------------------------------------------------------------------
(* persistAsync: mkdir, rotateIfNeededAsync, the event, its hash.          *)

full == Len(file) > MAX_BYTES

\* Mutant: the file is rotated with no event behind it.
rotateFile_Alone ==
    /\ writer = "idle"
    /\ writer' = IF full THEN "rotateHash" ELSE "event"
    /\ UNCHANGED <<appended, previousHash, memory, disk, eventQueue, crashes,
                   failed, raced>>

\* The head of the chain starts, and moves the event file away if it is full.
rotateFile ==
    /\ writer = "idle" /\ eventQueue # <<>>
    /\ IF full
       THEN /\ archives' = Append(archives, file)
            /\ file' = <<>>
            /\ writer' = "rotateHash"
       ELSE writer' = "event" /\ UNCHANGED <<file, archives>>
    /\ UNCHANGED <<appended, previousHash, memory, hashFile, eventQueue,
                   crashes, failed, raced>>

\* Mutant: the hash file stays when the event file is rotated.
rotateHash_Stays ==
    /\ writer = "rotateHash"
    /\ writer' = "event"
    /\ UNCHANGED <<appended, previousHash, memory, disk, eventQueue, crashes,
                   failed, raced>>

rotateHash ==
    /\ writer = "rotateHash"
    /\ writer' = "event"
    /\ hashFile' = <<>>
    /\ UNCHANGED <<appended, previousHash, memory, file, archives, eventQueue,
                   crashes, failed, raced>>

\* Mutant: every queued event is written at once, in no order.
nextEvent_Any(queue) == {queue[i] : i \in DOMAIN queue}

nextEvent(queue) == {Head(queue)}

writeEvent ==
    /\ writer = "event"
    /\ \E e \in nextEvent(eventQueue) : file' = Append(file, e)
    /\ writer' = "hash"
    /\ UNCHANGED <<appended, previousHash, memory, hashFile, archives,
                   eventQueue, crashes, failed, raced>>

writeHash ==
    /\ writer = "hash"
    /\ hashFile' = Append(hashFile, Head(eventQueue))
    /\ eventQueue' = Tail(eventQueue)
    /\ writer' = "idle"
    /\ UNCHANGED <<appended, previousHash, memory, file, archives, crashes,
                   failed, raced>>

\* Mutant: a refused write rejects the chain, and nothing follows it.
afterRefusal_Stuck(queue) == queue

afterRefusal(queue) == Tail(queue)

\* mkdir or an appendFile is refused: the error is logged and swallowed.
refuseWrite ==
    /\ writer \in {"event", "hash"} \/ (writer = "idle" /\ eventQueue # <<>>)
    /\ eventQueue' = afterRefusal(eventQueue)
    /\ writer' = "idle"
    /\ failed' = TRUE
    /\ UNCHANGED <<appended, previousHash, memory, disk, crashes, raced>>

\* Renaming either file is refused: rotation stops and the write goes on.
refuseRotation ==
    /\ \/ writer = "idle" /\ eventQueue # <<>> /\ full
       \/ writer = "rotateHash"
    /\ writer' = "event"
    /\ failed' = TRUE
    /\ UNCHANGED <<appended, previousHash, memory, disk, eventQueue, crashes,
                   raced>>

-----------------------------------------------------------------------------
\* loadAsync() goes to the file only when the cache is empty.
loadAsync ==
    /\ reading = "no" /\ eventCache = <<>>
    /\ reading' = "reading"
    /\ UNCHANGED <<appended, previousHash, eventCache, linesRead, disk, eventQueue,
                   writer, crashes, failed, raced>>

readFile ==
    /\ reading = "reading"
    /\ reading' = "read"
    /\ linesRead' = file
    /\ UNCHANGED <<appended, previousHash, eventCache, disk, eventQueue,
                   writer, crashes, failed, raced>>

\* The lines replace the cache whatever it holds by now; a missing file
\* leaves it alone.
loadAsyncReturns ==
    /\ reading = "read"
    /\ eventCache' = IF linesRead = <<>> THEN eventCache ELSE linesRead
    /\ reading' = "no" /\ linesRead' = <<>>
    /\ UNCHANGED <<appended, previousHash, disk, eventQueue, writer, crashes,
                   failed, raced>>

Crash ==
    /\ crashes < MaxCrashes
    /\ crashes' = crashes + 1
    /\ eventCache' = <<>> /\ eventQueue' = <<>>
    /\ writer' = "idle" /\ reading' = "no" /\ linesRead' = <<>>
    /\ UNCHANGED <<appended, previousHash, disk, failed, raced>>

writerStep ==
    rotateFile \/ rotateHash \/ writeEvent \/ writeHash \/ refuseWrite
    \/ refuseRotation

Next == append \/ writerStep \/ loadAsync \/ readFile \/ loadAsyncReturns
        \/ Crash

\* The event loop runs the promise chain: each write settles, well or badly.
Fairness == WF_vars(writerStep)

Spec == Init /\ [][Next]_vars /\ Fairness

-----------------------------------------------------------------------------
\* The rotated files and the one in use, oldest first.
files == Append(archives, file)

(***************************************************************************)
(* The files hold the events in the order append() was called, none twice, *)
(* whatever was refused, lost in a crash or rotated in between.            *)
(***************************************************************************)
DiskInOrder ==
    \A k, l \in DOMAIN files :
        \A i \in DOMAIN files[k], j \in DOMAIN files[l] :
            k < l \/ (k = l /\ i < j) => files[k][i] < files[l][j]

chained(lines) ==
    \A i \in 2..Len(lines) : previousHash[lines[i]] = lines[i - 1]

filesChained ==
    chained(file) /\ \A k \in DOMAIN archives : chained(archives[k])

filesVerify == ~failed /\ ~raced => filesChained

hashesMatch ==
    crashes = 0 /\ ~failed /\ writer = "idle" => hashFile = file

breaksAreLosses ==
    ~raced => \A i \in 2..Len(file) :
        LET named == previousHash[file[i]] IN
        named # file[i - 1] =>
            \A k \in DOMAIN files : ~Contains(files[k], named)

(***************************************************************************)
(* Every file on disk passes verifyChain: crashes lose events and rotation *)
(* splits the chain, but no file is left with a broken link, unless a      *)
(* write was refused or the cache was reloaded under an append().  Unless  *)
(* it was reloaded so, a link that is broken is the mark of a loss: the    *)
(* event it names is on no file.  And between writes the .hash file has    *)
(* the hash of every line beside it, unless a crash or a refused write     *)
(* fell between the two.                                                   *)
(***************************************************************************)
FilesVerify == filesVerify /\ hashesMatch /\ breaksAreLosses

(***************************************************************************)
(* The chain of writes never stalls: every event leaves the queue, written *)
(* or refused.                                                             *)
(***************************************************************************)
QueueDrains ==
    \A e \in Events : Contains(eventQueue, e) ~> ~Contains(eventQueue, e)

(***************************************************************************)
(* Appending events leaves a chain that verifies when no write is refused  *)
(* (audit-trail-verification.test.ts, "should validate multi-event chain").*)
(***************************************************************************)
AppendsVerify == ~failed => filesChained
=============================================================================
