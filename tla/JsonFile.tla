------------------------------ MODULE JsonFile ------------------------------
(***************************************************************************)
(* A value in memory and the JSON file it is kept in, the way config-engine*)
(* does it (ConfigEngine.set, setGlobal and reset, ConfigVersioning's      *)
(* index): memory changes at once, then mkdir and writeFile are awaited,   *)
(* and the text is made between the two, from the object the call refers   *)
(* to.  Calls overlap, the process may stop, and a file that does not      *)
(* parse reads as Empty.                                                   *)
(***************************************************************************)
CONSTANTS
    Contents,
    Empty,
    Torn,         \* a file cut short or mixed of two texts
    Live,         \* the reference to the object in memory
    Writers       \* calls that may be in flight together

ASSUME ContentsAssumption ==
    /\ Empty \in Contents
    /\ Torn \notin Contents
    /\ Live \notin Contents

VARIABLES
    live,         \* the object in memory
    file,
    calls,        \* per call: its await, the content or the reference it
                  \* holds, and whether memory or the file moved under it
    disturbed     \* history: the file need not follow memory (see below)

jsonVars == <<live, file, calls, disturbed>>

Call(at, data, moved) == [at |-> at, data |-> data, moved |-> moved]

IdleCall == Call("idle", Live, FALSE)

JsonTypeOK ==
    /\ live \in Contents
    /\ file \in Contents \cup {Torn}
    /\ calls \in [Writers -> [at : {"idle", "mkdir", "write", "read"},
                              data : Contents \cup {Live}, moved : BOOLEAN]]
    /\ \A w \in Writers : calls[w].at \in {"write", "read"} => calls[w].data \in Contents
    /\ disturbed \in BOOLEAN

readJsonFile(f) == IF f = Torn THEN Empty ELSE f

JsonInit ==
    /\ file = Empty
    /\ live = Empty
    /\ calls = [w \in Writers |-> IdleCall]
    /\ disturbed = FALSE

-----------------------------------------------------------------------------
At(where) == {w \in Writers : calls[w].at = where}

\* What the call's object holds now.
content(w) == IF calls[w].data = Live THEN live ELSE calls[w].data

\* Calls that refer to the old object keep it when memory gets a new one.
frozen ==
    [w \in Writers |-> IF calls[w].at = "mkdir"
                       THEN Call("mkdir", content(w), TRUE) ELSE calls[w]]

\* An overlap of writes, or a write under a read, is noted in both.
touched(w) ==
    [v \in Writers |-> IF v # w /\ calls[v].at \in {"write", "read"}
                       THEN [calls[v] EXCEPT !.moved = TRUE] ELSE calls[v]]

\* The object is changed in place.
Change(w, c) ==
    /\ calls[w].at = "idle"
    /\ live' = c
    /\ calls' = [calls EXCEPT ![w] = Call("mkdir", Live, FALSE)]
    /\ UNCHANGED <<file, disturbed>>

\* Memory gets a new object; the call writes it, or an object of its own.
Replace(w, c, data) ==
    /\ calls[w].at = "idle"
    /\ live' = c
    /\ calls' = [frozen EXCEPT ![w] = Call("mkdir", data, data # Live)]
    /\ UNCHANGED <<file, disturbed>>

\* Somebody else writes the file.
WriteOther(w, c) ==
    /\ calls[w].at = "idle"
    /\ calls' = [calls EXCEPT ![w] = Call("mkdir", c, TRUE)]
    /\ UNCHANGED <<live, file, disturbed>>

\* mkdir is done: the text is made and the file truncated.
BeginWrite(w) ==
    /\ calls[w].at = "mkdir"
    /\ calls' = [touched(w) EXCEPT ![w] = Call("write", content(w), At("write") # {})]
    /\ file' = Torn
    /\ disturbed' = (At("write") # {} \/ (calls[w].moved /\ content(w) # live))
    /\ UNCHANGED live

\* Of writes that overlapped any one may be what is left, or a mixture.
EndWrite(w) ==
    /\ calls[w].at = "write"
    /\ file' \in IF calls[w].moved THEN {calls[w].data, file, Torn} ELSE {calls[w].data}
    /\ calls' = [touched(w) EXCEPT ![w] = IdleCall]
    /\ UNCHANGED <<live, disturbed>>

\* mkdir or writeFile rejects; memory keeps the change.
FailWrite(w) ==
    /\ calls[w].at \in {"mkdir", "write"}
    /\ calls' = [calls EXCEPT ![w] = IdleCall]
    /\ disturbed' = TRUE
    /\ UNCHANGED <<live, file>>

\* readFile took what was there.
BeginRead(w) ==
    /\ calls[w].at = "idle"
    /\ calls' = [calls EXCEPT ![w] = Call("read", readJsonFile(file), At("write") # {})]
    /\ UNCHANGED <<live, file, disturbed>>

\* What was read becomes a new object in memory, whatever was set meanwhile.
EndRead(w) ==
    /\ calls[w].at = "read"
    /\ live' = calls[w].data
    /\ calls' = [frozen EXCEPT ![w] = IdleCall]
    /\ disturbed' = calls[w].moved
    /\ UNCHANGED file

\* The process stops in any of its awaits; the next one reads the file.
Restart ==
    /\ file' \in IF At("write") = {} THEN {file}
                 ELSE {Torn} \cup {calls[w].data : w \in At("write")}
    /\ live' = readJsonFile(file')
    /\ calls' = [w \in Writers |-> IdleCall]
    /\ disturbed' = FALSE

JsonNext ==
    \/ Restart
    \/ \E w \in Writers :
          \/ BeginWrite(w) \/ EndWrite(w) \/ FailWrite(w)
          \/ BeginRead(w) \/ EndRead(w)
          \/ \E c \in Contents :
                Change(w, c) \/ Replace(w, c, Live) \/ Replace(w, c, c) \/ WriteOther(w, c)

JsonSpec == JsonInit /\ [][JsonNext]_jsonVars

-----------------------------------------------------------------------------
(***************************************************************************)
(* When no call is in flight the file reads as memory, however calls       *)
(* overlapped, unless the last write overlapped another or wrote an object *)
(* memory had left, a write failed, or memory was replaced by what was     *)
(* read under a write (`disturbed`).  Any one later write made alone, from *)
(* the object in memory, mends it.                                         *)
(***************************************************************************)
QuietFileMatches ==
    At("mkdir") \cup At("write") = {} /\ ~disturbed => readJsonFile(file) = live
=============================================================================
