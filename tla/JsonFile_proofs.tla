--------------------------- MODULE JsonFile_proofs ---------------------------
(***************************************************************************)
(* Proof that a JsonFile at rest reads as memory, for every set of calls   *)
(* and of contents.                                                        *)
(*                                                                         *)
(* Why QuietFileMatches is not inductive: with a call in flight the file   *)
(* is behind memory, and the call has to be one that will bring it up.     *)
(* FollowInv says which: while nothing disturbed the file, a call that     *)
(* still holds what memory holds is on its way, or the only write under    *)
(* way carries it.                                                         *)
(***************************************************************************)
EXTENDS JsonFile, TLAPS

CallRecords ==
    [at : {"idle", "mkdir", "write", "read"},
     data : Contents \cup {Live}, moved : BOOLEAN]

pending == \E v \in At("mkdir") : content(v) = live

InFlight ==
    \A w \in At("write") :
        /\ At("write") = {w}
        /\ ~calls[w].moved
        /\ calls[w].data = live \/ pending

ReadsHold ==
    \A w \in At("read") :
        ~calls[w].moved => At("write") = {} /\ calls[w].data = readJsonFile(file)

FollowInv ==
    /\ JsonTypeOK
    /\ \A w \in At("mkdir") : ~calls[w].moved => calls[w].data = Live
    /\ ~disturbed => (At("write") = {} => readJsonFile(file) = live \/ pending)
    /\ ~disturbed => InFlight
    /\ ReadsHold

-----------------------------------------------------------------------------
(***************************************************************************)
(* What a file reads as, and what a call holds, are contents.              *)
(***************************************************************************)
LEMMA ReadTyped == JsonTypeOK => readJsonFile(file) \in Contents
  BY ContentsAssumption DEF JsonTypeOK, readJsonFile

LEMMA ContentTyped ==
  ASSUME JsonTypeOK, NEW w \in Writers
  PROVE  content(w) \in Contents
  BY DEF JsonTypeOK, content

LEMMA InitFollows == JsonInit => FollowInv
<1> SUFFICES ASSUME JsonInit PROVE FollowInv
  OBVIOUS
<1>1. \A w \in Writers : calls[w].at = "idle"
  BY DEF JsonInit, IdleCall, Call
<1>2. JsonTypeOK
  <2>1. IdleCall \in [at : {"idle", "mkdir", "write", "read"},
                      data : Contents \cup {Live}, moved : BOOLEAN]
    BY DEF IdleCall, Call
  <2> QED
    BY <1>1, <2>1, ContentsAssumption DEF JsonInit, JsonTypeOK
<1>3. readJsonFile(file) = live
  BY ContentsAssumption DEF JsonInit, readJsonFile
<1> QED
  BY <1>1, <1>2, <1>3 DEF FollowInv, At, InFlight, ReadsHold

LEMMA ChangeFollows ==
  ASSUME FollowInv, NEW w \in Writers, NEW c \in Contents, Change(w, c)
  PROVE  FollowInv'
<1>1. JsonTypeOK'
  BY ContentsAssumption, ReadTyped, ContentTyped DEF FollowInv, JsonTypeOK, Change, Call
<1>2. (\A v \in At("mkdir") : ~calls[v].moved => calls[v].data = Live)'
  BY DEF FollowInv, JsonTypeOK, At, Change, Call
<1>3. (~disturbed => (At("write") = {} => readJsonFile(file) = live \/ pending))'
  BY ContentsAssumption DEF FollowInv, JsonTypeOK, At, InFlight, ReadsHold, readJsonFile,
     pending, content, Change, Call
<1>4. (~disturbed => InFlight)'
  BY ContentsAssumption DEF FollowInv, JsonTypeOK, At, InFlight, pending, content, Change, Call
<1>5. ReadsHold'
  BY DEF FollowInv, JsonTypeOK, At, ReadsHold, readJsonFile, Change, Call
<1> QED
  BY <1>1, <1>2, <1>3, <1>4, <1>5 DEF FollowInv

LEMMA ReplaceFollows ==
  ASSUME FollowInv, NEW w \in Writers, NEW c \in Contents, 
         NEW data \in {Live, c}, Replace(w, c, data)
  PROVE  FollowInv'
<1>1. JsonTypeOK'
  BY ContentsAssumption, ReadTyped, ContentTyped DEF FollowInv, JsonTypeOK, Replace, Call, frozen, content
<1>2. (\A v \in At("mkdir") : ~calls[v].moved => calls[v].data = Live)'
  BY DEF FollowInv, JsonTypeOK, At, Replace, Call, frozen, content
<1>3. (~disturbed => (At("write") = {} => readJsonFile(file) = live \/ pending))'
  BY ContentsAssumption DEF FollowInv, JsonTypeOK, At, InFlight, ReadsHold, readJsonFile,
     pending, content, Replace, Call, frozen, content
<1>4. (~disturbed => InFlight)'
  BY ContentsAssumption DEF FollowInv, JsonTypeOK, At, InFlight, pending, content, Replace, Call, frozen, content
<1>5. ReadsHold'
  BY DEF FollowInv, JsonTypeOK, At, ReadsHold, readJsonFile, Replace, Call, frozen, content
<1> QED
  BY <1>1, <1>2, <1>3, <1>4, <1>5 DEF FollowInv

LEMMA WriteOtherFollows ==
  ASSUME FollowInv, NEW w \in Writers, NEW c \in Contents, WriteOther(w, c)
  PROVE  FollowInv'
<1>1. JsonTypeOK'
  BY ContentsAssumption, ReadTyped, ContentTyped DEF FollowInv, JsonTypeOK, WriteOther, Call
<1>2. (\A v \in At("mkdir") : ~calls[v].moved => calls[v].data = Live)'
  BY DEF FollowInv, JsonTypeOK, At, WriteOther, Call
<1>3. (~disturbed => (At("write") = {} => readJsonFile(file) = live \/ pending))'
  BY ContentsAssumption DEF FollowInv, JsonTypeOK, At, InFlight, ReadsHold, readJsonFile,
     pending, content, WriteOther, Call
<1>4. (~disturbed => InFlight)'
  BY ContentsAssumption DEF FollowInv, JsonTypeOK, At, InFlight, pending, content, WriteOther, Call
<1>5. ReadsHold'
  BY DEF FollowInv, JsonTypeOK, At, ReadsHold, readJsonFile, WriteOther, Call
<1> QED
  BY <1>1, <1>2, <1>3, <1>4, <1>5 DEF FollowInv

LEMMA BeginWriteFollows ==
  ASSUME FollowInv, NEW w \in Writers, BeginWrite(w)
  PROVE  FollowInv'
<1>1. JsonTypeOK'
  <2>1. content(w) \in Contents
    BY ContentTyped DEF FollowInv
  <2>2. touched(w) \in [Writers -> CallRecords]
    BY DEF FollowInv, JsonTypeOK, touched, CallRecords
  <2>3. Call("write", content(w), At("write") # {}) \in CallRecords
    BY <2>1 DEF Call, CallRecords
  <2>4. calls' \in [Writers -> CallRecords]
    BY <2>2, <2>3 DEF BeginWrite
  <2>5. \A v \in Writers : calls'[v].at \in {"write", "read"} => calls'[v].data \in Contents
    BY <2>1, <2>2 DEF FollowInv, JsonTypeOK, BeginWrite, Call, touched
  <2>6. disturbed' \in BOOLEAN
    BY DEF BeginWrite
  <2> QED
    BY <2>4, <2>5, <2>6 DEF FollowInv, JsonTypeOK, BeginWrite, CallRecords
<1>2. (\A v \in At("mkdir") : ~calls[v].moved => calls[v].data = Live)'
  BY DEF FollowInv, JsonTypeOK, At, BeginWrite, Call, touched
<1>3. (~disturbed => (At("write") = {} => readJsonFile(file) = live \/ pending))'
  BY ContentsAssumption DEF FollowInv, JsonTypeOK, At, InFlight, ReadsHold, readJsonFile,
     pending, content, BeginWrite, Call, touched
<1>4. (~disturbed => InFlight)'
  <2> SUFFICES ASSUME ~disturbed' PROVE InFlight'
    OBVIOUS
  <2>1. At("write") = {} /\ content(w) = live
    BY DEF FollowInv, JsonTypeOK, BeginWrite, content, At
  <2>2. calls'[w] = Call("write", live, FALSE)
    BY <2>1 DEF FollowInv, JsonTypeOK, BeginWrite, touched
  <2>3. At("write")' = {w}
    BY <2>1, <2>2 DEF FollowInv, JsonTypeOK, BeginWrite, touched, At, Call
  <2> QED
    BY <2>2, <2>3 DEF InFlight, Call, BeginWrite
<1>5. ReadsHold'
  BY DEF FollowInv, JsonTypeOK, At, ReadsHold, readJsonFile, BeginWrite, Call, touched
<1> QED
  BY <1>1, <1>2, <1>3, <1>4, <1>5 DEF FollowInv

LEMMA EndWriteFollows ==
  ASSUME FollowInv, NEW w \in Writers, EndWrite(w)
  PROVE  FollowInv'
<1>1. JsonTypeOK'
  <2>1. touched(w) \in [Writers -> CallRecords] /\ IdleCall \in CallRecords
    BY DEF FollowInv, JsonTypeOK, touched, CallRecords, IdleCall, Call
  <2>2. calls' \in [Writers -> CallRecords]
    BY <2>1 DEF EndWrite
  <2>3. file' \in Contents \cup {Torn}
    BY DEF FollowInv, JsonTypeOK, EndWrite
  <2>4. \A v \in Writers : calls'[v].at \in {"write", "read"} => calls'[v].data \in Contents
    BY <2>1 DEF FollowInv, JsonTypeOK, EndWrite, Call, IdleCall, touched
  <2> QED
    BY <2>2, <2>3, <2>4 DEF FollowInv, JsonTypeOK, EndWrite, CallRecords
<1>2. (\A v \in At("mkdir") : ~calls[v].moved => calls[v].data = Live)'
  BY DEF FollowInv, JsonTypeOK, At, EndWrite, Call, IdleCall, touched
<1>3. (~disturbed => (At("write") = {} => readJsonFile(file) = live \/ pending))'
  BY ContentsAssumption DEF FollowInv, JsonTypeOK, At, InFlight, ReadsHold, readJsonFile,
     pending, content, EndWrite, Call, IdleCall, touched
<1>4. (~disturbed => InFlight)'
  BY ContentsAssumption DEF FollowInv, JsonTypeOK, At, InFlight, pending, content, EndWrite, Call, IdleCall, touched
<1>5. ReadsHold'
  BY DEF FollowInv, JsonTypeOK, At, ReadsHold, readJsonFile, EndWrite, Call, IdleCall, touched
<1> QED
  BY <1>1, <1>2, <1>3, <1>4, <1>5 DEF FollowInv

LEMMA FailWriteFollows ==
  ASSUME FollowInv, NEW w \in Writers, FailWrite(w)
  PROVE  FollowInv'
<1>1. JsonTypeOK'
  BY ContentsAssumption, ReadTyped, ContentTyped DEF FollowInv, JsonTypeOK, FailWrite, Call, IdleCall
<1>2. (\A v \in At("mkdir") : ~calls[v].moved => calls[v].data = Live)'
  BY DEF FollowInv, JsonTypeOK, At, FailWrite, Call, IdleCall
<1>3. (~disturbed => (At("write") = {} => readJsonFile(file) = live \/ pending))'
  BY ContentsAssumption DEF FollowInv, JsonTypeOK, At, InFlight, ReadsHold, readJsonFile,
     pending, content, FailWrite, Call, IdleCall
<1>4. (~disturbed => InFlight)'
  BY ContentsAssumption DEF FollowInv, JsonTypeOK, At, InFlight, pending, content, FailWrite, Call, IdleCall
<1>5. ReadsHold'
  BY DEF FollowInv, JsonTypeOK, At, ReadsHold, readJsonFile, FailWrite, Call, IdleCall
<1> QED
  BY <1>1, <1>2, <1>3, <1>4, <1>5 DEF FollowInv

LEMMA BeginReadFollows ==
  ASSUME FollowInv, NEW w \in Writers, BeginRead(w)
  PROVE  FollowInv'
<1>1. JsonTypeOK'
  BY ContentsAssumption, ReadTyped, ContentTyped DEF FollowInv, JsonTypeOK, BeginRead, Call
<1>2. (\A v \in At("mkdir") : ~calls[v].moved => calls[v].data = Live)'
  BY DEF FollowInv, JsonTypeOK, At, BeginRead, Call
<1>3. (~disturbed => (At("write") = {} => readJsonFile(file) = live \/ pending))'
  BY ContentsAssumption DEF FollowInv, JsonTypeOK, At, InFlight, ReadsHold, readJsonFile,
     pending, content, BeginRead, Call
<1>4. (~disturbed => InFlight)'
  BY ContentsAssumption DEF FollowInv, JsonTypeOK, At, InFlight, pending, content, BeginRead, Call
<1>5. ReadsHold'
  BY DEF FollowInv, JsonTypeOK, At, ReadsHold, readJsonFile, BeginRead, Call
<1> QED
  BY <1>1, <1>2, <1>3, <1>4, <1>5 DEF FollowInv

LEMMA EndReadFollows ==
  ASSUME FollowInv, NEW w \in Writers, EndRead(w)
  PROVE  FollowInv'
<1>1. JsonTypeOK'
  BY ContentsAssumption, ReadTyped, ContentTyped DEF FollowInv, JsonTypeOK, EndRead, Call, IdleCall, frozen
<1>2. (\A v \in At("mkdir") : ~calls[v].moved => calls[v].data = Live)'
  BY DEF FollowInv, JsonTypeOK, At, EndRead, Call, IdleCall, frozen
<1>3. (~disturbed => (At("write") = {} => readJsonFile(file) = live \/ pending))'
  BY ContentsAssumption DEF FollowInv, JsonTypeOK, At, InFlight, ReadsHold, readJsonFile,
     pending, content, EndRead, Call, IdleCall, frozen
<1>4. (~disturbed => InFlight)'
  <2> SUFFICES ASSUME ~disturbed' PROVE InFlight'
    OBVIOUS
  <2>1. At("write") = {}
    BY DEF FollowInv, JsonTypeOK, EndRead, ReadsHold, At
  <2>2. At("write")' = {}
    BY <2>1 DEF FollowInv, JsonTypeOK, EndRead, frozen, At, Call, IdleCall
  <2> QED
    BY <2>2 DEF InFlight
<1>5. ReadsHold'
  BY DEF FollowInv, JsonTypeOK, At, ReadsHold, readJsonFile, EndRead, Call, IdleCall, frozen
<1> QED
  BY <1>1, <1>2, <1>3, <1>4, <1>5 DEF FollowInv

LEMMA RestartFollows ==
  ASSUME JsonTypeOK, Restart
  PROVE  FollowInv'
<1>1. JsonTypeOK'
  <2>1. IdleCall \in CallRecords
    BY DEF IdleCall, Call, CallRecords
  <2>2. file' \in Contents \cup {Torn}
    BY DEF JsonTypeOK, Restart, At
  <2>3. live' \in Contents
    BY <2>2, ContentsAssumption DEF Restart, readJsonFile
  <2> QED
    BY <2>1, <2>2, <2>3 DEF JsonTypeOK, Restart, CallRecords, IdleCall, Call
<1>2. \A v \in Writers : calls'[v].at = "idle"
  BY DEF Restart, Call, IdleCall
<1>3. readJsonFile(file)' = live'
  BY DEF Restart, readJsonFile
<1> QED
  BY <1>1, <1>2, <1>3 DEF FollowInv, InFlight, ReadsHold, At

-----------------------------------------------------------------------------
LEMMA NextFollows == FollowInv /\ [JsonNext]_jsonVars => FollowInv'
<1> SUFFICES ASSUME FollowInv, [JsonNext]_jsonVars PROVE FollowInv'
  OBVIOUS
<1>1. CASE Restart
  BY <1>1, RestartFollows DEF FollowInv
<1>2. ASSUME NEW w \in Writers, NEW c \in Contents,
             \/ Change(w, c) \/ Replace(w, c, Live)
             \/ Replace(w, c, c) \/ WriteOther(w, c)
      PROVE  FollowInv'
  BY <1>2, ChangeFollows, ReplaceFollows, WriteOtherFollows
<1>3. ASSUME NEW w \in Writers,
             \/ BeginWrite(w) \/ EndWrite(w) \/ FailWrite(w)
             \/ BeginRead(w) \/ EndRead(w)
      PROVE  FollowInv'
  BY <1>3, BeginWriteFollows, EndWriteFollows, FailWriteFollows,
     BeginReadFollows, EndReadFollows
<1>4. CASE UNCHANGED jsonVars
  BY <1>4 DEF jsonVars, FollowInv, JsonTypeOK, At, InFlight, ReadsHold, pending,
     content, readJsonFile
<1> QED
  BY <1>1, <1>2, <1>3, <1>4 DEF JsonNext

LEMMA FollowsQuiet == FollowInv => QuietFileMatches
  BY DEF FollowInv, QuietFileMatches, pending

-----------------------------------------------------------------------------
(***************************************************************************)
(* What holds of a JsonFile whose memory is also changed without a write   *)
(* (the pruning of the snapshot index), and is enough for the next change  *)
(* that is written to bring the file up again.                             *)
(***************************************************************************)
WritesAlone == \A w \in At("write") : At("write") = {w} /\ ~calls[w].moved

LooseInv ==
    /\ JsonTypeOK
    /\ \A w \in At("mkdir") : ~calls[w].moved => calls[w].data = Live
    /\ ~disturbed => WritesAlone
    /\ ReadsHold

LEMMA FollowsLoosely == FollowInv => LooseInv
  BY DEF FollowInv, LooseInv, InFlight, WritesAlone

LEMMA LooseMkdir ==
  ASSUME LooseInv, NEW w \in Writers, NEW call \in CallRecords,
         NEW under \in {calls, frozen}, calls' = [under EXCEPT ![w] = call],
         calls[w].at = "idle", call.at = "mkdir", ~call.moved => call.data = Live,
         live' \in Contents, UNCHANGED <<file, disturbed>>
  PROVE  LooseInv'
<1>1. under \in [Writers -> CallRecords]
  <2>1. frozen \in [Writers -> CallRecords]
    BY ContentTyped DEF LooseInv, JsonTypeOK, CallRecords, frozen, Call
  <2>2. calls \in [Writers -> CallRecords]
    BY DEF LooseInv, JsonTypeOK, CallRecords
  <2> QED
    BY <2>1, <2>2
<1>2. calls' \in [Writers -> CallRecords] /\ calls'[w] = call
  BY <1>1
<1>3. \A v \in Writers \ {w} :
         /\ calls'[v].at = calls[v].at
         /\ calls[v].at # "mkdir" => calls'[v] = calls[v]
         /\ ~calls'[v].moved => calls'[v].data = calls[v].data /\ ~calls[v].moved
  BY <1>1 DEF frozen, Call
<1>4. JsonTypeOK'
  BY <1>2, <1>3 DEF LooseInv, JsonTypeOK, CallRecords
<1>5. \A v \in Writers : calls'[v].at # "mkdir" =>
         v # w /\ calls[v].at = calls'[v].at /\ calls'[v] = calls[v]
  BY <1>2, <1>3
<1>6. At("write")' = At("write") /\ At("read")' = At("read")
  BY <1>2, <1>3 DEF At
<1>7. (\A v \in At("mkdir") : ~calls[v].moved => calls[v].data = Live)'
  BY <1>2, <1>3 DEF LooseInv, At
<1>8. (~disturbed => WritesAlone)'
  BY <1>5, <1>6 DEF LooseInv, WritesAlone, At
<1>9. ReadsHold'
  BY <1>5, <1>6 DEF LooseInv, ReadsHold, At, readJsonFile
<1> QED
  BY <1>4, <1>7, <1>8, <1>9 DEF LooseInv

(***************************************************************************)
(* Memory is given another object, and no call begins.                     *)
(***************************************************************************)
LEMMA SetAsideLoose ==
  ASSUME LooseInv, live' \in Contents, calls' = frozen, UNCHANGED <<file, disturbed>>
  PROVE  LooseInv'
<1>1. calls' \in [Writers -> CallRecords]
  BY ContentTyped DEF LooseInv, JsonTypeOK, CallRecords, frozen, Call
<1>2. \A v \in Writers :
         /\ calls'[v].at = calls[v].at
         /\ calls[v].at # "mkdir" => calls'[v] = calls[v]
         /\ calls[v].at = "mkdir" => calls'[v].moved
  BY DEF frozen, Call
<1>3. JsonTypeOK'
  BY <1>1, <1>2 DEF LooseInv, JsonTypeOK, CallRecords
<1>4. At("write")' = At("write") /\ At("read")' = At("read") /\ At("mkdir")' = At("mkdir")
  BY <1>2 DEF At
<1>5. (~disturbed => WritesAlone)'
  BY <1>2, <1>4 DEF LooseInv, WritesAlone, At
<1>6. ReadsHold'
  BY <1>2, <1>4 DEF LooseInv, ReadsHold, At, readJsonFile
<1>7. (\A v \in At("mkdir") : ~calls[v].moved => calls[v].data = Live)'
  BY <1>2, <1>4 DEF At
<1> QED
  BY <1>3, <1>5, <1>6, <1>7 DEF LooseInv

LEMMA ChangeLoose ==
  ASSUME LooseInv, NEW w \in Writers, NEW c \in Contents, Change(w, c)
  PROVE  LooseInv' /\ pending'
<1>1. LooseInv'
  <2>1. Call("mkdir", Live, FALSE) \in CallRecords
    BY DEF Call, CallRecords
  <2> QED
    BY <2>1, LooseMkdir DEF Change, Call
<1>2. pending'
  BY DEF LooseInv, JsonTypeOK, Change, pending, content, At, Call
<1> QED
  BY <1>1, <1>2

LEMMA ChangeMends ==
  ASSUME LooseInv, NEW w \in Writers, NEW c \in Contents, Change(w, c)
  PROVE  FollowInv'
<1>1. LooseInv' /\ pending'
  BY ChangeLoose
<1> QED
  BY <1>1 DEF FollowInv, LooseInv, InFlight, WritesAlone

(***************************************************************************)
(* The calls go on: a change of memory aside, the steps of a JsonFile.     *)
(***************************************************************************)
CallStep ==
    \E w \in Writers :
        \/ BeginWrite(w) \/ EndWrite(w) \/ FailWrite(w)
        \/ BeginRead(w) \/ EndRead(w)

LEMMA BeginWriteLoose ==
  ASSUME LooseInv, NEW w \in Writers, BeginWrite(w)
  PROVE  LooseInv'
<1>1. JsonTypeOK'
  <2>1. content(w) \in Contents
    BY ContentTyped DEF LooseInv
  <2>2. touched(w) \in [Writers -> CallRecords]
    BY DEF LooseInv, JsonTypeOK, touched, CallRecords
  <2>3. Call("write", content(w), At("write") # {}) \in CallRecords
    BY <2>1 DEF Call, CallRecords
  <2>4. calls' \in [Writers -> CallRecords]
    BY <2>2, <2>3 DEF BeginWrite
  <2>5. \A v \in Writers : calls'[v].at \in {"write", "read"} => calls'[v].data \in Contents
    BY <2>1, <2>2 DEF LooseInv, JsonTypeOK, BeginWrite, Call, touched
  <2>6. disturbed' \in BOOLEAN
    BY DEF BeginWrite
  <2> QED
    BY <2>4, <2>5, <2>6 DEF LooseInv, JsonTypeOK, BeginWrite, CallRecords
<1>2. (\A v \in At("mkdir") : ~calls[v].moved => calls[v].data = Live)'
  BY DEF LooseInv, JsonTypeOK, At, BeginWrite, Call, touched
<1>3. (~disturbed => WritesAlone)'
  <2> SUFFICES ASSUME ~disturbed' PROVE WritesAlone'
    OBVIOUS
  <2>1. At("write") = {}
    BY DEF BeginWrite
  <2>2. calls'[w] = Call("write", content(w), FALSE)
    BY <2>1 DEF LooseInv, JsonTypeOK, BeginWrite, touched
  <2>3. At("write")' = {w}
    BY <2>1, <2>2 DEF LooseInv, JsonTypeOK, BeginWrite, touched, At, Call
  <2> QED
    BY <2>2, <2>3 DEF WritesAlone, Call
<1>4. ReadsHold'
  BY DEF LooseInv, JsonTypeOK, At, ReadsHold, readJsonFile, BeginWrite, Call, touched
<1> QED
  BY <1>1, <1>2, <1>3, <1>4 DEF LooseInv

LEMMA EndWriteLoose ==
  ASSUME LooseInv, NEW w \in Writers, EndWrite(w)
  PROVE  LooseInv'
<1>1. JsonTypeOK'
  <2>1. touched(w) \in [Writers -> CallRecords] /\ IdleCall \in CallRecords
    BY DEF LooseInv, JsonTypeOK, touched, CallRecords, IdleCall, Call
  <2>2. calls' \in [Writers -> CallRecords]
    BY <2>1 DEF EndWrite
  <2>3. file' \in Contents \cup {Torn}
    BY DEF LooseInv, JsonTypeOK, EndWrite
  <2>4. \A v \in Writers : calls'[v].at \in {"write", "read"} => calls'[v].data \in Contents
    BY <2>1 DEF LooseInv, JsonTypeOK, EndWrite, Call, IdleCall, touched
  <2> QED
    BY <2>2, <2>3, <2>4 DEF LooseInv, JsonTypeOK, EndWrite, CallRecords
<1>2. (\A v \in At("mkdir") : ~calls[v].moved => calls[v].data = Live)'
  BY DEF LooseInv, JsonTypeOK, At, EndWrite, Call, IdleCall, touched
<1>3. (~disturbed => WritesAlone)'
  BY DEF LooseInv, JsonTypeOK, At, WritesAlone, EndWrite, Call, IdleCall, touched
<1>4. ReadsHold'
  BY DEF LooseInv, JsonTypeOK, At, ReadsHold, readJsonFile, EndWrite, Call, IdleCall, touched
<1> QED
  BY <1>1, <1>2, <1>3, <1>4 DEF LooseInv

LEMMA FailWriteLoose ==
  ASSUME LooseInv, NEW w \in Writers, FailWrite(w)
  PROVE  LooseInv'
  BY ContentsAssumption
  DEF LooseInv, JsonTypeOK, FailWrite, Call, IdleCall, At, WritesAlone, ReadsHold, readJsonFile

LEMMA BeginReadLoose ==
  ASSUME LooseInv, NEW w \in Writers, BeginRead(w)
  PROVE  LooseInv'
<1>1. JsonTypeOK'
  BY ContentsAssumption, ReadTyped DEF LooseInv, JsonTypeOK, BeginRead, Call
<1>2. (\A v \in At("mkdir") : ~calls[v].moved => calls[v].data = Live)'
  BY DEF LooseInv, JsonTypeOK, At, BeginRead, Call
<1>3. (~disturbed => WritesAlone)'
  BY DEF LooseInv, JsonTypeOK, At, WritesAlone, BeginRead, Call
<1>4. ReadsHold'
  BY DEF LooseInv, JsonTypeOK, At, ReadsHold, readJsonFile, BeginRead, Call
<1> QED
  BY <1>1, <1>2, <1>3, <1>4 DEF LooseInv

LEMMA EndReadLoose ==
  ASSUME LooseInv, NEW w \in Writers, EndRead(w)
  PROVE  LooseInv'
<1>1. JsonTypeOK'
  BY ContentsAssumption, ContentTyped DEF LooseInv, JsonTypeOK, EndRead, Call, IdleCall, frozen
<1>2. (\A v \in At("mkdir") : ~calls[v].moved => calls[v].data = Live)'
  BY DEF LooseInv, JsonTypeOK, At, EndRead, Call, IdleCall, frozen
<1>3. (~disturbed => WritesAlone)'
  <2> SUFFICES ASSUME ~disturbed' PROVE WritesAlone'
    OBVIOUS
  <2>1. At("write") = {}
    BY DEF LooseInv, JsonTypeOK, EndRead, ReadsHold, At
  <2>2. At("write")' = {}
    BY <2>1 DEF LooseInv, JsonTypeOK, EndRead, frozen, At, Call, IdleCall
  <2> QED
    BY <2>2 DEF WritesAlone
<1>4. ReadsHold'
  BY DEF LooseInv, JsonTypeOK, At, ReadsHold, readJsonFile, EndRead, Call, IdleCall, frozen
<1> QED
  BY <1>1, <1>2, <1>3, <1>4 DEF LooseInv

LEMMA CallLoose == LooseInv /\ CallStep => LooseInv'
  BY BeginWriteLoose, EndWriteLoose, FailWriteLoose, BeginReadLoose, EndReadLoose
  DEF CallStep

-----------------------------------------------------------------------------
(***************************************************************************)
(* What memory, the file and the calls hold: the calls and a restart bring *)
(* in nothing but Empty, a change of memory nothing but its own value.     *)
(***************************************************************************)
Held ==
    {live} \cup ({file} \ {Torn}) \cup {calls[w].data : w \in {v \in Writers : calls[v].data # Live}}

LEMMA HeldTyped == JsonTypeOK => Held \subseteq Contents
  BY DEF JsonTypeOK, Held

LEMMA HoldsEach ==
  ASSUME JsonTypeOK
  PROVE  /\ live \in Held
         /\ file # Torn => file \in Held
         /\ \A w \in Writers :
               /\ calls[w].data # Live => calls[w].data \in Held
               /\ content(w) \in Held
               /\ calls[w].at \in {"write", "read"} => calls[w].data \in Held
  BY ContentsAssumption DEF Held, JsonTypeOK, content

LEMMA CallsHold == JsonTypeOK /\ CallStep => Held' \subseteq Held \cup {Empty}
<1> SUFFICES ASSUME JsonTypeOK, NEW w \in Writers,
                    \/ BeginWrite(w) \/ EndWrite(w) \/ FailWrite(w)
                    \/ BeginRead(w) \/ EndRead(w)
             PROVE  Held' \subseteq Held \cup {Empty}
  BY Zenon DEF CallStep
<1> DEFINE now == Held
<1>0. /\ live \in now
      /\ file # Torn => file \in now
      /\ \A v \in Writers :
            /\ calls[v].data # Live => calls[v].data \in now
            /\ content(v) \in now
            /\ calls[v].at \in {"write", "read"} => calls[v].data \in now
  BY HoldsEach
<1> HIDE DEF now
<1>1. live' \in now
  BY <1>0 DEF BeginWrite, EndWrite, FailWrite, BeginRead, EndRead
<1>2. file' = Torn \/ file' \in now
  BY <1>0 DEF BeginWrite, EndWrite, FailWrite, BeginRead, EndRead
<1>3. ASSUME NEW v \in Writers
      PROVE  calls'[v].data = Live \/ calls'[v].data \in now \cup {Empty}
  <2>1. CASE BeginWrite(w)
    BY <1>0, <2>1 DEF JsonTypeOK, BeginWrite, Call, touched
  <2>2. CASE EndWrite(w)
    BY <1>0, <2>2 DEF JsonTypeOK, EndWrite, Call, IdleCall, touched
  <2>3. CASE FailWrite(w) \/ BeginRead(w)
    BY <1>0, <2>3 DEF JsonTypeOK, FailWrite, BeginRead, Call, IdleCall, readJsonFile
  <2>4. CASE EndRead(w)
    BY <1>0, <2>4 DEF JsonTypeOK, EndRead, Call, IdleCall, frozen
  <2> QED
    BY <2>1, <2>2, <2>3, <2>4
<1>4. Held' \subseteq now \cup {Empty}
  BY <1>1, <1>2, <1>3 DEF Held
<1> QED
  BY <1>4 DEF now

LEMMA RestartHolds == JsonTypeOK /\ Restart => Held' \subseteq Held \cup {Empty}
<1> SUFFICES ASSUME JsonTypeOK, Restart PROVE Held' \subseteq Held \cup {Empty}
  OBVIOUS
<1>1. file' = Torn \/ file' \in Held
  <2> DEFINE now == Held
  <2>1. file # Torn => file \in now
    BY HoldsEach
  <2>2. \A v \in At("write") : calls[v].data \in now
    BY HoldsEach DEF At
  <2> HIDE DEF now
  <2>3. file' = Torn \/ file' \in now
    BY <2>1, <2>2 DEF Restart
  <2> QED
    BY <2>3 DEF now
<1>2. live' \in Held \cup {Empty}
  BY <1>1 DEF Restart, readJsonFile
<1>3. \A v \in Writers : calls'[v].data = Live
  BY DEF Restart, IdleCall, Call
<1> QED
  BY <1>1, <1>2, <1>3 DEF Held

LEMMA ChangeHolds ==
  ASSUME JsonTypeOK, NEW w \in Writers, NEW c, Change(w, c)
  PROVE  Held' \subseteq Held \cup {c}
<1>1. \A v \in Writers : calls'[v].data = Live \/ calls'[v].data = calls[v].data
  BY DEF JsonTypeOK, Change, Call
<1> QED
  BY <1>1 DEF Held, Change

LEMMA SetAsideHolds ==
  ASSUME JsonTypeOK, calls' = frozen, UNCHANGED file
  PROVE  Held' \subseteq Held \cup {live'}
<1>1. \A v \in Writers :
         calls'[v].data = Live \/ calls'[v].data \in Held
  BY DEF JsonTypeOK, frozen, Call, content, Held
<1> QED
  BY <1>1 DEF Held

(***************************************************************************)
(* A configuration file with no call in flight reads as the configuration  *)
(* in memory, but for the disturbances named, for any number of calls.     *)
(***************************************************************************)
THEOREM JsonFileFollows == JsonSpec => []QuietFileMatches
<1>1. JsonSpec => []FollowInv
  BY InitFollows, NextFollows, PTL DEF JsonSpec
<1> QED
  BY <1>1, FollowsQuiet, PTL
=============================================================================
