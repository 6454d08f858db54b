----------------------------- MODULE StrictJson -----------------------------
(***************************************************************************)
(* p0/src/security: the scanner that a JSON text passes before JSON.parse, *)
(* token by token with its stack of frames; the canonical form of what     *)
(* passed; and the walk that refuses values the form would not identify.   *)
(* A string token stands for the way a name is written, and decodes to it; *)
(* a name is its place in the order of names, those past maxStringLength   *)
(* being the ones that are too long.                                       *)
(***************************************************************************)
EXTENDS Naturals, Sequences, FiniteSets, SequencesExt

CONSTANTS
    Strings,          \* string tokens
    decode,           \* string token -> name, 0 for one that does not decode
    maxDepth, maxMembers, maxStringLength,
    MaxTokens,        \* bound on the text
    Objects, root     \* the heap of a value to canonicalize

ASSUME DecodeAssumption == decode \in [Strings -> Nat]
ASSUME StringsAssumption ==
    Strings \cap {"{", "}", "[", "]", ":", ",", "scalar"} = {}
ASSUME LimitsAssumption == {maxDepth, maxMembers, maxStringLength, MaxTokens} \subseteq Nat
ASSUME RootAssumption == root \in Objects

VARIABLES
    text,             \* tokens scanned
    stack,            \* frames of the open containers, the innermost last
    expects,          \* what may come next
    outcome,          \* "none", "accepted" or the error
    heap              \* object -> the objects in it, in order

scannerVars == <<text, stack, expects, outcome>>
jsonTextVars == <<text, stack, expects, outcome, heap>>

Expectation == {"value", "firstKey", "key", "colon", "afterMember",
                "firstItem", "afterItem", "end"}

StrictJsonTypeOK ==
    /\ Len(text) <= MaxTokens
    /\ \A i \in DOMAIN stack :
          /\ stack[i].kind \in {"object", "array"}
          /\ stack[i].keys \in SUBSET Nat /\ stack[i].count \in Nat
    /\ expects \in Expectation
    /\ outcome \in {"none", "accepted", "json.parse", "json.limits", "json.duplicate_key"}
    /\ heap \in [Objects -> Seq(Objects)]

StrictJsonInit ==
    /\ text = <<>> /\ stack = <<>> /\ expects = "value" /\ outcome = "none"
    /\ heap = [o \in Objects |-> <<>>]

-----------------------------------------------------------------------------
isString(token) == token \in Strings

tooLong(name) == name > maxStringLength

throw(error) == outcome' = error /\ UNCHANGED <<stack, expects>>

\* What comes after a value in the innermost of these containers.
afterValue(frames) ==
    IF frames = <<>> THEN "end"
    ELSE IF Last(frames).kind = "object" THEN "afterMember" ELSE "afterItem"

\* A value has ended; an array counts it, an object counted its key.
valueEnds(frames) ==
    LET array == frames # <<>> /\ Last(frames).kind = "array"
        counted == IF array THEN [frames EXCEPT ![Len(frames)].count = @ + 1] ELSE frames
    IN IF array /\ Last(counted).count > maxMembers THEN throw("json.limits")
       ELSE /\ stack' = counted /\ expects' = afterValue(counted)
            /\ UNCHANGED outcome

valueMayStart == expects \in {"value", "firstItem"}

enterContainer(kind) ==
    IF Len(stack) >= maxDepth THEN throw("json.limits")
    ELSE /\ stack' = Append(stack, [kind |-> kind, keys |-> {}, count |-> 0])
         /\ expects' = IF kind = "object" THEN "firstKey" ELSE "firstItem"
         /\ UNCHANGED outcome

leaveContainer == valueEnds(Front(stack))

\* Mutant: names are compared the way they are written.
keyOf_Raw(token) == token

keyOf(token) == decode[token]

readKey(token) ==
    LET key == keyOf(token)
        frame == Last(stack)
    IN IF decode[token] = 0 THEN throw("json.parse")
       ELSE IF tooLong(decode[token]) THEN throw("json.limits")
       ELSE IF key \in frame.keys THEN throw("json.duplicate_key")
       ELSE IF frame.count + 1 > maxMembers THEN throw("json.limits")
       ELSE /\ stack' = [stack EXCEPT ![Len(stack)].keys = @ \cup {key},
                                      ![Len(stack)].count = @ + 1]
            /\ expects' = "colon" /\ UNCHANGED outcome

readString(token) ==
    IF decode[token] = 0 THEN throw("json.parse")
    ELSE IF tooLong(decode[token]) THEN throw("json.limits")
    ELSE valueEnds(stack)

\* Mutant: a comma may be the last thing in an object.
moveOn_Trailing(expectation) ==
    /\ expects' = IF expectation = "key" THEN "firstKey" ELSE expectation
    /\ UNCHANGED <<stack, outcome>>

moveOn(expectation) == expects' = expectation /\ UNCHANGED <<stack, outcome>>

\* A text and a heap are explored one at a time.
noHeap == \A o \in Objects : heap[o] = <<>>

Tokens == {"{", "}", "[", "]", ":", ",", "scalar"} \cup Strings

scan(token) ==
    /\ outcome = "none" /\ Len(text) < MaxTokens /\ noHeap
    /\ text' = Append(text, token)
    /\ IF valueMayStart /\ token = "{" THEN enterContainer("object")
       ELSE IF valueMayStart /\ token = "[" THEN enterContainer("array")
       ELSE IF valueMayStart /\ token = "scalar" THEN valueEnds(stack)
       ELSE IF valueMayStart /\ isString(token) THEN readString(token)
       ELSE IF expects \in {"firstKey", "key"} /\ isString(token) THEN readKey(token)
       ELSE IF expects = "colon" /\ token = ":" THEN moveOn("value")
       ELSE IF expects = "afterMember" /\ token = "," THEN moveOn("key")
       ELSE IF expects = "afterItem" /\ token = "," THEN moveOn("value")
       ELSE IF \/ expects \in {"firstKey", "afterMember"} /\ token = "}"
               \/ expects \in {"firstItem", "afterItem"} /\ token = "]"
            THEN leaveContainer
       ELSE throw("json.parse")
    /\ UNCHANGED heap

endOfText ==
    /\ outcome = "none" /\ noHeap
    /\ outcome' = IF expects = "end" THEN "accepted" ELSE "json.parse"
    /\ UNCHANGED <<text, stack, expects, heap>>

-----------------------------------------------------------------------------
\* What is a JSON value, an object's members, an array's items.
grammar[symbol \in {"value", "members", "items"}, t \in Seq(Tokens)] ==
    LET first == IF symbol = "members" THEN 3 ELSE 1
        string(token) == isString(token) /\ decode[token] # 0
        within == Front(Tail(t))
    IN
    \/ /\ symbol = "value"
       /\ \/ Len(t) = 1 /\ (t[1] = "scalar" \/ string(t[1]))
          \/ t = <<"{", "}">> \/ t = <<"[", "]">>
          \/ Len(t) > 2 /\ t[1] = "{" /\ Last(t) = "}" /\ grammar["members", within]
          \/ Len(t) > 2 /\ t[1] = "[" /\ Last(t) = "]" /\ grammar["items", within]
    \/ /\ symbol # "value" /\ Len(t) >= first
       /\ symbol = "members" => string(t[1]) /\ t[2] = ":"
       /\ \E i \in first..Len(t) :
             /\ grammar["value", SubSeq(t, first, i)]
             /\ \/ i = Len(t)
                \/ t[i + 1] = "," /\ grammar[symbol, SubSeq(t, i + 2, Len(t))]

isValue(t) == grammar["value", t]

\* canonicalizeJcs() of what JSON.parse() makes of a text.
upTo(t, from) == CHOOSE i \in from..Len(t) : isValue(SubSeq(t, from, i))

itemsOf[t \in Seq(Tokens)] ==
    IF t = <<>> THEN <<>>
    ELSE LET i == upTo(t, 1) IN
         <<SubSeq(t, 1, i)>> \o itemsOf[SubSeq(t, i + 2, Len(t))]

membersOf[t \in Seq(Tokens)] ==
    IF t = <<>> THEN <<>>
    ELSE LET i == upTo(t, 3) IN
         <<[key |-> t[1], value |-> SubSeq(t, 3, i)]>>
         \o membersOf[SubSeq(t, i + 2, Len(t))]

\* The one way a string is written, whatever it was read from.
serializeString(token) == CHOOSE s \in Strings : decode[s] = decode[token]

joined(parts) ==
    FoldLeft(LAMBDA all, part : IF all = <<>> THEN part ELSE all \o <<",">> \o part,
             <<>>, parts)

serialize[t \in Seq(Tokens)] ==
    IF Len(t) = 1 THEN IF isString(t[1]) THEN <<serializeString(t[1])>> ELSE t
    ELSE IF t[1] = "["
    THEN LET items == itemsOf[Front(Tail(t))] IN
         <<"[">> \o joined([i \in DOMAIN items |-> serialize[items[i]]]) \o <<"]">>
    ELSE LET sorted == SortSeq(membersOf[Front(Tail(t))],
                               LAMBDA m, n : decode[m.key] < decode[n.key])
             written(m) == <<serializeString(m.key), ":">> \o serialize[m.value]
         IN <<"{">> \o joined([i \in DOMAIN sorted |-> written(sorted[i])]) \o <<"}">>

\* Building the value that assertCanonicalizable() is called with.
link(o, p) ==
    /\ text = <<>> /\ outcome = "none" /\ Len(heap[o]) < 2
    /\ heap' = [heap EXCEPT ![o] = Append(@, p)]
    /\ UNCHANGED scannerVars

\* The objects seen once the walk from o is over, or "cycle" as a member: an
\* object met again is taken for one, wherever it was met before.
walk[o \in Objects, seen \in SUBSET (Objects \cup {"cycle"})] ==
    IF o \in seen THEN seen \cup {"cycle"}
    ELSE FoldLeft(LAMBDA met, p : IF "cycle" \in met THEN met ELSE walk[p, met],
                  seen \cup {o}, heap[o])

assertCanonicalizable == "cycle" \notin walk[root, {}]

StrictJsonNext ==
    \/ \E token \in Tokens : scan(token)
    \/ endOfText
    \/ \E o, p \in Objects : link(o, p)

StrictJsonSpec == StrictJsonInit /\ [][StrictJsonNext]_jsonTextVars

-----------------------------------------------------------------------------
\* How many containers are open after the first j tokens.
level(j) ==
    LET count(brackets) == Cardinality({i \in 1..j : text[i] \in brackets})
    IN count({"{", "["}) - count({"}", "]"})

\* The tokens directly inside a container opened at i, up to token j.
inside(i, j) == {k \in (i + 1)..j : level(k) = level(i)}

unclosed == {i \in DOMAIN text : /\ text[i] \in {"{", "["}
                                 /\ \A j \in i..Len(text) : level(j) >= level(i)}

isKeyAt(k) == isString(text[k]) /\ text[k - 1] # ":"

namesIn(i, j) == {decode[text[k]] : k \in {m \in inside(i, j) : isKeyAt(m)}}

itemsIn(i, j) == {k \in inside(i, j) : text[k] # ","}

(***************************************************************************)
(* While the scanner goes on, its frames are the open containers of the    *)
(* text, each with the decoded names and the number of its own members and *)
(* no other's.                                                             *)
(***************************************************************************)
FramesMirrorText ==
    outcome = "none" =>
        /\ Len(stack) = Cardinality(unclosed)
        /\ \A i \in unclosed :
              LET frame == stack[level(i)] IN
              IF text[i] = "{"
              THEN /\ frame.kind = "object" /\ frame.keys = namesIn(i, Len(text))
                   /\ frame.count = Cardinality(frame.keys)
              ELSE /\ frame.kind = "array" /\ frame.keys = {}
                   /\ frame.count = Cardinality(itemsIn(i, Len(text)))

(***************************************************************************)
(* The scanner would accept just where the text so far is a JSON value.    *)
(***************************************************************************)
AcceptsValues == outcome = "none" => (expects = "end") = isValue(text)

(***************************************************************************)
(* A text that passes has no object with a name twice, however the name is *)
(* written, and keeps the limits at every level: what JSON.parse makes of  *)
(* it has every member the text has.                                       *)
(***************************************************************************)
closing(i) == CHOOSE j \in (i + 1)..Len(text) :
    level(j) = level(i) - 1 /\ \A k \in i..(j - 1) : level(k) >= level(i)

AcceptedIsStrict ==
    outcome = "accepted" =>
        \A i \in DOMAIN text :
            /\ level(i) <= maxDepth
            /\ text[i] = "{" =>
                  LET keys == {k \in inside(i, closing(i)) : isKeyAt(k)} IN
                  /\ Cardinality(keys) = Cardinality(namesIn(i, closing(i)))
                  /\ Cardinality(keys) <= maxMembers

(***************************************************************************)
(* The canonical form of a text that passes is a JSON text that would pass *)
(* too, with the same tokens but for their order, and its own canonical    *)
(* form: a fingerprint does not depend on how its value was written.       *)
(***************************************************************************)
CanonicalIsFixed ==
    outcome = "accepted" =>
        LET canonical == serialize[text] IN
        /\ isValue(canonical) /\ Len(canonical) = Len(text)
        /\ serialize[canonical] = canonical

(***************************************************************************)
(* A value is refused as cyclic just when some object in it is met twice:  *)
(* every cycle is found, and an object that two members share is refused   *)
(* with them.                                                              *)
(***************************************************************************)
reachable ==
    LET grown(objects) == objects \cup UNION {ToSet(heap[o]) : o \in objects}
    IN FoldSet(LAMBDA o, objects : grown(objects), {root}, Objects)

placesOf(p) == UNION {{<<o, i>> : i \in {j \in DOMAIN heap[o] : heap[o][j] = p}} : o \in reachable}

RefusedWhenShared ==
    assertCanonicalizable <=>
        \A p \in reachable : Cardinality(placesOf(p)) = IF p = root THEN 0 ELSE 1
=============================================================================
