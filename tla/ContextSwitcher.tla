-------------------------- MODULE ContextSwitcher --------------------------
(***************************************************************************)
(* packages/config-engine/src/context-switcher.ts.  setContext calls its   *)
(* listeners in turn, and a listener may switch the context again before   *)
(* the others have heard: the calls form a stack.                          *)
(***************************************************************************)
EXTENDS Naturals, Sequences

CONSTANTS
    UserContexts,
    listenerCount,
    MaxSwitches,       \* 100 in the code
    MaxDepth           \* bound on switches within switches

ASSUME ContextAssumption ==
    /\ "unknown" \in UserContexts
    /\ listenerCount \in Nat
    /\ MaxSwitches \in Nat \ {0}
    /\ MaxDepth \in Nat

VARIABLES
    currentContext,
    switches,          \* history, the newest last
    stack,             \* calls of setContext: the event and who has heard it
    autoSwitchEnabled

contextVars == <<currentContext, switches, stack, autoSwitchEnabled>>

SwitchEvent == [from : UserContexts, to : UserContexts]

ContextTypeOK ==
    /\ currentContext \in UserContexts
    /\ switches \in Seq(SwitchEvent) /\ Len(switches) <= MaxSwitches
    /\ stack \in Seq([event : SwitchEvent, heard : 0..listenerCount])
    /\ autoSwitchEnabled \in BOOLEAN

ContextInit ==
    /\ currentContext = "unknown"
    /\ switches = <<>>
    /\ stack = <<>>
    /\ autoSwitchEnabled = TRUE

-----------------------------------------------------------------------------
\* Mutant: the history grows.
logged_All(event) == Append(switches, event)

logged(event) ==
    LET all == Append(switches, event)
    IN  IF Len(all) > MaxSwitches THEN Tail(all) ELSE all

\* setContext up to its first listener, called under `callers`.
switch(c, callers) ==
    /\ c # currentContext
    /\ Len(callers) < MaxDepth
    /\ currentContext' = c
    /\ switches' = logged([from |-> currentContext, to |-> c])
    /\ stack' = Append(callers, [event |-> [from |-> currentContext, to |-> c],
                                 heard |-> 0])
    /\ UNCHANGED autoSwitchEnabled

setContext(c) == stack = <<>> /\ switch(c, stack)

\* autoDetect and autoSwitch: what was detected, if it is enabled.
autoSwitch(c) == autoSwitchEnabled /\ setContext(c)

top == stack[Len(stack)]

heardByNext == [stack EXCEPT ![Len(stack)].heard = @ + 1]

\* Mutant: the call goes on from the event of its caller.
Listen_Stale(c) ==
    /\ stack # <<>> /\ top.heard < listenerCount
    /\ Len(stack) < MaxDepth
    /\ c # top.event.from
    /\ currentContext' = c
    /\ switches' = logged([from |-> top.event.from, to |-> c])
    /\ stack' = Append(heardByNext, [event |-> [from |-> top.event.from, to |-> c],
                                     heard |-> 0])
    /\ UNCHANGED autoSwitchEnabled

\* The next listener of the innermost call switches to c ...
Listen(c) ==
    /\ stack # <<>> /\ top.heard < listenerCount
    /\ switch(c, heardByNext)

\* ... or does not.
ListenQuietly ==
    /\ stack # <<>> /\ top.heard < listenerCount
    /\ stack' = heardByNext
    /\ UNCHANGED <<currentContext, switches, autoSwitchEnabled>>

Return ==
    /\ stack # <<>> /\ top.heard = listenerCount
    /\ stack' = SubSeq(stack, 1, Len(stack) - 1)
    /\ UNCHANGED <<currentContext, switches, autoSwitchEnabled>>

SwitchAutomation ==
    /\ autoSwitchEnabled' \in BOOLEAN
    /\ UNCHANGED <<currentContext, switches, stack>>

ContextNext ==
    \/ ListenQuietly \/ Return \/ SwitchAutomation
    \/ \E c \in UserContexts : setContext(c) \/ autoSwitch(c) \/ Listen(c)

-----------------------------------------------------------------------------
(***************************************************************************)
(* However listeners switch inside switches, the history is one chain that *)
(* ends in the current context.                                            *)
(***************************************************************************)
SwitchesChain ==
    /\ \A i \in 1..(Len(switches) - 1) : switches[i].to = switches[i+1].from
    /\ switches # <<>> => switches[Len(switches)].to = currentContext
=============================================================================
