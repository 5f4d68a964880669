---------------------------- MODULE SerialLanes ----------------------------
(***************************************************************************)
(* What the keyed task queue promises, without counters, lanes or waiters: *)
(* every accepted task stands in the line of its key; only the head of a   *)
(* line may run; a line moves up when its head ends; closing the queue may *)
(* drop tasks, but never the head of a line, which may be running.         *)
(***************************************************************************)
EXTENDS Naturals, Sequences, FiniteSets

CONSTANTS Ids, Keys, Capacity

VARIABLES
    line,       \* key -> the accepted tasks that have not ended, in order
    started,    \* the tasks whose body has begun and has not ended
    open        \* tasks are still accepted

vars == <<line, started, open>>

InLine(k) == {line[k][i] : i \in DOMAIN line[k]}

Held == UNION {InLine(k) : k \in Keys}

Init ==
    /\ line = [k \in Keys |-> <<>>]
    /\ started = {}
    /\ open = TRUE

Accept(k, id) ==
    /\ open
    /\ id \notin Held
    /\ Cardinality(Held) < Capacity
    /\ line' = [line EXCEPT ![k] = Append(@, id)]
    /\ UNCHANGED <<started, open>>

Begin(k) ==
    /\ line[k] # <<>>
    /\ Head(line[k]) \notin started
    /\ started' = started \cup {Head(line[k])}
    /\ UNCHANGED <<line, open>>

End(k) ==
    /\ line[k] # <<>>
    /\ Head(line[k]) \in started
    /\ started' = started \ {Head(line[k])}
    /\ line' = [line EXCEPT ![k] = Tail(@)]
    /\ UNCHANGED open

Close ==
    /\ open
    /\ open' = FALSE
    /\ \/ UNCHANGED line
       \/ line' = [k \in Keys |-> IF line[k] = <<>> THEN <<>>
                                  ELSE <<Head(line[k])>>]
    /\ UNCHANGED started

Next ==
    \/ \E k \in Keys, id \in Ids : Accept(k, id)
    \/ \E k \in Keys : Begin(k) \/ End(k)
    \/ Close

Spec == Init /\ [][Next]_vars
=============================================================================
