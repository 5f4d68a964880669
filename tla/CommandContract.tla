-------------------------- MODULE CommandContract --------------------------
(***************************************************************************)
(* What the command path promises, seen from outside: each command walks   *)
(* one way through its lifecycle, is sent to the device at most once and   *)
(* only between its claim and its end, and an outcome that only a device   *)
(* or gateway can give is not made up.                                     *)
(***************************************************************************)
CONSTANTS Commands, TerminalStatuses

VARIABLES status, sent

vars == <<status, sent>>

Init ==
    /\ status = [c \in Commands |-> "none"]
    /\ sent = [c \in Commands |-> 0]

Move(c, from, to) ==
    /\ status[c] \in from
    /\ status' = [status EXCEPT ![c] = to]
    /\ UNCHANGED sent

Request(c)   == Move(c, {"none"}, "requested")
Refuse(c)    == Move(c, {"requested"}, "rejected")
Authorize(c) == Move(c, {"requested"}, "authorized")
Claim(c)     == Move(c, {"authorized"}, "dispatched")

Send(c) ==
    /\ status[c] = "dispatched"
    /\ sent[c] = 0
    /\ sent' = [sent EXCEPT ![c] = 1]
    /\ UNCHANGED status

Accept(c) == sent[c] = 1 /\ Move(c, {"dispatched"}, "accepted_by_gateway")

Conclude(c, s) ==
    /\ s = "failed" \/ sent[c] = 1
    /\ Move(c, {"dispatched", "accepted_by_gateway"}, s)

Next ==
    \E c \in Commands :
        \/ Request(c) \/ Refuse(c) \/ Authorize(c)
        \/ Claim(c) \/ Send(c) \/ Accept(c)
        \/ \E s \in TerminalStatuses : Conclude(c, s)

Spec == Init /\ [][Next]_vars
=============================================================================
