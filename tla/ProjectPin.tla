----------------------------- MODULE ProjectPin -----------------------------
(***************************************************************************)
(* The PIN of a project: api/_lib/project-pin.js and the PATCH requests of *)
(* api/_handlers/projects.js that unlock, lock, set, recover and remove    *)
(* it.  An unlock belongs to a session and to a version of the PIN.  Each  *)
(* action is a stretch between two database calls; calls interleave.       *)
(***************************************************************************)
EXTENDS Naturals, FiniteSets

CONSTANTS
    Holders,     \* sessions that may work on the project
    Calls,       \* bound: the calls that are served at a time
    PIN,         \* what may be set as a PIN
    NoPin,
    PinSetups    \* bounds: how often each kind of call may be made

ASSUME PinAssumption == NoPin \notin PIN

Changes == {"set", "recover", "remove"}

VARIABLES
    security,    \* the security subdocument of the project
    unlock,      \* session -> its unlock record
    call,        \* call -> where it stands
    callsLeft,   \* kind -> how many more
    overlapped   \* a change was saved over another it had not seen

pinVars == <<security, unlock, call, callsLeft, overlapped>>

NoSecurity == [enabled |-> FALSE, pin |-> NoPin, version |-> 0]
NoUnlock   == [version |-> 0, pin |-> NoPin]      \* pin: what it was granted for
NoCall     == [kind |-> "none", pc |-> "idle", holder |-> NoPin, pin |-> NoPin, seen |-> NoSecurity]

PinInit ==
    /\ security = NoSecurity
    /\ unlock = [h \in Holders |-> NoUnlock]
    /\ call = [c \in Calls |-> NoCall]
    /\ callsLeft \in PinSetups
    /\ overlapped = FALSE

\* isProjectUnlocked, of a project as read.
IsUnlocked(h, project) ==
    project.enabled => unlock[h].pin # NoPin /\ unlock[h].version = project.version

CallAt(c, kinds, pc) == call[c].kind \in kinds /\ call[c].pc = pc

Proceed(c, pc) == call' = [call EXCEPT ![c].pc = pc]

Answer(c) == call' = [call EXCEPT ![c] = NoCall]

\* The handler reads the project.  What is typed to unlock may be wrong.
ReadProject(c, kind, h, pin) ==
    /\ call[c] = NoCall
    /\ callsLeft[kind] > 0
    /\ callsLeft' = [callsLeft EXCEPT ![kind] = @ - 1]
    /\ call' = [call EXCEPT ![c] = [kind |-> kind, pc |-> "permission", holder |-> h, pin |-> pin,
                                    seen |-> security]]
    /\ UNCHANGED <<security, unlock, overlapped>>

\* requireProjectPermission and what the handler checks of the project it
\* read: unlocking, locking and recovering pass the lock.
CheckPermission(c) ==
    LET x == call[c]
        allowed == /\ x.kind \in {"set", "remove"} => IsUnlocked(x.holder, x.seen)
                   /\ x.kind \in {"unlock", "recover", "remove"} => x.seen.enabled
                   /\ x.kind = "unlock" => x.pin = x.seen.pin
    IN
    /\ x.pc = "permission"
    /\ IF ~allowed THEN Answer(c)
       ELSE Proceed(c, IF x.kind \in Changes THEN "save" ELSE IF x.kind = "lock" THEN "revoke own" ELSE "grant")
    /\ UNCHANGED <<security, unlock, callsLeft, overlapped>>

\* The subdocument each change puts in place of the one it read.
\* Mutant: a removed PIN takes its version with it.
ReplacementFromScratch(x) ==
    [enabled |-> x.kind # "remove",
     pin |-> IF x.kind = "remove" THEN NoPin ELSE x.pin,
     version |-> IF x.kind = "remove" THEN 0 ELSE x.seen.version + 1]

Replacement(x) ==
    [enabled |-> x.kind # "remove",
     pin |-> IF x.kind = "remove" THEN NoPin ELSE x.pin,
     version |-> x.seen.version + 1]

SavePin(c) ==
    LET x == call[c] IN
    /\ CallAt(c, Changes, "save")
    /\ security' = Replacement(x)
    /\ overlapped' = (overlapped \/ security # x.seen)
    /\ call' = [call EXCEPT ![c].pc = "revoke", ![c].seen = Replacement(x)]
    /\ UNCHANGED <<unlock, callsLeft>>

\* revokeProjectUnlocks.
RevokeUnlocks(c) ==
    /\ CallAt(c, Changes, "revoke")
    /\ unlock' = [h \in Holders |-> NoUnlock]
    /\ IF call[c].kind = "remove" THEN Answer(c) ELSE Proceed(c, "grant")
    /\ UNCHANGED <<security, callsLeft, overlapped>>

\* grantProjectUnlock, for the project as read or as saved.
Grant(c) ==
    LET x == call[c] IN
    /\ CallAt(c, {"unlock", "set", "recover"}, "grant")
    /\ unlock' = [unlock EXCEPT ![x.holder] = [version |-> x.seen.version, pin |-> x.pin]]
    /\ Answer(c)
    /\ UNCHANGED <<security, callsLeft, overlapped>>

\* revokeProjectUnlock.
RevokeOwn(c) ==
    /\ CallAt(c, {"lock"}, "revoke own")
    /\ unlock' = [unlock EXCEPT ![call[c].holder] = NoUnlock]
    /\ Answer(c)
    /\ UNCHANGED <<security, callsLeft, overlapped>>

\* The record expires, or goes with the session's workspace.
UnlockEnds(h) ==
    /\ callsLeft.ends > 0
    /\ unlock[h] # NoUnlock
    /\ callsLeft' = [callsLeft EXCEPT !.ends = @ - 1]
    /\ unlock' = [unlock EXCEPT ![h] = NoUnlock]
    /\ UNCHANGED <<security, call, overlapped>>

\* The function is stopped, or its database call throws.
CallStops(c) ==
    /\ callsLeft.stops > 0
    /\ call[c] # NoCall
    /\ callsLeft' = [callsLeft EXCEPT !.stops = @ - 1]
    /\ Answer(c)
    /\ UNCHANGED <<security, unlock, overlapped>>

PinNext ==
    \/ \E c \in Calls :
          \/ \E h \in Holders :
                \/ \E kind \in {"unlock", "set", "recover"}, pin \in PIN : ReadProject(c, kind, h, pin)
                \/ \E kind \in {"lock", "remove"} : ReadProject(c, kind, h, NoPin)
          \/ CheckPermission(c) \/ SavePin(c) \/ RevokeUnlocks(c) \/ Grant(c) \/ RevokeOwn(c) \/ CallStops(c)
    \/ \E h \in Holders : UnlockEnds(h)

-----------------------------------------------------------------------------
(* Properties.                                                             *)

PinTypeOK ==
    /\ security \in [enabled : BOOLEAN, pin : PIN \cup {NoPin}, version : Nat]
    /\ security.enabled <=> security.pin # NoPin
    /\ unlock \in [Holders -> [version : Nat, pin : PIN \cup {NoPin}]]
    /\ \A c \in Calls : call[c].holder \in Holders \cup {NoPin}

\* Who works on a locked project has proved the PIN it has now, or set it
\* himself: an unlock under way while the PIN is removed and set again, or
\* left behind by a change that was cut short, does not count.  Changes that
\* overlap reuse a version and are excepted.
UnlockIsCurrent ==
    ~overlapped =>
        \A h \in Holders :
            security.enabled /\ IsUnlocked(h, security) => unlock[h].pin = security.pin

\* No unlock is for a version that is yet to come, so none can start to count.
NoUnlockAhead ==
    \A h \in Holders : ~overlapped => unlock[h].version <= security.version

PinInv == PinTypeOK /\ UnlockIsCurrent /\ NoUnlockAhead
=============================================================================
