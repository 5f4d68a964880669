----------------------- MODULE WorkspaceAccessProofs -----------------------
(***************************************************************************)
(* What WorkspaceAccess promises, for any accounts, sessions, requests and *)
(* calls that interleave, and any number of PINs and of sessions allowed.  *)
(*                                                                         *)
(* The PIN: as long as no change is saved over one it has not seen, a      *)
(* version has one PIN.  So a call that read the project at the version it *)
(* still has, read the PIN it still has (SeenIsCurrent), and what it       *)
(* grants is for the PIN it read or set itself (GrantsWhatItSaw).          *)
(*                                                                         *)
(* Accounts: a request works with what it read some steps ago.  What it    *)
(* may still rely on only grows (Informed, Onward): a version it read came *)
(* with its password and is either still that of the account or has been   *)
(* left behind, a member remains one, a session keeps its user.            *)
(***************************************************************************)
EXTENDS WorkspaceAccess, FiniteSetTheorems, SequenceTheorems, TLAPS

-----------------------------------------------------------------------------
(* The PIN.                                                                *)

Security == [enabled : BOOLEAN, pin : PIN \cup {NoPin}, version : Nat]
Kinds == {"none", "unlock", "lock"} \cup Changes
Points == {"idle", "permission", "save", "revoke", "grant", "revoke own"}
Call == [kind : Kinds, pc : Points, holder : Holders \cup {NoPin}, pin : PIN \cup {NoPin}, seen : Security]
Unlock == [version : Nat, pin : PIN \cup {NoPin}]

Typed ==
    /\ security \in Security
    /\ unlock \in [Holders -> Unlock]
    /\ call \in [Calls -> Call]
    /\ overlapped \in BOOLEAN

\* What a call grants is for the PIN of the project as it read or saved it, and
\* who sets a PIN has one.
GrantsWhatItSaw ==
    \A c \in Calls :
        /\ call[c].kind = "unlock" /\ call[c].pc = "grant" => call[c].pin = call[c].seen.pin
        /\ call[c].kind \in {"set", "recover"} /\ call[c].pc \in {"revoke", "grant"} => call[c].pin = call[c].seen.pin
        /\ call[c].kind \in {"set", "recover"} => call[c].pin \in PIN

\* No call knows a version that is to come; who knows the latest knows its PIN.
SeenIsCurrent ==
    ~overlapped => \A c \in Calls :
        /\ call[c].seen.version <= security.version
        /\ call[c].seen.version = security.version => call[c].seen.pin = security.pin

\* The same of the unlocks.
UnlocksAgree ==
    ~overlapped => \A h \in Holders :
        /\ unlock[h].version <= security.version
        /\ unlock[h].version = security.version /\ unlock[h].pin # NoPin /\ security.enabled
              => unlock[h].pin = security.pin

\* The first version has no PIN, and the lock is on where there is one.
LockFits ==
    /\ security.version = 0 => security.pin = NoPin
    /\ security.enabled <=> security.pin # NoPin

PinIInv == Typed /\ LockFits /\ GrantsWhatItSaw /\ SeenIsCurrent /\ UnlocksAgree

-----------------------------------------------------------------------------
\* The initial state: nobody has an unlock and nothing is called.
LEMMA InitPin == PinInit => PinIInv
<1> SUFFICES ASSUME PinInit PROVE PinIInv
  OBVIOUS
<1> USE PinAssumption DEF PinInit, NoSecurity, NoUnlock, NoCall
<1>1. Typed
  BY DEF Typed, Security, Unlock, Call, Kinds, Points, Changes
<1>2. LockFits /\ GrantsWhatItSaw /\ SeenIsCurrent /\ UnlocksAgree
  BY DEF LockFits, GrantsWhatItSaw, SeenIsCurrent, UnlocksAgree
<1> QED
  BY <1>1, <1>2 DEF PinIInv

\* A call that goes on keeps what calls know, if what it knows by then is what it
\* knew, what the project is, or nothing.
LEMMA CallGoesOn ==
    ASSUME PinIInv, NEW c \in Calls, NEW x \in Call,
           call' = [call EXCEPT ![c] = x],
           security' = security, overlapped' = overlapped,
           x.kind = "unlock" /\ x.pc = "grant" => x.pin = x.seen.pin,
           x.kind \in {"set", "recover"} /\ x.pc \in {"revoke", "grant"} => x.pin = x.seen.pin,
           x.kind \in {"set", "recover"} => x.pin \in PIN,
           x.seen = call[c].seen \/ x.seen = security \/ x.seen = NoSecurity
    PROVE  call' \in [Calls -> Call] /\ GrantsWhatItSaw' /\ SeenIsCurrent'
<1>1. call' \in [Calls -> Call] /\ \A d \in Calls : call'[d] = IF d = c THEN x ELSE call[d]
  BY DEF PinIInv, Typed
<1>2. GrantsWhatItSaw'
  BY <1>1 DEF PinIInv, GrantsWhatItSaw
<1>3. SeenIsCurrent'
  <2> SUFFICES ASSUME ~overlapped, NEW d \in Calls
               PROVE  /\ call'[d].seen.version <= security.version
                      /\ call'[d].seen.version = security.version => call'[d].seen.pin = security.pin
    BY DEF SeenIsCurrent
  <2>1. /\ call[d].seen.version <= security.version
        /\ call[d].seen.version = security.version => call[d].seen.pin = security.pin
    BY DEF PinIInv, SeenIsCurrent
  <2>2. security.version \in Nat
    BY DEF PinIInv, Typed, Security
  <2>3. CASE d # c
    BY <1>1, <2>1, <2>3
  <2>4. CASE d = c /\ x.seen = NoSecurity
    BY <1>1, <2>2, <2>4 DEF PinIInv, LockFits, NoSecurity
  <2>5. CASE d = c /\ x.seen # NoSecurity
    BY <1>1, <2>1, <2>2, <2>5
  <2> QED
    BY <2>3, <2>4, <2>5
<1> QED
  BY <1>1, <1>2, <1>3

\* A call that is answered knows nothing.
LEMMA CallEnds ==
    ASSUME PinIInv, NEW c \in Calls, Answer(c), security' = security, overlapped' = overlapped
    PROVE  call' \in [Calls -> Call] /\ GrantsWhatItSaw' /\ SeenIsCurrent'
<1>1. NoCall \in Call
  BY PinAssumption DEF NoCall, Call, Kinds, Points, Security, NoSecurity
<1>2. NoCall.kind = "none" /\ NoCall.seen = NoSecurity
  BY DEF NoCall
<1> QED
  BY <1>1, <1>2, CallGoesOn DEF Answer

\* A call that goes to its next step, and grants nothing there that it did not see.
LEMMA CallProceeds ==
    ASSUME PinIInv, NEW c \in Calls, NEW pc \in Points, Proceed(c, pc),
           security' = security, overlapped' = overlapped,
           call[c].kind = "unlock" /\ pc = "grant" => call[c].pin = call[c].seen.pin,
           call[c].kind \in {"set", "recover"} /\ pc \in {"revoke", "grant"} => call[c].pin = call[c].seen.pin
    PROVE  call' \in [Calls -> Call] /\ GrantsWhatItSaw' /\ SeenIsCurrent'
<1> DEFINE x == [call[c] EXCEPT !.pc = pc]
<1>1. x \in Call /\ x.seen = call[c].seen /\ x.kind = call[c].kind /\ x.pin = call[c].pin /\ x.pc = pc
  BY DEF PinIInv, Typed, Call
<1>2. call' = [call EXCEPT ![c] = x]
  BY DEF Proceed
<1>3. x.kind \in {"set", "recover"} => x.pin \in PIN
  BY <1>1 DEF PinIInv, GrantsWhatItSaw
<1> HIDE DEF x
<1> QED
  BY <1>1, <1>2, <1>3, CallGoesOn

\* An unlock that ends, or is granted for a version and its PIN.
LEMMA UnlockChanges ==
    ASSUME PinIInv, NEW h \in Holders \cup {NoPin}, NEW u \in Unlock,
           unlock' = [unlock EXCEPT ![h] = u],
           security' = security, overlapped' = overlapped,
           ~overlapped => /\ u.version <= security.version
                          /\ u.version = security.version => u.pin = security.pin \/ u.pin = NoPin
    PROVE  unlock' \in [Holders -> Unlock] /\ UnlocksAgree'
<1>1. unlock' \in [Holders -> Unlock] /\ \A g \in Holders : unlock'[g] = IF g = h THEN u ELSE unlock[g]
  BY DEF PinIInv, Typed
<1>2. UnlocksAgree'
  BY <1>1 DEF PinIInv, UnlocksAgree
<1> QED
  BY <1>1, <1>2

\* No unlock is for no version.
LEMMA NoUnlockFits ==
    ASSUME PinIInv
    PROVE  NoUnlock \in Unlock /\ NoUnlock.version <= security.version /\ NoUnlock.pin = NoPin
BY DEF PinIInv, Typed, Security, Unlock, NoUnlock

-----------------------------------------------------------------------------
LEMMA ReadProjectKeeps ==
    ASSUME PinIInv, NEW c \in Calls, NEW h \in Holders, NEW kind \in Kinds, NEW pin \in PIN \cup {NoPin},
           kind \in {"set", "recover"} => pin \in PIN,
           ReadProject(c, kind, h, pin)
    PROVE  PinIInv'
<1> DEFINE x == [kind |-> kind, pc |-> "permission", holder |-> h, pin |-> pin, seen |-> security]
<1>1. x \in Call /\ x.pc = "permission" /\ x.seen = security /\ x.kind = kind /\ x.pin = pin
  BY DEF PinIInv, Typed, Call, Points
<1>2. call' = [call EXCEPT ![c] = x] /\ security' = security /\ unlock' = unlock /\ overlapped' = overlapped
  BY DEF ReadProject
<1> HIDE DEF x
<1>3. call' \in [Calls -> Call] /\ GrantsWhatItSaw' /\ SeenIsCurrent'
  BY <1>1, <1>2, CallGoesOn
<1> QED
  BY <1>2, <1>3 DEF PinIInv, Typed, LockFits, UnlocksAgree

LEMMA CheckPermissionKeeps ==
    ASSUME PinIInv, NEW c \in Calls, CheckPermission(c)
    PROVE  PinIInv'
<1>1. security' = security /\ unlock' = unlock /\ overlapped' = overlapped
  BY DEF CheckPermission
<1>2. call' \in [Calls -> Call] /\ GrantsWhatItSaw' /\ SeenIsCurrent'
  <2>1. \/ Answer(c)
        \/ Proceed(c, "save")
        \/ Proceed(c, "revoke own")
        \/ /\ Proceed(c, "grant")
           /\ call[c].kind \notin Changes
           /\ call[c].kind = "unlock" => call[c].pin = call[c].seen.pin
    BY DEF CheckPermission
  <2>2. CASE Answer(c)
    BY <1>1, <2>2, CallEnds
  <2>3. CASE Proceed(c, "save")
    BY <1>1, <2>3, CallProceeds DEF Points
  <2>4. CASE Proceed(c, "revoke own")
    BY <1>1, <2>4, CallProceeds DEF Points
  <2>5. CASE /\ Proceed(c, "grant")
             /\ call[c].kind \notin Changes
             /\ call[c].kind = "unlock" => call[c].pin = call[c].seen.pin
    BY <1>1, <2>5, CallProceeds DEF Points, Changes
  <2> QED
    BY <2>1, <2>2, <2>3, <2>4, <2>5
<1> QED
  BY <1>1, <1>2 DEF PinIInv, Typed, LockFits, UnlocksAgree

\* The step that makes a version: it is later than all that is known or granted,
\* unless the call overlaps with another.
LEMMA SavePinKeeps ==
    ASSUME PinIInv, NEW c \in Calls, SavePin(c)
    PROVE  PinIInv'
<1> DEFINE new == Replacement(call[c])
           x   == [call[c] EXCEPT !.pc = "revoke", !.seen = new]
<1>1. /\ new \in Security
      /\ new.version = call[c].seen.version + 1
      /\ call[c].kind # "remove" => new.pin = call[c].pin
  BY PinAssumption DEF PinIInv, Typed, Call, Security, Replacement
<1>2. /\ security' = new /\ unlock' = unlock
      /\ overlapped' = (overlapped \/ security # call[c].seen)
      /\ call[c].kind \in Changes
      /\ call' = [call EXCEPT ![c] = x]
  BY DEF SavePin, CallAt, PinIInv, Typed, Call
<1>3. x \in Call /\ x.kind = call[c].kind /\ x.pin = call[c].pin /\ x.pc = "revoke" /\ x.seen = new
  BY <1>1 DEF PinIInv, Typed, Call, Points
<1>4. security.version \in Nat /\ call[c].seen.version \in Nat
  BY DEF PinIInv, Typed, Call, Security
<1> HIDE DEF new, x
<1>5. call' \in [Calls -> Call] /\ \A d \in Calls : call'[d] = IF d = c THEN x ELSE call[d]
  BY <1>2, <1>3 DEF PinIInv, Typed
<1>6. Typed'
  BY <1>1, <1>2, <1>5 DEF PinIInv, Typed
<1>7. LockFits'
  <2>1. new.version # 0
    BY <1>1, <1>4
  <2>2. new.enabled <=> new.pin # NoPin
    <3>1. call[c].kind # "remove" => call[c].pin # NoPin
      BY <1>2, PinAssumption DEF PinIInv, GrantsWhatItSaw, Changes
    <3> QED BY <3>1 DEF new, Replacement
  <2> QED BY <1>2, <2>1, <2>2 DEF LockFits
<1>8. GrantsWhatItSaw'
  BY <1>1, <1>2, <1>3, <1>5 DEF PinIInv, GrantsWhatItSaw, Changes
<1>9. ~overlapped' => ~overlapped /\ security'.version = security.version + 1
  BY <1>1, <1>2
<1>10. SeenIsCurrent'
  <2> SUFFICES ASSUME ~overlapped', NEW d \in Calls
               PROVE  /\ call'[d].seen.version <= security'.version
                      /\ call'[d].seen.version = security'.version => call'[d].seen.pin = security'.pin
    BY DEF SeenIsCurrent
  <2>1. CASE d = c
    BY <1>1, <1>2, <1>3, <1>4, <1>5, <2>1
  <2>2. CASE d # c
    <3>1. call[d].seen.version \in Nat /\ call[d].seen.version <= security.version
      BY <1>9 DEF PinIInv, SeenIsCurrent, Typed, Call, Security
    <3> QED
      BY <3>1, <1>4, <1>5, <1>9, <2>2
  <2> QED
    BY <2>1, <2>2
<1>11. UnlocksAgree'
  <2> SUFFICES ASSUME ~overlapped', NEW h \in Holders
               PROVE  unlock[h].version < security'.version /\ unlock[h].version # security'.version
    BY <1>1, <1>2, <1>4 DEF UnlocksAgree, PinIInv, Typed, Unlock
  <2>1. unlock[h].version \in Nat /\ unlock[h].version <= security.version
    BY <1>9 DEF PinIInv, UnlocksAgree, Typed, Unlock
  <2> QED
    BY <2>1, <1>4, <1>9
<1> QED
  BY <1>6, <1>7, <1>8, <1>10, <1>11 DEF PinIInv

LEMMA RevokeUnlocksKeeps ==
    ASSUME PinIInv, NEW c \in Calls, RevokeUnlocks(c)
    PROVE  PinIInv'
<1>1. /\ security' = security /\ overlapped' = overlapped
      /\ unlock' = [h \in Holders |-> NoUnlock]
      /\ call[c].kind \in Changes /\ call[c].pc = "revoke"
  BY DEF RevokeUnlocks, CallAt
<1>2. unlock' \in [Holders -> Unlock] /\ UnlocksAgree'
  BY <1>1, NoUnlockFits DEF UnlocksAgree
<1>3. call' \in [Calls -> Call] /\ GrantsWhatItSaw' /\ SeenIsCurrent'
  <2>1. CASE Answer(c)
    BY <1>1, <2>1, CallEnds
  <2>2. CASE Proceed(c, "grant") /\ call[c].kind # "remove"
    <3>1. call[c].pin = call[c].seen.pin
      BY <1>1, <2>2 DEF PinIInv, GrantsWhatItSaw, Changes
    <3> QED
      BY <1>1, <2>2, <3>1, CallProceeds DEF Points
  <2> QED
    BY <2>1, <2>2 DEF RevokeUnlocks
<1> QED
  BY <1>1, <1>2, <1>3 DEF PinIInv, Typed, LockFits

LEMMA GrantKeeps ==
    ASSUME PinIInv, NEW c \in Calls, Grant(c)
    PROVE  PinIInv'
<1> DEFINE u == [version |-> call[c].seen.version, pin |-> call[c].pin]
<1>1. /\ security' = security /\ overlapped' = overlapped /\ Answer(c)
      /\ unlock' = [unlock EXCEPT ![call[c].holder] = u]
      /\ call[c].kind \in {"unlock", "set", "recover"} /\ call[c].pc = "grant"
  BY DEF Grant, CallAt
<1>2. /\ u \in Unlock /\ call[c].holder \in Holders \cup {NoPin}
      /\ u.version = call[c].seen.version /\ u.pin = call[c].seen.pin
  BY <1>1 DEF PinIInv, Typed, Call, Security, Unlock, GrantsWhatItSaw
<1> HIDE DEF u
<1>3. ~overlapped => /\ u.version <= security.version
                     /\ u.version = security.version => u.pin = security.pin
  BY <1>2 DEF PinIInv, SeenIsCurrent
<1>4. unlock' \in [Holders -> Unlock] /\ UnlocksAgree'
  BY <1>1, <1>2, <1>3, UnlockChanges
<1>5. call' \in [Calls -> Call] /\ GrantsWhatItSaw' /\ SeenIsCurrent'
  BY <1>1, CallEnds
<1> QED
  BY <1>1, <1>4, <1>5 DEF PinIInv, Typed, LockFits

LEMMA RevokeOwnKeeps ==
    ASSUME PinIInv, NEW c \in Calls, RevokeOwn(c)
    PROVE  PinIInv'
<1>1. /\ security' = security /\ overlapped' = overlapped /\ Answer(c)
      /\ unlock' = [unlock EXCEPT ![call[c].holder] = NoUnlock]
  BY DEF RevokeOwn
<1>2. call[c].holder \in Holders \cup {NoPin}
  BY DEF PinIInv, Typed, Call
<1>3. unlock' \in [Holders -> Unlock] /\ UnlocksAgree'
  BY <1>1, <1>2, NoUnlockFits, UnlockChanges
<1>4. call' \in [Calls -> Call] /\ GrantsWhatItSaw' /\ SeenIsCurrent'
  BY <1>1, CallEnds
<1> QED
  BY <1>1, <1>3, <1>4 DEF PinIInv, Typed, LockFits

LEMMA CallStopsKeeps ==
    ASSUME PinIInv, NEW c \in Calls, CallStops(c)
    PROVE  PinIInv'
<1>1. security' = security /\ overlapped' = overlapped /\ unlock' = unlock /\ Answer(c)
  BY DEF CallStops
<1>2. call' \in [Calls -> Call] /\ GrantsWhatItSaw' /\ SeenIsCurrent'
  BY <1>1, CallEnds
<1> QED
  BY <1>1, <1>2 DEF PinIInv, Typed, LockFits, UnlocksAgree

LEMMA UnlockEndsKeeps ==
    ASSUME PinIInv, NEW h \in Holders, UnlockEnds(h)
    PROVE  PinIInv'
<1>1. /\ security' = security /\ overlapped' = overlapped /\ call' = call
      /\ unlock' = [unlock EXCEPT ![h] = NoUnlock]
  BY DEF UnlockEnds
<1>2. unlock' \in [Holders -> Unlock] /\ UnlocksAgree'
  BY <1>1, NoUnlockFits, UnlockChanges
<1> QED
  BY <1>1, <1>2 DEF PinIInv, Typed, LockFits, GrantsWhatItSaw, SeenIsCurrent

-----------------------------------------------------------------------------
\* Every step of api/_handlers/projects.js and api/_lib/project-pin.js keeps it.
LEMMA StepPin == PinIInv /\ [PinNext]_pinVars => PinIInv'
<1> SUFFICES ASSUME PinIInv, [PinNext]_pinVars PROVE PinIInv'
  OBVIOUS
<1>1. ASSUME NEW c \in Calls, NEW h \in Holders, NEW kind \in {"unlock", "set", "recover"}, NEW pin \in PIN,
             ReadProject(c, kind, h, pin)
      PROVE  PinIInv'
  BY <1>1, ReadProjectKeeps DEF Kinds, Changes
<1>2. ASSUME NEW c \in Calls, NEW h \in Holders, NEW kind \in {"lock", "remove"}, ReadProject(c, kind, h, NoPin)
      PROVE  PinIInv'
  BY <1>2, ReadProjectKeeps DEF Kinds, Changes
<1>3. ASSUME NEW c \in Calls,
             CheckPermission(c) \/ SavePin(c) \/ RevokeUnlocks(c) \/ Grant(c) \/ RevokeOwn(c) \/ CallStops(c)
      PROVE  PinIInv'
  BY <1>3, CheckPermissionKeeps, SavePinKeeps, RevokeUnlocksKeeps, GrantKeeps, RevokeOwnKeeps, CallStopsKeeps
<1>4. ASSUME NEW h \in Holders, UnlockEnds(h)
      PROVE  PinIInv'
  BY <1>4, UnlockEndsKeeps
<1>5. CASE UNCHANGED pinVars
  BY <1>5 DEF pinVars, PinIInv, Typed, LockFits, GrantsWhatItSaw, SeenIsCurrent, UnlocksAgree
<1> QED
  BY <1>1, <1>2, <1>3, <1>4, <1>5 DEF PinNext

\* What is promised of the PIN follows.
LEMMA InvariantSuffices == PinIInv => PinInv
<1> SUFFICES ASSUME PinIInv PROVE PinInv
  OBVIOUS
<1>1. UnlockIsCurrent
  BY DEF PinIInv, UnlocksAgree, UnlockIsCurrent, IsUnlocked
<1>2. NoUnlockAhead
  BY DEF PinIInv, UnlocksAgree, NoUnlockAhead
<1>3. PinTypeOK
  BY DEF PinIInv, Typed, LockFits, PinTypeOK, Security, Unlock, Call
<1> QED
  BY <1>1, <1>2, <1>3 DEF PinInv

\* An unlock counts only for the PIN it was granted for (project-pin.js), and
\* none is granted for a version that is yet to come, as long as no change of
\* the PIN is saved over one it has not seen; whatever accounts do meanwhile.
THEOREM UnlocksAreCurrent == Spec => [](UnlockIsCurrent /\ NoUnlockAhead)
<1>1. Init => PinIInv
  BY InitPin DEF Init
<1>2. PinIInv /\ [Next]_accessVars => PinIInv'
  BY StepPin DEF Next, accessVars
<1> QED
  BY <1>1, <1>2, InvariantSuffices, PTL DEF Spec, PinInv
-----------------------------------------------------------------------------
(***************************************************************************)
(* Accounts, members and sessions, for any accounts and any number of      *)
(* requests.  What a request knows it goes on knowing, because what it     *)
(* knows only grows (AccountsGrow, Informed): a version it has read comes  *)
(* with the password it had or is no longer that of the account.           *)
(***************************************************************************)

SignsIn == {"signin", "google", "signup"}
Ops     == SignsIn \cup {"none", "password", "switch", "add", "update"}
Steps   == {"idle", "user", "owner", "membership", "create", "cap", "revoke", "callback", "find",
            "transaction", "update", "rotate", "others", "session", "preferred", "available",
            "create member", "assign", "role", "bump", "list", "unassign"}
Request == [op : Ops, pc : Steps, user : Accounts \cup {None}, session : Nat,
            workspace : Workspaces \cup {None}, role : Roles \cup {None}, active : BOOLEAN,
            asOwner : BOOLEAN, version : Nat, proof : Nat, found : SUBSET Nat]
SessionRecord == [user : Accounts, workspace : Workspaces, version : Nat, live : BOOLEAN, proof : Nat]

AccountTyped ==
    /\ account \in [Accounts -> UserRecord \cup {None}]
    /\ member \in [Workspaces -> [Accounts -> MemberRecord \cup {None}]]
    /\ assigned \in [Accounts -> Assignable \cup {None}]
    /\ sessions \in Seq(SessionRecord)
    /\ request \in [Requests -> Request]
    /\ cookie \in [Accounts -> Requests \cup {None}]
    /\ crossed \in BOOLEAN
    /\ overtaken \in BOOLEAN
    /\ tangled \subseteq Accounts
    /\ ended \subseteq DOMAIN sessions

\* A version with what it was proved by: the account has that password, or has
\* left the version behind.
Knows(u, version, proof) ==
    /\ account[u] # None
    /\ \/ overtaken /\ u = Bootstrap
       \/ /\ version <= account[u].version
          /\ version = account[u].version => proof \in {0, account[u].password}

Proved == \A s \in DOMAIN sessions : Knows(sessions[s].user, sessions[s].version, sessions[s].proof)

\* The steps of each kind of request.
FitsOp(x) ==
    \/ x = NoRequest
    \/ /\ x.user \in Accounts
       /\ \/ /\ x.op = "signin"
             /\ x.pc \in {"user", "owner", "membership", "create", "cap", "revoke"}
          \/ /\ x.op = "google"
             /\ x.pc \in {"callback", "find", "transaction", "membership", "create", "cap", "revoke"}
          \/ x.op = "signup" /\ x.pc \in {"transaction", "create", "cap", "revoke"}
          \/ x.op = "password" /\ x.pc \in {"update", "rotate", "others", "revoke"}
          \/ x.op = "switch" /\ x.pc \in {"session", "preferred"}
          \/ x.op = "add" /\ x.pc \in {"user", "available", "create member", "assign"}
          \/ x.op = "update" /\ x.pc \in {"role", "bump", "list", "revoke", "unassign", "assign"}

\* What a request knows of the account it is about.
KnowsAccount(x) ==
    /\ x.op = "signin" /\ x.pc \in {"user", "owner"} => x.user = Bootstrap
    /\ x.op = "signin" /\ x.pc = "user" /\ ~x.asOwner => x.proof = 1
    /\ x.op = "google" => x.proof = 0
    /\ x.pc = "transaction" => x.version = 1
    /\ x.pc \in {"membership", "create", "rotate"} => Knows(x.user, x.version, x.proof)
    /\ x.pc = "owner" /\ x.active => Knows(x.user, x.version, x.proof)
    /\ x.op = "signin" /\ x.pc = "user" /\ x.asOwner => Knows(x.user, x.version, x.proof)
    /\ x.pc \in {"update", "preferred", "session", "available", "create member", "owner"} => account[x.user] # None
    /\ x.op = "update" => account[x.user] # None

\* Of sessions.
KnowsSessions(x) ==
    /\ x.pc \in {"update", "rotate", "others", "session", "cap"} =>
          x.session \in DOMAIN sessions /\ sessions[x.session].user = x.user
    /\ x.pc \in {"create", "session", "preferred"} => x.workspace \in Workspaces
    /\ x.found \subseteq DOMAIN sessions
    /\ x.pc = "revoke" /\ x.op \in SignsIn =>
          \A s \in x.found : \E t \in DOMAIN sessions : t > s /\ sessions[t].user = sessions[s].user

\* And of members: there are some, and the owner who changes himself remains one.
KnowsMembers(x) ==
    /\ x.op \in {"add", "update"} => x.role \in Roles
    /\ x.op = "add" => \E u \in Accounts : member[Shared][u] # None
    /\ x.op = "update" => member[Shared][x.user] # None
    /\ x.pc = "role" =>
          /\ x.session \in DOMAIN sessions
          /\ x.asOwner /\ sessions[x.session].user = x.user => x.role = "OWNER" /\ x.active

Informed(r) ==
    FitsOp(request[r]) /\ KnowsAccount(request[r]) /\ KnowsSessions(request[r]) /\ KnowsMembers(request[r])

\* Who is a member has an account.
MembersHaveAccounts == \A u \in Accounts : member[Shared][u] # None => account[u] # None

\* Request r is in the midst of changing a member.
Changing(r, u) ==
    /\ request[r].user = u
    /\ request[r].op \in {"update", "add"}
    /\ request[r].pc \in {"bump", "list", "revoke", "unassign", "assign"}

\* One request at a time changes a member, and is about to give him the assignment
\* of his role; else he has it.
Follows(u) ==
    /\ \A q, r \in Requests : Changing(q, u) /\ Changing(r, u) => q = r
    /\ \A r \in Requests : Changing(r, u) =>
          /\ member[Shared][u] # None
          /\ member[Shared][u].role = request[r].role
          /\ request[r].pc = "assign" => assigned[u] = None
    /\ (\A r \in Requests : ~Changing(r, u)) /\ assigned[u] # None =>
          member[Shared][u] # None /\ assigned[u] = member[Shared][u].role

\* The sessions that somebody is about to revoke.
Doomed(u) == {s \in DOMAIN sessions : \E r \in Requests :
                 request[r].user = u /\ request[r].pc = "revoke" /\ s \in request[r].found}

\* Apart from these there are no more than allowed, unless one has just been opened.
Capped(u) ==
    \/ u \in tangled
    \/ \E r \in Requests : request[r].user = u /\ request[r].pc \in {"create", "cap"}
    \/ Cardinality(SessionsOf(u) \ Doomed(u)) <= MaxSessions

AccountIInv ==
    /\ AccountTyped /\ Proved /\ MembersHaveAccounts /\ OwnerRemains /\ NewestSessionStays
    /\ \A r \in Requests : Informed(r)
    /\ \A u \in Accounts : Capped(u)
    /\ \A u \in Accounts : u \in tangled \/ Follows(u)

-----------------------------------------------------------------------------
(* What grows.                                                             *)

AccountsGrow ==
    \A u \in Accounts : account[u] # None =>
        /\ account'[u] # None
        /\ account[u].version <= account'[u].version
        /\ account[u].version = account'[u].version => account'[u].password = account[u].password

Onward ==
    /\ AccountsGrow
    /\ overtaken => overtaken'
    /\ \A u \in Accounts : member[Shared][u] # None => member'[Shared][u] # None
    /\ DOMAIN sessions \subseteq DOMAIN sessions'
    /\ \A s \in DOMAIN sessions : sessions'[s].user = sessions[s].user

\* A record of an account that is there.
LEMMA AccountIsRecord ==
    ASSUME AccountTyped, NEW u \in Accounts, account[u] # None
    PROVE  account[u] \in UserRecord /\ account[u].version \in Nat /\ account[u].password \in Nat
<1>1. account[u] \in UserRecord
  BY DEF AccountTyped
<1> QED BY <1>1 DEF UserRecord

\* What is known goes on being known.
LEMMA StaysKnown ==
    ASSUME AccountTyped, AccountTyped', AccountsGrow, overtaken => overtaken',
           NEW u \in Accounts, NEW version \in Nat, NEW proof \in Nat, Knows(u, version, proof)
    PROVE  Knows(u, version, proof)'
<1>1. account[u] # None /\ account'[u] # None
  BY DEF Knows, AccountsGrow
<1>2. account[u].version \in Nat /\ account[u].password \in Nat
  BY <1>1, AccountIsRecord
<1>3. account'[u].version \in Nat
  <2>1. account'[u] \in UserRecord
    BY <1>1 DEF AccountTyped
  <2> QED BY <2>1 DEF UserRecord
<1>4. /\ account[u].version <= account'[u].version
      /\ account[u].version = account'[u].version => account'[u].password = account[u].password
  BY <1>1 DEF AccountsGrow
<1> QED BY <1>1, <1>2, <1>3, <1>4 DEF Knows

\* The types of what a request knows.
LEMMA RequestTypes ==
    ASSUME AccountTyped, NEW r \in Requests
    PROVE  /\ request[r] \in Request
           /\ request[r].user \in Accounts \cup {None}
           /\ request[r].session \in Nat
           /\ request[r].version \in Nat
           /\ request[r].proof \in Nat
           /\ request[r].asOwner \in BOOLEAN
           /\ request[r].active \in BOOLEAN
BY DEF AccountTyped, Request

\* A request that does not go on knows what it knew.
LEMMA StaysInformed ==
    ASSUME AccountTyped, AccountTyped', Onward, NEW r \in Requests, Informed(r), request'[r] = request[r]
    PROVE  Informed(r)'
<1>0. PICK x \in Request : x = request[r]
  BY RequestTypes
<1>1. x.version \in Nat /\ x.proof \in Nat
  BY <1>0 DEF Request
<1>2. FitsOp(x) /\ KnowsAccount(x) /\ KnowsSessions(x) /\ KnowsMembers(x)
  BY <1>0 DEF Informed
<1>3. x = NoRequest \/ x.user \in Accounts
  BY <1>2 DEF FitsOp
<1>4. request'[r] = x
  BY <1>0
<1>5. CASE x = NoRequest
  BY <1>4, <1>5 DEF Informed, FitsOp, KnowsAccount, KnowsSessions, KnowsMembers, NoRequest
<1>6. CASE x.user \in Accounts
  <2>1. FitsOp(request[r])'
    BY <1>2, <1>4 DEF FitsOp, NoRequest
  <2>2. KnowsAccount(request[r])'
    <3>1. Knows(x.user, x.version, x.proof) => Knows(x.user, x.version, x.proof)'
      BY <1>1, <1>6, StaysKnown DEF Onward
    <3>2. account[x.user] # None => account'[x.user] # None
      BY <1>6 DEF Onward, AccountsGrow
    <3> QED BY <1>2, <1>4, <3>1, <3>2 DEF KnowsAccount
  <2>3. KnowsSessions(request[r])'
    BY <1>2, <1>4 DEF KnowsSessions, Onward
  <2>4. KnowsMembers(request[r])'
    BY <1>2, <1>4, <1>6 DEF KnowsMembers, Onward, FitsOp
  <2> QED BY <2>1, <2>2, <2>3, <2>4 DEF Informed
<1> QED BY <1>3, <1>5, <1>6

\* Sets of sessions are finite.
LEMMA SessionSets ==
    ASSUME AccountTyped, NEW S \in SUBSET (DOMAIN sessions)
    PROVE  IsFiniteSet(S) /\ Cardinality(S) \in Nat /\ S \in SUBSET Nat
<1>1. DOMAIN sessions = 1..Len(sessions) /\ Len(sessions) \in Nat
  BY DEF AccountTyped
<1>2. IsFiniteSet(1..Len(sessions))
  BY <1>1, FS_Interval
<1>3. IsFiniteSet(S) /\ Cardinality(S) \in Nat
  BY <1>1, <1>2, FS_Subset, FS_CardinalityType
<1> QED BY <1>1, <1>3

LEMMA StaysProved ==
    ASSUME AccountTyped, AccountTyped', Onward, Proved, DOMAIN sessions' = DOMAIN sessions,
           \A s \in DOMAIN sessions : /\ sessions'[s].version = sessions[s].version
                                      /\ sessions'[s].proof = sessions[s].proof
    PROVE  Proved'
<1> SUFFICES ASSUME NEW s \in DOMAIN sessions
             PROVE  Knows(sessions[s].user, sessions[s].version, sessions[s].proof)'
  BY DEF Proved
<1>1. PICK x \in SessionRecord : x = sessions[s]
  BY DEF AccountTyped
<1>2. x.user \in Accounts /\ x.version \in Nat /\ x.proof \in Nat
  BY DEF SessionRecord
<1>3. Knows(x.user, x.version, x.proof)
  BY <1>1 DEF Proved
<1>4. Knows(x.user, x.version, x.proof)'
  BY <1>2, <1>3, StaysKnown DEF Onward
<1>5. sessions'[s].user = x.user /\ sessions'[s].version = x.version /\ sessions'[s].proof = x.proof
  BY <1>1 DEF Onward
<1> QED BY <1>4, <1>5 DEF Knows

LEMMA NewestStays ==
    ASSUME NewestSessionStays, Onward, DOMAIN sessions' = DOMAIN sessions, ended \subseteq ended',
           \A s \in DOMAIN sessions : sessions[s].live /\ ~sessions'[s].live => s \in ended'
    PROVE  NewestSessionStays'
BY DEF NewestSessionStays, Onward

\* Nobody opens a session of u, and who leaves listed ones has revoked them.
LEMMA CapStays ==
    ASSUME AccountTyped, AccountTyped', NEW u \in Accounts, Capped(u), tangled \subseteq tangled',
           \A s \in (SessionsOf(u))' : s \in SessionsOf(u),
           \/ u \in tangled'
           \/ \A q \in Requests : request[q].user = u =>
                 \/ request'[q] = request[q]
                 \/ /\ request[q].pc \notin {"create", "cap"}
                    /\ request[q].pc = "revoke" => \A s \in request[q].found : s \notin (SessionsOf(u))'
    PROVE  Capped(u)'
<1> SUFFICES ASSUME u \notin tangled' PROVE Capped(u)'
  BY DEF Capped
<1>1. u \notin tangled
  OBVIOUS
<1>2. CASE \E q \in Requests : request[q].user = u /\ request[q].pc \in {"create", "cap"}
  <2>1. PICK q \in Requests : request[q].user = u /\ request[q].pc \in {"create", "cap"}
    BY <1>2
  <2>2. request'[q] = request[q]
    BY <2>1
  <2> QED BY <2>1, <2>2 DEF Capped
<1>3. CASE Cardinality(SessionsOf(u) \ Doomed(u)) <= MaxSessions
  <2>1. (SessionsOf(u) \ Doomed(u))' \subseteq SessionsOf(u) \ Doomed(u)
    <3> SUFFICES ASSUME NEW s \in (SessionsOf(u) \ Doomed(u))'
                 PROVE  s \in SessionsOf(u) \ Doomed(u)
      OBVIOUS
    <3>1. s \in DOMAIN sessions' /\ s \in (SessionsOf(u))' /\ s \in SessionsOf(u)
      BY DEF SessionsOf
    <3>2. ASSUME NEW q \in Requests, request[q].user = u, request[q].pc = "revoke", s \in request[q].found
          PROVE  FALSE
      <4>1. request'[q] = request[q]
        BY <3>1, <3>2
      <4> QED BY <3>1, <3>2, <4>1 DEF Doomed
    <3> QED BY <3>1, <3>2 DEF Doomed
  <2>2. SessionsOf(u) \ Doomed(u) \in SUBSET (DOMAIN sessions)
    BY DEF SessionsOf
  <2>3. IsFiniteSet(SessionsOf(u) \ Doomed(u)) /\ Cardinality(SessionsOf(u) \ Doomed(u)) \in Nat
    BY <2>2, SessionSets
  <2>4. Cardinality((SessionsOf(u) \ Doomed(u))') <= Cardinality(SessionsOf(u) \ Doomed(u))
    BY <2>1, <2>3, FS_Subset
  <2>5. Cardinality((SessionsOf(u) \ Doomed(u))') \in Nat
    BY <2>1, <2>3, FS_Subset, FS_CardinalityType
  <2> QED BY <1>3, <2>3, <2>4, <2>5, AccountAssumption DEF Capped
<1> QED BY <1>1, <1>2, <1>3 DEF Capped

\* Nobody comes to change u as a member, and who does so goes on with it.
LEMMA FollowsStays ==
    ASSUME NEW u \in Accounts, u \in tangled \/ Follows(u), tangled \subseteq tangled',
           \/ u \in tangled'
           \/ /\ member'[Shared][u] = member[Shared][u]
              /\ assigned'[u] = assigned[u]
              /\ \A q \in Requests : Changing(q, u)' <=> Changing(q, u)
              /\ \A q \in Requests : Changing(q, u) =>
                    /\ request'[q].role = request[q].role
                    /\ request'[q].pc = "assign" => request[q].pc = "assign"
    PROVE  u \in tangled' \/ Follows(u)'
<1> SUFFICES ASSUME u \notin tangled' PROVE Follows(u)'
  OBVIOUS
<1>1. Follows(u)
  OBVIOUS
<1> QED BY <1>1 DEF Follows

\* What the requests know when one of them turns to x.
LEMMA AllInformed ==
    ASSUME AccountIInv, AccountTyped', Onward, NEW r \in Requests, NEW x \in Request,
           request' = [request EXCEPT ![r] = x],
           FitsOp(x), KnowsAccount(x)', KnowsSessions(x)', KnowsMembers(x)'
    PROVE  /\ \A q \in Requests : Informed(q)'
           /\ request'[r] = x
           /\ \A q \in Requests \ {r} : request'[q] = request[q]
<1>0. AccountTyped /\ \A q \in Requests : Informed(q)
  BY DEF AccountIInv
<1>1. /\ request'[r] = x
      /\ \A q \in Requests \ {r} : request'[q] = request[q]
  BY <1>0 DEF AccountTyped
<1>2. ASSUME NEW q \in Requests PROVE Informed(q)'
  <2>1. CASE q = r
    <3>2. request'[q] = x
      BY <1>1, <2>1
    <3>3. FitsOp(request[q])'
      BY <3>2 DEF FitsOp, NoRequest
    <3>4. KnowsAccount(request[q])'
      BY <3>2 DEF KnowsAccount
    <3>5. KnowsSessions(request[q])'
      BY <3>2 DEF KnowsSessions
    <3>6. KnowsMembers(request[q])'
      BY <3>2 DEF KnowsMembers
    <3> QED BY <3>3, <3>4, <3>5, <3>6 DEF Informed
  <2>2. CASE q # r
    BY <1>0, <1>1, <2>2, StaysInformed
  <2> QED BY <2>1, <2>2
<1> QED BY <1>1, <1>2

Midst(x) == x.op \in {"update", "add"} /\ x.pc \in {"bump", "list", "revoke", "unassign", "assign"}

\* Who changes a member, when request r turns to x.
LEMMA WhoChanges ==
    ASSUME NEW r \in Requests, NEW x \in Request, request'[r] = x,
           \A q \in Requests \ {r} : request'[q] = request[q],
           NEW u \in Accounts
    PROVE  /\ \A q \in Requests \ {r} : Changing(q, u)' <=> Changing(q, u)
           /\ Changing(r, u) <=> request[r].user = u /\ Midst(request[r])
           /\ Changing(r, u)' <=> x.user = u /\ Midst(x)
<1>1. ASSUME NEW q \in Requests \ {r} PROVE Changing(q, u)' <=> Changing(q, u)
  <2>1. request'[q] = request[q]
    OBVIOUS
  <2> QED BY <2>1 DEF Changing
<1>2. Changing(r, u) <=> request[r].user = u /\ Midst(request[r])
  BY DEF Changing, Midst
<1>3. Changing(r, u)' <=> x.user = u /\ Midst(x)
  BY DEF Changing, Midst
<1> QED BY <1>1, <1>2, <1>3
-----------------------------------------------------------------------------
(* Requests that go on without a session being opened or ended.            *)

\* Request r turns to x; accounts may grow, the shared workspace stays as it is.
LEMMA Goes ==
    ASSUME AccountIInv, NEW r \in Requests, NEW x \in Request, request' = [request EXCEPT ![r] = x],
           account' \in [Accounts -> UserRecord \cup {None}], AccountsGrow,
           member' \in [Workspaces -> [Accounts -> MemberRecord \cup {None}]],
           member'[Shared] = member[Shared],
           cookie' \in [Accounts -> Requests \cup {None}],
           UNCHANGED <<assigned, sessions, crossed, tangled, ended>>,
           overtaken' \in BOOLEAN, overtaken => overtaken',
           FitsOp(x), KnowsAccount(x)', KnowsSessions(x), KnowsMembers(x),
           request[r].pc \notin {"create", "cap", "revoke"},
           Midst(x) <=> Midst(request[r]),
           Midst(x) => x.user = request[r].user /\ x.role = request[r].role /\ x.pc # "assign"
    PROVE  AccountIInv'
<1>0. /\ AccountTyped /\ Proved /\ MembersHaveAccounts /\ OwnerRemains /\ NewestSessionStays
      /\ \A q \in Requests : Informed(q)
      /\ \A u \in Accounts : Capped(u)
      /\ \A u \in Accounts : u \in tangled \/ Follows(u)
  BY DEF AccountIInv
<1>1. AccountTyped'
  BY <1>0 DEF AccountTyped
<1>2. Onward
  BY DEF Onward
<1>3. KnowsSessions(x)' /\ KnowsMembers(x)'
  BY DEF KnowsSessions, KnowsMembers
<1>4. /\ \A q \in Requests : Informed(q)'
      /\ request'[r] = x
      /\ \A q \in Requests \ {r} : request'[q] = request[q]
  BY <1>1, <1>2, <1>3, AllInformed
<1>5. Proved'
  BY <1>0, <1>1, <1>2, StaysProved
<1>6. OwnerRemains'
  BY <1>0 DEF OwnerRemains
<1>7. NewestSessionStays'
  BY <1>0, <1>2, NewestStays
<1>8. ASSUME NEW u \in Accounts PROVE Capped(u)'
  <2>1. (SessionsOf(u))' = SessionsOf(u)
    BY DEF SessionsOf
  <2> QED BY <1>0, <1>1, <1>4, <2>1, CapStays
<1>9. ASSUME NEW u \in Accounts PROVE u \in tangled' \/ Follows(u)'
  <2>1. /\ \A q \in Requests : Changing(q, u)' <=> Changing(q, u)
        /\ Changing(r, u) => x.role = request[r].role /\ x.pc # "assign"
    BY <1>4, WhoChanges
  <2>2. \A q \in Requests : Changing(q, u) =>
            /\ request'[q].role = request[q].role
            /\ request'[q].pc = "assign" => request[q].pc = "assign"
    BY <1>4, <2>1
  <2> QED BY <1>0, <2>1, <2>2, FollowsStays
<1>10. MembersHaveAccounts'
  BY <1>0 DEF MembersHaveAccounts, AccountsGrow
<1> QED BY <1>1, <1>4, <1>5, <1>6, <1>7, <1>8, <1>9, <1>10 DEF AccountIInv

\* The same of a request that only reads.
LEMMA Turns ==
    ASSUME AccountIInv, NEW r \in Requests, NEW x \in Request, request' = [request EXCEPT ![r] = x],
           UNCHANGED <<documents, exceptions>>, cookie' \in [Accounts -> Requests \cup {None}],
           FitsOp(x), KnowsAccount(x), KnowsSessions(x), KnowsMembers(x),
           request[r].pc \notin {"create", "cap", "revoke"},
           Midst(x) <=> Midst(request[r]),
           Midst(x) => x.user = request[r].user /\ x.role = request[r].role /\ x.pc # "assign"
    PROVE  AccountIInv'
<1>1. UNCHANGED <<account, member, assigned, sessions, crossed, tangled, ended, overtaken>>
  BY DEF documents, exceptions
<1>2. AccountTyped
  BY DEF AccountIInv
<1>3. AccountsGrow
  <2> SUFFICES ASSUME NEW u \in Accounts, account[u] # None
               PROVE  account[u].version <= account[u].version
    BY <1>1 DEF AccountsGrow
  <2> QED BY <1>2, AccountIsRecord
<1>4. KnowsAccount(x)'
  BY <1>1 DEF KnowsAccount, Knows
<1>5. /\ account' \in [Accounts -> UserRecord \cup {None}]
      /\ member' \in [Workspaces -> [Accounts -> MemberRecord \cup {None}]]
      /\ overtaken' \in BOOLEAN
  BY <1>1, <1>2 DEF AccountTyped
<1> QED BY <1>1, <1>3, <1>4, <1>5, Goes

\* The end of a request that is in the midst of nothing.
LEMMA Finishes ==
    ASSUME AccountIInv, NEW r \in Requests, Finish(r), UNCHANGED <<documents, exceptions>>,
           cookie' \in [Accounts -> Requests \cup {None}],
           request[r].pc \notin {"create", "cap", "revoke"}, ~Midst(request[r])
    PROVE  AccountIInv'
<1>1. NoRequest \in Request
  BY DEF NoRequest, Request, Ops, Steps
<1>2. FitsOp(NoRequest) /\ KnowsAccount(NoRequest) /\ KnowsSessions(NoRequest) /\ KnowsMembers(NoRequest)
  BY DEF FitsOp, KnowsAccount, KnowsSessions, KnowsMembers, NoRequest
<1>3. ~Midst(NoRequest)
  BY DEF Midst, NoRequest
<1>4. request' = [request EXCEPT ![r] = NoRequest]
  BY DEF Finish
<1> QED BY <1>1, <1>2, <1>3, <1>4, Turns

-----------------------------------------------------------------------------
(* The requests that begin.                                                *)

LEMMA Begins ==
    ASSUME AccountIInv, NEW r \in Requests, NEW x \in Request,
           request[r] = NoRequest, request' = [request EXCEPT ![r] = x],
           UNCHANGED <<documents, exceptions>>, cookie' \in [Accounts -> Requests \cup {None}],
           FitsOp(x), KnowsAccount(x), KnowsSessions(x), KnowsMembers(x), ~Midst(x)
    PROVE  AccountIInv'
<1>1. request[r].pc \notin {"create", "cap", "revoke"} /\ ~Midst(request[r])
  BY DEF Midst, NoRequest
<1> QED BY <1>1, Turns

\* What there is to know at first.
LEMMA BeginsWithout ==
    ASSUME AccountIInv
    PROVE  /\ AccountTyped
           /\ cookie \in [Accounts -> Requests \cup {None}]
           /\ NoRequest \in Request
BY DEF AccountIInv, AccountTyped, NoRequest, Request, Ops, Steps

\* A session that is there, and is accepted.
LEMMA SessionIsRecord ==
    ASSUME AccountIInv, NEW s \in DOMAIN sessions
    PROVE  /\ sessions[s].user \in Accounts /\ sessions[s].workspace \in Workspaces
           /\ sessions[s].version \in Nat /\ sessions[s].proof \in Nat /\ sessions[s].live \in BOOLEAN
           /\ account[sessions[s].user] # None
           /\ s \in Nat
<1>1. sessions[s] \in SessionRecord /\ DOMAIN sessions = 1..Len(sessions) /\ Len(sessions) \in Nat
  BY DEF AccountIInv, AccountTyped
<1>2. Knows(sessions[s].user, sessions[s].version, sessions[s].proof)
  BY DEF AccountIInv, Proved
<1>3. s \in Nat
  BY <1>1
<1> QED BY <1>1, <1>2, <1>3 DEF SessionRecord, Knows

\* A session of the shared workspace that manages it belongs to a member.
LEMMA ManagerIsMember ==
    ASSUME AccountIInv, NEW s \in DOMAIN sessions, ManagesShared(s)
    PROVE  member[Shared][sessions[s].user] # None
BY SessionIsRecord DEF ManagesShared, Accepted, IsActive

LEMMA SignInSafe ==
    ASSUME AccountIInv, NEW r \in Requests, NEW u \in Accounts, SignIn(r, u)
    PROVE  AccountIInv'
<1> DEFINE y == [NoRequest EXCEPT !.op = "signin", !.pc = "membership", !.user = u,
                                  !.version = account[u].version, !.proof = account[u].password]
<1>0. request[r] = NoRequest /\ request' = [request EXCEPT ![r] = y]
      /\ UNCHANGED <<documents, exceptions>> /\ cookie' = cookie /\ account[u] # None
  BY DEF SignIn, Begin
<1>1. account[u].version \in Nat /\ account[u].password \in Nat
  BY <1>0, BeginsWithout, AccountIsRecord
<1>2. y \in Request
  BY <1>1 DEF Request, NoRequest, Ops, Steps, SignsIn
<1>3. PICK x \in Request : x = y
  BY <1>2
<1>4. /\ x.op = "signin" /\ x.pc = "membership" /\ x.user = u
      /\ x.version = account[u].version /\ x.proof = account[u].password /\ x.found = {}
  BY <1>3 DEF NoRequest
<1>5. FitsOp(x) /\ KnowsSessions(x) /\ KnowsMembers(x) /\ ~Midst(x)
  BY <1>4 DEF FitsOp, KnowsSessions, KnowsMembers, Midst
<1>6. KnowsAccount(x)
  BY <1>0, <1>1, <1>4 DEF KnowsAccount, Knows
<1> HIDE DEF y
<1> QED BY <1>0, <1>3, <1>5, <1>6, BeginsWithout, Begins

LEMMA BootstrapSignInSafe ==
    ASSUME AccountIInv, NEW r \in Requests, BootstrapSignIn(r)
    PROVE  AccountIInv'
<1> DEFINE y == [NoRequest EXCEPT !.op = "signin", !.pc = "user", !.user = Bootstrap,
                                  !.version = 1, !.proof = 1]
<1>0. request[r] = NoRequest /\ request' = [request EXCEPT ![r] = y]
      /\ UNCHANGED <<documents, exceptions>> /\ cookie' = cookie
  BY DEF BootstrapSignIn, Begin
<1>2. y \in Request
  BY AccountAssumption DEF Request, NoRequest, Ops, Steps, SignsIn
<1>3. PICK x \in Request : x = y
  BY <1>2
<1>4. /\ x.op = "signin" /\ x.pc = "user" /\ x.user = Bootstrap /\ x.asOwner = FALSE
      /\ x.version = 1 /\ x.proof = 1 /\ x.found = {}
  BY <1>3 DEF NoRequest
<1>5. FitsOp(x) /\ KnowsSessions(x) /\ KnowsMembers(x) /\ ~Midst(x) /\ KnowsAccount(x)
  BY <1>4, AccountAssumption DEF FitsOp, KnowsSessions, KnowsMembers, Midst, KnowsAccount
<1> HIDE DEF y
<1> QED BY <1>0, <1>3, <1>5, BeginsWithout, Begins

LEMMA StartGoogleSafe ==
    ASSUME AccountIInv, NEW r \in Requests, NEW u \in Accounts, StartGoogle(r, u)
    PROVE  AccountIInv'
<1> DEFINE y == [NoRequest EXCEPT !.op = "google", !.pc = "callback", !.user = u]
<1>0. request[r] = NoRequest /\ request' = [request EXCEPT ![r] = y]
      /\ UNCHANGED <<documents, exceptions>> /\ cookie' = [cookie EXCEPT ![u] = r]
  BY DEF StartGoogle, Begin
<1>1. cookie' \in [Accounts -> Requests \cup {None}]
  BY <1>0, BeginsWithout
<1>2. y \in Request
  BY DEF Request, NoRequest, Ops, Steps, SignsIn
<1>3. PICK x \in Request : x = y
  BY <1>2
<1>4. x.op = "google" /\ x.pc = "callback" /\ x.user = u /\ x.proof = 0 /\ x.found = {}
  BY <1>3 DEF NoRequest
<1>5. FitsOp(x) /\ KnowsSessions(x) /\ KnowsMembers(x) /\ ~Midst(x) /\ KnowsAccount(x)
  BY <1>4 DEF FitsOp, KnowsSessions, KnowsMembers, Midst, KnowsAccount
<1> HIDE DEF y
<1> QED BY <1>0, <1>1, <1>3, <1>5, Begins

LEMMA SignUpSafe ==
    ASSUME AccountIInv, NEW r \in Requests, NEW u \in Accounts, SignUp(r, u)
    PROVE  AccountIInv'
<1> DEFINE y == [NoRequest EXCEPT !.op = "signup", !.pc = "transaction", !.user = u,
                                  !.version = 1, !.proof = 1]
<1>0. request[r] = NoRequest /\ request' = [request EXCEPT ![r] = y]
      /\ UNCHANGED <<documents, exceptions>> /\ cookie' = cookie
  BY DEF SignUp, Begin
<1>2. y \in Request
  BY DEF Request, NoRequest, Ops, Steps, SignsIn
<1>3. PICK x \in Request : x = y
  BY <1>2
<1>4. x.op = "signup" /\ x.pc = "transaction" /\ x.user = u /\ x.version = 1 /\ x.found = {}
  BY <1>3 DEF NoRequest
<1>5. FitsOp(x) /\ KnowsSessions(x) /\ KnowsMembers(x) /\ ~Midst(x) /\ KnowsAccount(x)
  BY <1>4 DEF FitsOp, KnowsSessions, KnowsMembers, Midst, KnowsAccount
<1> HIDE DEF y
<1> QED BY <1>0, <1>3, <1>5, BeginsWithout, Begins

LEMMA ChangePasswordSafe ==
    ASSUME AccountIInv, NEW r \in Requests, NEW s \in DOMAIN sessions, ChangePassword(r, s)
    PROVE  AccountIInv'
<1> DEFINE u == sessions[s].user
           y == [NoRequest EXCEPT !.op = "password", !.pc = "update", !.user = u,
                                  !.session = s, !.version = account[u].version]
<1>0. request[r] = NoRequest /\ request' = [request EXCEPT ![r] = y]
      /\ UNCHANGED <<documents, exceptions>> /\ cookie' = cookie
  BY DEF ChangePassword, Begin
<1>1. u \in Accounts /\ account[u] # None /\ s \in Nat /\ account[u].version \in Nat
  BY SessionIsRecord, BeginsWithout, AccountIsRecord
<1>2. y \in Request
  BY <1>1 DEF Request, NoRequest, Ops, Steps, SignsIn
<1>3. PICK x \in Request : x = y
  BY <1>2
<1>4. x.op = "password" /\ x.pc = "update" /\ x.user = sessions[s].user /\ x.session = s /\ x.found = {}
  BY <1>3 DEF NoRequest
<1>5. FitsOp(x) /\ KnowsSessions(x) /\ KnowsMembers(x) /\ ~Midst(x) /\ KnowsAccount(x)
  BY <1>1, <1>4 DEF FitsOp, KnowsSessions, KnowsMembers, Midst, KnowsAccount
<1> HIDE DEF y
<1> QED BY <1>0, <1>3, <1>5, BeginsWithout, Begins

LEMMA SwitchSafe ==
    ASSUME AccountIInv, NEW r \in Requests, NEW s \in DOMAIN sessions, NEW w \in Workspaces, Switch(r, s, w)
    PROVE  AccountIInv'
<1> DEFINE u == sessions[s].user
           y == [NoRequest EXCEPT !.op = "switch", !.pc = "session", !.user = u, !.session = s,
                                  !.workspace = w]
<1>0. request[r] = NoRequest /\ request' = [request EXCEPT ![r] = y]
      /\ UNCHANGED <<documents, exceptions>> /\ cookie' = cookie
  BY DEF Switch, Begin
<1>1. u \in Accounts /\ account[u] # None /\ s \in Nat
  BY SessionIsRecord
<1>2. y \in Request
  BY <1>1 DEF Request, NoRequest, Ops, Steps, SignsIn
<1>3. PICK x \in Request : x = y
  BY <1>2
<1>4. /\ x.op = "switch" /\ x.pc = "session" /\ x.user = sessions[s].user /\ x.session = s
      /\ x.workspace = w /\ x.found = {}
  BY <1>3 DEF NoRequest
<1>5. FitsOp(x) /\ KnowsSessions(x) /\ KnowsMembers(x) /\ ~Midst(x) /\ KnowsAccount(x)
  BY <1>1, <1>4 DEF FitsOp, KnowsSessions, KnowsMembers, Midst, KnowsAccount
<1> HIDE DEF y
<1> QED BY <1>0, <1>3, <1>5, BeginsWithout, Begins

LEMMA AddMemberSafe ==
    ASSUME AccountIInv, NEW r \in Requests, NEW s \in DOMAIN sessions, NEW u \in Accounts,
           NEW role \in GivenRoles, AddMember(r, s, u, role)
    PROVE  AccountIInv'
<1> DEFINE pc == IF account[u] = None THEN "user" ELSE "available"
           y == [NoRequest EXCEPT !.op = "add", !.pc = pc, !.user = u, !.session = s, !.role = role]
<1>0. request[r] = NoRequest /\ request' = [request EXCEPT ![r] = y]
      /\ UNCHANGED <<documents, exceptions>> /\ cookie' = cookie /\ ManagesShared(s)
  BY DEF AddMember, Begin
<1>1. /\ pc \in {"user", "available"}
      /\ pc = "available" => account[u] # None
      /\ role \in Roles /\ s \in Nat
      /\ sessions[s].user \in Accounts /\ member[Shared][sessions[s].user] # None
  BY <1>0, SessionIsRecord, ManagerIsMember, AccountAssumption DEF Roles, Managers, Assignable
<1> HIDE DEF pc
<1>2. y \in Request
  BY <1>1 DEF Request, NoRequest, Ops, Steps, SignsIn
<1>3. PICK x \in Request : x = y
  BY <1>2
<1>4. /\ x.op = "add" /\ x.pc = pc /\ x.user = u /\ x.role = role
      /\ x.found = {}
  BY <1>1, <1>3 DEF NoRequest
<1>5. FitsOp(x) /\ KnowsSessions(x) /\ KnowsMembers(x) /\ ~Midst(x) /\ KnowsAccount(x)
  BY <1>1, <1>4 DEF FitsOp, KnowsSessions, KnowsMembers, Midst, KnowsAccount
<1> HIDE DEF y
<1> QED BY <1>0, <1>3, <1>5, BeginsWithout, Begins

LEMMA UpdateMemberSafe ==
    ASSUME AccountIInv, NEW r \in Requests, NEW s \in DOMAIN sessions, NEW u \in Accounts,
           NEW role \in GivenRoles, NEW active \in BOOLEAN, UpdateMember(r, s, u, role, active)
    PROVE  AccountIInv'
<1> DEFINE owner == (RoleOf(s) = "OWNER")
           y == [NoRequest EXCEPT !.op = "update", !.pc = "role", !.user = u, !.session = s,
                                  !.role = role, !.active = active, !.asOwner = owner]
<1>0. request[r] = NoRequest /\ request' = [request EXCEPT ![r] = y]
      /\ UNCHANGED <<documents, exceptions>> /\ cookie' = cookie /\ member[Shared][u] # None
  BY DEF UpdateMember, Begin
<1>1. role \in Roles /\ s \in Nat /\ owner \in BOOLEAN /\ account[u] # None
  BY <1>0, SessionIsRecord, AccountAssumption DEF Roles, Managers, Assignable, AccountIInv, MembersHaveAccounts
<1>2. sessions[s].user = u => role = "OWNER" /\ active
  BY DEF UpdateMember, MayChange
<1> HIDE DEF owner
<1>3. y \in Request
  BY <1>1 DEF Request, NoRequest, Ops, Steps, SignsIn
<1>4. PICK x \in Request : x = y
  BY <1>3
<1>5. /\ x.op = "update" /\ x.pc = "role" /\ x.user = u /\ x.session = s
      /\ x.role = role /\ x.found = {}
  BY <1>4 DEF NoRequest
<1>6. x.active = active
  BY <1>4 DEF NoRequest
<1>7. FitsOp(x) /\ KnowsSessions(x) /\ ~Midst(x) /\ KnowsAccount(x)
  BY <1>1, <1>5 DEF FitsOp, KnowsSessions, Midst, KnowsAccount
<1>8. KnowsMembers(x)
  BY <1>0, <1>1, <1>2, <1>5, <1>6 DEF KnowsMembers
<1> HIDE DEF y
<1> QED BY <1>0, <1>4, <1>7, <1>8, BeginsWithout, Begins

-----------------------------------------------------------------------------
(* The requests that go on reading.                                        *)

\* What a request that is under way knows.
LEMMA UnderWay ==
    ASSUME AccountIInv, NEW r \in Requests
    PROVE  /\ AccountTyped /\ cookie \in [Accounts -> Requests \cup {None}]
           /\ FitsOp(request[r]) /\ KnowsAccount(request[r])
           /\ KnowsSessions(request[r]) /\ KnowsMembers(request[r])
           /\ request[r].pc # "idle" => request[r].user \in Accounts
           /\ request[r] \in Request
<1>1. AccountTyped /\ Informed(r)
  BY DEF AccountIInv
<1>2. FitsOp(request[r]) /\ KnowsAccount(request[r]) /\ KnowsSessions(request[r]) /\ KnowsMembers(request[r])
  BY <1>1 DEF Informed
<1>3. request[r].pc # "idle" => request[r].user \in Accounts
  <2>1. NoRequest.pc = "idle"
    BY DEF NoRequest
  <2> QED BY <1>2, <2>1 DEF FitsOp
<1>4. cookie \in [Accounts -> Requests \cup {None}] /\ request[r] \in Request
  BY <1>1, RequestTypes DEF AccountTyped
<1> QED BY <1>1, <1>2, <1>3, <1>4

LEMMA GoogleCallbackSafe ==
    ASSUME AccountIInv, NEW r \in Requests, GoogleCallback(r)
    PROVE  AccountIInv'
<1> DEFINE y == [request[r] EXCEPT !.pc = "find"]
<1>0. /\ request[r].op = "google" /\ request[r].pc = "callback"
      /\ Finish(r) \/ request' = [request EXCEPT ![r] = y]
      /\ UNCHANGED <<documents, exceptions>>
      /\ cookie' = [cookie EXCEPT ![request[r].user] = None]
  BY DEF GoogleCallback, At, Goto
<1>1. cookie' \in [Accounts -> Requests \cup {None}] /\ ~Midst(request[r])
  BY <1>0, UnderWay DEF Midst
<1>2. CASE Finish(r)
  BY <1>0, <1>1, <1>2, Finishes
<1>3. CASE request' = [request EXCEPT ![r] = y]
  <2>1. y \in Request
    BY UnderWay DEF Request, Steps
  <2>2. PICK x \in Request : x = y
    BY <2>1
  <2>3. /\ x.op = "google" /\ x.pc = "find" /\ x.user = request[r].user /\ x.proof = request[r].proof
        /\ x.found = request[r].found
    BY <1>0, <2>2, UnderWay DEF Request
  <2>4. FitsOp(x) /\ KnowsAccount(x) /\ KnowsSessions(x) /\ KnowsMembers(x) /\ ~Midst(x)
    BY <1>0, <2>3, UnderWay DEF FitsOp, KnowsAccount, KnowsSessions, KnowsMembers, Midst
  <2> HIDE DEF y
  <2> QED BY <1>0, <1>1, <1>3, <2>2, <2>4, Turns
<1> QED BY <1>0, <1>2, <1>3

LEMMA GoogleFindSafe ==
    ASSUME AccountIInv, NEW r \in Requests, GoogleFind(r)
    PROVE  AccountIInv'
<1> DEFINE u == request[r].user
           pc == IF account[u] = None THEN "transaction" ELSE "membership"
           version == IF account[u] = None THEN 1 ELSE account[u].version
           y == [request[r] EXCEPT !.pc = pc, !.version = version]
<1>0. /\ request[r].op = "google" /\ request[r].pc = "find"
      /\ request' = [request EXCEPT ![r] = y]
      /\ UNCHANGED <<documents, exceptions>> /\ cookie' = cookie
  BY DEF GoogleFind, At
<1>1. u \in Accounts
  BY <1>0, UnderWay
<1>2. /\ version \in Nat
      /\ \/ pc = "transaction" /\ version = 1
         \/ pc = "membership" /\ account[u] # None /\ version = account[u].version
  BY <1>1, UnderWay, AccountIsRecord
<1> HIDE DEF pc, version
<1>3. y \in Request
  BY <1>2, UnderWay DEF Request, Steps
<1>4. PICK x \in Request : x = y
  BY <1>3
<1>5. /\ x.op = "google" /\ x.pc = pc /\ x.user = u /\ x.proof = request[r].proof
      /\ x.version = version /\ x.found = request[r].found
  BY <1>0, <1>4, UnderWay DEF Request
<1> HIDE DEF y
<1>6. FitsOp(x) /\ KnowsSessions(x) /\ KnowsMembers(x) /\ ~Midst(x)
  BY <1>0, <1>1, <1>2, <1>5, UnderWay DEF FitsOp, KnowsSessions, KnowsMembers, Midst
<1>7. KnowsAccount(x)
  <2>1. x.proof = 0
    BY <1>0, <1>5, UnderWay DEF KnowsAccount
  <2>2. CASE pc = "transaction" /\ version = 1
    BY <1>5, <2>1, <2>2 DEF KnowsAccount
  <2>3. CASE pc = "membership" /\ account[u] # None /\ version = account[u].version
    BY <1>2, <1>5, <2>1, <2>3 DEF KnowsAccount, Knows
  <2> QED BY <1>2, <2>2, <2>3
<1>8. request[r].pc \notin {"create", "cap", "revoke"} /\ ~Midst(request[r])
  BY <1>0 DEF Midst
<1> QED BY <1>0, <1>4, <1>6, <1>7, <1>8, UnderWay, Turns

LEMMA FindMembershipSafe ==
    ASSUME AccountIInv, NEW r \in Requests, FindMembership(r)
    PROVE  AccountIInv'
<1> DEFINE u == request[r].user
<1>0. /\ request[r].op \in {"signin", "google"} /\ request[r].pc = "membership"
      /\ UNCHANGED <<documents, exceptions>> /\ cookie' = cookie
  BY DEF FindMembership
<1>1. request[r].pc \notin {"create", "cap", "revoke"} /\ ~Midst(request[r]) /\ u \in Accounts
  BY <1>0, UnderWay DEF Midst
<1>2. \/ \E w \in Workspaces : request' = [request EXCEPT ![r] = [request[r] EXCEPT !.pc = "create", !.workspace = w]]
      \/ /\ request[r].op = "signin" /\ u = Bootstrap
         /\ request' = [request EXCEPT ![r] = [request[r] EXCEPT !.pc = "user", !.asOwner = TRUE]]
      \/ Finish(r)
  BY DEF FindMembership, At
<1>3. CASE \E w \in Workspaces : request' = [request EXCEPT ![r] = [request[r] EXCEPT !.pc = "create", !.workspace = w]]
  <2>1. PICK w \in Workspaces : request' = [request EXCEPT ![r] = [request[r] EXCEPT !.pc = "create", !.workspace = w]]
    BY <1>3
  <2> DEFINE y == [request[r] EXCEPT !.pc = "create", !.workspace = w]
  <2>2. y \in Request
    BY UnderWay DEF Request, Steps
  <2>3. PICK x \in Request : x = y
    BY <2>2
  <2>4. /\ x.op = request[r].op /\ x.pc = "create" /\ x.user = u /\ x.proof = request[r].proof
        /\ x.version = request[r].version /\ x.found = request[r].found /\ x.workspace = w
    BY <2>3, UnderWay DEF Request
  <2>5. FitsOp(x) /\ KnowsSessions(x) /\ KnowsMembers(x) /\ ~Midst(x)
    BY <1>0, <1>1, <2>4, UnderWay DEF FitsOp, KnowsSessions, KnowsMembers, Midst
  <2>6. KnowsAccount(x)
    BY <1>0, <2>4, UnderWay DEF KnowsAccount
  <2>7. request' = [request EXCEPT ![r] = x]
    BY <2>1, <2>3
  <2> HIDE DEF y
  <2> QED BY <1>0, <1>1, <2>5, <2>6, <2>7, UnderWay, Turns
<1>4. CASE /\ request[r].op = "signin" /\ u = Bootstrap
           /\ request' = [request EXCEPT ![r] = [request[r] EXCEPT !.pc = "user", !.asOwner = TRUE]]
  <2> DEFINE y == [request[r] EXCEPT !.pc = "user", !.asOwner = TRUE]
  <2>2. y \in Request
    BY UnderWay DEF Request, Steps
  <2>3. PICK x \in Request : x = y
    BY <2>2
  <2>4. /\ x.op = "signin" /\ x.pc = "user" /\ x.user = Bootstrap /\ x.proof = request[r].proof
        /\ x.version = request[r].version /\ x.found = request[r].found
    BY <1>4, <2>3, UnderWay DEF Request
  <2>5. x.asOwner = TRUE
    BY <2>3, UnderWay DEF Request
  <2>6. FitsOp(x) /\ KnowsSessions(x) /\ KnowsMembers(x) /\ ~Midst(x)
    BY <1>0, <1>1, <2>4, UnderWay, AccountAssumption DEF FitsOp, KnowsSessions, KnowsMembers, Midst
  <2>7. KnowsAccount(x)
    BY <1>0, <1>4, <2>4, <2>5, UnderWay DEF KnowsAccount
  <2>8. request' = [request EXCEPT ![r] = x]
    BY <1>4, <2>3
  <2> HIDE DEF y
  <2> QED BY <1>0, <1>1, <2>6, <2>7, <2>8, UnderWay, Turns
<1>5. CASE Finish(r)
  BY <1>0, <1>1, <1>5, UnderWay, Finishes
<1> QED BY <1>2, <1>3, <1>4, <1>5

LEMMA CheckAvailableSafe ==
    ASSUME AccountIInv, NEW r \in Requests, CheckAvailable(r)
    PROVE  AccountIInv'
<1> DEFINE y == [request[r] EXCEPT !.pc = "create member"]
<1>0. /\ request[r].op = "add" /\ request[r].pc = "available"
      /\ Finish(r) \/ request' = [request EXCEPT ![r] = y]
      /\ UNCHANGED <<documents, exceptions>> /\ cookie' = cookie
  BY DEF CheckAvailable, At, Goto
<1>1. request[r].pc \notin {"create", "cap", "revoke"} /\ ~Midst(request[r]) /\ request[r].user \in Accounts
  BY <1>0, UnderWay DEF Midst
<1>2. CASE Finish(r)
  BY <1>0, <1>1, <1>2, UnderWay, Finishes
<1>3. CASE request' = [request EXCEPT ![r] = y]
  <2>1. y \in Request
    BY UnderWay DEF Request, Steps
  <2>2. PICK x \in Request : x = y
    BY <2>1
  <2>3. /\ x.op = "add" /\ x.pc = "create member" /\ x.user = request[r].user /\ x.role = request[r].role
        /\ x.found = request[r].found
    BY <1>0, <2>2, UnderWay DEF Request
  <2>4. FitsOp(x) /\ KnowsAccount(x) /\ KnowsSessions(x) /\ KnowsMembers(x) /\ ~Midst(x)
    BY <1>0, <1>1, <2>3, UnderWay DEF FitsOp, KnowsAccount, KnowsSessions, KnowsMembers, Midst
  <2> HIDE DEF y
  <2> QED BY <1>0, <1>1, <1>3, <2>2, <2>4, UnderWay, Turns
<1> QED BY <1>0, <1>2, <1>3

LEMMA ListOthersSafe ==
    ASSUME AccountIInv, NEW r \in Requests, ListOthers(r)
    PROVE  AccountIInv'
<1> DEFINE found == SessionsOf(request[r].user) \ {request[r].session}
           y == [request[r] EXCEPT !.pc = "revoke", !.found = found]
<1>0. /\ request[r].op = "password" /\ request[r].pc = "others"
      /\ request' = [request EXCEPT ![r] = y]
      /\ UNCHANGED <<documents, exceptions>> /\ cookie' = cookie
  BY DEF ListOthers, At
<1>1. request[r].pc \notin {"create", "cap", "revoke"} /\ ~Midst(request[r]) /\ request[r].user \in Accounts
  BY <1>0, UnderWay DEF Midst
<1>2. found \subseteq DOMAIN sessions /\ found \in SUBSET Nat
  BY UnderWay, SessionSets DEF SessionsOf
<1> HIDE DEF found
<1>3. y \in Request
  BY <1>2, UnderWay DEF Request, Steps
<1>4. PICK x \in Request : x = y
  BY <1>3
<1>5. x.op = "password" /\ x.pc = "revoke" /\ x.user = request[r].user /\ x.found = found
  BY <1>0, <1>4, UnderWay DEF Request
<1>6. FitsOp(x) /\ KnowsAccount(x) /\ KnowsSessions(x) /\ KnowsMembers(x) /\ ~Midst(x)
  BY <1>0, <1>1, <1>2, <1>5 DEF FitsOp, KnowsAccount, KnowsSessions, KnowsMembers, Midst, SignsIn
<1> HIDE DEF y
<1> QED BY <1>0, <1>1, <1>4, <1>6, UnderWay, Turns

LEMMA ListSessionsSafe ==
    ASSUME AccountIInv, NEW r \in Requests, ListSessions(r)
    PROVE  AccountIInv'
<1> DEFINE found == SessionsOf(request[r].user)
           y == [request[r] EXCEPT !.pc = "revoke", !.found = found]
<1>0. /\ request[r].op = "update" /\ request[r].pc = "list"
      /\ request' = [request EXCEPT ![r] = y]
      /\ UNCHANGED <<documents, exceptions>> /\ cookie' = cookie
  BY DEF ListSessions, At
<1>1. request[r].pc \notin {"create", "cap", "revoke"} /\ Midst(request[r]) /\ request[r].user \in Accounts
  BY <1>0, UnderWay DEF Midst
<1>2. found \subseteq DOMAIN sessions /\ found \in SUBSET Nat
  BY UnderWay, SessionSets DEF SessionsOf
<1> HIDE DEF found
<1>3. y \in Request
  BY <1>2, UnderWay DEF Request, Steps
<1>4. PICK x \in Request : x = y
  BY <1>3
<1>5. /\ x.op = "update" /\ x.pc = "revoke" /\ x.user = request[r].user /\ x.role = request[r].role
      /\ x.found = found
  BY <1>0, <1>4, UnderWay DEF Request
<1>6. FitsOp(x) /\ KnowsAccount(x) /\ KnowsSessions(x) /\ KnowsMembers(x) /\ Midst(x)
  BY <1>0, <1>1, <1>2, <1>5, UnderWay DEF FitsOp, KnowsAccount, KnowsSessions, KnowsMembers, Midst, SignsIn
<1> HIDE DEF y
<1> QED BY <1>0, <1>1, <1>4, <1>5, <1>6, UnderWay, Turns

-----------------------------------------------------------------------------
(* The requests that create or change an account.                          *)

\* An account gets another record; a new password comes with a new version.
LEMMA AccountGrows ==
    ASSUME AccountTyped, NEW u \in Accounts, NEW a \in UserRecord, account' = [account EXCEPT ![u] = a],
           account[u] # None =>
               /\ account[u].version <= a.version
               /\ account[u].version = a.version => a.password = account[u].password
    PROVE  /\ account' \in [Accounts -> UserRecord \cup {None}]
           /\ AccountsGrow
           /\ account'[u] = a
<1>1. account' \in [Accounts -> UserRecord \cup {None}] /\ account'[u] = a
  BY DEF AccountTyped
<1>2. ASSUME NEW v \in Accounts, account[v] # None
      PROVE  /\ account'[v] # None
             /\ account[v].version <= account'[v].version
             /\ account[v].version = account'[v].version => account'[v].password = account[v].password
  <2>1. CASE v = u
    BY <1>1, <1>2, <2>1, SetupAssumption
  <2>2. CASE v # u
    <3>1. account'[v] = account[v]
      BY <2>2 DEF AccountTyped
    <3> QED BY <1>2, <3>1, AccountIsRecord
  <2> QED BY <2>1, <2>2
<1> QED BY <1>1, <1>2 DEF AccountsGrow

LEMMA NoAccountGrows ==
    ASSUME AccountTyped, account' = account
    PROVE  account' \in [Accounts -> UserRecord \cup {None}] /\ AccountsGrow
BY AccountIsRecord DEF AccountTyped, AccountsGrow

LEMMA CreateAccountSafe ==
    ASSUME AccountIInv, NEW r \in Requests, CreateAccount(r)
    PROVE  AccountIInv'
<1> DEFINE u == request[r].user
           a == [User(request[r].proof) EXCEPT !.preferred = None]
<1>0. /\ request[r].pc = "transaction" /\ cookie' = cookie
      /\ UNCHANGED <<assigned, sessions, crossed, tangled, ended, overtaken>>
  BY DEF CreateAccount, exceptions
<1>1. /\ request[r].pc \notin {"create", "cap", "revoke"} /\ ~Midst(request[r]) /\ u \in Accounts
      /\ request[r].op \in {"google", "signup"} /\ request[r].version = 1 /\ request[r].proof \in Nat
  <2>1. NoRequest.pc = "idle"
    BY DEF NoRequest
  <2>2. request[r].op \in {"google", "signup"}
    BY <1>0, <2>1, UnderWay DEF FitsOp
  <2> QED BY <1>0, <2>2, UnderWay, RequestTypes DEF Midst, KnowsAccount
<1>2. CASE account[u] = None
  <2> DEFINE y == [request[r] EXCEPT !.pc = "create", !.workspace = u]
  <2>0. /\ account' = [account EXCEPT ![u] = a]
        /\ member' = [member EXCEPT ![u][u] = Member("OWNER")]
        /\ request' = [request EXCEPT ![r] = y]
    BY <1>2 DEF CreateAccount
  <2>1. a \in UserRecord /\ a.version = 1 /\ a.password = request[r].proof
    BY <1>1 DEF UserRecord, User
  <2>2. /\ account' \in [Accounts -> UserRecord \cup {None}]
        /\ AccountsGrow
        /\ account'[u] = a
    BY <1>1, <1>2, <2>0, <2>1, UnderWay, AccountGrows
  <2>3. Member("OWNER") \in MemberRecord
    BY DEF Member, MemberRecord, Roles, Managers
  <2>4. /\ member' \in [Workspaces -> [Accounts -> MemberRecord \cup {None}]]
        /\ member'[Shared] = member[Shared]
    BY <1>1, <2>0, <2>3, UnderWay, AccountAssumption DEF AccountTyped, Workspaces
  <2>5. y \in Request
    <3>1. u \in Workspaces
      BY <1>1 DEF Workspaces
    <3> HIDE DEF u
    <3> QED BY <3>1, UnderWay DEF Request, Steps
  <2>6. PICK x \in Request : x = y
    BY <2>5
  <2>7. /\ x.op = request[r].op /\ x.pc = "create" /\ x.user = u /\ x.version = 1
        /\ x.proof = request[r].proof /\ x.found = request[r].found /\ x.workspace = u
    BY <1>1, <2>6, UnderWay DEF Request
  <2> HIDE DEF a, y
  <2>8. FitsOp(x) /\ KnowsSessions(x) /\ KnowsMembers(x) /\ ~Midst(x)
    BY <1>1, <2>7, UnderWay DEF FitsOp, KnowsSessions, KnowsMembers, Midst, Workspaces
  <2>9. KnowsAccount(x)'
    <3>1. account'[x.user].version = 1 /\ account'[x.user].password = x.proof /\ account'[x.user] # None
      BY <2>1, <2>2, <2>7, SetupAssumption
    <3>2. Knows(x.user, x.version, x.proof)'
      BY <2>7, <3>1 DEF Knows
    <3>3. x.op = "google" => x.proof = 0
      BY <2>7, UnderWay DEF KnowsAccount
    <3>4. x.op \in {"google", "signup"} /\ account'[x.user] # None
      BY <1>1, <2>7, <3>1
    <3> QED BY <2>7, <3>2, <3>3, <3>4 DEF KnowsAccount
  <2>10. overtaken' \in BOOLEAN
    BY <1>0, UnderWay DEF AccountTyped
  <2> QED BY <1>0, <1>1, <2>0, <2>2, <2>4, <2>6, <2>8, <2>9, <2>10, UnderWay, Goes
<1>3. CASE account[u] # None
  <2>1. UNCHANGED <<documents, exceptions>>
    BY <1>3 DEF CreateAccount, documents
  <2> DEFINE y == [request[r] EXCEPT !.pc = "find"]
  <2>2. Finish(r) \/ (request[r].op = "google" /\ request' = [request EXCEPT ![r] = y])
    BY <1>3 DEF CreateAccount, Goto
  <2>3. CASE Finish(r)
    BY <1>0, <1>1, <2>1, <2>3, UnderWay, Finishes
  <2>4. CASE request[r].op = "google" /\ request' = [request EXCEPT ![r] = y]
    <3>1. y \in Request
      BY UnderWay DEF Request, Steps
    <3>2. PICK x \in Request : x = y
      BY <3>1
    <3>3. x.op = "google" /\ x.pc = "find" /\ x.user = u /\ x.proof = request[r].proof /\ x.found = request[r].found
      BY <2>4, <3>2, UnderWay DEF Request
    <3>4. FitsOp(x) /\ KnowsAccount(x) /\ KnowsSessions(x) /\ KnowsMembers(x) /\ ~Midst(x)
      BY <1>1, <2>4, <3>3, UnderWay DEF FitsOp, KnowsAccount, KnowsSessions, KnowsMembers, Midst
    <3> HIDE DEF y
    <3> QED BY <1>0, <1>1, <2>1, <2>4, <3>2, <3>4, UnderWay, Turns
  <2> QED BY <2>2, <2>3, <2>4
<1> QED BY <1>2, <1>3

LEMMA BootstrapUserSafe ==
    ASSUME AccountIInv, NEW r \in Requests, BootstrapUser(r)
    PROVE  AccountIInv'
<1> DEFINE there == account[Bootstrap] # None
           version == IF there THEN account[Bootstrap].version ELSE 1
           active == (request[r].asOwner \/ (there => account[Bootstrap].password = 1))
           y == [request[r] EXCEPT !.pc = "owner", !.version = version, !.active = active]
           a == [User(1) EXCEPT !.preferred = None]
<1>0. /\ request[r].op = "signin" /\ request[r].pc = "user"
      /\ request' = [request EXCEPT ![r] = y]
      /\ account' = IF there THEN account ELSE [account EXCEPT ![Bootstrap] = a]
      /\ overtaken' = (overtaken \/ (request[r].asOwner /\ account[Bootstrap].version # request[r].version))
      /\ UNCHANGED <<member, assigned, sessions, cookie, crossed, tangled, ended>>
  BY DEF BootstrapUser, At
<1>1. /\ request[r].pc \notin {"create", "cap", "revoke"} /\ ~Midst(request[r]) /\ request[r].user = Bootstrap
      /\ request[r].asOwner \in BOOLEAN /\ Bootstrap \in Accounts
      /\ ~request[r].asOwner => request[r].proof = 1
      /\ request[r].asOwner => Knows(Bootstrap, request[r].version, request[r].proof)
  BY <1>0, UnderWay, RequestTypes, AccountAssumption DEF Midst, KnowsAccount
<1>2. a \in UserRecord /\ a.version = 1 /\ a.password = 1
  BY DEF UserRecord, User
<1>3. version \in Nat /\ active \in BOOLEAN
  BY <1>1, UnderWay, AccountIsRecord
<1>4. /\ account' \in [Accounts -> UserRecord \cup {None}]
      /\ AccountsGrow
      /\ account'[Bootstrap] # None /\ account'[Bootstrap].version = version
      /\ there => account'[Bootstrap].password = account[Bootstrap].password
      /\ ~there => account'[Bootstrap].password = 1
  <2>1. CASE there
    BY <1>0, <2>1, UnderWay, NoAccountGrows
  <2>2. CASE ~there
    <3>1. account' = [account EXCEPT ![Bootstrap] = a]
      BY <1>0, <2>2
    <3>2. /\ account' \in [Accounts -> UserRecord \cup {None}]
          /\ AccountsGrow
          /\ account'[Bootstrap] = a
      BY <1>1, <1>2, <2>2, <3>1, UnderWay, AccountGrows
    <3> QED BY <1>2, <2>2, <3>2, SetupAssumption
  <2> QED BY <2>1, <2>2
<1>5. y \in Request
  <2> HIDE DEF version, active, there
  <2> QED BY <1>3, UnderWay DEF Request, Steps
<1>6. PICK x \in Request : x = y
  BY <1>5
<1>7. /\ x.op = "signin" /\ x.pc = "owner" /\ x.user = Bootstrap /\ x.version = version
      /\ x.proof = request[r].proof /\ x.found = request[r].found
  BY <1>0, <1>1, <1>6, UnderWay DEF Request
<1>8. x.active = active
  BY <1>6, UnderWay DEF Request
<1>9. KnowsAccount(x)'
  <2>1. ASSUME x.active PROVE Knows(x.user, x.version, x.proof)'
    <3>1. x.version = account'[x.user].version /\ x.version \in Nat
      BY <1>3, <1>4, <1>7
    <3>2. overtaken' \/ x.proof \in {0, account'[x.user].password}
      <4>1. CASE request[r].asOwner
        <5>1. there
          BY <1>1, <4>1 DEF Knows
        <5>2. account[Bootstrap].version = request[r].version \/ overtaken'
          BY <1>0, <4>1
        <5> QED BY <1>0, <1>1, <1>4, <1>7, <4>1, <5>1, <5>2 DEF Knows
      <4>2. CASE ~request[r].asOwner
        <5>1. there => account[Bootstrap].password = 1
          BY <1>8, <2>1, <4>2
        <5> QED BY <1>1, <1>4, <1>7, <4>2, <5>1
      <4> QED BY <1>1, <4>1, <4>2
    <3> QED BY <1>4, <1>7, <3>1, <3>2 DEF Knows
  <2>2. account'[x.user] # None
    BY <1>4, <1>7
  <2> QED BY <1>7, <2>1, <2>2 DEF KnowsAccount
<1>10. FitsOp(x) /\ KnowsSessions(x) /\ KnowsMembers(x) /\ ~Midst(x)
  BY <1>1, <1>7, UnderWay DEF FitsOp, KnowsSessions, KnowsMembers, Midst
<1>11. /\ overtaken' \in BOOLEAN /\ overtaken => overtaken'
       /\ member' \in [Workspaces -> [Accounts -> MemberRecord \cup {None}]]
       /\ cookie' \in [Accounts -> Requests \cup {None}] /\ member'[Shared] = member[Shared]
  BY <1>0, UnderWay DEF AccountTyped
<1> HIDE DEF y, a, there, version, active
<1> QED BY <1>0, <1>1, <1>4, <1>6, <1>9, <1>10, <1>11, Goes

LEMMA StorePasswordSafe ==
    ASSUME AccountIInv, NEW r \in Requests, StorePassword(r)
    PROVE  AccountIInv'
<1> DEFINE u == request[r].user
           a == [account[u] EXCEPT !.password = account[u].password + 1, !.version = account[u].version + 1]
           y == [request[r] EXCEPT !.pc = "rotate", !.version = request[r].version + 1,
                                   !.proof = account[u].password + 1]
<1>0. /\ request[r].op = "password" /\ request[r].pc = "update"
      /\ UNCHANGED <<member, assigned, sessions, cookie, crossed, tangled, ended, overtaken>>
  BY DEF StorePassword, At, exceptions
<1>1. /\ request[r].pc \notin {"create", "cap", "revoke"} /\ ~Midst(request[r]) /\ u \in Accounts
      /\ account[u] # None /\ request[r].version \in Nat
  BY <1>0, UnderWay, RequestTypes DEF Midst, KnowsAccount
<1>2. CASE account[u].version = request[r].version
  <2>1. account[u] \in UserRecord /\ account[u].version \in Nat /\ account[u].password \in Nat
    BY <1>1, UnderWay, AccountIsRecord
  <2>2. account' = [account EXCEPT ![u] = a] /\ request' = [request EXCEPT ![r] = y]
    BY <1>2 DEF StorePassword
  <2>3. a \in UserRecord /\ a.version = account[u].version + 1 /\ a.password = account[u].password + 1
    <3>1. PICK b \in UserRecord : b = account[u]
      BY <2>1
    <3>2. b.version + 1 \in Nat /\ b.password + 1 \in Nat
      BY <3>1 DEF UserRecord
    <3>3. a = [b EXCEPT !.password = b.password + 1, !.version = b.version + 1]
      BY <3>1
    <3> HIDE DEF a
    <3> QED BY <3>1, <3>2, <3>3 DEF UserRecord
  <2> HIDE DEF a
  <2>4. account[u].version <= a.version /\ account[u].version # a.version
    BY <2>1, <2>3
  <2>5. /\ account' \in [Accounts -> UserRecord \cup {None}]
        /\ AccountsGrow
        /\ account'[u] = a
    BY <1>1, <2>2, <2>3, <2>4, UnderWay, AccountGrows
  <2>6. y \in Request
    <3> DEFINE version == request[r].version + 1
               proof == account[u].password + 1
    <3>1. version \in Nat /\ proof \in Nat
      BY <1>1, <2>1
    <3>2. PICK z \in Request : z = request[r]
      BY UnderWay
    <3>3. y = [z EXCEPT !.pc = "rotate", !.version = version, !.proof = proof]
      BY <3>2
    <3> HIDE DEF y, version, proof
    <3>4. [z EXCEPT !.pc = "rotate", !.version = version, !.proof = proof] \in Request
      BY <3>1, <3>2 DEF Request, Steps
    <3> QED BY <3>3, <3>4
  <2>7. PICK x \in Request : x = y
    BY <2>6
  <2>8. /\ x.op = "password" /\ x.pc = "rotate" /\ x.user = u /\ x.version = request[r].version + 1
        /\ x.proof = account[u].password + 1 /\ x.session = request[r].session /\ x.found = request[r].found
    BY <1>0, <2>7, UnderWay DEF Request
  <2> HIDE DEF y
  <2>9. KnowsAccount(x)'
    <3>1. Knows(x.user, x.version, x.proof)'
      <4>1. account'[x.user] # None
        BY <2>3, <2>5, <2>8, SetupAssumption
      <4>2. x.version = account'[x.user].version /\ x.proof = account'[x.user].password /\ x.version \in Nat
        BY <1>2, <2>1, <2>3, <2>5, <2>8
      <4> QED BY <4>1, <4>2 DEF Knows
    <3> QED BY <2>8, <3>1 DEF KnowsAccount
  <2>10. FitsOp(x) /\ KnowsSessions(x) /\ KnowsMembers(x) /\ ~Midst(x)
    BY <1>0, <1>1, <2>8, UnderWay DEF FitsOp, KnowsSessions, KnowsMembers, Midst
  <2>11. /\ member' \in [Workspaces -> [Accounts -> MemberRecord \cup {None}]]
         /\ cookie' \in [Accounts -> Requests \cup {None}] /\ member'[Shared] = member[Shared]
         /\ overtaken' \in BOOLEAN
    BY <1>0, UnderWay DEF AccountTyped
  <2> QED BY <1>0, <1>1, <2>2, <2>5, <2>7, <2>9, <2>10, <2>11, Goes
<1>3. CASE account[u].version # request[r].version
  <2>1. Finish(r) /\ UNCHANGED <<documents, exceptions>>
    BY <1>0, <1>3 DEF StorePassword, documents
  <2> QED BY <1>0, <1>1, <2>1, UnderWay, Finishes
<1> QED BY <1>2, <1>3

LEMMA StorePreferredSafe ==
    ASSUME AccountIInv, NEW r \in Requests, StorePreferred(r)
    PROVE  AccountIInv'
<1> DEFINE u == request[r].user
           a == [account[u] EXCEPT !.preferred = request[r].workspace]
<1>0. /\ request[r].op = "switch" /\ request[r].pc = "preferred"
      /\ UNCHANGED <<member, assigned, sessions, cookie, crossed, tangled, ended, overtaken>>
      /\ account' = [account EXCEPT ![u] = a] /\ request' = [request EXCEPT ![r] = NoRequest]
  BY DEF StorePreferred, At, exceptions, Finish
<1>1. /\ request[r].pc \notin {"create", "cap", "revoke"} /\ ~Midst(request[r]) /\ u \in Accounts
      /\ account[u] # None /\ request[r].workspace \in Workspaces
  BY <1>0, UnderWay, RequestTypes DEF Midst, KnowsAccount, KnowsSessions
<1>2. account[u] \in UserRecord /\ account[u].version \in Nat /\ account[u].password \in Nat
  BY <1>1, UnderWay, AccountIsRecord
<1>3. a \in UserRecord /\ a.version = account[u].version /\ a.password = account[u].password
  BY <1>1, <1>2 DEF UserRecord
<1> HIDE DEF a
<1>4. account[u].version <= a.version
  BY <1>2, <1>3
<1>5. account' \in [Accounts -> UserRecord \cup {None}] /\ AccountsGrow
  BY <1>0, <1>1, <1>3, <1>4, UnderWay, AccountGrows
<1>6. /\ NoRequest \in Request
      /\ FitsOp(NoRequest) /\ KnowsSessions(NoRequest) /\ KnowsMembers(NoRequest) /\ ~Midst(NoRequest)
  BY DEF NoRequest, Request, Ops, Steps, FitsOp, KnowsSessions, KnowsMembers, Midst
<1>7. KnowsAccount(NoRequest)'
  BY DEF KnowsAccount, NoRequest
<1>8. /\ member' \in [Workspaces -> [Accounts -> MemberRecord \cup {None}]]
      /\ cookie' \in [Accounts -> Requests \cup {None}] /\ member'[Shared] = member[Shared]
      /\ overtaken' \in BOOLEAN
  BY <1>0, UnderWay DEF AccountTyped
<1> QED BY <1>0, <1>1, <1>5, <1>6, <1>7, <1>8, Goes

LEMMA CreateUserSafe ==
    ASSUME AccountIInv, NEW r \in Requests, CreateUser(r)
    PROVE  AccountIInv'
<1> DEFINE u == request[r].user
           a == [User(1) EXCEPT !.preferred = None]
           y == [request[r] EXCEPT !.pc = "available"]
<1>0. /\ request[r].op = "add" /\ request[r].pc = "user"
      /\ UNCHANGED <<member, assigned, sessions, cookie, crossed, tangled, ended, overtaken>>
      /\ account' = IF account[u] # None THEN account ELSE [account EXCEPT ![u] = a]
      /\ request' = [request EXCEPT ![r] = y]
  BY DEF CreateUser, At, Goto, exceptions
<1>1. /\ request[r].pc \notin {"create", "cap", "revoke"} /\ ~Midst(request[r]) /\ u \in Accounts
  BY <1>0, UnderWay DEF Midst
<1>2. a \in UserRecord
  BY DEF UserRecord, User
<1>3. account' \in [Accounts -> UserRecord \cup {None}] /\ AccountsGrow /\ account'[u] # None
  <2>1. CASE account[u] # None
    BY <1>0, <2>1, UnderWay, NoAccountGrows
  <2>2. CASE account[u] = None
    <3>1. account' = [account EXCEPT ![u] = a]
      BY <1>0, <2>2
    <3> QED BY <1>1, <1>2, <2>2, <3>1, UnderWay, AccountGrows, SetupAssumption
  <2> QED BY <2>1, <2>2
<1>4. y \in Request
  BY UnderWay DEF Request, Steps
<1>5. PICK x \in Request : x = y
  BY <1>4
<1>6. x.op = "add" /\ x.pc = "available" /\ x.user = u /\ x.role = request[r].role /\ x.found = request[r].found
  BY <1>0, <1>5, UnderWay DEF Request
<1> HIDE DEF y, a
<1>7. FitsOp(x) /\ KnowsAccount(x)' /\ KnowsSessions(x) /\ KnowsMembers(x) /\ ~Midst(x)
  BY <1>0, <1>1, <1>3, <1>6, UnderWay DEF FitsOp, KnowsAccount, KnowsSessions, KnowsMembers, Midst
<1>8. /\ member' \in [Workspaces -> [Accounts -> MemberRecord \cup {None}]]
      /\ cookie' \in [Accounts -> Requests \cup {None}] /\ member'[Shared] = member[Shared]
      /\ overtaken' \in BOOLEAN
  BY <1>0, UnderWay DEF AccountTyped
<1> QED BY <1>0, <1>1, <1>3, <1>5, <1>7, <1>8, Goes

LEMMA BumpVersionSafe ==
    ASSUME AccountIInv, NEW r \in Requests, BumpVersion(r)
    PROVE  AccountIInv'
<1> DEFINE u == request[r].user
           a == [account[u] EXCEPT !.version = account[u].version + 1]
           y == [request[r] EXCEPT !.pc = "list"]
<1>0. /\ request[r].op = "update" /\ request[r].pc = "bump"
      /\ UNCHANGED <<member, assigned, sessions, cookie, crossed, tangled, ended, overtaken>>
      /\ account' = [account EXCEPT ![u] = a]
      /\ request' = [request EXCEPT ![r] = y]
  BY DEF BumpVersion, At, Goto, exceptions
<1>1. /\ request[r].pc \notin {"create", "cap", "revoke"} /\ Midst(request[r]) /\ u \in Accounts
  BY <1>0, UnderWay DEF Midst
<1>2. account[u] # None
  BY <1>0, UnderWay DEF KnowsAccount
<1>3. account[u] \in UserRecord /\ account[u].version \in Nat /\ account[u].password \in Nat
  BY <1>1, <1>2, UnderWay, AccountIsRecord
<1>4. a \in UserRecord /\ a.version = account[u].version + 1
  BY <1>3 DEF UserRecord
<1> HIDE DEF a
<1>5. account[u].version <= a.version /\ account[u].version # a.version
  BY <1>3, <1>4
<1>6. account' \in [Accounts -> UserRecord \cup {None}] /\ AccountsGrow /\ account'[u] = a
  BY <1>0, <1>1, <1>4, <1>5, UnderWay, AccountGrows
<1>7. y \in Request
  BY UnderWay DEF Request, Steps
<1>8. PICK x \in Request : x = y
  BY <1>7
<1>9. /\ x.op = "update" /\ x.pc = "list" /\ x.user = u /\ x.role = request[r].role
      /\ x.found = request[r].found
  BY <1>0, <1>8, UnderWay DEF Request
<1> HIDE DEF y
<1>10. account'[u] # None
  BY <1>4, <1>6, SetupAssumption
<1>11. FitsOp(x) /\ KnowsAccount(x)' /\ KnowsSessions(x) /\ KnowsMembers(x) /\ Midst(x)
  <2>1. FitsOp(x) /\ Midst(x)
    BY <1>1, <1>9 DEF FitsOp, Midst
  <2>2. KnowsAccount(x)'
    BY <1>9, <1>10 DEF KnowsAccount
  <2>3. KnowsSessions(x)
    BY <1>9, UnderWay DEF KnowsSessions, SignsIn
  <2>4. KnowsMembers(x)
    BY <1>0, <1>9, UnderWay DEF KnowsMembers
  <2> QED BY <2>1, <2>2, <2>3, <2>4
<1>12. /\ member' \in [Workspaces -> [Accounts -> MemberRecord \cup {None}]]
       /\ cookie' \in [Accounts -> Requests \cup {None}] /\ member'[Shared] = member[Shared]
       /\ overtaken' \in BOOLEAN
  BY <1>0, UnderWay DEF AccountTyped
<1> QED BY <1>0, <1>1, <1>6, <1>8, <1>9, <1>11, <1>12, Goes

-----------------------------------------------------------------------------
(* The requests that change members.                                       *)

LEMMA MembersChange ==
    ASSUME AccountIInv, NEW r \in Requests, NEW x \in Request, request' = [request EXCEPT ![r] = x],
           UNCHANGED <<account, sessions, cookie, ended, overtaken>>,
           member' \in [Workspaces -> [Accounts -> MemberRecord \cup {None}]],
           assigned' \in [Accounts -> Assignable \cup {None}],
           crossed' \in BOOLEAN, tangled \subseteq tangled', tangled' \subseteq Accounts,
           \A u \in Accounts : member[Shared][u] # None => member'[Shared][u] # None,
           \A u \in Accounts : member'[Shared][u] # None => account[u] # None,
           FitsOp(x), KnowsAccount(x), KnowsSessions(x), KnowsMembers(x)',
           request[r].user \in tangled' \/ request[r].pc \notin {"create", "cap", "revoke"},
           OwnerRemains',
           \A u \in Accounts : u \in tangled' \/ Follows(u)'
    PROVE  AccountIInv'
<1>0. /\ AccountTyped /\ Proved /\ NewestSessionStays
      /\ \A u \in Accounts : Capped(u)
  BY DEF AccountIInv
<1>1. AccountTyped'
  BY <1>0 DEF AccountTyped
<1>2. Onward
  <2>1. AccountsGrow
    BY <1>0, NoAccountGrows
  <2> QED BY <2>1 DEF Onward
<1>3. KnowsSessions(x)' /\ KnowsAccount(x)'
  BY DEF KnowsSessions, KnowsAccount, Knows
<1>4. /\ \A q \in Requests : Informed(q)'
      /\ request'[r] = x
      /\ \A q \in Requests \ {r} : request'[q] = request[q]
  BY <1>1, <1>2, <1>3, AllInformed
<1>5. Proved'
  BY <1>0, <1>1, <1>2, StaysProved
<1>6. NewestSessionStays'
  BY <1>0, <1>2, NewestStays
<1>7. ASSUME NEW u \in Accounts PROVE Capped(u)'
  <2>1. (SessionsOf(u))' = SessionsOf(u)
    BY DEF SessionsOf
  <2> QED BY <1>0, <1>1, <1>4, <2>1, CapStays
<1>8. MembersHaveAccounts'
  BY DEF MembersHaveAccounts
<1> QED BY <1>1, <1>4, <1>5, <1>6, <1>7, <1>8 DEF AccountIInv

\* The parts about members.
LEMMA MembersBefore ==
    ASSUME AccountIInv
    PROVE  /\ member \in [Workspaces -> [Accounts -> MemberRecord \cup {None}]]
           /\ assigned \in [Accounts -> Assignable \cup {None}]
           /\ crossed \in BOOLEAN /\ tangled \subseteq Accounts
           /\ MembersHaveAccounts /\ OwnerRemains
           /\ \A u \in Accounts : u \in tangled \/ Follows(u)
BY DEF AccountIInv, AccountTyped

\* One member of the shared workspace becomes m.
LEMMA OneMember ==
    ASSUME AccountIInv, NEW u \in Accounts, NEW m \in MemberRecord,
           member' = [member EXCEPT ![Shared][u] = m]
    PROVE  /\ member' \in [Workspaces -> [Accounts -> MemberRecord \cup {None}]]
           /\ member'[Shared][u] = m /\ m # None
           /\ \A v \in Accounts \ {u} : member'[Shared][v] = member[Shared][v]
           /\ \A v \in Accounts : member[Shared][v] # None => member'[Shared][v] # None
<1>1. m # None
  BY SetupAssumption
<1>2. Shared \in Workspaces
  BY DEF Workspaces
<1> QED BY <1>1, <1>2, MembersBefore

LEMMA OwnerIsMember == Member("OWNER") \in MemberRecord /\ Member("OWNER") # None
<1>1. Member("OWNER") \in MemberRecord
  BY DEF Member, MemberRecord, Roles, Managers
<1> QED BY <1>1, SetupAssumption

LEMMA NoRequestKnows ==
    /\ NoRequest \in Request /\ NoRequest.pc = "idle"
    /\ FitsOp(NoRequest) /\ KnowsAccount(NoRequest) /\ KnowsSessions(NoRequest) /\ KnowsMembers(NoRequest)
    /\ ~Midst(NoRequest)
<1>1. NoRequest \in Request /\ NoRequest.pc = "idle"
  BY DEF NoRequest, Request, Ops, Steps
<1> QED BY <1>1 DEF NoRequest, FitsOp, KnowsAccount, KnowsSessions, KnowsMembers, Midst

LEMMA BootstrapOwnerSafe ==
    ASSUME AccountIInv, NEW r \in Requests, BootstrapOwner(r)
    PROVE  AccountIInv'
<1> DEFINE y == [request[r] EXCEPT !.pc = "create", !.workspace = Shared]
<1>0. /\ request[r].op = "signin" /\ request[r].pc = "owner"
      /\ UNCHANGED <<account, sessions, assigned, crossed, cookie, ended, overtaken>>
      /\ member' = [member EXCEPT ![Shared][Bootstrap] = Member("OWNER")]
      /\ request' = [request EXCEPT ![r] = IF request[r].active THEN y ELSE NoRequest]
      /\ tangled' = tangled \cup {Bootstrap}
  BY DEF BootstrapOwner, At
<1>1. request[r].user = Bootstrap /\ account[Bootstrap] # None /\ ~Midst(request[r]) /\ Bootstrap \in Accounts
  BY <1>0, UnderWay, AccountAssumption DEF KnowsAccount, Midst
<1>2. /\ member' \in [Workspaces -> [Accounts -> MemberRecord \cup {None}]]
      /\ member'[Shared][Bootstrap] = Member("OWNER")
      /\ \A v \in Accounts \ {Bootstrap} : member'[Shared][v] = member[Shared][v]
      /\ \A v \in Accounts : member[Shared][v] # None => member'[Shared][v] # None
  BY <1>0, <1>1, OneMember, OwnerIsMember
<1>3. OwnerRemains'
  BY <1>1, <1>2 DEF OwnerRemains
<1>4. PICK x \in Request : /\ request' = [request EXCEPT ![r] = x]
                           /\ FitsOp(x) /\ KnowsAccount(x) /\ KnowsSessions(x) /\ KnowsMembers(x)
                           /\ ~Midst(x)
  <2>1. CASE request[r].active
    <3>1. y \in Request
      BY UnderWay DEF Request, Steps, Workspaces
    <3>2. PICK x \in Request : x = y
      BY <3>1
    <3>3. /\ x.op = "signin" /\ x.pc = "create" /\ x.user = Bootstrap /\ x.version = request[r].version
          /\ x.proof = request[r].proof /\ x.found = request[r].found /\ x.workspace = Shared
      BY <1>0, <1>1, <3>2, UnderWay DEF Request
    <3>4. request' = [request EXCEPT ![r] = x]
      BY <1>0, <2>1, <3>2
    <3> HIDE DEF y
    <3>5. Knows(x.user, x.version, x.proof)
      BY <1>0, <1>1, <2>1, <3>3, UnderWay DEF KnowsAccount
    <3>6. FitsOp(x) /\ KnowsAccount(x) /\ KnowsSessions(x) /\ KnowsMembers(x) /\ ~Midst(x)
      BY <1>1, <3>3, <3>5, UnderWay DEF FitsOp, KnowsAccount, KnowsSessions, KnowsMembers, Midst, Workspaces
    <3> QED BY <3>4, <3>6
  <2>2. CASE ~request[r].active
    BY <1>0, <2>2, NoRequestKnows
  <2> QED BY <2>1, <2>2
<1>5. KnowsMembers(x)'
  <2>1. NoRequest.op = "none"
    BY DEF NoRequest
  <2>2. x.op = "update" => x.user \in Accounts
    BY <1>4, <2>1 DEF FitsOp
  <2> QED BY <1>0, <1>2, <1>4, <2>2 DEF KnowsMembers
<1>6. ASSUME NEW u \in Accounts PROVE u \in tangled' \/ Follows(u)'
  <2>1. /\ request'[r] = x
        /\ \A q \in Requests \ {r} : request'[q] = request[q]
    BY <1>4, UnderWay DEF AccountTyped
  <2>2. \A q \in Requests : Changing(q, u)' <=> Changing(q, u)
    BY <1>1, <1>4, <2>1, WhoChanges
  <2>3. \A q \in Requests : Changing(q, u) => request'[q] = request[q]
    BY <1>1, <2>1, WhoChanges
  <2>4. u \in tangled' \/ (member'[Shared][u] = member[Shared][u] /\ assigned'[u] = assigned[u])
    BY <1>0, <1>2
  <2> QED BY <1>0, <2>2, <2>3, <2>4, MembersBefore, FollowsStays
<1>7. \A u \in Accounts : member'[Shared][u] # None => account[u] # None
  BY <1>1, <1>2, MembersBefore DEF MembersHaveAccounts
<1>8. /\ request[r].user \in tangled' /\ tangled \subseteq tangled' /\ tangled' \subseteq Accounts
      /\ crossed' \in BOOLEAN /\ assigned' \in [Accounts -> Assignable \cup {None}]
  BY <1>0, <1>1, MembersBefore
<1> QED BY <1>0, <1>2, <1>3, <1>4, <1>5, <1>6, <1>7, <1>8, MembersChange

LEMMA CreateMemberSafe ==
    ASSUME AccountIInv, NEW r \in Requests, CreateMember(r)
    PROVE  AccountIInv'
<1> DEFINE u == request[r].user
           m == Member(request[r].role)
           y == [request[r] EXCEPT !.pc = "assign"]
<1>0. /\ request[r].op = "add" /\ request[r].pc = "create member"
      /\ UNCHANGED <<account, sessions, assigned, tangled, crossed, cookie, ended, overtaken>>
  BY DEF CreateMember, At, exceptions
<1>1. /\ u \in Accounts /\ account[u] # None /\ ~Midst(request[r]) /\ request[r].role \in Roles
      /\ request[r].pc \notin {"create", "cap", "revoke"}
      /\ \E v \in Accounts : member[Shared][v] # None
  BY <1>0, UnderWay DEF KnowsAccount, KnowsMembers, Midst
<1>2. CASE member[Shared][u] # None
  <2>1. Finish(r) /\ UNCHANGED <<documents, exceptions>>
    BY <1>0, <1>2 DEF CreateMember, documents, exceptions
  <2> QED BY <1>0, <1>1, <2>1, UnderWay, Finishes
<1>3. CASE member[Shared][u] = None
  <2>1. member' = [member EXCEPT ![Shared][u] = m] /\ request' = [request EXCEPT ![r] = y]
    BY <1>3 DEF CreateMember, Goto
  <2>2. m \in MemberRecord /\ m.role = request[r].role
    BY <1>1 DEF Member, MemberRecord
  <2>3. y \in Request
    BY UnderWay DEF Request, Steps
  <2>4. PICK x \in Request : x = y
    BY <2>3
  <2>5. /\ x.op = "add" /\ x.pc = "assign" /\ x.user = u /\ x.role = request[r].role
        /\ x.found = request[r].found
    BY <1>0, <2>4, UnderWay DEF Request
  <2>6. request' = [request EXCEPT ![r] = x]
    BY <2>1, <2>4
  <2> HIDE DEF y, m
  <2>7. /\ member' \in [Workspaces -> [Accounts -> MemberRecord \cup {None}]]
        /\ member'[Shared][u] = m /\ m # None
        /\ \A v \in Accounts \ {u} : member'[Shared][v] = member[Shared][v]
        /\ \A v \in Accounts : member[Shared][v] # None => member'[Shared][v] # None
    BY <1>1, <2>1, <2>2, OneMember
  <2>8. OwnerRemains'
    <3> SUFFICES ASSUME ~crossed PROVE \E v \in Accounts : member'[Shared][v] = Member("OWNER")
      BY <1>0 DEF OwnerRemains
    <3>1. PICK v \in Accounts : member[Shared][v] = Member("OWNER")
      BY <1>1, MembersBefore DEF OwnerRemains
    <3>2. v # u
      BY <1>3, <3>1, OwnerIsMember
    <3> QED BY <2>7, <3>1, <3>2
  <2>9. FitsOp(x) /\ KnowsAccount(x) /\ KnowsSessions(x)
    BY <1>1, <2>5, UnderWay DEF FitsOp, KnowsAccount, KnowsSessions
  <2>10. KnowsMembers(x)'
    BY <1>1, <2>5, <2>7 DEF KnowsMembers
  <2>11. /\ request'[r] = x
         /\ \A q \in Requests \ {r} : request'[q] = request[q]
    BY <2>6, UnderWay DEF AccountTyped
  <2>12. ASSUME NEW v \in Accounts PROVE v \in tangled' \/ Follows(v)'
    <3> SUFFICES ASSUME v \notin tangled' PROVE Follows(v)'
      OBVIOUS
    <3>1. Follows(v)
      BY <1>0, MembersBefore
    <3>2. /\ \A q \in Requests \ {r} : Changing(q, v)' <=> Changing(q, v)
          /\ ~Changing(r, v)
          /\ Changing(r, v)' <=> x.user = v /\ Midst(x)
      BY <1>1, <2>11, WhoChanges
    <3>3. CASE v # u
      <4>1. /\ \A q \in Requests : Changing(q, v)' <=> Changing(q, v)
            /\ \A q \in Requests : Changing(q, v) => request'[q] = request[q]
        BY <2>5, <2>11, <3>2, <3>3
      <4> QED BY <1>0, <2>7, <3>1, <3>3, <4>1, FollowsStays
    <3>4. CASE v = u
      <4>1. \A q \in Requests : ~Changing(q, v)
        BY <1>3, <3>1, <3>4 DEF Follows
      <4>2. assigned[v] = None
        BY <1>3, <3>1, <3>4, <4>1 DEF Follows
      <4>3. \A q \in Requests : Changing(q, v)' => q = r
        BY <3>2, <4>1
      <4>4. Changing(r, v)'
        <5>1. x.user = v /\ Midst(x)
          BY <2>5, <3>4 DEF Midst
        <5> QED BY <3>2, <5>1
      <4> QED BY <1>0, <2>2, <2>5, <2>7, <2>11, <3>4, <4>2, <4>3, <4>4 DEF Follows
    <3> QED BY <3>3, <3>4
  <2>13. \A v \in Accounts : member'[Shared][v] # None => account[v] # None
    BY <1>1, <2>7, MembersBefore DEF MembersHaveAccounts
  <2>14. /\ tangled \subseteq tangled' /\ tangled' \subseteq Accounts
         /\ crossed' \in BOOLEAN /\ assigned' \in [Accounts -> Assignable \cup {None}]
    BY <1>0, MembersBefore
  <2> QED BY <1>0, <1>1, <2>6, <2>7, <2>8, <2>9, <2>10, <2>12, <2>13, <2>14, MembersChange
<1> QED BY <1>2, <1>3
\* One who is in the midst of changing a member does so alone, unless updates overlapped.
LEMMA ChangesAlone ==
    ASSUME AccountIInv, NEW r \in Requests, Midst(request[r]), request[r].user \in Accounts \ tangled
    PROVE  /\ \A q \in Requests : Changing(q, request[r].user) => q = r
           /\ member[Shared][request[r].user] # None
           /\ member[Shared][request[r].user].role = request[r].role
           /\ request[r].pc = "assign" => assigned[request[r].user] = None
<1>1. Follows(request[r].user)
  BY MembersBefore
<1>2. Changing(r, request[r].user)
  BY DEF Changing, Midst
<1> QED BY <1>1, <1>2 DEF Follows

LEMMA AssignProjectSafe ==
    ASSUME AccountIInv, NEW r \in Requests, AssignProject(r)
    PROVE  AccountIInv'
<1> DEFINE u == request[r].user
<1>0. /\ request[r].pc = "assign"
      /\ UNCHANGED <<account, member, sessions, tangled, crossed, cookie, ended, overtaken>>
      /\ assigned' = IF request[r].role \in Assignable /\ assigned[u] = None
                     THEN [assigned EXCEPT ![u] = request[r].role] ELSE assigned
      /\ request' = [request EXCEPT ![r] = NoRequest]
  BY DEF AssignProject, exceptions, Finish
<1>1. u \in Accounts /\ Midst(request[r])
  BY <1>0, UnderWay, NoRequestKnows DEF FitsOp, Midst
<1>2. /\ assigned' \in [Accounts -> Assignable \cup {None}]
      /\ \A v \in Accounts \ {u} : assigned'[v] = assigned[v]
      /\ assigned'[u] \in {assigned[u], request[r].role}
  BY <1>0, <1>1, MembersBefore
<1>3. /\ request'[r] = NoRequest
      /\ \A q \in Requests \ {r} : request'[q] = request[q]
  BY <1>0, UnderWay DEF AccountTyped
<1>4. ASSUME NEW v \in Accounts PROVE v \in tangled' \/ Follows(v)'
  <2> SUFFICES ASSUME v \notin tangled PROVE Follows(v)'
    BY <1>0
  <2>1. Follows(v)
    BY MembersBefore
  <2>2. /\ \A q \in Requests \ {r} : Changing(q, v)' <=> Changing(q, v)
        /\ Changing(r, v) <=> u = v
        /\ ~Changing(r, v)'
    BY <1>1, <1>3, NoRequestKnows, WhoChanges
  <2>3. CASE v # u
    <3>1. /\ \A q \in Requests : Changing(q, v)' <=> Changing(q, v)
          /\ \A q \in Requests : Changing(q, v) => request'[q] = request[q]
      BY <1>3, <2>2, <2>3
    <3> QED BY <1>0, <1>2, <2>1, <2>3, <3>1, FollowsStays
  <2>4. CASE v = u
    <3>1. /\ \A q \in Requests : Changing(q, v) => q = r
          /\ member[Shared][v] # None
          /\ member[Shared][v].role = request[r].role
          /\ assigned[v] = None
      BY <1>0, <1>1, <2>4, ChangesAlone
    <3>2. \A q \in Requests : ~Changing(q, v)'
      BY <2>2, <3>1
    <3>3. member'[Shared][v] = member[Shared][v] /\ (assigned'[v] # None => assigned'[v] = request[r].role)
      BY <1>0, <1>2, <2>4, <3>1
    <3> QED BY <3>1, <3>2, <3>3 DEF Follows
  <2> QED BY <2>3, <2>4
<1>5. OwnerRemains'
  BY <1>0, MembersBefore DEF OwnerRemains
<1>6. KnowsMembers(NoRequest)'
  BY DEF KnowsMembers, NoRequest
<1>7. /\ member' \in [Workspaces -> [Accounts -> MemberRecord \cup {None}]]
      /\ tangled \subseteq tangled' /\ tangled' \subseteq Accounts /\ crossed' \in BOOLEAN
      /\ \A v \in Accounts : member[Shared][v] # None => member'[Shared][v] # None
      /\ \A v \in Accounts : member'[Shared][v] # None => account[v] # None
  BY <1>0, MembersBefore DEF MembersHaveAccounts
<1> QED BY <1>0, <1>2, <1>4, <1>5, <1>6, <1>7, NoRequestKnows, MembersChange

LEMMA UnassignProjectsSafe ==
    ASSUME AccountIInv, NEW r \in Requests, UnassignProjects(r)
    PROVE  AccountIInv'
<1> DEFINE u == request[r].user
           y == [request[r] EXCEPT !.pc = "assign"]
<1>0. /\ request[r].op = "update" /\ request[r].pc = "unassign"
      /\ UNCHANGED <<account, member, sessions, tangled, crossed, cookie, ended, overtaken>>
      /\ assigned' = [assigned EXCEPT ![u] = None]
      /\ request' = [request EXCEPT ![r] = y]
  BY DEF UnassignProjects, exceptions, Goto, At
<1>1. u \in Accounts /\ Midst(request[r]) /\ request[r].pc \notin {"create", "cap", "revoke"}
  BY <1>0, UnderWay DEF Midst
<1>2. /\ assigned' \in [Accounts -> Assignable \cup {None}]
      /\ \A v \in Accounts \ {u} : assigned'[v] = assigned[v]
      /\ assigned'[u] = None
  BY <1>0, <1>1, MembersBefore
<1>3. y \in Request
  BY UnderWay DEF Request, Steps
<1>4. PICK x \in Request : x = y
  BY <1>3
<1>5. /\ x.op = "update" /\ x.pc = "assign" /\ x.user = u /\ x.role = request[r].role
      /\ x.found = request[r].found
  BY <1>0, <1>4, UnderWay DEF Request
<1>6. request' = [request EXCEPT ![r] = x]
  BY <1>0, <1>4
<1> HIDE DEF y
<1>7. FitsOp(x) /\ KnowsAccount(x) /\ KnowsSessions(x) /\ Midst(x)
  BY <1>0, <1>1, <1>5, UnderWay DEF FitsOp, KnowsAccount, KnowsSessions, Midst
<1>8. KnowsMembers(x)'
  BY <1>0, <1>5, UnderWay DEF KnowsMembers
<1>9. /\ request'[r] = x
      /\ \A q \in Requests \ {r} : request'[q] = request[q]
  BY <1>6, UnderWay DEF AccountTyped
<1>10. ASSUME NEW v \in Accounts PROVE v \in tangled' \/ Follows(v)'
  <2> SUFFICES ASSUME v \notin tangled PROVE Follows(v)'
    BY <1>0
  <2>1. Follows(v)
    BY MembersBefore
  <2>2. \A q \in Requests : Changing(q, v)' <=> Changing(q, v)
    BY <1>1, <1>5, <1>7, <1>9, WhoChanges
  <2>3. CASE v # u
    <3>1. \A q \in Requests : Changing(q, v) => request'[q] = request[q]
      BY <1>9, <2>3 DEF Changing
    <3> QED BY <1>0, <1>2, <2>1, <2>2, <2>3, <3>1, FollowsStays
  <2>4. CASE v = u
    <3>1. /\ \A q \in Requests : Changing(q, v) => q = r
          /\ member[Shared][v] # None
          /\ member[Shared][v].role = request[r].role
      BY <1>1, <2>4, ChangesAlone
    <3>2. \A q \in Requests : Changing(q, v)' => q = r
      BY <2>2, <3>1
    <3>3. /\ member'[Shared][v] = member[Shared][v] /\ assigned'[v] = None
          /\ request'[r].role = request[r].role
      BY <1>0, <1>2, <1>5, <1>9, <2>4
    <3> QED BY <3>1, <3>2, <3>3 DEF Follows
  <2> QED BY <2>3, <2>4
<1>11. OwnerRemains'
  BY <1>0, MembersBefore DEF OwnerRemains
<1>12. /\ member' \in [Workspaces -> [Accounts -> MemberRecord \cup {None}]]
       /\ tangled \subseteq tangled' /\ tangled' \subseteq Accounts /\ crossed' \in BOOLEAN
       /\ \A v \in Accounts : member[Shared][v] # None => member'[Shared][v] # None
       /\ \A v \in Accounts : member'[Shared][v] # None => account[v] # None
  BY <1>0, MembersBefore DEF MembersHaveAccounts
<1> QED BY <1>0, <1>1, <1>2, <1>6, <1>7, <1>8, <1>10, <1>11, <1>12, MembersChange

LEMMA CutShortSafe ==
    ASSUME AccountIInv, NEW r \in Requests, CutShort(r)
    PROVE  AccountIInv'
<1> DEFINE u == request[r].user
<1>0. /\ request[r] # NoRequest
      /\ UNCHANGED <<account, member, assigned, sessions, crossed, cookie, ended, overtaken>>
      /\ tangled' = tangled \cup {u}
      /\ request' = [request EXCEPT ![r] = NoRequest]
  BY DEF CutShort, documents, Finish
<1>1. u \in Accounts
  BY <1>0, UnderWay DEF FitsOp
<1>2. /\ request'[r] = NoRequest
      /\ \A q \in Requests \ {r} : request'[q] = request[q]
  BY <1>0, UnderWay DEF AccountTyped
<1>3. ASSUME NEW v \in Accounts PROVE v \in tangled' \/ Follows(v)'
  <2> SUFFICES ASSUME v \notin tangled, v # u PROVE Follows(v)'
    BY <1>0
  <2>1. Follows(v)
    BY MembersBefore
  <2>2. /\ \A q \in Requests : Changing(q, v)' <=> Changing(q, v)
        /\ ~Changing(r, v)
    BY <1>2, NoRequestKnows, WhoChanges
  <2>3. \A q \in Requests : Changing(q, v) => request'[q] = request[q]
    BY <1>2, <2>2
  <2> QED BY <1>0, <2>1, <2>2, <2>3, FollowsStays
<1>4. OwnerRemains'
  BY <1>0, MembersBefore DEF OwnerRemains
<1>5. KnowsMembers(NoRequest)'
  BY DEF KnowsMembers, NoRequest
<1>6. /\ member' \in [Workspaces -> [Accounts -> MemberRecord \cup {None}]]
      /\ assigned' \in [Accounts -> Assignable \cup {None}]
      /\ tangled \subseteq tangled' /\ tangled' \subseteq Accounts /\ crossed' \in BOOLEAN
      /\ \A v \in Accounts : member[Shared][v] # None => member'[Shared][v] # None
      /\ \A v \in Accounts : member'[Shared][v] # None => account[v] # None
  BY <1>0, <1>1, MembersBefore DEF MembersHaveAccounts
<1>7. request[r].user \in tangled'
  BY <1>0
<1> QED BY <1>0, <1>3, <1>4, <1>5, <1>6, <1>7, NoRequestKnows, MembersChange

LEMMA StoreRoleSafe ==
    ASSUME AccountIInv, NEW r \in Requests, StoreRole(r)
    PROVE  AccountIInv'
<1> DEFINE u == request[r].user
           p == sessions[request[r].session].user
           m == [role |-> request[r].role, active |-> request[r].active]
           y == [request[r] EXCEPT !.pc = "bump"]
<1>0. /\ request[r].op = "update" /\ request[r].pc = "role"
      /\ UNCHANGED <<account, assigned, sessions, cookie, ended, overtaken>>
  BY DEF StoreRole, At
<1>1. /\ u \in Accounts /\ account[u] # None /\ ~Midst(request[r]) /\ request[r].role \in Roles
      /\ request[r].pc \notin {"create", "cap", "revoke"} /\ member[Shared][u] # None
      /\ request[r].session \in DOMAIN sessions
      /\ request[r].asOwner /\ p = u => request[r].role = "OWNER" /\ request[r].active
  BY <1>0, UnderWay DEF KnowsAccount, KnowsMembers, Midst
<1>2. CASE ~(request[r].asOwner \/ member[Shared][u].role # "OWNER")
  <2>1. Finish(r) /\ UNCHANGED <<documents, exceptions>>
    BY <1>0, <1>2 DEF StoreRole, documents, exceptions
  <2> QED BY <1>0, <1>1, <2>1, UnderWay, Finishes
<1>3. CASE request[r].asOwner \/ member[Shared][u].role # "OWNER"
  <2>1. /\ member' = [member EXCEPT ![Shared][u] = m] /\ request' = [request EXCEPT ![r] = y]
        /\ tangled' = IF Midway(r, u) THEN tangled \cup {u} ELSE tangled
        /\ crossed' = (crossed \/ (request[r].asOwner /\ member[Shared][p] # Member("OWNER")))
    BY <1>3 DEF StoreRole, Goto
  <2>2. m \in MemberRecord /\ m.role = request[r].role /\ m.active = request[r].active
    BY <1>1, RequestTypes, UnderWay DEF MemberRecord
  <2>3. y \in Request
    BY UnderWay DEF Request, Steps
  <2>4. PICK x \in Request : x = y
    BY <2>3
  <2>5. /\ x.op = "update" /\ x.pc = "bump" /\ x.user = u /\ x.role = request[r].role
        /\ x.found = request[r].found
    BY <1>0, <2>4, UnderWay DEF Request
  <2>6. request' = [request EXCEPT ![r] = x]
    BY <2>1, <2>4
  <2>7. request[r].asOwner /\ p = u => m = Member("OWNER")
    BY <1>1 DEF Member
  <2> HIDE DEF y, m
  <2>8. /\ member' \in [Workspaces -> [Accounts -> MemberRecord \cup {None}]]
        /\ member'[Shared][u] = m /\ m # None
        /\ \A v \in Accounts \ {u} : member'[Shared][v] = member[Shared][v]
        /\ \A v \in Accounts : member[Shared][v] # None => member'[Shared][v] # None
    BY <1>1, <2>1, <2>2, OneMember
  <2>9. OwnerRemains'
    <3> SUFFICES ASSUME ~crossed' PROVE \E v \in Accounts : member'[Shared][v] = Member("OWNER")
      BY DEF OwnerRemains
    <3>1. CASE request[r].asOwner
      <4>1. member[Shared][p] = Member("OWNER") /\ p \in Accounts
        BY <1>1, <2>1, <3>1, SessionIsRecord
      <4> QED BY <2>7, <2>8, <3>1, <4>1
    <3>2. CASE ~request[r].asOwner
      <4>1. PICK v \in Accounts : member[Shared][v] = Member("OWNER")
        BY <1>1, <2>1, MembersBefore DEF OwnerRemains
      <4>2. v # u
        BY <1>3, <3>2, <4>1 DEF Member
      <4> QED BY <2>8, <4>1, <4>2
    <3> QED BY <3>1, <3>2
  <2>10. FitsOp(x) /\ KnowsAccount(x) /\ KnowsSessions(x)
    BY <1>1, <2>5, UnderWay DEF FitsOp, KnowsAccount, KnowsSessions
  <2>11. KnowsMembers(x)'
    BY <1>1, <2>5, <2>8 DEF KnowsMembers
  <2>12. /\ request'[r] = x
         /\ \A q \in Requests \ {r} : request'[q] = request[q]
    BY <2>6, UnderWay DEF AccountTyped
  <2>13. ASSUME NEW v \in Accounts PROVE v \in tangled' \/ Follows(v)'
    <3> SUFFICES ASSUME v \notin tangled' PROVE Follows(v)'
      OBVIOUS
    <3>1. Follows(v) /\ v \notin tangled
      BY <2>1, MembersBefore
    <3>2. /\ \A q \in Requests \ {r} : Changing(q, v)' <=> Changing(q, v)
          /\ ~Changing(r, v)
          /\ Changing(r, v)' <=> x.user = v /\ Midst(x)
      BY <1>1, <2>12, WhoChanges
    <3>3. CASE v # u
      <4>1. /\ \A q \in Requests : Changing(q, v)' <=> Changing(q, v)
            /\ \A q \in Requests : Changing(q, v) => request'[q] = request[q]
        BY <2>5, <2>12, <3>2, <3>3
      <4>2. tangled \subseteq tangled' /\ assigned' = assigned
        BY <1>0, <2>1
      <4> QED BY <2>8, <3>1, <3>3, <4>1, <4>2, FollowsStays
    <3>4. CASE v = u
      <4>1. ~Midway(r, u)
        BY <2>1, <3>4
      <4>2. \A q \in Requests : ~Changing(q, v)
        BY <3>2, <3>4, <4>1 DEF Midway, Changing
      <4>3. \A q \in Requests : Changing(q, v)' => q = r
        BY <3>2, <4>2
      <4>4. Changing(r, v)'
        BY <2>5, <3>2, <3>4 DEF Midst
      <4> QED BY <2>2, <2>5, <2>8, <2>12, <3>4, <4>3, <4>4 DEF Follows
    <3> QED BY <3>3, <3>4
  <2>14. \A v \in Accounts : member'[Shared][v] # None => account[v] # None
    BY <1>1, <2>8, MembersBefore DEF MembersHaveAccounts
  <2>15. /\ tangled \subseteq tangled' /\ tangled' \subseteq Accounts
         /\ crossed' \in BOOLEAN /\ assigned' \in [Accounts -> Assignable \cup {None}]
    <3>1. request[r].asOwner \in BOOLEAN
      BY UnderWay, RequestTypes
    <3> QED BY <1>0, <1>1, <2>1, <3>1, MembersBefore
  <2> QED BY <1>0, <1>1, <2>6, <2>8, <2>9, <2>10, <2>11, <2>13, <2>14, <2>15, MembersChange
<1> QED BY <1>2, <1>3
-----------------------------------------------------------------------------
(* The requests that open, change and revoke sessions.                     *)

LEMMA SessionsChange ==
    ASSUME AccountIInv, NEW r \in Requests, NEW x \in Request, request' = [request EXCEPT ![r] = x],
           UNCHANGED <<account, member, assigned, cookie, crossed, tangled, overtaken>>,
           sessions' \in Seq(SessionRecord), ended' \subseteq DOMAIN sessions',
           DOMAIN sessions \subseteq DOMAIN sessions',
           \A s \in DOMAIN sessions : sessions'[s].user = sessions[s].user,
           FitsOp(x), KnowsAccount(x), KnowsSessions(x)', KnowsMembers(x)',
           Midst(x) <=> Midst(request[r]),
           Midst(x) => x.user = request[r].user /\ x.role = request[r].role /\ x.pc # "assign",
           Proved', NewestSessionStays', \A u \in Accounts : Capped(u)'
    PROVE  AccountIInv'
<1>0. AccountTyped /\ MembersHaveAccounts /\ OwnerRemains
  BY DEF AccountIInv
<1>1. AccountTyped'
  BY <1>0 DEF AccountTyped
<1>2. Onward
  <2>1. AccountsGrow
    BY <1>0, NoAccountGrows
  <2> QED BY <2>1 DEF Onward
<1>3. KnowsAccount(x)'
  BY DEF KnowsAccount, Knows
<1>4. /\ \A q \in Requests : Informed(q)'
      /\ request'[r] = x
      /\ \A q \in Requests \ {r} : request'[q] = request[q]
  BY <1>1, <1>2, <1>3, AllInformed
<1>5. OwnerRemains' /\ MembersHaveAccounts'
  BY <1>0 DEF OwnerRemains, MembersHaveAccounts
<1>6. ASSUME NEW u \in Accounts PROVE u \in tangled' \/ Follows(u)'
  <2>1. /\ \A q \in Requests : Changing(q, u)' <=> Changing(q, u)
        /\ Changing(r, u) => x.role = request[r].role /\ x.pc # "assign"
    BY <1>4, WhoChanges
  <2>2. \A q \in Requests : Changing(q, u) =>
            /\ request'[q].role = request[q].role
            /\ request'[q].pc = "assign" => request[q].pc = "assign"
    BY <1>4, <2>1
  <2> QED BY <2>1, <2>2, MembersBefore, FollowsStays
<1> QED BY <1>1, <1>4, <1>5, <1>6 DEF AccountIInv

\* The parts about sessions.
LEMMA SessionsBefore ==
    ASSUME AccountIInv
    PROVE  /\ AccountTyped
           /\ sessions \in Seq(SessionRecord) /\ ended \subseteq DOMAIN sessions
           /\ DOMAIN sessions = 1..Len(sessions) /\ Len(sessions) \in Nat
           /\ Proved /\ NewestSessionStays
           /\ \A u \in Accounts : Capped(u)
BY DEF AccountIInv, AccountTyped

\* Who changes sessions but leaves accounts alone keeps what they were proved by.
LEMMA SessionProved ==
    ASSUME AccountIInv, UNCHANGED <<account, overtaken>>,
           \A s \in DOMAIN sessions' :
               \/ /\ s \in DOMAIN sessions
                  /\ sessions'[s].user = sessions[s].user
                  /\ sessions'[s].version = sessions[s].version
                  /\ sessions'[s].proof = sessions[s].proof
               \/ Knows(sessions'[s].user, sessions'[s].version, sessions'[s].proof)
    PROVE  Proved'
BY SessionsBefore DEF Proved, Knows

LEMMA CreateSessionSafe ==
    ASSUME AccountIInv, NEW r \in Requests, CreateSession(r)
    PROVE  AccountIInv'
<1> DEFINE u == request[r].user
           new == Session(u, request[r].workspace, request[r].version, request[r].proof)
           n == Len(sessions) + 1
           y == [request[r] EXCEPT !.pc = "cap", !.session = n]
<1>0. /\ request[r].pc = "create"
      /\ UNCHANGED <<account, member, assigned, cookie, crossed, tangled, overtaken, ended>>
      /\ sessions' = Append(sessions, new)
      /\ request' = [request EXCEPT ![r] = y]
  BY DEF CreateSession, exceptions
<1>1. /\ u \in Accounts /\ ~Midst(request[r]) /\ request[r].workspace \in Workspaces
      /\ Knows(u, request[r].version, request[r].proof)
      /\ request[r].op \in SignsIn
  BY <1>0, UnderWay, NoRequestKnows DEF KnowsAccount, KnowsSessions, Midst, FitsOp, SignsIn
<1>2. /\ new \in SessionRecord /\ new.user = u /\ new.version = request[r].version
      /\ new.proof = request[r].proof /\ new.live
  BY <1>1, RequestTypes, UnderWay DEF Session, SessionRecord
<1> HIDE DEF new
<1>3. /\ sessions' \in Seq(SessionRecord) /\ DOMAIN sessions' = 1..n /\ n \in Nat
      /\ DOMAIN sessions \subseteq DOMAIN sessions' /\ n \notin DOMAIN sessions
      /\ n \in DOMAIN sessions' /\ sessions'[n] = new
      /\ \A s \in DOMAIN sessions' : s # n => s \in DOMAIN sessions /\ sessions'[s] = sessions[s]
  BY <1>0, <1>2, SessionsBefore
<1>4. y \in Request
  <2>1. n \in Nat
    BY <1>3
  <2> HIDE DEF n
  <2> QED BY <2>1, UnderWay DEF Request, Steps
<1>5. PICK x \in Request : x = y
  BY <1>4
<1>6. /\ x.op = request[r].op /\ x.pc = "cap" /\ x.user = u /\ x.session = n
      /\ x.proof = request[r].proof /\ x.found = request[r].found
  BY <1>3, <1>5, UnderWay DEF Request
<1>7. request' = [request EXCEPT ![r] = x]
  BY <1>0, <1>5
<1> HIDE DEF y, n
<1>8. FitsOp(x) /\ KnowsAccount(x) /\ KnowsMembers(x)' /\ ~Midst(x)
  <2>1. FitsOp(x) /\ ~Midst(x)
    BY <1>1, <1>6 DEF FitsOp, Midst, SignsIn
  <2>2. KnowsAccount(x)
    BY <1>1, <1>6, UnderWay DEF KnowsAccount, SignsIn
  <2>3. KnowsMembers(x)'
    BY <1>1, <1>6 DEF KnowsMembers, SignsIn
  <2> QED BY <2>1, <2>2, <2>3
<1>9. KnowsSessions(x)'
  <2>1. x.found \subseteq DOMAIN sessions'
    BY <1>3, <1>6, UnderWay DEF KnowsSessions
  <2>2. n \in DOMAIN sessions' /\ sessions'[n].user = u
    BY <1>2, <1>3
  <2> QED BY <1>6, <2>1, <2>2 DEF KnowsSessions
<1>10. Proved'
  <2> SUFFICES ASSUME NEW s \in DOMAIN sessions'
               PROVE  \/ /\ s \in DOMAIN sessions
                         /\ sessions'[s].user = sessions[s].user
                         /\ sessions'[s].version = sessions[s].version
                         /\ sessions'[s].proof = sessions[s].proof
                      \/ Knows(sessions'[s].user, sessions'[s].version, sessions'[s].proof)
    BY <1>0, SessionProved
  <2>1. CASE s = n
    BY <1>1, <1>2, <1>3, <2>1
  <2>2. CASE s # n
    BY <1>3, <2>2
  <2> QED BY <2>1, <2>2
<1>11. NewestSessionStays'
  <2> SUFFICES ASSUME NEW s \in DOMAIN sessions',
                      \A t \in DOMAIN sessions' : sessions'[t].user = sessions'[s].user => t <= s
               PROVE  sessions'[s].live \/ s \in ended'
    BY DEF NewestSessionStays
  <2>1. CASE s = n
    BY <1>2, <1>3, <2>1
  <2>2. CASE s # n
    <3>1. s \in DOMAIN sessions /\ sessions'[s] = sessions[s]
      BY <1>3, <2>2
    <3>2. \A t \in DOMAIN sessions : sessions[t].user = sessions[s].user => t <= s
      BY <1>3, <3>1
    <3> QED BY <1>0, <3>1, <3>2, SessionsBefore DEF NewestSessionStays
  <2> QED BY <2>1, <2>2
<1>12. ASSUME NEW v \in Accounts PROVE Capped(v)'
  <2>1. /\ request'[r] = x
        /\ \A q \in Requests \ {r} : request'[q] = request[q]
    BY <1>7, UnderWay DEF AccountTyped
  <2>2. CASE v = u
    BY <1>6, <2>1, <2>2 DEF Capped
  <2>3. CASE v # u
    <3>1. AccountTyped'
      <4>1. request' \in [Requests -> Request] /\ AccountTyped
        BY <1>7, UnderWay DEF AccountTyped
      <4> QED BY <1>0, <1>3, <4>1 DEF AccountTyped
    <3>2. \A s \in (SessionsOf(v))' : s \in SessionsOf(v)
      BY <1>2, <1>3, <2>3 DEF SessionsOf
    <3> QED BY <1>0, <2>1, <2>3, <3>1, <3>2, SessionsBefore, CapStays
  <2> QED BY <2>2, <2>3
<1>13. \A s \in DOMAIN sessions : sessions'[s].user = sessions[s].user
  BY <1>3
<1>14. ended' \subseteq DOMAIN sessions'
  BY <1>0, <1>3, SessionsBefore
<1> QED BY <1>0, <1>1, <1>3, <1>7, <1>8, <1>9, <1>10, <1>11, <1>12, <1>13, <1>14, SessionsChange

LEMMA NewestAreFew ==
    ASSUME NEW S \in SUBSET Nat, IsFiniteSet(S), NEW k \in Nat
    PROVE  LET few == {o \in S : Cardinality({n \in S : n > o}) < k}
           IN  IsFiniteSet(few) /\ Cardinality(few) <= k
<1> DEFINE Newer(o) == {n \in S : n > o}
           few == {o \in S : Cardinality(Newer(o)) < k}
           f == [o \in few |-> Cardinality(Newer(o))]
<1>1. \A o : IsFiniteSet(Newer(o)) /\ Cardinality(Newer(o)) \in Nat
  BY FS_Subset, FS_CardinalityType
<1>2. f \in [few -> 0..(k - 1)]
  BY <1>1
<1>3. \A o, n \in few : o < n => f[n] < f[o]
  <2> SUFFICES ASSUME NEW o \in few, NEW n \in few, o < n
               PROVE  Cardinality(Newer(n)) < Cardinality(Newer(o))
    OBVIOUS
  <2>1. o \in S /\ n \in S /\ o \in Nat /\ n \in Nat /\ \A m \in S : m \in Nat
    OBVIOUS
  <2>2. Newer(n) \subseteq Newer(o) /\ n \in Newer(o) /\ n \notin Newer(n)
    <3>1. \A m \in S : m > n => m > o
      BY <2>1
    <3>2. n > o /\ ~(n > n)
      BY <2>1
    <3> QED BY <2>1, <3>1, <3>2
  <2> HIDE DEF Newer
  <2>3. /\ Cardinality(Newer(n)) <= Cardinality(Newer(o))
        /\ Cardinality(Newer(o)) = Cardinality(Newer(n)) => Newer(o) = Newer(n)
    BY <1>1, <2>2, FS_Subset
  <2> QED BY <1>1, <2>2, <2>3
<1>4. IsFiniteSet(few) /\ Cardinality(few) \in Nat
  BY FS_Subset, FS_CardinalityType
<1>5. IsFiniteSet(0..(k - 1)) /\ Cardinality(0..(k - 1)) = k
  BY FS_Interval
<1>6. ASSUME Cardinality(few) > k PROVE FALSE
  <2> HIDE DEF f
  <2>1. Cardinality(0..(k - 1)) < Cardinality(few)
    BY <1>4, <1>5, <1>6
  <2>2. PICK o, n \in few : o # n /\ f[o] = f[n]
    BY <1>2, <1>4, <1>5, <2>1, FS_PigeonHole
  <2>3. o \in Nat /\ n \in Nat /\ f[o] \in Nat
    BY <1>2
  <2> QED BY <1>3, <2>2, <2>3
<1> QED BY <1>4, <1>6
LEMMA ListExcessSafe ==
    ASSUME AccountIInv, NEW r \in Requests, ListExcess(r)
    PROVE  AccountIInv'
<1> DEFINE u == request[r].user
           own == request[r].session
           others == SessionsOf(u) \ {own}
           kept == {s \in others : Cardinality({t \in others : t > s}) < MaxSessions - 1}
           found == Excess(r)
           y == [request[r] EXCEPT !.pc = "revoke", !.found = found]
<1>0. /\ request[r].pc = "cap"
      /\ UNCHANGED <<account, member, assigned, sessions, cookie, crossed, tangled, overtaken, ended>>
      /\ request' = [request EXCEPT ![r] = y]
  BY DEF ListExcess, documents, exceptions
<1>1. /\ u \in Accounts /\ ~Midst(request[r])
      /\ request[r].op \in SignsIn
  BY <1>0, UnderWay, NoRequestKnows DEF Midst, FitsOp, SignsIn
<1>2. /\ others \in SUBSET (DOMAIN sessions) /\ IsFiniteSet(others) /\ others \in SUBSET Nat
      /\ \A s \in others : sessions[s].user = u
  BY SessionsBefore, SessionSets DEF SessionsOf
<1>3. \A s \in others : Cardinality({t \in others : t > s}) \in Nat
  <2>1. \A T \in SUBSET others : Cardinality(T) \in Nat
    BY <1>2, FS_Subset, FS_CardinalityType
  <2> HIDE DEF others
  <2> QED BY <2>1
<1>4. found = {s \in others : Cardinality({t \in others : t > s}) >= MaxSessions - 1}
  BY DEF Excess
<1> HIDE DEF found, others
<1>5. found \subseteq others /\ others \ found \subseteq kept
  BY <1>3, <1>4, AccountAssumption
<1>6. \A s \in found : \E t \in others : t > s
  <2> SUFFICES ASSUME NEW s \in found, {t \in others : t > s} = {} PROVE FALSE
    OBVIOUS
  <2>1. Cardinality({t \in others : t > s}) = 0
    BY FS_EmptySet
  <2> QED BY <1>4, <2>1, AccountAssumption
<1>7. IsFiniteSet(kept \cup {own}) /\ Cardinality(kept \cup {own}) <= MaxSessions /\ Cardinality(kept \cup {own}) \in Nat
  <2>1. MaxSessions - 1 \in Nat
    BY AccountAssumption
  <2>2. IsFiniteSet(kept) /\ Cardinality(kept) <= MaxSessions - 1
    BY <1>2, <2>1, NewestAreFew
  <2>3. Cardinality(kept) \in Nat
    BY <2>2, FS_CardinalityType
  <2> HIDE DEF kept, own
  <2>4. /\ IsFiniteSet(kept \cup {own})
        /\ Cardinality(kept \cup {own}) = IF own \in kept THEN Cardinality(kept) ELSE Cardinality(kept) + 1
    BY <2>2, FS_AddElement
  <2> QED BY <2>2, <2>3, <2>4, AccountAssumption
<1>8. y \in Request
  BY <1>2, <1>5, UnderWay DEF Request, Steps
<1>9. PICK x \in Request : x = y
  BY <1>8
<1>10. x.op = request[r].op /\ x.pc = "revoke" /\ x.user = u /\ x.found = found /\ x.proof = request[r].proof
  BY <1>9, UnderWay DEF Request
<1>11. request' = [request EXCEPT ![r] = x]
  BY <1>0, <1>9
<1>12. /\ request'[r] = x
       /\ \A q \in Requests \ {r} : request'[q] = request[q]
  BY <1>11, UnderWay DEF AccountTyped
<1> HIDE DEF y, kept
<1>13. FitsOp(x) /\ KnowsAccount(x) /\ KnowsMembers(x)' /\ ~Midst(x)
  <2>1. FitsOp(x) /\ ~Midst(x)
    BY <1>1, <1>10 DEF FitsOp, Midst, SignsIn
  <2>2. KnowsAccount(x)
    BY <1>1, <1>10, UnderWay DEF KnowsAccount, SignsIn
  <2>3. KnowsMembers(x)'
    BY <1>1, <1>10 DEF KnowsMembers, SignsIn
  <2> QED BY <2>1, <2>2, <2>3
<1>14. KnowsSessions(x)'
  <2>1. \A s \in x.found : \E t \in DOMAIN sessions : t > s /\ sessions[t].user = sessions[s].user
    BY <1>2, <1>5, <1>6, <1>10
  <2>2. x.found \subseteq DOMAIN sessions
    BY <1>2, <1>5, <1>10
  <2> QED BY <1>0, <1>10, <2>1, <2>2 DEF KnowsSessions
<1>15. Proved' /\ NewestSessionStays'
  BY <1>0, SessionsBefore DEF Proved, Knows, NewestSessionStays
<1>16. AccountTyped'
  <2>1. request' \in [Requests -> Request] /\ AccountTyped
    BY <1>11, UnderWay DEF AccountTyped
  <2> QED BY <1>0, <2>1 DEF AccountTyped
<1>17. ASSUME NEW v \in Accounts PROVE Capped(v)'
  <2>0. (SessionsOf(v))' = SessionsOf(v)
    BY <1>0 DEF SessionsOf
  <2>1. CASE v # u
    BY <1>0, <1>12, <1>16, <2>0, <2>1, SessionsBefore, CapStays
  <2>2. CASE v = u
    <3>1. (SessionsOf(v) \ Doomed(v))' \subseteq kept \cup {own}
      <4> SUFFICES ASSUME NEW s \in (SessionsOf(v) \ Doomed(v))', s # own
                   PROVE  s \in kept
        OBVIOUS
      <4>1. s \in SessionsOf(u) /\ s \in DOMAIN sessions'
        BY <1>0, <2>0, <2>2 DEF SessionsOf
      <4>2. s \notin found
        BY <1>10, <1>12, <2>2, <4>1 DEF Doomed
      <4>3. s \in others
        BY <4>1 DEF others
      <4> QED BY <1>5, <4>2, <4>3
    <3>2. Cardinality((SessionsOf(v) \ Doomed(v))') <= Cardinality(kept \cup {own})
      BY <1>7, <3>1, FS_Subset
    <3>3. Cardinality((SessionsOf(v) \ Doomed(v))') \in Nat
      BY <1>7, <3>1, FS_Subset, FS_CardinalityType
    <3>4. Cardinality((SessionsOf(v) \ Doomed(v))') <= MaxSessions
      BY <1>7, <3>2, <3>3, AccountAssumption
    <3> QED BY <3>4 DEF Capped
  <2> QED BY <2>1, <2>2
<1>18. /\ sessions' \in Seq(SessionRecord) /\ ended' \subseteq DOMAIN sessions'
       /\ DOMAIN sessions \subseteq DOMAIN sessions'
       /\ \A s \in DOMAIN sessions : sessions'[s].user = sessions[s].user
  BY <1>0, SessionsBefore
<1> QED BY <1>0, <1>1, <1>11, <1>13, <1>14, <1>15, <1>17, <1>18, SessionsChange
\* The sessions that are there after some were revoked.
LEMMA RevokedSessions ==
    ASSUME AccountIInv, NEW S, sessions' = Revoked(S)
    PROVE  /\ sessions' \in Seq(SessionRecord) /\ DOMAIN sessions' = DOMAIN sessions
           /\ \A s \in DOMAIN sessions :
                 /\ sessions'[s].user = sessions[s].user
                 /\ sessions'[s].version = sessions[s].version
                 /\ sessions'[s].proof = sessions[s].proof
                 /\ sessions'[s].live <=> sessions[s].live /\ s \notin S
           /\ \A u \in Accounts : (SessionsOf(u))' = SessionsOf(u) \ S
<1> DEFINE y(s) == [sessions[s] EXCEPT !.live = sessions[s].live /\ s \notin S]
<1>1. sessions' = [s \in DOMAIN sessions |-> y(s)]
  BY DEF Revoked
<1>2. ASSUME NEW s \in DOMAIN sessions
      PROVE  /\ y(s) \in SessionRecord /\ y(s).user = sessions[s].user
             /\ y(s).version = sessions[s].version /\ y(s).proof = sessions[s].proof
             /\ y(s).live <=> sessions[s].live /\ s \notin S
  <2>1. sessions[s] \in SessionRecord
    BY SessionsBefore
  <2>2. PICK z \in SessionRecord : z = sessions[s]
    BY <2>1
  <2>3. y(s) = [z EXCEPT !.live = z.live /\ s \notin S]
    BY <2>2
  <2> DEFINE live == z.live /\ s \notin S
  <2>4. live \in BOOLEAN /\ (live <=> z.live /\ s \notin S)
    BY DEF SessionRecord
  <2>5. y(s) = [z EXCEPT !.live = live]
    BY <2>3
  <2> HIDE DEF y, live
  <2> QED BY <2>2, <2>4, <2>5 DEF SessionRecord
<1>3. DOMAIN sessions' = DOMAIN sessions /\ \A s \in DOMAIN sessions : sessions'[s] = y(s)
  BY <1>1
<1>4. sessions' \in Seq(SessionRecord)
  <2> HIDE DEF y
  <2>1. sessions' \in [1..Len(sessions) -> SessionRecord] /\ Len(sessions) \in Nat
    BY <1>1, <1>2, SessionsBefore
  <2> QED BY <2>1
<1> HIDE DEF y
<1>5. ASSUME NEW u \in Accounts PROVE (SessionsOf(u))' = SessionsOf(u) \ S
  BY <1>2, <1>3 DEF SessionsOf
<1> QED BY <1>2, <1>3, <1>4, <1>5

LEMMA RevokeListedSafe ==
    ASSUME AccountIInv, NEW r \in Requests, RevokeListed(r)
    PROVE  AccountIInv'
<1> DEFINE found == request[r].found
           y == [request[r] EXCEPT !.pc = "unassign"]
<1>0. /\ request[r].pc = "revoke"
      /\ UNCHANGED <<account, member, assigned, cookie, crossed, tangled, overtaken>>
      /\ sessions' = Revoked(found)
      /\ ended' = IF request[r].op \in {"password", "update"} THEN ended \cup found ELSE ended
      /\ IF request[r].op = "update" THEN request' = [request EXCEPT ![r] = y]
                                     ELSE request' = [request EXCEPT ![r] = NoRequest]
  BY DEF RevokeListed, Goto, Finish
<1>1. /\ request[r].user \in Accounts /\ found \subseteq DOMAIN sessions
      /\ request[r].op \in SignsIn \cup {"password", "update"}
  BY <1>0, UnderWay, NoRequestKnows DEF KnowsSessions, FitsOp, SignsIn
<1>2. /\ sessions' \in Seq(SessionRecord) /\ DOMAIN sessions' = DOMAIN sessions
      /\ \A s \in DOMAIN sessions :
            /\ sessions'[s].user = sessions[s].user
            /\ sessions'[s].version = sessions[s].version
            /\ sessions'[s].proof = sessions[s].proof
            /\ sessions'[s].live <=> sessions[s].live /\ s \notin found
      /\ \A u \in Accounts : (SessionsOf(u))' = SessionsOf(u) \ found
  <2> HIDE DEF found
  <2> QED BY <1>0, RevokedSessions
<1>3. Proved'
  BY <1>0, <1>2, SessionProved
<1>4. NewestSessionStays'
  <2> SUFFICES ASSUME NEW s \in DOMAIN sessions,
                      \A t \in DOMAIN sessions : sessions[t].user = sessions[s].user => t <= s
               PROVE  sessions'[s].live \/ s \in ended'
    BY <1>2 DEF NewestSessionStays
  <2>1. sessions[s].live \/ s \in ended
    BY SessionsBefore DEF NewestSessionStays
  <2>2. CASE s \notin found
    BY <1>0, <1>2, <2>1, <2>2
  <2>3. CASE s \in found
    <3>1. request[r].op \notin SignsIn
      <4> SUFFICES ASSUME request[r].op \in SignsIn PROVE FALSE
        OBVIOUS
      <4>1. PICK t \in DOMAIN sessions : t > s /\ sessions[t].user = sessions[s].user
        BY <1>0, <2>3, UnderWay DEF KnowsSessions
      <4>2. t <= s /\ t \in Nat /\ s \in Nat
        BY <4>1, SessionIsRecord
      <4> QED BY <4>1, <4>2
    <3> QED BY <1>0, <1>1, <2>3, <3>1
  <2> QED BY <2>2, <2>3
<1>5. PICK x \in Request : /\ request' = [request EXCEPT ![r] = x]
                           /\ FitsOp(x) /\ KnowsAccount(x) /\ KnowsSessions(x) /\ KnowsMembers(x)
                           /\ x.pc \in {"unassign", "idle"}
                           /\ Midst(x) <=> Midst(request[r])
                           /\ Midst(x) => x.user = request[r].user /\ x.role = request[r].role
  <2>1. CASE request[r].op = "update"
    <3>1. y \in Request
      BY UnderWay DEF Request, Steps
    <3>2. PICK x \in Request : x = y
      BY <3>1
    <3>3. /\ x.op = "update" /\ x.pc = "unassign" /\ x.user = request[r].user
          /\ x.role = request[r].role /\ x.found = found
      BY <2>1, <3>2, UnderWay DEF Request
    <3>4. request' = [request EXCEPT ![r] = x]
      BY <1>0, <2>1, <3>2
    <3> HIDE DEF y
    <3>5. FitsOp(x) /\ KnowsAccount(x) /\ KnowsSessions(x) /\ KnowsMembers(x) /\ Midst(x)
      BY <1>1, <2>1, <3>3, UnderWay DEF FitsOp, KnowsAccount, KnowsSessions, KnowsMembers, Midst
    <3>6. Midst(request[r])
      BY <1>0, <2>1 DEF Midst
    <3> QED BY <3>3, <3>4, <3>5, <3>6
  <2>2. CASE request[r].op # "update"
    <3>1. ~Midst(request[r])
      BY <1>1, <2>2 DEF Midst, SignsIn
    <3> QED BY <1>0, <2>2, <3>1, NoRequestKnows
  <2> QED BY <2>1, <2>2
<1>6. /\ request'[r] = x
      /\ \A q \in Requests \ {r} : request'[q] = request[q]
  BY <1>5, UnderWay DEF AccountTyped
<1>7. KnowsSessions(x)' /\ KnowsMembers(x)'
  <2>1. KnowsSessions(x)'
    BY <1>2, <1>5 DEF KnowsSessions
  <2>2. KnowsMembers(x)'
    BY <1>0, <1>2, <1>5 DEF KnowsMembers
  <2> QED BY <2>1, <2>2
<1>8. ended \subseteq ended' /\ ended' \subseteq DOMAIN sessions'
  BY <1>0, <1>1, <1>2, SessionsBefore
<1>9. AccountTyped'
  <2>1. request' \in [Requests -> Request] /\ AccountTyped
    BY <1>5, UnderWay DEF AccountTyped
  <2> QED BY <1>0, <1>2, <1>8, <2>1 DEF AccountTyped
<1>10. ASSUME NEW u \in Accounts PROVE Capped(u)'
  <2>1. \A s \in (SessionsOf(u))' : s \in SessionsOf(u) /\ s \notin found
    BY <1>2
  <2>2. \A s \in found : s \notin (SessionsOf(u))'
    BY <2>1
  <2> QED BY <1>0, <1>6, <1>9, <2>1, <2>2, SessionsBefore, CapStays
<1>11. Midst(x) => x.pc # "assign"
  BY <1>5
<1> HIDE DEF y
<1> QED BY <1>0, <1>2, <1>3, <1>4, <1>5, <1>7, <1>8, <1>10, <1>11, SessionsChange

\* A session that goes on as z, of the same user and as live as it was.
LEMMA OneSession ==
    ASSUME AccountIInv, NEW r \in Requests, NEW x \in Request, request' = [request EXCEPT ![r] = x],
           UNCHANGED <<account, member, assigned, cookie, crossed, tangled, overtaken, ended>>,
           NEW s \in DOMAIN sessions, NEW z \in SessionRecord, sessions' = [sessions EXCEPT ![s] = z],
           z.user = sessions[s].user, z.live = sessions[s].live,
           Knows(z.user, z.version, z.proof),
           FitsOp(x), KnowsAccount(x), KnowsSessions(x), KnowsMembers(x),
           ~Midst(x), ~Midst(request[r]), request[r].pc \notin {"create", "cap", "revoke"}
    PROVE  AccountIInv'
<1>1. /\ sessions' \in Seq(SessionRecord) /\ DOMAIN sessions' = DOMAIN sessions
      /\ sessions'[s] = z
      /\ \A t \in DOMAIN sessions : t # s => sessions'[t] = sessions[t]
  BY SessionsBefore
<1>2. \A t \in DOMAIN sessions : sessions'[t].user = sessions[t].user /\ sessions'[t].live = sessions[t].live
  BY <1>1
<1>3. Proved'
  BY <1>1, SessionProved
<1>4. NewestSessionStays'
  BY <1>1, <1>2, SessionsBefore DEF NewestSessionStays
<1>5. KnowsSessions(x)' /\ KnowsMembers(x)'
  BY <1>1, <1>2 DEF KnowsSessions, KnowsMembers
<1>6. /\ request'[r] = x
      /\ \A q \in Requests \ {r} : request'[q] = request[q]
  BY UnderWay DEF AccountTyped
<1>7. AccountTyped'
  <2>1. request' \in [Requests -> Request] /\ AccountTyped
    BY UnderWay DEF AccountTyped
  <2> QED BY <1>1, <2>1 DEF AccountTyped
<1>8. ASSUME NEW u \in Accounts PROVE Capped(u)'
  <2>1. (SessionsOf(u))' = SessionsOf(u)
    BY <1>1, <1>2 DEF SessionsOf
  <2> QED BY <1>6, <1>7, <2>1, SessionsBefore, CapStays
<1>9. ended' \subseteq DOMAIN sessions'
  BY <1>1, SessionsBefore
<1> QED BY <1>1, <1>2, <1>3, <1>4, <1>5, <1>8, <1>9, SessionsChange

LEMMA RotateSessionSafe ==
    ASSUME AccountIInv, NEW r \in Requests, RotateSession(r)
    PROVE  AccountIInv'
<1> DEFINE s == request[r].session
           version == request[r].version
           proof == request[r].proof
           y == [request[r] EXCEPT !.pc = "others"]
<1>0. /\ request[r].op = "password" /\ request[r].pc = "rotate"
      /\ UNCHANGED <<account, member, assigned, cookie, crossed, tangled, overtaken, ended>>
  BY DEF RotateSession, exceptions, At
<1>1. /\ s \in DOMAIN sessions /\ sessions[s].user = request[r].user /\ request[r].user \in Accounts
      /\ Knows(request[r].user, version, proof) /\ version \in Nat /\ proof \in Nat
      /\ request[r].pc \notin {"create", "cap", "revoke"} /\ ~Midst(request[r])
  BY <1>0, UnderWay, RequestTypes DEF KnowsAccount, KnowsSessions, Midst
<1>2. CASE ~sessions[s].live
  <2>1. Finish(r) /\ UNCHANGED <<documents, exceptions>>
    BY <1>0, <1>2 DEF RotateSession, documents, exceptions
  <2> QED BY <1>0, <1>1, <2>1, UnderWay, Finishes
<1>3. CASE sessions[s].live
  <2>1. request' = [request EXCEPT ![r] = y]
    BY <1>3 DEF RotateSession, Goto
  <2>2. PICK z \in SessionRecord : z = sessions[s]
    BY <1>1, SessionsBefore
  <2> DEFINE w == [z EXCEPT !.version = version, !.proof = proof]
  <2>3. sessions' = [sessions EXCEPT ![s] = w]
    <3>1. sessions' = [sessions EXCEPT ![s].version = version, ![s].proof = proof]
      BY <1>3 DEF RotateSession
    <3> QED BY <1>1, <2>2, <3>1, SessionsBefore
  <2> HIDE DEF version, proof
  <2>4. /\ w \in SessionRecord /\ w.user = sessions[s].user /\ w.live = sessions[s].live
        /\ w.version = version /\ w.proof = proof
    BY <1>1, <2>2 DEF SessionRecord
  <2>5. y \in Request
    BY UnderWay DEF Request, Steps
  <2>6. PICK x \in Request : x = y
    BY <2>5
  <2>7. /\ x.op = "password" /\ x.pc = "others" /\ x.user = request[r].user
        /\ x.session = s /\ x.found = request[r].found
    BY <1>0, <2>6, UnderWay DEF Request
  <2>8. request' = [request EXCEPT ![r] = x]
    BY <2>1, <2>6
  <2> HIDE DEF y, w, s
  <2>9. FitsOp(x) /\ KnowsAccount(x) /\ KnowsSessions(x) /\ KnowsMembers(x) /\ ~Midst(x)
    BY <1>1, <2>7, UnderWay DEF FitsOp, KnowsAccount, KnowsSessions, KnowsMembers, Midst
  <2>10. Knows(w.user, w.version, w.proof)
    BY <1>1, <2>4
  <2> QED BY <1>0, <1>1, <2>3, <2>4, <2>8, <2>9, <2>10, OneSession
<1> QED BY <1>2, <1>3

LEMMA SwitchSessionSafe ==
    ASSUME AccountIInv, NEW r \in Requests, SwitchSession(r)
    PROVE  AccountIInv'
<1> DEFINE s == request[r].session
           workspace == request[r].workspace
           y == [request[r] EXCEPT !.pc = "preferred"]
<1>0. /\ request[r].op = "switch" /\ request[r].pc = "session"
      /\ UNCHANGED <<account, member, assigned, cookie, crossed, tangled, overtaken, ended>>
  BY DEF SwitchSession, exceptions, At
<1>1. /\ s \in DOMAIN sessions /\ sessions[s].user = request[r].user /\ request[r].user \in Accounts
      /\ workspace \in Workspaces /\ account[request[r].user] # None
      /\ request[r].pc \notin {"create", "cap", "revoke"} /\ ~Midst(request[r])
  BY <1>0, UnderWay, RequestTypes DEF KnowsAccount, KnowsSessions, Midst
<1>2. CASE ~sessions[s].live
  <2>1. Finish(r) /\ UNCHANGED <<documents, exceptions>>
    BY <1>0, <1>2 DEF SwitchSession, documents, exceptions
  <2> QED BY <1>0, <1>1, <2>1, UnderWay, Finishes
<1>3. CASE sessions[s].live
  <2>1. request' = [request EXCEPT ![r] = y]
    BY <1>3 DEF SwitchSession, Goto
  <2>2. PICK z \in SessionRecord : z = sessions[s]
    BY <1>1, SessionsBefore
  <2> DEFINE w == [z EXCEPT !.workspace = workspace]
  <2>3. sessions' = [sessions EXCEPT ![s] = w]
    <3>1. sessions' = [sessions EXCEPT ![s].workspace = workspace]
      BY <1>3 DEF SwitchSession
    <3> QED BY <1>1, <2>2, <3>1, SessionsBefore
  <2> HIDE DEF workspace
  <2>4. /\ w \in SessionRecord /\ w.user = sessions[s].user /\ w.live = sessions[s].live
        /\ w.version = sessions[s].version /\ w.proof = sessions[s].proof
    BY <1>1, <2>2 DEF SessionRecord
  <2>5. y \in Request
    BY UnderWay DEF Request, Steps
  <2>6. PICK x \in Request : x = y
    BY <2>5
  <2>7. /\ x.op = "switch" /\ x.pc = "preferred" /\ x.user = request[r].user
        /\ x.workspace = workspace /\ x.found = request[r].found
    BY <1>0, <2>6, UnderWay DEF Request, workspace
  <2>8. request' = [request EXCEPT ![r] = x]
    BY <2>1, <2>6
  <2> HIDE DEF y, w, s
  <2>9. FitsOp(x) /\ KnowsAccount(x) /\ KnowsSessions(x) /\ KnowsMembers(x) /\ ~Midst(x)
    BY <1>1, <2>7, UnderWay DEF FitsOp, KnowsAccount, KnowsSessions, KnowsMembers, Midst
  <2>10. Knows(w.user, w.version, w.proof)
    BY <1>1, <2>4, SessionsBefore DEF Proved
  <2> QED BY <1>0, <1>1, <2>3, <2>4, <2>8, <2>9, <2>10, OneSession
<1> QED BY <1>2, <1>3

\* A session is ended by a request that is refused, or by its user.
LEMMA SessionEndsSafe ==
    ASSUME AccountIInv, NEW s \in DOMAIN sessions, Refuse(s) \/ Logout(s)
    PROVE  AccountIInv'
<1>0. /\ UNCHANGED <<account, member, assigned, request, cookie, crossed, tangled, overtaken>>
      /\ sessions' = Revoked({s})
      /\ ended' = ended \cup {s}
  BY DEF Refuse, Logout
<1>1. /\ sessions' \in Seq(SessionRecord) /\ DOMAIN sessions' = DOMAIN sessions
      /\ \A t \in DOMAIN sessions :
            /\ sessions'[t].user = sessions[t].user
            /\ sessions'[t].version = sessions[t].version
            /\ sessions'[t].proof = sessions[t].proof
            /\ sessions'[t].live <=> sessions[t].live /\ t \notin {s}
      /\ \A u \in Accounts : (SessionsOf(u))' = SessionsOf(u) \ {s}
  BY <1>0, RevokedSessions
<1>2. AccountTyped' /\ MembersHaveAccounts' /\ OwnerRemains'
  BY <1>0, <1>1 DEF AccountIInv, AccountTyped, MembersHaveAccounts, OwnerRemains
<1>3. Proved'
  BY <1>0, <1>1, SessionProved
<1>4. Onward
  <2>1. AccountsGrow
    BY <1>0, SessionsBefore, NoAccountGrows
  <2> QED BY <1>0, <1>1, <2>1 DEF Onward
<1>5. NewestSessionStays'
  BY <1>0, <1>1, <1>4, SessionsBefore, NewestStays
<1>6. ASSUME NEW q \in Requests PROVE Informed(q)'
  <2>1. Informed(q) /\ request'[q] = request[q]
    BY <1>0 DEF AccountIInv
  <2> QED BY <1>2, <1>4, <2>1, SessionsBefore, StaysInformed
<1>7. ASSUME NEW u \in Accounts PROVE Capped(u)'
  BY <1>0, <1>1, <1>2, SessionsBefore, CapStays
<1>8. ASSUME NEW u \in Accounts PROVE u \in tangled' \/ Follows(u)'
  BY <1>0, MembersBefore DEF Follows, Changing
<1> QED BY <1>2, <1>3, <1>5, <1>6, <1>7, <1>8 DEF AccountIInv
-----------------------------------------------------------------------------
(* All of it.                                                              *)

\* What there is at first.
LEMMA AccountsBegin ==
    ASSUME AccountInit
    PROVE  AccountIInv
<1>0. PICK setup \in AccountSetups :
        /\ account = [u \in Accounts |-> IF u \in DOMAIN setup.roles THEN User(1) ELSE None]
        /\ member = [w \in Workspaces |-> [u \in Accounts |->
               IF w = Shared /\ u \in DOMAIN setup.roles THEN Member(setup.roles[u]) ELSE None]]
        /\ assigned = [u \in Accounts |->
               IF u \in DOMAIN setup.roles /\ setup.roles[u] \in Assignable THEN setup.roles[u] ELSE None]
        /\ sessions = [i \in DOMAIN setup.signedIn |-> Session(setup.signedIn[i], Shared, 1, 1)]
        /\ request = [r \in Requests |-> NoRequest]
        /\ cookie = [u \in Accounts |-> None]
        /\ crossed = FALSE /\ tangled = {} /\ ended = {} /\ overtaken = FALSE
  BY DEF AccountInit
<1> DEFINE there == DOMAIN setup.roles
           role(u) == setup.roles[u]
           signedIn == setup.signedIn
<1>1. /\ there \subseteq Accounts
      /\ \A u \in there : role(u) \in Roles
      /\ there # {} => \E u \in there : role(u) = "OWNER"
      /\ signedIn \in Seq(there)
      /\ \A u \in there : Cardinality({i \in DOMAIN signedIn : signedIn[i] = u}) <= MaxSessions
      /\ None \notin UserRecord /\ None \notin MemberRecord
  BY SetupAssumption
<1>2. /\ User(1) \in UserRecord /\ User(1).version = 1 /\ User(1).password = 1 /\ User(1) # None
  <2>1. User(1) \in UserRecord /\ User(1).version = 1 /\ User(1).password = 1
    BY DEF User, UserRecord, Workspaces
  <2> QED BY <1>1, <2>1
<1>3. ASSUME NEW ro \in Roles PROVE Member(ro) \in MemberRecord /\ Member(ro).role = ro /\ Member(ro) # None
  <2>1. Member(ro) \in MemberRecord /\ Member(ro).role = ro
    BY DEF Member, MemberRecord
  <2> QED BY <1>1, <2>1
<1>4. /\ DOMAIN sessions = DOMAIN signedIn
      /\ \A s \in DOMAIN sessions :
            /\ sessions[s] = Session(signedIn[s], Shared, 1, 1)
            /\ signedIn[s] \in there
  BY <1>0, <1>1
<1>5. \A s \in DOMAIN sessions :
            /\ sessions[s] \in SessionRecord
            /\ sessions[s].user = signedIn[s] /\ sessions[s].version = 1
            /\ sessions[s].proof = 1 /\ sessions[s].live
  <2> SUFFICES ASSUME NEW s \in DOMAIN sessions
               PROVE  /\ sessions[s] \in SessionRecord
                      /\ sessions[s].user = signedIn[s] /\ sessions[s].version = 1
                      /\ sessions[s].proof = 1 /\ sessions[s].live
    OBVIOUS
  <2>1. sessions[s] = Session(signedIn[s], Shared, 1, 1) /\ signedIn[s] \in Accounts /\ Shared \in Workspaces
    BY <1>1, <1>4 DEF Workspaces
  <2> HIDE DEF signedIn
  <2> QED BY <2>1 DEF Session, SessionRecord
<1>6. sessions \in Seq(SessionRecord)
  <2>1. DOMAIN signedIn = 1..Len(signedIn) /\ Len(signedIn) \in Nat
    BY <1>1
  <2>2. sessions \in [1..Len(signedIn) -> SessionRecord]
    BY <1>0, <1>4, <1>5, <2>1
  <2> QED BY <2>1, <2>2
<1>7. \A u \in Accounts : /\ u \in there => account[u] = User(1) /\ member[Shared][u] = Member(role(u))
                          /\ u \notin there => account[u] = None /\ member[Shared][u] = None
                          /\ assigned[u] = IF u \in there /\ role(u) \in Assignable THEN role(u) ELSE None
  <2>1. Shared \in Workspaces
    BY DEF Workspaces
  <2> QED BY <1>0, <2>1
<1> HIDE DEF there, role, signedIn
<1>8. \A r \in Requests : request[r] = NoRequest
  BY <1>0
<1>9. AccountTyped
  <2>1. account \in [Accounts -> UserRecord \cup {None}]
    BY <1>0, <1>2
  <2>2. member \in [Workspaces -> [Accounts -> MemberRecord \cup {None}]]
    <3>1. \A w \in Workspaces : \A u \in Accounts :
              (IF w = Shared /\ u \in there THEN Member(role(u)) ELSE None) \in MemberRecord \cup {None}
      BY <1>1, <1>3
    <3> QED BY <1>0, <3>1 DEF there, role
  <2>3. assigned \in [Accounts -> Assignable \cup {None}]
    BY <1>0
  <2>4. request \in [Requests -> Request]
    BY <1>0, NoRequestKnows
  <2> QED BY <1>0, <1>6, <2>1, <2>2, <2>3, <2>4 DEF AccountTyped
<1>10. Proved
  <2> SUFFICES ASSUME NEW s \in DOMAIN sessions
               PROVE  Knows(sessions[s].user, sessions[s].version, sessions[s].proof)
    BY DEF Proved
  <2>1. sessions[s].user \in there /\ sessions[s].user \in Accounts
    BY <1>1, <1>4, <1>5
  <2>2. account[sessions[s].user] = User(1)
    BY <1>7, <2>1
  <2> QED BY <1>2, <1>5, <2>2 DEF Knows
<1>11. MembersHaveAccounts
  BY <1>2, <1>7 DEF MembersHaveAccounts
<1>12. OwnerRemains
  BY <1>1, <1>7 DEF OwnerRemains
<1>13. NewestSessionStays
  BY <1>5 DEF NewestSessionStays
<1>14. ASSUME NEW r \in Requests PROVE Informed(r)
  BY <1>8, NoRequestKnows DEF Informed
<1>15. ASSUME NEW u \in Accounts PROVE Capped(u)
  <2> DEFINE own == {i \in DOMAIN signedIn : signedIn[i] = u}
  <2>1. SessionsOf(u) \ Doomed(u) \subseteq own /\ own \in SUBSET (DOMAIN sessions)
    BY <1>4, <1>5 DEF SessionsOf
  <2>2. IsFiniteSet(own) /\ Cardinality(own) \in Nat
    BY <1>9, <2>1, SessionSets
  <2>3. Cardinality(own) <= MaxSessions
    <3>1. CASE u \in there
      BY <1>1, <3>1 DEF signedIn, there
    <3>2. CASE u \notin there
      <4>1. own = {}
        BY <1>4, <3>2
      <4> QED BY <4>1, FS_EmptySet, AccountAssumption
    <3> QED BY <3>1, <3>2
  <2> HIDE DEF own
  <2>4. /\ Cardinality(SessionsOf(u) \ Doomed(u)) <= Cardinality(own)
        /\ Cardinality(SessionsOf(u) \ Doomed(u)) \in Nat
    BY <2>1, <2>2, FS_Subset, FS_CardinalityType
  <2>5. Cardinality(SessionsOf(u) \ Doomed(u)) <= MaxSessions
    BY <2>2, <2>3, <2>4, AccountAssumption
  <2> QED BY <2>5 DEF Capped
<1>16. ASSUME NEW u \in Accounts PROVE Follows(u)
  <2>1. \A r \in Requests : ~Changing(r, u)
    BY <1>8, NoRequestKnows DEF Changing, Midst
  <2>2. assigned[u] # None => member[Shared][u] # None /\ assigned[u] = member[Shared][u].role
    BY <1>1, <1>3, <1>7
  <2> QED BY <2>1, <2>2 DEF Follows
<1> QED BY <1>9, <1>10, <1>11, <1>12, <1>13, <1>14, <1>15, <1>16 DEF AccountIInv

\* Every step.
LEMMA AccountsStep ==
    ASSUME AccountIInv, AccountNext
    PROVE  AccountIInv'
<1>1. ASSUME NEW r \in Requests, RequestBegins(r) PROVE AccountIInv'
  <2>1. CASE BootstrapSignIn(r)
    BY <2>1, BootstrapSignInSafe
  <2>2. ASSUME NEW u \in Accounts, SignIn(r, u) \/ StartGoogle(r, u) \/ SignUp(r, u) PROVE AccountIInv'
    BY <2>2, SignInSafe, StartGoogleSafe, SignUpSafe
  <2>3. ASSUME NEW s \in DOMAIN sessions, ChangePassword(r, s) PROVE AccountIInv'
    BY <2>3, ChangePasswordSafe
  <2>4. ASSUME NEW s \in DOMAIN sessions, NEW w \in Workspaces, Switch(r, s, w) PROVE AccountIInv'
    BY <2>4, SwitchSafe
  <2>5. ASSUME NEW s \in DOMAIN sessions, NEW u \in Accounts, NEW role \in GivenRoles, AddMember(r, s, u, role)
        PROVE  AccountIInv'
    BY <2>5, AddMemberSafe
  <2>6. ASSUME NEW s \in DOMAIN sessions, NEW u \in Accounts, NEW role \in GivenRoles, NEW active \in BOOLEAN,
               UpdateMember(r, s, u, role, active)
        PROVE  AccountIInv'
    BY <2>6, UpdateMemberSafe
  <2> QED BY <1>1, <2>1, <2>2, <2>3, <2>4, <2>5, <2>6, Zenon DEF RequestBegins
<1>2. ASSUME NEW r \in Requests, RequestStep(r) PROVE AccountIInv'
  BY <1>2, Zenon, GoogleCallbackSafe, GoogleFindSafe, CreateAccountSafe, FindMembershipSafe,
     BootstrapUserSafe, BootstrapOwnerSafe, CreateSessionSafe, ListExcessSafe, RevokeListedSafe,
     StorePasswordSafe, RotateSessionSafe, ListOthersSafe, SwitchSessionSafe, StorePreferredSafe,
     CreateUserSafe, CheckAvailableSafe, CreateMemberSafe, AssignProjectSafe, StoreRoleSafe,
     BumpVersionSafe, ListSessionsSafe, UnassignProjectsSafe DEF RequestStep
<1>3. ASSUME NEW r \in Requests, CutShort(r) PROVE AccountIInv'
  BY <1>3, CutShortSafe
<1>4. ASSUME NEW s \in DOMAIN sessions, Refuse(s) \/ Logout(s) PROVE AccountIInv'
  BY <1>4, SessionEndsSafe
<1> QED BY <1>1, <1>2, <1>3, <1>4, Zenon DEF AccountNext

\* And nothing at all.
LEMMA AccountsRest ==
    ASSUME AccountIInv, UNCHANGED accountVars
    PROVE  AccountIInv'
<1>1. UNCHANGED <<account, member, assigned, sessions, request, cookie, crossed, tangled, ended, overtaken>>
  BY DEF accountVars, documents, exceptions
<1>2. AccountTyped' /\ Proved' /\ MembersHaveAccounts' /\ OwnerRemains' /\ NewestSessionStays'
  BY <1>1 DEF AccountIInv, AccountTyped, Proved, Knows, MembersHaveAccounts, OwnerRemains, NewestSessionStays
<1>3. ASSUME NEW r \in Requests PROVE Informed(r)'
  <2>1. Informed(r) /\ AccountTyped
    BY DEF AccountIInv
  <2>2. Onward
    BY <1>1, <2>1, NoAccountGrows DEF Onward
  <2> QED BY <1>1, <1>2, <2>1, <2>2, StaysInformed
<1>4. ASSUME NEW u \in Accounts PROVE Capped(u)'
  <2>1. (SessionsOf(u))' = SessionsOf(u) /\ (Doomed(u))' = Doomed(u)
    BY <1>1 DEF SessionsOf, Doomed
  <2>2. Capped(u) BY DEF AccountIInv
  <2> QED BY <1>1, <2>1, <2>2 DEF Capped
<1>5. ASSUME NEW u \in Accounts PROVE u \in tangled' \/ Follows(u)'
  BY <1>1, MembersBefore DEF Follows, Changing
<1> QED BY <1>2, <1>3, <1>4, <1>5 DEF AccountIInv

\* What the invariant says of accounts, sessions and members.
LEMMA AccountsSafe ==
    ASSUME AccountIInv
    PROVE  AccountInv
<1>0. AccountTyped /\ Proved /\ OwnerRemains /\ NewestSessionStays
  BY DEF AccountIInv
<1>1. AccountTypeOK
  <2>1. ASSUME NEW u \in Accounts
        PROVE  /\ account[u] # None => account[u].preferred \in Workspaces \cup {None}
               /\ assigned[u] \in Assignable \cup {None}
               /\ cookie[u] \in Requests \cup {None}
               /\ \A w \in Workspaces : member[w][u] # None => member[w][u].role \in Roles
    BY <1>0 DEF AccountTyped, UserRecord, MemberRecord
  <2>2. ASSUME NEW s \in DOMAIN sessions PROVE account[sessions[s].user] # None
    BY SessionIsRecord
  <2>3. ASSUME NEW r \in Requests
        PROVE  request[r].user \in Accounts \cup {None} /\ request[r].found \subseteq DOMAIN sessions
    BY UnderWay, RequestTypes DEF KnowsSessions
  <2> QED BY <1>0, <2>1, <2>2, <2>3 DEF AccountTypeOK, AccountTyped
<1>2. ProofIsCurrent
  <2> SUFFICES ASSUME NEW s \in DOMAIN sessions, Accepted(s), ~(overtaken /\ sessions[s].user = Bootstrap)
               PROVE  sessions[s].proof \in {0, account[sessions[s].user].password}
    BY DEF ProofIsCurrent
  <2>1. Knows(sessions[s].user, sessions[s].version, sessions[s].proof)
    BY <1>0 DEF Proved
  <2>2. account[sessions[s].user].version = sessions[s].version
    BY DEF Accepted
  <2> QED BY <2>1, <2>2 DEF Knows
<1>3. AssignmentsFollow
  <2> SUFFICES ASSUME NEW u \in Accounts \ tangled, assigned[u] # None, ~Midway(None, u)
               PROVE  member[Shared][u] # None /\ assigned[u] = member[Shared][u].role
    BY DEF AssignmentsFollow
  <2>1. Follows(u)
    BY MembersBefore
  <2>2. \A r \in Requests : ~Changing(r, u)
    <3>1. None \notin Requests
      BY AccountAssumption
    <3> QED BY <3>1 DEF Midway, Changing
  <2> QED BY <2>1, <2>2 DEF Follows
<1>4. CapIsKept
  <2> SUFFICES ASSUME NEW u \in Accounts, u \notin tangled,
                      \A r \in Requests : ~(request[r].user = u /\ request[r].pc \in {"create", "cap", "revoke"})
               PROVE  Cardinality(SessionsOf(u)) <= MaxSessions
    BY DEF CapIsKept
  <2>1. Cardinality(SessionsOf(u) \ Doomed(u)) <= MaxSessions
    BY SessionsBefore DEF Capped
  <2>2. SessionsOf(u) \ Doomed(u) = SessionsOf(u)
    BY DEF Doomed
  <2> QED BY <2>1, <2>2
<1> QED BY <1>0, <1>1, <1>2, <1>3, <1>4 DEF AccountInv

\* Accounts and members, their sessions and the PIN of a project keep what
\* api/_handlers/auth.js, signup.js, google-auth.js, members.js and projects.js
\* promise, however requests interleave, fail or are cut short: no session is
\* accepted with a password that is no longer the account's, the workspace keeps
\* its owner, assignments follow roles, the newest sessions remain within the
\* cap, and no unlock counts for another PIN.
THEOREM AccessIsSafe == Spec => []AccessInv
<1>1. Init => PinIInv /\ AccountIInv
  BY InitPin, AccountsBegin DEF Init
<1>2. PinIInv /\ AccountIInv /\ [Next]_accessVars => (PinIInv /\ AccountIInv)'
  <2> SUFFICES ASSUME PinIInv, AccountIInv, [Next]_accessVars PROVE PinIInv' /\ AccountIInv'
    OBVIOUS
  <2>1. PinIInv'
    BY StepPin DEF Next, accessVars
  <2>2. AccountIInv'
    BY AccountsStep, AccountsRest DEF Next, accessVars
  <2> QED BY <2>1, <2>2
<1>3. PinIInv /\ AccountIInv => AccessInv
  BY InvariantSuffices, AccountsSafe DEF AccessInv
<1> QED
  BY <1>1, <1>2, <1>3, PTL DEF Spec
=============================================================================
