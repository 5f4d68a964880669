-------------------------- MODULE ConnectorSecrets --------------------------
(***************************************************************************)
(* The ThingsBoard credentials of one connector environment: callers that  *)
(* use the access token and refresh it under a lease                       *)
(* (api/_lib/thingsboard-auth.js), and administrators that store new       *)
(* credentials or a device token (api/_handlers/connectors.js).            *)
(*                                                                         *)
(* An access token is the number of the pair it came with.  The secret's   *)
(* stamp stands for its updatedAt, which every write moves on.  The device *)
(* token itself is left out: storing one writes the pair that was read     *)
(* back.                                                                   *)
(***************************************************************************)
EXTENDS Naturals, FiniteSets

CONSTANTS
    Callers,        \* the worker's driver and the API's calls to ThingsBoard
    Admins,         \* requests that store credentials
    SecretBounds    \* how often what the callers cannot control happens

VARIABLES
    secret,     \* the ConnectorSecret document: pair, auto, stamp, root
    authentication, \* ConnectorEnvironment.authentication: what it says, the lease
    call,       \* caller -> its call
    admin,      \* administrator -> its request
    age,        \* pair -> fresh, due (inside the refresh window) or expired
    pairs,      \* how many pairs ThingsBoard has issued
    calls,      \* how many refresh calls have been numbered
    newest,     \* the number of the credentials an administrator stored last
    noted,      \* what has happened that the properties make an exception for
    rest        \* what may still happen

secretVars == <<secret, authentication, call, admin, age, pairs, calls, newest, noted, rest>>

Pairs == Nat \ {0}

NoRecord == [pair |-> 0, auto |-> FALSE, stamp |-> 0, root |-> 0]

NoCall == [pc |-> "idle", id |-> 0, forced |-> FALSE, rejected |-> 0, token |-> 0,
           hurry |-> FALSE, rec |-> NoRecord, next |-> NoRecord]

NoRequest == [pc |-> "idle", device |-> FALSE, next |-> NoRecord]

SecretInit ==
    /\ rest \in SecretBounds
    /\ secret = [pair |-> 1, auto |-> TRUE, stamp |-> 1, root |-> 1]
    /\ authentication = [pair |-> 1, state |-> "described", owner |-> 0, lapsed |-> FALSE]
    /\ call = [c \in Callers |-> NoCall]
    /\ admin = [a \in Admins |-> NoRequest]
    /\ age = [p \in {1} |-> "fresh"]
    /\ pairs = 1
    /\ calls = 0
    /\ newest = 1
    /\ noted = {}

Spend(what) ==
    /\ rest[what] > 0
    /\ rest' = [rest EXCEPT ![what] = @ - 1]

\* ThingsBoard issues a pair.
Issued == pairs + 1
Issue ==
    /\ pairs' = Issued
    /\ age' = [p \in 1..Issued |-> IF p = Issued THEN "fresh" ELSE age[p]]

-----------------------------------------------------------------------------
(* getThingsBoardAccessToken and withThingsBoardAccessToken.               *)

Return(c, pair) == call' = [call EXCEPT ![c] = [@ EXCEPT !.pc = "operate", !.token = pair]]

Throw(c) == call' = [call EXCEPT ![c] = NoCall]

Goto(c, pc) == call' = [call EXCEPT ![c] = [@ EXCEPT !.pc = pc]]

Owns(c) == authentication.owner = call[c].id

Begin(c) ==
    /\ call[c].pc = "idle"
    /\ Spend("calls")
    /\ calls' = calls + 1
    /\ call' = [call EXCEPT ![c] = [NoCall EXCEPT !.pc = "look", !.id = calls + 1]]
    /\ UNCHANGED <<secret, authentication, admin, age, pairs, newest, noted>>

\* The stored pair is returned unless it is due or was rejected; without a
\* refresh token it is returned until it has expired.
Look(c) ==
    LET k == call[c]
        due == age[secret.pair] # "fresh"
        expired == age[secret.pair] = "expired"
        good == IF k.forced THEN secret.pair # k.rejected ELSE ~due
    IN /\ k.pc = "look"
       /\ \/ good /\ Return(c, secret.pair)
          \/ ~good /\ ~secret.auto /\ IF expired \/ k.forced THEN Throw(c) ELSE Return(c, secret.pair)
          \/ /\ ~good /\ secret.auto
             /\ call' = [call EXCEPT ![c] = [k EXCEPT !.pc = "lease", !.rec = secret, !.hurry = expired \/ k.forced]]
       /\ UNCHANGED <<secret, authentication, admin, age, pairs, calls, newest, noted, rest>>

\* The lease is taken when nobody holds it or it has lapsed.
LeaseFree == authentication.owner = 0 \/ authentication.lapsed

TakeLease(c) ==
    /\ call[c].pc = "lease"
    /\ IF LeaseFree
       THEN /\ authentication' = [authentication EXCEPT !.state = "refreshing", !.owner = call[c].id, !.lapsed = FALSE]
            /\ Goto(c, "load")
       ELSE /\ Goto(c, "wait")
            /\ UNCHANGED authentication
    /\ UNCHANGED <<secret, admin, age, pairs, calls, newest, noted, rest>>

\* waitForSecretChange: any later write ends the wait, or time does.
WaitForSecretChange(c) ==
    /\ call[c].pc = "wait"
    /\ \/ secret.stamp # call[c].rec.stamp /\ Return(c, secret.pair)
       \/ Throw(c)
    /\ UNCHANGED <<secret, authentication, admin, age, pairs, calls, newest, noted, rest>>

AlreadyFresh(c) ==
    IF call[c].forced THEN secret.pair # call[c].rejected ELSE age[secret.pair] = "fresh"

Load(c) ==
    /\ call[c].pc = "load"
    /\ call' = [call EXCEPT ![c] =
           [@ EXCEPT !.rec = secret, !.pc = IF AlreadyFresh(c) THEN "observe" ELSE "exchange"]]
    /\ UNCHANGED <<secret, authentication, admin, age, pairs, calls, newest, noted, rest>>

Exchange(c) ==
    /\ call[c].pc = "exchange"
    /\ \/ /\ Issue
          /\ call' = [call EXCEPT ![c] = [@ EXCEPT !.pc = "store", 
                 !.next = [call[c].rec EXCEPT !.pair = Issued]]]
          /\ UNCHANGED rest
       \/ /\ Spend("failures")
          /\ Goto(c, "fail")
          /\ UNCHANGED <<age, pairs>>
    /\ UNCHANGED <<secret, authentication, admin, calls, newest, noted>>

\* Mutant: the write is not conditional.
UnchangedOrNot(c) == TRUE

\* The write of the secret is conditional on the updatedAt that was read.
Unchanged(c) == secret.stamp = call[c].rec.stamp

Store(c) ==
    /\ call[c].pc = "store"
    /\ IF Unchanged(c)
       THEN /\ secret' = [call[c].next EXCEPT !.stamp = secret.stamp + 1]
            /\ Goto(c, "record")
            /\ noted' = noted \cup (IF Owns(c) THEN {} ELSE {"late"})
       ELSE /\ Goto(c, "raced")
            /\ UNCHANGED <<secret, noted>>
    /\ UNCHANGED <<authentication, admin, age, pairs, calls, newest, rest>>

\* What is said of the authentication, and the end of the lease, are one
\* update, conditional on still holding it.
Describe(c, pair, state) ==
    authentication' = IF Owns(c)
            THEN [pair |-> pair, state |-> state, owner |-> 0, lapsed |-> FALSE]
            ELSE authentication

Record(c) ==
    /\ call[c].pc = "record"
    /\ Describe(c, call[c].next.pair, "described")
    /\ Return(c, call[c].next.pair)
    /\ UNCHANGED <<secret, admin, age, pairs, calls, newest, noted, rest>>

\* Somebody else has stored credentials: they are loaded and described.
Raced(c) ==
    /\ call[c].pc = "raced"
    /\ call' = [call EXCEPT ![c] = [@ EXCEPT !.pc = "observe", !.rec = secret]]
    /\ UNCHANGED <<secret, authentication, admin, age, pairs, calls, newest, noted, rest>>

Observe(c) ==
    /\ call[c].pc = "observe"
    /\ Describe(c, call[c].rec.pair, "described")
    /\ Return(c, call[c].rec.pair)
    /\ UNCHANGED <<secret, admin, age, pairs, calls, newest, noted, rest>>

\* The exchange failed: a pair that is still good is used for now.
Fail(c) ==
    /\ call[c].pc = "fail"
    /\ Describe(c, authentication.pair, "error")
    /\ IF call[c].hurry THEN Throw(c) ELSE Return(c, call[c].rec.pair)
    /\ UNCHANGED <<secret, admin, age, pairs, calls, newest, noted, rest>>

\* The caller's request to ThingsBoard: rejected once, it is repeated with the
\* token of a forced refresh.
Operate(c) ==
    /\ call[c].pc = "operate"
    /\ \/ age[call[c].token] # "expired" /\ Throw(c) /\ UNCHANGED <<calls, rest>>
       \/ /\ IF age[call[c].token] = "expired" THEN UNCHANGED rest ELSE Spend("rejections")
          /\ IF call[c].forced
             THEN Throw(c) /\ UNCHANGED calls
             ELSE /\ calls' = calls + 1
                  /\ call' = [call EXCEPT ![c] = [NoCall EXCEPT !.pc = "look", !.id = calls + 1,
                                 !.forced = TRUE, !.rejected = call[c].token]]
    /\ UNCHANGED <<secret, authentication, admin, age, pairs, newest, noted>>

\* The caller's process stops; a lease it holds stays.
Crash(c) ==
    /\ call[c].pc # "idle"
    /\ Spend("crashes")
    /\ Throw(c)
    /\ UNCHANGED <<secret, authentication, admin, age, pairs, calls, newest, noted>>

-----------------------------------------------------------------------------
(* connect-account and rotate-secret.                                      *)

\* The secret is read and merged with the input: a new pair, with or without
\* a refresh token, or a device token only.
ReadSecret(a) ==
    /\ admin[a].pc = "idle"
    /\ \/ /\ Spend("rotations")
          /\ Issue
          /\ \E auto \in BOOLEAN :
                 admin' = [admin EXCEPT ![a] = [pc |-> "write", device |-> FALSE,
                              next |-> [secret EXCEPT !.pair = Issued, !.auto = auto]]]
       \/ /\ Spend("devices")
          /\ admin' = [admin EXCEPT ![a] = [pc |-> "write", device |-> TRUE, next |-> secret]]
          /\ UNCHANGED <<age, pairs>>
    /\ noted' = noted \cup (IF \E b \in Admins \ {a} : admin[b].pc # "idle" THEN {"overlap"} ELSE {})
    /\ UNCHANGED <<secret, authentication, call, calls, newest>>

\* The secret is written whatever it has become since.
WriteSecret(a) ==
    LET next == admin[a].next
        root == IF admin[a].device THEN next.root ELSE newest + 1
    IN /\ admin[a].pc = "write"
       /\ secret' = [next EXCEPT !.stamp = secret.stamp + 1, !.root = root]
       /\ newest' = IF admin[a].device THEN newest ELSE newest + 1
       /\ noted' = noted
              \cup (IF admin[a].device THEN {"device"} ELSE {})
              \cup (IF admin[a].device /\ next.stamp # secret.stamp THEN {"undone"} ELSE {})
       /\ admin' = [admin EXCEPT ![a] = [@ EXCEPT !.pc = "save", !.next = secret']]
       /\ UNCHANGED <<authentication, call, age, pairs, calls, rest>>

\* environment.save() puts a new description, without any lease, over the old
\* one; a device token leaves it alone.
SaveEnvironment(a) ==
    /\ admin[a].pc = "save"
    /\ admin' = [admin EXCEPT ![a] = NoRequest]
    /\ IF admin[a].device
       THEN UNCHANGED <<authentication, noted>>
       ELSE /\ authentication' = [pair |-> admin[a].next.pair, state |-> "described", owner |-> 0, lapsed |-> FALSE]
            /\ noted' = noted
                   \cup (IF authentication.owner = 0 THEN {} ELSE {"freed"})
                   \cup (IF secret.stamp # admin[a].next.stamp THEN {"late"} ELSE {})
    /\ UNCHANGED <<secret, call, age, pairs, calls, newest, rest>>

-----------------------------------------------------------------------------
(* Time.                                                                   *)

\* The stored pair grows old.
Age ==
    /\ Spend("ages")
    /\ age[secret.pair] # "expired"
    /\ age' = [age EXCEPT ![secret.pair] = IF @ = "fresh" THEN "due" ELSE "expired"]
    /\ UNCHANGED <<secret, authentication, call, admin, pairs, calls, newest, noted>>

\* refreshLeaseUntil passes.
Lapse ==
    /\ authentication.owner # 0
    /\ ~authentication.lapsed
    /\ Spend("lapses")
    /\ authentication' = [authentication EXCEPT !.lapsed = TRUE]
    /\ noted' = noted \cup {"freed"}
    /\ UNCHANGED <<secret, call, admin, age, pairs, calls, newest>>

-----------------------------------------------------------------------------

CallerStep(c) ==
    \/ Look(c) \/ TakeLease(c) \/ WaitForSecretChange(c) \/ Load(c) \/ Exchange(c)
    \/ Store(c) \/ Record(c) \/ Raced(c) \/ Observe(c) \/ Fail(c) \/ Operate(c)

AdminStep(a) == WriteSecret(a) \/ SaveEnvironment(a)

SecretNext ==
    \/ \E c \in Callers : Begin(c) \/ CallerStep(c) \/ Crash(c)
    \/ \E a \in Admins : ReadSecret(a) \/ AdminStep(a)
    \/ Age \/ Lapse

SecretSpec == SecretInit /\ [][SecretNext]_secretVars

-----------------------------------------------------------------------------

Holding == {"load", "exchange", "store", "record", "raced", "observe", "fail"}

SecretRecord == [pair : Nat, auto : BOOLEAN, stamp : Nat, root : Nat]

SecretTypeOK ==
    /\ secret \in SecretRecord
    /\ authentication \in [pair : Nat, state : {"described", "refreshing", "error"}, owner : Nat, lapsed : BOOLEAN]
    /\ call \in [Callers -> [pc : Holding \cup {"idle", "look", "lease", "wait", "operate"},
                             id : Nat, forced : BOOLEAN, rejected : Nat, token : Nat,
                             hurry : BOOLEAN, rec : SecretRecord, next : SecretRecord]]
    /\ admin \in [Admins -> [pc : {"idle", "write", "save"}, device : BOOLEAN, next : SecretRecord]]
    /\ newest \in Nat

\* A refresh that overlaps the storing of new credentials never brings back
\* what they replaced: the stored pair always descends from the credentials an
\* administrator stored last.  Only the storing of a device token, which writes
\* back what it read, can.
CredentialsKept == "undone" \in noted \/ secret.root = newest

\* One caller refreshes at a time, unless a lease lapsed or was overwritten.
OneRefresh ==
    "freed" \in noted
    \/ \A c, d \in Callers : call[c].pc \in Holding /\ call[d].pc \in Holding => c = d

\* The token a rejected call is repeated with is another one.
RetryIsFresh ==
    \A c \in Callers :
        call[c].pc = "operate" /\ call[c].forced /\ "device" \notin noted
            => call[c].token # call[c].rejected

\* Between requests the environment describes the pair that is stored, or says
\* that it is being refreshed or could not be - unless two administrators
\* overlapped, or a pair was stored by a caller that had lost its lease or
\* before an administrator's earlier pair was described.
DescriptionAgrees ==
    (\A c \in Callers : call[c].pc \notin Holding) /\ (\A a \in Admins : admin[a].pc = "idle")
        => \/ authentication.pair = secret.pair
           \/ authentication.state # "described"
           \/ noted \cap {"undone", "overlap", "late"} # {}

SecretsInv == SecretTypeOK /\ CredentialsKept /\ OneRefresh /\ RetryIsFresh /\ DescriptionAgrees
=============================================================================
