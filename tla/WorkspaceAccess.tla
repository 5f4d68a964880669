-------------------------- MODULE WorkspaceAccess --------------------------
(***************************************************************************)
(* Who may get at a workspace and its projects: accounts, the members of a *)
(* shared workspace, and sign-in sessions (api/_handlers/auth.js,          *)
(* signup.js, google-auth.js and members.js over api/_lib/auth.js), beside *)
(* the PIN of a project (ProjectPin).  Each action is a stretch between    *)
(* two database calls of a request; requests interleave and may be cut     *)
(* short.                                                                  *)
(*                                                                         *)
(* An account is named by its e-mail address, a password by how often it   *)
(* has been changed.  Every account that signs up owns a workspace that    *)
(* bears its name.  One project of the shared workspace is assigned to     *)
(* operators and viewers.  Checks that only reject a request are guards.   *)
(***************************************************************************)
EXTENDS ProjectPin, Integers, Sequences

CONSTANTS
    Accounts,
    Bootstrap,      \* SCADA_ADMIN_EMAIL
    Shared,         \* the default workspace
    Requests,       \* bound: the requests that are served at a time
    GivenRoles,     \* bound: the roles members are given
    MaxSessions,    \* SCADA_MAX_AUTH_SESSIONS
    None,
    AccountSetups,  \* what there is at first, and how often what may happen
    AccessScenarios \* of accounts or of the PIN, one at a time

\* With one session per user two sign-ins at once would revoke each other.
ASSUME AccountAssumption ==
    /\ MaxSessions \in Nat \ {0, 1}
    /\ None \notin Accounts \cup Requests \cup {"OWNER", "ADMIN", "EDITOR", "OPERATOR", "VIEWER"}
    /\ Bootstrap \in Accounts
    /\ Shared \notin Accounts
    /\ GivenRoles \subseteq {"OWNER", "ADMIN", "EDITOR", "OPERATOR", "VIEWER"}

Managers   == {"OWNER", "ADMIN"}
Assignable == {"OPERATOR", "VIEWER"}
Roles      == Managers \cup Assignable \cup {"EDITOR"}
Workspaces == Accounts \cup {Shared}

UserRecord   == [password : Nat, version : Nat, preferred : Workspaces \cup {None}]
MemberRecord == [role : Roles, active : BOOLEAN]

\* Whoever is there at first is a member, one of them an owner, and nobody is
\* signed in more often than allowed.
ASSUME SetupAssumption ==
    /\ None \notin UserRecord /\ None \notin MemberRecord
    /\ \A setup \in AccountSetups :
           /\ DOMAIN setup.roles \subseteq Accounts
           /\ \A u \in DOMAIN setup.roles : setup.roles[u] \in Roles
           /\ DOMAIN setup.roles # {} => \E u \in DOMAIN setup.roles : setup.roles[u] = "OWNER"
           /\ setup.signedIn \in Seq(DOMAIN setup.roles)
           /\ \A u \in DOMAIN setup.roles :
                 Cardinality({i \in DOMAIN setup.signedIn : setup.signedIn[i] = u}) <= MaxSessions

VARIABLES
    account,    \* e-mail -> its user, or None
    member,     \* workspace -> e-mail -> its membership, or None
    assigned,   \* e-mail -> the role of its ProjectMember document, or None
    sessions,   \* the AuthSession documents in the order of their creation
    request,    \* request -> where it stands
    cookie,     \* e-mail -> the request whose OAuth transaction its browser holds
    unspent,    \* how often each thing may still happen
    crossed,    \* an owner was changed by one who was no longer owner himself
    tangled,    \* e-mails of which two updates overlapped, or one was cut short
    ended,      \* sessions that were ended by something else than the cap
    overtaken   \* the password was changed between the check of the bootstrap
                \* owner's and the reading of the version for his session

documents   == <<account, member, assigned, sessions>>
exceptions  == <<crossed, tangled, ended, overtaken>>
accountVars == <<documents, request, cookie, unspent, exceptions>>

User(password) == [password |-> password, version |-> 1, preferred |-> Shared]
Member(role)   == [role |-> role, active |-> TRUE]
Session(u, w, version, proof) ==
    [user |-> u, workspace |-> w, version |-> version, live |-> TRUE, proof |-> proof]

NoRequest == [op |-> "none", pc |-> "idle", user |-> None, session |-> 0, workspace |-> None,
              role |-> None, active |-> TRUE, asOwner |-> FALSE, version |-> 0, proof |-> 0,
              found |-> {}]

AccountInit ==
    \E setup \in AccountSetups :
        /\ account = [u \in Accounts |-> IF u \in DOMAIN setup.roles THEN User(1) ELSE None]
        /\ member = [w \in Workspaces |-> [u \in Accounts |->
               IF w = Shared /\ u \in DOMAIN setup.roles THEN Member(setup.roles[u]) ELSE None]]
        /\ assigned = [u \in Accounts |->
               IF u \in DOMAIN setup.roles /\ setup.roles[u] \in Assignable THEN setup.roles[u] ELSE None]
        /\ sessions = [i \in DOMAIN setup.signedIn |-> Session(setup.signedIn[i], Shared, 1, 1)]
        /\ unspent = setup.bounds
        /\ request = [r \in Requests |-> NoRequest]
        /\ cookie = [u \in Accounts |-> None]
        /\ crossed = FALSE
        /\ tangled = {}
        /\ ended = {}
        /\ overtaken = FALSE

-----------------------------------------------------------------------------
(* Sessions.                                                               *)

IsActive(w, u) == member[w][u] # None /\ member[w][u].active

\* getPrincipal: the session is live, its account and membership are active
\* and it carries the account's authVersion.
Accepted(s) ==
    LET x == sessions[s] IN
    x.live /\ account[x.user].version = x.version /\ IsActive(x.workspace, x.user)

RoleOf(s) == member[sessions[s].workspace][sessions[s].user].role

SessionsOf(u) == {s \in DOMAIN sessions : sessions[s].user = u /\ sessions[s].live}

Revoked(S) == [s \in DOMAIN sessions |-> [sessions[s] EXCEPT !.live = @ /\ s \notin S]]

\* The sessions beyond the cap, the newest of the others being kept.
\* Mutant: as many others as are allowed altogether.
ExcessNotOwn(r) ==
    LET others == SessionsOf(request[r].user) \ {request[r].session} IN
    {s \in others : Cardinality({t \in others : t > s}) >= MaxSessions}

Excess(r) ==
    LET others == SessionsOf(request[r].user) \ {request[r].session} IN
    {s \in others : Cardinality({t \in others : t > s}) >= MaxSessions - 1}

At(r, op, pc) == request[r].op = op /\ request[r].pc = pc

Goto(r, pc) == request' = [request EXCEPT ![r].pc = pc]

Finish(r) == request' = [request EXCEPT ![r] = NoRequest]

Begin(r, new) ==
    /\ request[r] = NoRequest
    /\ unspent[new.op] > 0
    /\ unspent' = [unspent EXCEPT ![new.op] = @ - 1]
    /\ request' = [request EXCEPT ![r] = new]
    /\ UNCHANGED <<documents, exceptions>>

\* A request with a session that is no longer accepted revokes it.
Refuse(s) ==
    /\ sessions[s].live
    /\ ~Accepted(s)
    /\ sessions' = Revoked({s})
    /\ ended' = ended \cup {s}
    /\ UNCHANGED <<account, member, assigned, request, cookie, unspent, crossed, tangled, overtaken>>

Logout(s) ==
    /\ unspent.logout > 0
    /\ Accepted(s)
    /\ unspent' = [unspent EXCEPT !.logout = @ - 1]
    /\ sessions' = Revoked({s})
    /\ ended' = ended \cup {s}
    /\ UNCHANGED <<account, member, assigned, request, cookie, crossed, tangled, overtaken>>

-----------------------------------------------------------------------------
(* Signing in with a password, through Google, and signing up.             *)

\* authenticateCredentials finds the user and verifies what was typed.
SignIn(r, u) ==
    /\ account[u] # None
    /\ Begin(r, [NoRequest EXCEPT !.op = "signin", !.pc = "membership", !.user = u,
                                  !.version = account[u].version,
                                  !.proof = account[u].password])
    /\ UNCHANGED cookie

\* The bootstrap password, for the account it is configured for.
BootstrapSignIn(r) ==
    /\ account[Bootstrap] = None
    /\ Begin(r, [NoRequest EXCEPT !.op = "signin", !.pc = "user", !.user = Bootstrap,
                                  !.version = 1, !.proof = 1])
    /\ UNCHANGED cookie

\* Google's callback: the transaction is that of the cookie, which is cleared
\* whatever comes of it; the code is exchanged for an identity.
StartGoogle(r, u) ==
    /\ Begin(r, [NoRequest EXCEPT !.op = "google", !.pc = "callback", !.user = u])
    /\ cookie' = [cookie EXCEPT ![u] = r]

GoogleCallback(r) ==
    /\ At(r, "google", "callback")
    /\ IF cookie[request[r].user] = r THEN Goto(r, "find") \/ Finish(r) ELSE Finish(r)
    /\ cookie' = [cookie EXCEPT ![request[r].user] = None]
    /\ UNCHANGED <<documents, unspent, exceptions>>

\* A Google account proves its identity anew: its sessions have proof 0.
GoogleFind(r) ==
    LET u == request[r].user IN
    /\ At(r, "google", "find")
    /\ request' = [request EXCEPT ![r].pc = IF account[u] = None THEN "transaction" ELSE "membership",
                                  ![r].version = IF account[u] = None THEN 1 ELSE account[u].version]
    /\ UNCHANGED <<documents, cookie, unspent, exceptions>>

SignUp(r, u) ==
    /\ Begin(r, [NoRequest EXCEPT !.op = "signup", !.pc = "transaction", !.user = u,
                                  !.version = 1, !.proof = 1])
    /\ UNCHANGED cookie

\* Account, workspace and membership are created together; an e-mail that
\* has been taken meanwhile ends a sign-up and is looked up for Google.
CreateAccount(r) ==
    LET u == request[r].user IN
    /\ request[r].pc = "transaction"
    /\ IF account[u] = None
       THEN /\ account' = [account EXCEPT ![u] = [User(request[r].proof) EXCEPT !.preferred = None]]
            /\ member' = [member EXCEPT ![u][u] = Member("OWNER")]
            /\ request' = [request EXCEPT ![r].pc = "create", ![r].workspace = u]
       ELSE /\ IF request[r].op = "google" THEN Goto(r, "find") ELSE Finish(r)
            /\ UNCHANGED <<account, member>>
    /\ UNCHANGED <<assigned, sessions, cookie, unspent, exceptions>>

\* preferredWorkspaceMembership: the preferred workspace or else the oldest
\* active one; without any only the bootstrap owner gets further.
FindMembership(r) ==
    LET u == request[r].user
        active == {w \in Workspaces : IsActive(w, u)}
        preferred == active \cap {account[u].preferred}
    IN
    /\ request[r].op \in {"signin", "google"}
    /\ request[r].pc = "membership"
    /\ \/ \E w \in IF preferred # {} THEN preferred ELSE active :
              request' = [request EXCEPT ![r].pc = "create", ![r].workspace = w]
       \/ /\ active = {}
          /\ IF At(r, "signin", "membership") /\ u = Bootstrap /\ request[r].proof = 1
             THEN request' = [request EXCEPT ![r].pc = "user", ![r].asOwner = TRUE] ELSE Finish(r)
    /\ UNCHANGED <<documents, cookie, unspent, exceptions>>

\* bootstrapLocalOwner: the user is created unless there is one, and then
\* made an active owner of the default workspace.  The password is verified
\* after that, if it was not before (asOwner).
BootstrapUser(r) ==
    LET there == account[Bootstrap] # None IN
    /\ At(r, "signin", "user")
    /\ request' = [request EXCEPT ![r].pc = "owner",
           ![r].version = IF there THEN account[Bootstrap].version ELSE 1,
           ![r].active = request[r].asOwner \/ (there => account[Bootstrap].password = 1)]
    /\ account' = IF there THEN account
                  ELSE [account EXCEPT ![Bootstrap] = [User(1) EXCEPT !.preferred = None]]
    /\ overtaken' = (overtaken \/ (request[r].asOwner /\ account[Bootstrap].version # request[r].version))
    /\ UNCHANGED <<member, assigned, sessions, cookie, unspent, crossed, tangled, ended>>

BootstrapOwner(r) ==
    /\ At(r, "signin", "owner")
    /\ member' = [member EXCEPT ![Shared][Bootstrap] = Member("OWNER")]
    /\ request' = [request EXCEPT ![r] =
           IF @.active THEN [@ EXCEPT !.pc = "create", !.workspace = Shared] ELSE NoRequest]
    /\ tangled' = tangled \cup {Bootstrap}
    /\ UNCHANGED <<account, assigned, sessions, cookie, unspent, crossed, ended, overtaken>>

\* createSession: the document, with the authVersion read before; then the
\* user's other sessions are listed and those beyond the cap revoked.
\* Mutant: with the version of this moment.
CreateSessionFresh(r) ==
    LET x == request[r] IN
    /\ x.pc = "create"
    /\ sessions' = Append(sessions, Session(x.user, x.workspace, account[x.user].version, x.proof))
    /\ request' = [request EXCEPT ![r].pc = "cap", ![r].session = Len(sessions) + 1]
    /\ UNCHANGED <<account, member, assigned, cookie, unspent, exceptions>>

CreateSession(r) ==
    LET x == request[r] IN
    /\ x.pc = "create"
    /\ sessions' = Append(sessions, Session(x.user, x.workspace, x.version, x.proof))
    /\ request' = [request EXCEPT ![r].pc = "cap", ![r].session = Len(sessions) + 1]
    /\ UNCHANGED <<account, member, assigned, cookie, unspent, exceptions>>

ListExcess(r) ==
    /\ request[r].pc = "cap"
    /\ request' = [request EXCEPT ![r].pc = "revoke", ![r].found = Excess(r)]
    /\ UNCHANGED <<documents, cookie, unspent, exceptions>>

\* revokeSessionHierarchy of the sessions that were listed.
RevokeListed(r) ==
    /\ request[r].pc = "revoke"
    /\ sessions' = Revoked(request[r].found)
    /\ ended' = IF request[r].op \in {"password", "update"} THEN ended \cup request[r].found ELSE ended
    /\ IF request[r].op = "update" THEN Goto(r, "unassign") ELSE Finish(r)
    /\ UNCHANGED <<account, member, assigned, cookie, unspent, crossed, tangled, overtaken>>

-----------------------------------------------------------------------------
(* Changing the password, and the workspace of a session.                  *)

\* The current password is verified against the user as read.
ChangePassword(r, s) ==
    LET u == sessions[s].user IN
    /\ Accepted(s)
    /\ Begin(r, [NoRequest EXCEPT !.op = "password", !.pc = "update", !.user = u,
                                  !.session = s, !.version = account[u].version])
    /\ UNCHANGED cookie

\* The update is for that version of the account only.
StorePassword(r) ==
    LET u == request[r].user IN
    /\ At(r, "password", "update")
    /\ IF account[u].version = request[r].version
       THEN /\ account' = [account EXCEPT ![u].password = @ + 1, ![u].version = @ + 1]
            /\ request' = [request EXCEPT ![r].pc = "rotate", ![r].version = @ + 1,
                                          ![r].proof = account[u].password + 1]
       ELSE Finish(r) /\ UNCHANGED account
    /\ UNCHANGED <<member, assigned, sessions, cookie, unspent, exceptions>>

\* rotateUserSessionsAfterPasswordChange: this session goes on, if it still
\* lives, and the others are listed and revoked.
RotateSession(r) ==
    LET s == request[r].session IN
    /\ At(r, "password", "rotate")
    /\ IF sessions[s].live
       THEN /\ sessions' = [sessions EXCEPT ![s].version = request[r].version, ![s].proof = request[r].proof]
            /\ Goto(r, "others")
       ELSE Finish(r) /\ UNCHANGED sessions
    /\ UNCHANGED <<account, member, assigned, cookie, unspent, exceptions>>

ListOthers(r) ==
    /\ At(r, "password", "others")
    /\ request' = [request EXCEPT ![r].pc = "revoke",
                                  ![r].found = SessionsOf(request[r].user) \ {request[r].session}]
    /\ UNCHANGED <<documents, cookie, unspent, exceptions>>

\* switchSessionWorkspace, to a workspace the account is active in.
Switch(r, s, w) ==
    /\ Accepted(s)
    /\ IsActive(w, sessions[s].user)
    /\ w # sessions[s].workspace
    /\ Begin(r, [NoRequest EXCEPT !.op = "switch", !.pc = "session",
                                  !.user = sessions[s].user, !.session = s,
                                  !.workspace = w])
    /\ UNCHANGED cookie

SwitchSession(r) ==
    LET s == request[r].session IN
    /\ At(r, "switch", "session")
    /\ IF sessions[s].live
       THEN /\ sessions' = [sessions EXCEPT ![s].workspace = request[r].workspace]
            /\ Goto(r, "preferred")
       ELSE Finish(r) /\ UNCHANGED sessions
    /\ UNCHANGED <<account, member, assigned, cookie, unspent, exceptions>>

StorePreferred(r) ==
    /\ At(r, "switch", "preferred")
    /\ account' = [account EXCEPT ![request[r].user].preferred = request[r].workspace]
    /\ Finish(r)
    /\ UNCHANGED <<member, assigned, sessions, cookie, unspent, exceptions>>

-----------------------------------------------------------------------------
(* Members of the shared workspace.                                        *)

ManagesShared(s) == Accepted(s) /\ sessions[s].workspace = Shared /\ RoleOf(s) \in Managers

\* POST: an account is added, and created if there is none.
AddMember(r, s, u, role) ==
    /\ ManagesShared(s)
    /\ role = "OWNER" => RoleOf(s) = "OWNER"
    /\ Begin(r, [NoRequest EXCEPT !.op = "add",
                                  !.pc = IF account[u] = None THEN "user" ELSE "available",
                                  !.user = u, !.session = s, !.role = role])
    /\ UNCHANGED cookie

CreateUser(r) ==
    LET u == request[r].user IN
    /\ At(r, "add", "user")
    /\ account' = IF account[u] # None THEN account
                  ELSE [account EXCEPT ![u] = [User(1) EXCEPT !.preferred = None]]
    /\ Goto(r, "available")
    /\ UNCHANGED <<member, assigned, sessions, cookie, unspent, exceptions>>

CheckAvailable(r) ==
    /\ At(r, "add", "available")
    /\ IF member[Shared][request[r].user] = None THEN Goto(r, "create member") ELSE Finish(r)
    /\ UNCHANGED <<documents, cookie, unspent, exceptions>>

CreateMember(r) ==
    LET u == request[r].user IN
    /\ At(r, "add", "create member")
    /\ IF member[Shared][u] = None
       THEN /\ member' = [member EXCEPT ![Shared][u] = Member(request[r].role)]
            /\ Goto(r, "assign")
       ELSE Finish(r) /\ UNCHANGED member
    /\ UNCHANGED <<account, assigned, sessions, cookie, unspent, exceptions>>

\* assignProjects: the project asked for, for the roles that need it.
AssignProject(r) ==
    LET u == request[r].user IN
    /\ request[r].pc = "assign"
    /\ assigned' = IF request[r].role \in Assignable /\ assigned[u] = None
                   THEN [assigned EXCEPT ![u] = request[r].role] ELSE assigned
    /\ Finish(r)
    /\ UNCHANGED <<account, member, sessions, cookie, unspent, exceptions>>

\* memberMutationError.  Mutant: an owner may step down.
MayChangeHimself(s, u, role, active) ==
    RoleOf(s) # "OWNER" =>
        sessions[s].user # u /\ "OWNER" \notin {member[Shared][u].role, role}

MayChange(s, u, role, active) ==
    LET self == sessions[s].user = u
        touchesOwner == "OWNER" \in {member[Shared][u].role, role}
    IN
    /\ RoleOf(s) # "OWNER" => ~touchesOwner /\ ~self
    /\ self => role = "OWNER" /\ active

\* PATCH: the member as read is judged by the principal's role.
UpdateMember(r, s, u, role, active) ==
    /\ ManagesShared(s)
    /\ member[Shared][u] # None
    /\ MayChange(s, u, role, active)
    /\ Begin(r, [NoRequest EXCEPT !.op = "update", !.pc = "role", !.user = u,
                                  !.session = s, !.role = role, !.active = active,
                                  !.asOwner = (RoleOf(s) = "OWNER")])
    /\ UNCHANGED cookie

\* Others who are in the midst of changing the same member.
Midway(r, u) ==
    \E other \in Requests \ {r} :
        /\ request[other].user = u
        /\ request[other].pc \in {"bump", "list", "revoke", "unassign", "assign"}
        /\ request[other].op \in {"update", "add"}

\* One who is not owner does not meet an owner.
StoreRole(r) ==
    LET x == request[r] IN
    /\ At(r, "update", "role")
    /\ IF x.asOwner \/ member[Shared][x.user].role # "OWNER"
       THEN /\ member' = [member EXCEPT ![Shared][x.user] = [role |-> x.role, active |-> x.active]]
            /\ Goto(r, "bump")
            /\ tangled' = IF Midway(r, x.user) THEN tangled \cup {x.user} ELSE tangled
            /\ crossed' = (crossed \/ (x.asOwner /\ member[Shared][sessions[x.session].user] # Member("OWNER")))
       ELSE Finish(r) /\ UNCHANGED <<member, tangled, crossed>>
    /\ UNCHANGED <<account, assigned, sessions, cookie, unspent, ended, overtaken>>

BumpVersion(r) ==
    /\ At(r, "update", "bump")
    /\ account' = [account EXCEPT ![request[r].user].version = @ + 1]
    /\ Goto(r, "list")
    /\ UNCHANGED <<member, assigned, sessions, cookie, unspent, exceptions>>

\* revokeUserSessions.
ListSessions(r) ==
    /\ At(r, "update", "list")
    /\ request' = [request EXCEPT ![r].pc = "revoke", ![r].found = SessionsOf(request[r].user)]
    /\ UNCHANGED <<documents, cookie, unspent, exceptions>>

\* Mutant: the assignment is left to be replaced.
UnassignNothing(r) ==
    /\ At(r, "update", "unassign")
    /\ Goto(r, "assign")
    /\ UNCHANGED <<documents, cookie, unspent, exceptions>>

UnassignProjects(r) ==
    /\ At(r, "update", "unassign")
    /\ assigned' = [assigned EXCEPT ![request[r].user] = None]
    /\ Goto(r, "assign")
    /\ UNCHANGED <<account, member, sessions, cookie, unspent, exceptions>>

\* A database call fails for good, or the function is stopped.
CutShort(r) ==
    /\ unspent.cut > 0
    /\ request[r] # NoRequest
    /\ unspent' = [unspent EXCEPT !.cut = @ - 1]
    /\ Finish(r)
    /\ tangled' = tangled \cup {request[r].user}
    /\ UNCHANGED <<documents, cookie, crossed, ended, overtaken>>

-----------------------------------------------------------------------------
RequestStep(r) ==
    \/ GoogleCallback(r) \/ GoogleFind(r) \/ CreateAccount(r)
    \/ FindMembership(r) \/ BootstrapUser(r) \/ BootstrapOwner(r)
    \/ CreateSession(r) \/ ListExcess(r) \/ RevokeListed(r)
    \/ StorePassword(r) \/ RotateSession(r) \/ ListOthers(r)
    \/ SwitchSession(r) \/ StorePreferred(r)
    \/ CreateUser(r) \/ CheckAvailable(r) \/ CreateMember(r) \/ AssignProject(r)
    \/ StoreRole(r) \/ BumpVersion(r) \/ ListSessions(r) \/ UnassignProjects(r)

RequestBegins(r) ==
    \/ BootstrapSignIn(r)
    \/ \E u \in Accounts : SignIn(r, u) \/ StartGoogle(r, u) \/ SignUp(r, u)
    \/ \E s \in DOMAIN sessions :
          \/ ChangePassword(r, s)
          \/ \E w \in Workspaces : Switch(r, s, w)
          \/ \E u \in Accounts, role \in GivenRoles :
                AddMember(r, s, u, role) \/ \E active \in BOOLEAN : UpdateMember(r, s, u, role, active)

AccountNext ==
    \/ \E r \in Requests : RequestBegins(r) \/ RequestStep(r) \/ CutShort(r)
    \/ \E s \in DOMAIN sessions : Refuse(s) \/ Logout(s)

-----------------------------------------------------------------------------
(***************************************************************************)
(* Properties.                                                             *)
(***************************************************************************)

AccountTypeOK ==
    /\ \A u \in Accounts :
          /\ account[u] # None => account[u].preferred \in Workspaces \cup {None}
          /\ assigned[u] \in Assignable \cup {None}
          /\ cookie[u] \in Requests \cup {None}
          /\ \A w \in Workspaces : member[w][u] # None => member[w][u].role \in Roles
    /\ \A s \in DOMAIN sessions : account[sessions[s].user] # None
    /\ \A r \in Requests :
          /\ request[r].user \in Accounts \cup {None}
          /\ request[r].found \subseteq DOMAIN sessions
    /\ tangled \subseteq Accounts
    /\ ended \subseteq DOMAIN sessions

\* A session that is accepted was opened with the account's present password,
\* or through Google, or is the one the password was changed from: a sign-in
\* under way, a second change and a role change do not keep an old one alive.
\* (Left out is the bootstrap owner's sign-in that was overtaken by a change.)
ProofIsCurrent ==
    \A s \in DOMAIN sessions :
        Accepted(s) /\ ~(overtaken /\ sessions[s].user = Bootstrap) =>
            sessions[s].proof \in {0, account[sessions[s].user].password}

\* The workspace keeps an active owner, whatever owners and administrators do
\* at once, except that two owners may change each other.
OwnerRemains ==
    ~crossed /\ (\E u \in Accounts : member[Shared][u] # None) =>
        \E u \in Accounts : member[Shared][u] = Member("OWNER")

\* Once a member's update is over his project assignment has his role, and he
\* has none in a role that needs none, unless updates of him overlapped.
AssignmentsFollow ==
    \A u \in Accounts \ tangled :
        assigned[u] # None /\ ~Midway(None, u) =>
            member[Shared][u] # None /\ assigned[u] = member[Shared][u].role

\* No more sessions than allowed once sign-ins are over, though several opened
\* theirs before any enforced the cap; and the newest is not the one that goes.
CapIsKept ==
    \A u \in Accounts :
        \/ \E r \in Requests : request[r].user = u /\ request[r].pc \in {"create", "cap", "revoke"}
        \/ u \in tangled
        \/ Cardinality(SessionsOf(u)) <= MaxSessions

NewestSessionStays ==
    \A s \in DOMAIN sessions :
        (\A t \in DOMAIN sessions : sessions[t].user = sessions[s].user => t <= s) =>
            sessions[s].live \/ s \in ended

\* What holds of accounts, members and sessions at every moment.
AccountInv ==
    /\ AccountTypeOK
    /\ ProofIsCurrent /\ OwnerRemains /\ AssignmentsFollow /\ CapIsKept /\ NewestSessionStays

-----------------------------------------------------------------------------
(***************************************************************************)
(* Accounts and the PIN.  They share no state that a step of one could     *)
(* disturb in the other, so a scenario gives one of them something to do.  *)
(***************************************************************************)

accessVars == <<accountVars, pinVars>>

Init ==
    /\ AccountInit
    /\ PinInit
    /\ [accounts |-> unspent, pin |-> callsLeft] \in AccessScenarios

Next ==
    \/ AccountNext /\ UNCHANGED pinVars
    \/ PinNext /\ UNCHANGED accountVars

Spec == Init /\ [][Next]_accessVars

\* What holds of accounts, sessions, members and the PIN at every moment.
AccessInv == AccountInv /\ PinInv

-----------------------------------------------------------------------------
(* The scenarios of the run "access".                                      *)

Bounds(si, go, su, pa, sw, ad, up, lo, cu) ==
    [signin |-> si, google |-> go, signup |-> su, password |-> pa, switch |-> sw, add |-> ad,
     update |-> up, logout |-> lo, cut |-> cu]
Setup(roles, signedIn, bounds) == [roles |-> roles, signedIn |-> signedIn, bounds |-> bounds]

Alone(role) == [ann |-> role]
Two(x, y)   == [ann |-> x, bob |-> y]

Idle == Setup(Alone("OWNER"), <<>>, Bounds(0, 0, 0, 0, 0, 0, 0, 0, 0))
Setups ==
    {Setup(Alone("OWNER"), <<"ann", "ann">>, Bounds(1, 0, 0, 2, 0, 0, 0, 0, 0)),   \* two changes of the password and a sign-in
     Setup(Alone("OWNER"), <<>>, Bounds(3, 0, 0, 0, 0, 0, 0, 1, 0)),        \* more sign-ins than sessions
     Setup(Alone("OWNER"), <<"ann">>, Bounds(1, 1, 0, 1, 0, 0, 0, 1, 1)),
     Setup(Alone("OWNER"), <<>>, Bounds(0, 3, 1, 0, 0, 0, 0, 0, 0)),        \* Google tabs and a sign-up of the same e-mail
     Setup(<<>>, <<>>, Bounds(2, 0, 1, 0, 0, 0, 0, 0, 0)),                  \* an empty database
     Setup(Two("OWNER", "OWNER"), <<"ann", "bob">>, Bounds(0, 0, 0, 0, 0, 0, 2, 0, 0)),
     Setup(Two("OWNER", "ADMIN"), <<"ann", "bob">>, Bounds(0, 0, 0, 1, 0, 0, 2, 0, 0)),
     Setup(Two("OWNER", "OPERATOR"), <<"ann", "bob">>, Bounds(0, 0, 0, 0, 0, 0, 2, 0, 1)),
     Setup(Two("OWNER", "OWNER"), <<"ann", "bob">>, Bounds(1, 0, 0, 1, 0, 0, 1, 0, 1)),     \* a bootstrap owner without membership
     Setup(Alone("OWNER"), <<"ann">>, Bounds(0, 0, 0, 0, 0, 2, 1, 0, 0)),       \* two invitations of one account
     Setup(Alone("OWNER"), <<"ann">>, Bounds(0, 0, 1, 0, 1, 1, 0, 0, 0))}       \* an account of two workspaces

PinCalls(ul, lo, st, rc, rm, en, sp) ==
    [unlock |-> ul, lock |-> lo, set |-> st, recover |-> rc, remove |-> rm, ends |-> en, stops |-> sp]
NoCalls == PinCalls(0, 0, 0, 0, 0, 0, 0)
PinUse == {PinCalls(1, 0, 2, 0, 1, 1, 0), PinCalls(1, 1, 1, 1, 0, 0, 1), PinCalls(0, 0, 2, 1, 1, 0, 1)}

MCAccountSetups == Setups \cup {Idle}
MCPinSetups == PinUse \cup {NoCalls}
MCScenarios ==
    {[accounts |-> s.bounds, pin |-> NoCalls] : s \in Setups}
    \cup {[accounts |-> Idle.bounds, pin |-> p] : p \in PinUse}
=============================================================================
