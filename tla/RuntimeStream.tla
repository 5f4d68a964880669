--------------------------- MODULE RuntimeStream ---------------------------
(***************************************************************************)
(* The live stream of one project in the runtime pages of one login:       *)
(* creating a runtime session with its stream ticket                       *)
(* (api/_handlers/runtime-session.js), the hub that authenticates,         *)
(* revalidates and feeds the sockets                                       *)
(* (server/connectors/runtime-stream-hub.js), the page that reconnects     *)
(* (src/runtime/RuntimeApp.jsx), and the end of a login                    *)
(* (api/_lib/auth.js), which withdraws what was created under it.          *)
(*                                                                         *)
(* A page opens one socket per session, so the socket's server side is     *)
(* kept in the session's record.  The hub's timers and their order are     *)
(* left free.                                                              *)
(***************************************************************************)
EXTENDS Naturals, Sequences, FiniteSets

CONSTANTS
    Pages,          \* runtime pages open under the login
    MaxSessions,    \* SCADA_MAX_RUNTIME_SESSIONS
    StreamBounds    \* the instances a run covers: the pages that are opened, and
                    \* how often what they cannot control happens

\* With fewer sessions than pages the cap makes the pages displace each other
\* forever.
ASSUME StreamAssumption ==
    /\ IsFiniteSet(Pages)
    /\ MaxSessions \in Nat \ {0}
    /\ Cardinality(Pages) <= MaxSessions

VARIABLES
    auth,       \* the AuthSession is active
    active,     \* activeVersionId of the project
    sessions,   \* the RuntimeSessions in the order of their creation
    page,       \* page -> its place in the connection cycle
    logout,     \* revokeSessionHierarchy: its place, what it has left to revoke
    event,      \* the newest event of the tag
    shown,      \* page -> the event it shows
    left        \* what may still happen

streamVars == <<auth, active, sessions, page, logout, event, shown, left>>

NewSession(p, version) ==
    [page |-> p, version |-> version, live |-> TRUE, capped |-> FALSE,
     ticket |-> "none", sock |-> "none", open |-> FALSE,
     pending |-> 0, timer |-> FALSE, due |-> 0]

StreamInit ==
    /\ left \in StreamBounds
    /\ auth = TRUE
    /\ active = 1
    /\ sessions = <<>>
    /\ page = [p \in Pages |-> [pc |-> "closed", session |-> 0, version |-> 0]]
    /\ logout = [pc |-> "idle", todo |-> {}, ids |-> {}]
    /\ event = 0
    /\ shown = [p \in Pages |-> 0]

\* One of the things the pages cannot control is used up.
Uses(what) ==
    /\ left[what] > 0
    /\ left' = [left EXCEPT ![what] = @ - 1]

-----------------------------------------------------------------------------
(* POST /api/runtime-session.                                              *)

\* The page has had a socket: it is its close listener that asks again.
HasStreamed(p) == \E s \in DOMAIN sessions : sessions[s].page = p /\ sessions[s].sock # "none"

\* Where a failed request leaves the page: the close listener asks again
\* after a while, the bootstrap gives the project up (state invalid-project).
AfterFailure(p) == IF HasStreamed(p) THEN "closed" ELSE "invalid"

\* requirePrincipal, then the project with its active version.
ReadPrincipal(p) ==
    /\ page[p].pc = "closed"
    /\ p \in left.pages
    /\ page' = [page EXCEPT ![p] =
           [pc |-> IF auth THEN "authorized" ELSE AfterFailure(p), session |-> 0, version |-> active]]
    /\ UNCHANGED <<auth, active, sessions, logout, event, shown, left>>

CreateSession(p) ==
    /\ page[p].pc = "authorized"
    /\ sessions' = Append(sessions, NewSession(p, page[p].version))
    /\ page' = [page EXCEPT ![p] = [@ EXCEPT !.pc = "created", !.session = Len(sessions) + 1]]
    /\ UNCHANGED <<auth, active, logout, event, shown, left>>

\* Mutant: one session more is kept.
ExcessOffByOne(s, kept) ==
    {o \in DOMAIN sessions \ {s} : sessions[o].live
        /\ Cardinality({n \in DOMAIN sessions \ {s} : sessions[n].live /\ n > o}) > kept}

\* The live sessions other than s that have `kept` newer ones among them.
Excess(s, kept) ==
    LET others == {o \in DOMAIN sessions : o # s /\ sessions[o].live}
    IN {o \in others : Cardinality({n \in others : n > o}) >= kept}

\* Revocation of a session and of its stream ticket.
RevokedTicket(ticket) == IF ticket = "unused" THEN "void" ELSE ticket

\* enforceRuntimeSessionCap.
Cap(p) ==
    LET s == page[p].session
        excess == Excess(s, MaxSessions - 1)
    IN /\ page[p].pc = "created"
       /\ sessions' = [o \in DOMAIN sessions |->
              IF o \in excess
              THEN [sessions[o] EXCEPT !.live = FALSE, !.ticket = RevokedTicket(@)]
              ELSE [sessions[o] EXCEPT !.capped = @ \/ o = s]]
       /\ page' = [page EXCEPT ![p] = [@ EXCEPT !.pc = "capped"]]
       /\ UNCHANGED <<auth, active, logout, event, shown, left>>

\* The ticket is created and answered, the page opens its socket with it.
OpenSocket(p) ==
    /\ page[p].pc = "capped"
    /\ sessions' = [sessions EXCEPT ![page[p].session] =
           [@ EXCEPT !.ticket = "unused", !.sock = "consume", !.open = TRUE]]
    /\ page' = [page EXCEPT ![p] = [@ EXCEPT !.pc = "streaming"]]
    /\ UNCHANGED <<auth, active, logout, event, shown, left>>

\* The request fails on the way or its answer is lost.
LoseRequest(p) ==
    /\ p \in left.pages
    /\ page[p].pc \in {"closed", "authorized", "created", "capped"}
    /\ Uses("losses")
    /\ page' = [page EXCEPT ![p] = [@ EXCEPT !.pc = AfterFailure(p)]]
    /\ UNCHANGED <<auth, active, sessions, logout, event, shown>>

\* The page's close listener: it creates a new session after a moment.
Reconnect(p) ==
    /\ page[p].pc = "streaming"
    /\ ~sessions[page[p].session].open
    /\ page' = [page EXCEPT ![p] = [@ EXCEPT !.pc = "closed"]]
    /\ UNCHANGED <<auth, active, sessions, logout, event, shown, left>>

-----------------------------------------------------------------------------
(* The hub.                                                                *)

\* The socket is closed; the close listener takes a client out of the hub.
\* A socket that closes before #authenticate has added its client has no such
\* listener yet, so the client stays.
Closed(x) ==
    [x EXCEPT !.open = FALSE,
              !.sock = IF @ = "served" THEN "ended" ELSE @,
              !.pending = 0, !.timer = FALSE]

Refused(x) == [x EXCEPT !.open = FALSE, !.sock = "ended"]

\* #authenticate, one awaited call after the other; it does not look whether
\* the socket is still open.
ConsumeTicket(x) ==
    IF x.ticket = "unused"
    THEN [x EXCEPT !.ticket = "used", !.sock = "session"]
    ELSE Refused(x)

CheckSession(x) == IF x.live THEN [x EXCEPT !.sock = "auth"] ELSE Refused(x)

CheckAuth(x) == IF auth THEN [x EXCEPT !.sock = "project"] ELSE Refused(x)

CheckProject(x) ==
    IF x.version = active THEN [x EXCEPT !.sock = "served"] ELSE Refused(x)

Authenticate(s) ==
    LET x == sessions[s] IN
    /\ \/ x.sock = "consume" /\ sessions' = [sessions EXCEPT ![s] = ConsumeTicket(x)]
       \/ x.sock = "session" /\ sessions' = [sessions EXCEPT ![s] = CheckSession(x)]
       \/ x.sock = "auth" /\ sessions' = [sessions EXCEPT ![s] = CheckAuth(x)]
       \/ x.sock = "project" /\ sessions' = [sessions EXCEPT ![s] = CheckProject(x)]
    /\ UNCHANGED <<auth, active, page, logout, event, shown, left>>

Serving(s) == sessions[s].sock = "served" /\ sessions[s].open

\* Mutant: the login is not looked at again.
StillAllowedByVersion(x) == x.live /\ x.version = active

StillAllowed(x) == x.live /\ auth /\ x.version = active

\* #revalidate, every revalidateMs.
Revalidate(s) ==
    /\ Serving(s)
    /\ ~StillAllowed(sessions[s])
    /\ sessions' = [sessions EXCEPT ![s] = Closed(@)]
    /\ UNCHANGED <<auth, active, page, logout, event, shown, left>>

\* publish: the newest event of a tag replaces a pending older one.
Publish(e) ==
    /\ Uses("events")
    /\ event' = e
    /\ sessions' = [s \in DOMAIN sessions |->
           IF Serving(s)
           THEN [sessions[s] EXCEPT !.pending = e, !.timer = TRUE, !.due = e]
           ELSE sessions[s]]
    /\ UNCHANGED <<auth, active, page, logout, shown>>

\* #flush, flushMs after the first pending event.
Flush(s) ==
    LET x == sessions[s] IN
    /\ x.timer
    /\ sessions' = [sessions EXCEPT ![s] = [x EXCEPT !.timer = FALSE, !.pending = 0]]
    /\ shown' = IF Serving(s) /\ x.pending # 0
                THEN [shown EXCEPT ![x.page] = x.pending]
                ELSE shown
    /\ UNCHANGED <<auth, active, page, logout, event, left>>

-----------------------------------------------------------------------------
(* What happens around them.                                               *)

\* The connection breaks.
Drop(s) ==
    /\ sessions[s].open
    /\ Uses("drops")
    /\ sessions' = [sessions EXCEPT ![s] = Closed(@)]
    /\ UNCHANGED <<auth, active, page, logout, event, shown>>

\* The session reaches its expiresAt, its timer in the hub closes the socket;
\* a ticket that was not used in time cannot be used any more.
Expire(s) ==
    LET x == sessions[s] IN
    /\ x.live
    /\ Uses("expiries")
    /\ \/ sessions' = [sessions EXCEPT ![s] =
              [IF x.sock = "served" THEN Closed(x) ELSE x EXCEPT !.live = FALSE]]
       \/ /\ x.ticket = "unused"
          /\ sessions' = [sessions EXCEPT ![s] = [x EXCEPT !.ticket = "void"]]
    /\ UNCHANGED <<auth, active, page, logout, event, shown>>

\* Another version is published.
PublishVersion ==
    /\ Uses("versions")
    /\ active' = active + 1
    /\ UNCHANGED <<auth, sessions, page, logout, event, shown>>

\* The login idles out: nothing is revoked.
IdleOut ==
    /\ auth
    /\ Uses("idles")
    /\ auth' = FALSE
    /\ UNCHANGED <<active, sessions, page, logout, event, shown>>

\* revokeSessionHierarchy: the sessions are read, then three collections are
\* updated at the same time, the tickets by the sessions that were read.
LogoutRead ==
    /\ logout.pc = "idle"
    /\ Uses("logouts")
    /\ logout' = [pc |-> "revoking", todo |-> {"auth", "sessions", "tickets"},
                  ids |-> {s \in DOMAIN sessions : sessions[s].live}]
    /\ UNCHANGED <<auth, active, sessions, page, event, shown>>

LogoutStep ==
    \E what \in logout.todo :
        /\ logout' = [logout EXCEPT !.todo = @ \ {what}]
        /\ auth' = (auth /\ what # "auth")
        /\ sessions' = [s \in DOMAIN sessions |->
               IF what = "sessions" THEN [sessions[s] EXCEPT !.live = FALSE]
               ELSE IF what = "tickets" /\ s \in logout.ids
                    THEN [sessions[s] EXCEPT !.ticket = RevokedTicket(@)]
                    ELSE sessions[s]]
        /\ UNCHANGED <<active, page, event, shown, left>>

-----------------------------------------------------------------------------

PageStep(p) ==
    ReadPrincipal(p) \/ CreateSession(p) \/ Cap(p) \/ OpenSocket(p) \/ Reconnect(p)

HubStep(s) == Authenticate(s) \/ Revalidate(s) \/ Flush(s)

StreamNext ==
    \/ \E p \in Pages : PageStep(p) \/ LoseRequest(p)
    \/ \E s \in DOMAIN sessions : HubStep(s) \/ Drop(s) \/ Expire(s)
    \/ Publish(event + 1)
    \/ PublishVersion \/ IdleOut \/ LogoutRead \/ LogoutStep

\* A page and the hub run on event loops with timers: what is due happens.
StreamFairness ==
    /\ \A p \in Pages : WF_streamVars(PageStep(p))
    /\ WF_streamVars(\E s \in DOMAIN sessions : Authenticate(s))
    /\ WF_streamVars(\E s \in DOMAIN sessions : Revalidate(s))
    /\ WF_streamVars(\E s \in DOMAIN sessions : Flush(s))
    /\ WF_streamVars(LogoutStep)

StreamSpec == StreamInit /\ [][StreamNext]_streamVars /\ StreamFairness

-----------------------------------------------------------------------------

SessionRecord ==
    [page : Pages, version : Nat, live : BOOLEAN, capped : BOOLEAN,
     ticket : {"none", "unused", "used", "void"},
     sock : {"none", "consume", "session", "auth", "project", "served", "ended"},
     open : BOOLEAN, pending : Nat, timer : BOOLEAN, due : Nat]

StreamTypeOK ==
    /\ auth \in BOOLEAN
    /\ active \in Nat
    /\ event \in Nat
    /\ sessions \in Seq(SessionRecord)
    /\ page \in [Pages -> [pc : {"closed", "authorized", "created", "capped", "streaming", "invalid"},
                           session : Nat, version : Nat]]
    /\ \A p \in Pages : page[p].pc \in {"created", "capped", "streaming"}
                            => page[p].session \in DOMAIN sessions
    /\ shown \in [Pages -> Nat]

\* However the requests of several pages overlap, no more than MaxSessions of
\* the sessions that went through enforceRuntimeSessionCap are live.
SessionsCapped ==
    Cardinality({s \in DOMAIN sessions : sessions[s].live /\ sessions[s].capped}) <= MaxSessions

\* What publish put on a client that is still connected has been shown by its
\* page or is pending with the flush timer set.
NothingStuck ==
    \A s \in DOMAIN sessions :
        Serving(s) => \/ sessions[s].due <= shown[sessions[s].page]
                      \/ sessions[s].timer /\ sessions[s].pending = sessions[s].due

StreamInv == StreamTypeOK /\ SessionsCapped /\ NothingStuck

\* A login that has ended leaves no socket served, whatever was being created
\* while it ended; otherwise every page is served by a live session of the
\* published version and shows the newest event it was sent, but for a page
\* whose very first request failed, which has given up.
Settled ==
    IF auth
    THEN \A p \in left.pages :
             LET s == page[p].session IN
             \/ page[p].pc = "invalid" /\ ~HasStreamed(p)
             \/ /\ page[p].pc = "streaming"
                /\ Serving(s)
                /\ StillAllowed(sessions[s])
                /\ sessions[s].due <= shown[p]
    ELSE \A s \in DOMAIN sessions : ~Serving(s)

\* Once nothing disturbs them any more, the streams settle: RuntimeApp's
\* reconnect loop, the hub's revalidation and flush timers.
StreamSettles == <>[]Settled
=============================================================================
