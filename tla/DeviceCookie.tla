---------------------------- MODULE DeviceCookie ----------------------------
(***************************************************************************)
(* internal/abuse/cookie.go under the device check of guard.go: one        *)
(* browser, the signed cookie that names its device, and the sessions it   *)
(* gets, over time.  The cookie is issued once and never renewed, so the   *)
(* browser turns into another device while sessions of the old one still   *)
(* run.  The browser sends one request at a time, but may give up on one   *)
(* the server is still working on.  A device is named after the request    *)
(* it was made for, a session after the request that created it.  A cookie *)
(* that does not parse or whose signature is wrong counts as no cookie.    *)
(***************************************************************************)
EXTENDS Integers, FiniteSets

CONSTANTS
    MaxAge,         \* DeviceCookieMaxAge
    MaxSkew,        \* how far in the future a cookie may be stamped
    Second,         \* clock ticks in a second, the grain of a cookie's stamp
    TTL,            \* lifetime of a session
    NoCookie,       \* the browser has no cookie
    MaxRequests,    \* bound on the requests sent
    MaxTime         \* bound on the clock

\* NewManager takes the default for a TTL that is not positive, and
\* DeviceCookieMaxAge is a number of whole seconds.
ASSUME CookieAssumption ==
    /\ {MaxSkew, MaxRequests, MaxTime} \subseteq Nat
    /\ {MaxAge, Second, TTL} \subseteq Nat \ {0}
    /\ MaxAge % Second = 0
    /\ NoCookie \notin [id : 1 .. MaxRequests, ts : 0 .. MaxTime]

VARIABLES
    now,        \* time.Now()
    cookie,     \* the browser's cookie
    sent,       \* number of requests sent
    awaited,    \* the request whose answer the browser waits for, or 0
    inflight,   \* requests past the device check and not answered yet
    sessions,   \* sessions in the manager's map
    bound,      \* devices with an entry in deviceSessions
    abandoned   \* history: requests the browser gave up on

vars == <<now, cookie, sent, awaited, inflight, sessions, bound, abandoned>>

Ids == 1 .. MaxRequests
Cookies == [id : Ids, ts : {t \in 0 .. now : t % Second = 0}]

TypeOK ==
    /\ now \in 0 .. MaxTime
    /\ cookie \in Cookies \cup {NoCookie}
    /\ sent \in 0 .. MaxRequests
    /\ awaited \in 0 .. sent
    /\ inflight \subseteq [req : 1 .. sent, cookie : Cookies]
    /\ sessions \subseteq [req : 1 .. sent, dev : Ids, until : 0 .. now + TTL]
    /\ bound \subseteq {s.dev : s \in sessions}
    /\ abandoned \in 0 .. sent

Init ==
    /\ now = 0
    /\ cookie = NoCookie
    /\ sent = 0
    /\ awaited = 0
    /\ inflight = {}
    /\ sessions = {}
    /\ bound = {}
    /\ abandoned = 0

\* Fault: the stamp is rounded to the next second.
UnixRoundedUp == ((now \div Second) + 1) * Second

\* time.Now().Unix(): the stamp leaves out the fraction of a second.
Unix == (now \div Second) * Second

\* Fault: the limits for the past and for the future are swapped.
VerifySwapped ==
    /\ cookie # NoCookie
    /\ now - cookie.ts <= MaxSkew
    /\ cookie.ts - now <= MaxAge

\* Verify of a cookie this server signed: not too old, not from the future.
Verify ==
    /\ cookie # NoCookie
    /\ now - cookie.ts <= MaxAge
    /\ cookie.ts - now <= MaxSkew

\* A valid cookie is kept as it is, otherwise request r gets a new device.
GetOrSet(r) == IF Verify THEN cookie ELSE [id |-> r, ts |-> Unix]

\* A create request passes GetOrSet and HasActiveDeviceSession.  A device that
\* is bound gets 409, which changes nothing.
Check ==
    LET r == sent + 1
        c == GetOrSet(r)
    IN  /\ awaited = 0
        /\ sent < MaxRequests
        /\ c.id \notin bound
        /\ sent' = r
        /\ awaited' = r
        /\ inflight' = inflight \cup {[req |-> r, cookie |-> c]}
        /\ UNCHANGED <<now, cookie, sessions, bound, abandoned>>

\* The answer carries the cookie; the browser takes it if it still waits.
Answer(q) ==
    /\ inflight' = inflight \ {q}
    /\ IF awaited = q.req
       THEN awaited' = 0 /\ cookie' = q.cookie
       ELSE UNCHANGED <<awaited, cookie>>

\* The request fails after the device check: no slot, no Turnstile token, rate
\* limited, or no sandbox.
Reject(q) ==
    /\ Answer(q)
    /\ UNCHANGED <<now, sent, sessions, bound, abandoned>>

\* Manager.Create stores the session and RegisterSession binds it, also when
\* the browser has given up.
Create(q) ==
    /\ Answer(q)
    /\ sessions' = sessions \cup
           {[req |-> q.req, dev |-> q.cookie.id, until |-> now + TTL]}
    /\ bound' = bound \cup {q.cookie.id}
    /\ UNCHANGED <<now, sent, abandoned>>

\* The browser drops the connection, and with it the answer and its cookie.
GiveUp ==
    /\ awaited # 0
    /\ awaited' = 0
    /\ abandoned' = abandoned + 1
    /\ UNCHANGED <<now, cookie, sent, inflight, sessions, bound>>

\* A terminal ends, or the reaper takes an expired session: ReleaseSession
\* unbinds its device, whichever session that is bound to by now.
Release(s) ==
    /\ sessions' = sessions \ {s}
    /\ bound' = bound \ {s.dev}
    /\ UNCHANGED <<now, cookie, sent, awaited, inflight, abandoned>>

\* Time passes: nothing bounds how long a creation takes, or when the reaper
\* comes.
Tick ==
    /\ now < MaxTime
    /\ now' = now + 1
    /\ UNCHANGED <<cookie, sent, awaited, inflight, sessions, bound, abandoned>>

Next ==
    \/ Check
    \/ \E q \in inflight : Reject(q) \/ Create(q)
    \/ GiveUp
    \/ \E s \in sessions : Release(s)
    \/ Tick

Spec == Init /\ [][Next]_vars

-----------------------------------------------------------------------------
(* Properties *)

\* The sessions that have not expired, as Manager.Get sees them.
Active == {s \in sessions : now <= s.until}

\* README.md:150 promises one session per device; this is what it comes to per
\* browser, however it times its requests, however long a creation takes and
\* whenever the reaper comes.  A browser whose cookie ends becomes another device
\* while its sessions go on: it holds one session of the cookie it has, one of
\* the cookie before, and one more for each further cookie lifetime that fits
\* into a session's.  With the default TTL of five minutes that is two, with the
\* ten minutes docs/deployment.md:59 recommends, as long as the cookie lives, it
\* is three.  Each request the browser gave up on may add one: it goes on behind
\* its back, past the check that would have refused the next one, or takes its
\* cookie with it.
ActiveSessionsBounded ==
    Cardinality(Active) <= 2 + (TTL + Second - 1) \div MaxAge + abandoned
=============================================================================
