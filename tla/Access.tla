------------------------------- MODULE Access -------------------------------
(***************************************************************************)
(* Who is let in: the middlewares in front of REST handlers, socket        *)
(* connections and the admin routes.  A token ol-node-rest has revoked     *)
(* keeps its signature; checkAccessPayload finds it out from keys in Redis *)
(* that ol-node-rest writes after its rows, and from the rows where a key  *)
(* is missing.  It only reads, in up to three awaits.  One user with one   *)
(* session and one device, and one admin; ol-node-rest is external.        *)
(***************************************************************************)
EXTENDS Naturals

CONSTANTS Checks,      \* requests and connections under way
          AdminChecks, \* admin requests under way
          MaxTokens    \* bound: token versions of the user, and of the session

ASSUME AccessAssumption == MaxTokens \in Nat

Absent == [is |-> "absent"]
Is(v) == [is |-> "there", v |-> v]

\* LIVE_SESSION_CHECK_MODE and LIVE_SOCKET_AUTH_MODE.
SessionModes == {"log", "enforce"}
SocketModes == {"off", "log", "enforce"}
SingleSessionRoles == {"CUSTOMER_SUPPORT", "SUPER_ADMIN"}
AdminRoles == SingleSessionRoles \cup {"MODERATOR"}

VARIABLES modes,
          version,  \* users.token_version, and the row of the session: its version, and whether it is over
          keyUser, keySession, keyBan,  \* what Redis says of the user, the session, the device
          redisOn,
          check,    \* each request: its place, its token, what it read, and what it must find
          adminRow, \* the admin: role, active, the session, the views they are restricted to
          adminKey, \* admin:revoked
          adminCheck

accessVars == <<modes, version, keyUser, keySession, keyBan, redisOn, check, adminRow,
                adminKey, adminCheck>>
keys == <<keyUser, keySession, keyBan>>
admins == <<adminRow, adminKey, adminCheck>>

NoCheck == [pc |-> "idle"]
NoAdminCheck == [pc |-> "idle", due |-> FALSE]

AccessInit ==
    /\ modes \in [session : SessionModes, socket : SocketModes]
    /\ version = [user |-> 0, session |-> 0, over |-> FALSE]
    /\ keyUser = Absent /\ keySession = Absent /\ keyBan = FALSE
    /\ redisOn = TRUE
    /\ check = [q \in Checks |-> NoCheck]
    /\ adminRow \in [role : AdminRoles, active : {TRUE}, session : {TRUE},
                     views : {"none", "other", "this"}]
    /\ adminKey = FALSE
    /\ adminCheck = [q \in AdminChecks |-> NoAdminCheck]

-----------------------------------------------------------------------------
\* ol-node-rest: the row first, the key in a later step.

NewVersion(v) ==
    /\ version' = v
    /\ UNCHANGED <<modes, keys, redisOn, check, admins>>
LogoutAll == version.user < MaxTokens /\ NewVersion([version EXCEPT !.user = @ + 1])
Refresh == version.session < MaxTokens /\ NewVersion([version EXCEPT !.session = @ + 1])
Logout == ~version.over /\ NewVersion([version EXCEPT !.over = TRUE])

SessionOf(v) == Is([version |-> v.session, revoked |-> v.over])
KeysFollow ==
    /\ redisOn
    /\ \/ keyUser' = Is(version.user) /\ UNCHANGED keySession
       \/ keySession' = SessionOf(version) /\ UNCHANGED keyUser
    /\ UNCHANGED <<modes, version, keyBan, redisOn, check, admins>>

KeysExpire ==
    /\ \/ keyUser' = Absent /\ UNCHANGED keySession
       \/ keySession' = Absent /\ UNCHANGED keyUser
    /\ UNCHANGED <<modes, version, keyBan, redisOn, check, admins>>

BanDevice ==
    /\ keyBan' = TRUE
    /\ UNCHANGED <<modes, version, keyUser, keySession, redisOn, check, admins>>

RedisComesOrGoes ==
    /\ redisOn' = ~redisOn
    /\ UNCHANGED <<modes, version, keys, check, admins>>

-----------------------------------------------------------------------------
\* Requests and connections of the user.

\* The revocation is in the rows, and Redis does not say otherwise any more.
Settled(t) ==
    \/ t.user # version.user /\ keyUser \in {Absent, Is(version.user)}
    \/ version.over /\ keySession \in {Absent, SessionOf(version)}
Revoked(t) == t.user # version.user \/ version.over \/ keyBan

\* verifyRotating, verifySocketToken: a token past its time lets a socket in for another
\* thirty days, and a REST request never.
Present(q, where, t, age, place) ==
    /\ check[q].pc \in {"idle", "in", "out"}
    /\ check' = [check EXCEPT ![q] = [pc |-> place, where |-> where, t |-> t, age |-> age,
                                      ses |-> Absent, ban |-> FALSE,
                                      due |-> Settled(t), fails |-> FALSE]]
    /\ UNCHANGED <<modes, version, keys, redisOn, admins>>

Authenticate(q, t, age) == Present(q, "rest", t, age, IF age = "valid" THEN "keys" ELSE "out")

SocketAuth(q, t, age) ==
    Present(q, "socket", t, age,
            IF modes.socket = "off" THEN "in"
            ELSE IF age # "old" THEN "keys"
            ELSE IF modes.socket = "enforce" THEN "out" ELSE "in")

\* What the middleware makes of a denial; a socket's stale session token is a refresh since it
\* connected first (SEC-17).
AfterDenial(where, code) ==
    IF /\ modes.session = "enforce"
       /\ where = "rest" \/ (modes.socket = "enforce" /\ code # "SESSION_TOKEN_STALE")
    THEN "out" ELSE "in"

CheckGoes(q, place) == check' = [check EXCEPT ![q].pc = place]
Deny(q, code) == CheckGoes(q, AfterDenial(check[q].where, code))

\* The session as Redis or its row told it, then the device.
JudgeSession(q, s) ==
    IF s.v.revoked THEN Deny(q, "SESSION_INVALID")
    ELSE IF s.v.version # check[q].t.session THEN Deny(q, "SESSION_TOKEN_STALE")
    ELSE IF check[q].ban THEN Deny(q, "DEVICE_BANNED")
    ELSE CheckGoes(q, "in")

\* The token version of the user, as Redis or its row told it.
JudgeUser(q, v, ses, ban) ==
    IF v # check[q].t.user THEN Deny(q, "SESSION_INVALID")
    ELSE check' = [check EXCEPT ![q].pc = "session", ![q].ses = ses, ![q].ban = ban]

\* One MGET; a closed or failing Redis knows nothing.
\* Mutant: an unknown token version is taken for the token's own.
ReadKeysTrusting(q) ==
    /\ check[q].pc = "keys"
    /\ JudgeUser(q, IF redisOn /\ keyUser # Absent THEN keyUser.v ELSE check[q].t.user,
                 IF redisOn THEN keySession ELSE Absent, redisOn /\ keyBan)
    /\ UNCHANGED <<modes, version, keys, redisOn, admins>>
ReadKeys(q) ==
    /\ check[q].pc = "keys"
    /\ IF redisOn /\ keyUser # Absent
       THEN JudgeUser(q, keyUser.v, keySession, keyBan)
       ELSE check' = [check EXCEPT ![q].pc = "user", ![q].ban = redisOn /\ keyBan,
                                   ![q].ses = IF redisOn THEN keySession ELSE Absent]
    /\ UNCHANGED <<modes, version, keys, redisOn, admins>>

FindUserTokenVersion(q) ==
    /\ check[q].pc = "user"
    /\ JudgeUser(q, version.user, check[q].ses, check[q].ban)
    /\ UNCHANGED <<modes, version, keys, redisOn, admins>>

FindSession(q) ==
    /\ check[q].pc = "session"
    /\ JudgeSession(q, IF check[q].ses = Absent THEN SessionOf(version) ELSE check[q].ses)
    /\ UNCHANGED <<modes, version, keys, redisOn, admins>>

\* A check that cannot be made locks nobody out (CHECK_ERROR).
CheckErrs(q) ==
    /\ check[q].pc = "user" \/ (check[q].pc = "session" /\ check[q].ses = Absent)
    /\ check' = [check EXCEPT ![q].pc = "in", ![q].fails = TRUE]
    /\ UNCHANGED <<modes, version, keys, redisOn, admins>>

-----------------------------------------------------------------------------
\* Admin requests: verifyAdminAccessToken, loadViewAccess, requireAdminRole.

\* ol-node-rest deactivates the admin, or revokes the session or the token.
AdminLeaves ==
    /\ \/ adminRow' = [adminRow EXCEPT !.active = FALSE] /\ UNCHANGED adminKey
       \/ adminRow' = [adminRow EXCEPT !.session = FALSE] /\ UNCHANGED adminKey
       \/ adminKey' = TRUE /\ UNCHANGED adminRow
    /\ UNCHANGED <<modes, version, keys, redisOn, check, adminCheck>>

Gone == ~adminRow.active \/ (adminRow.role \in SingleSessionRoles /\ ~adminRow.session)

AdminGoes(q, from, place) ==
    /\ adminCheck[q].pc = from
    /\ adminCheck' = [adminCheck EXCEPT ![q].pc = place]
    /\ UNCHANGED <<modes, version, keys, redisOn, check, adminRow, adminKey>>

\* The revoke key counts only while Redis answers.
AuthenticateAdmin(q) ==
    /\ adminCheck[q].pc \in {"idle", "in", "out"}
    /\ adminCheck' = [adminCheck EXCEPT ![q] =
           [pc |-> IF redisOn /\ adminKey THEN "out" ELSE "row", due |-> Gone]]
    /\ UNCHANGED <<modes, version, keys, redisOn, check, adminRow, adminKey>>

FindAdmin(q) ==
    AdminGoes(q, "row", IF ~adminRow.active THEN "out"
                        ELSE IF adminRow.role \in SingleSessionRoles THEN "session" ELSE "views")

FindAdminSession(q) ==
    AdminGoes(q, "session", IF ~adminRow.session THEN "out"
                            ELSE IF adminRow.role # "SUPER_ADMIN" THEN "views" ELSE "in")

LoadViewAccess(q) == AdminGoes(q, "views", IF adminRow.views = "other" THEN "out" ELSE "role")

\* requireAdminRole of a route for super admins: a view that lists it overrides the role.
RequireAdminRole(q) == AdminGoes(q, "role", IF adminRow.views = "this" THEN "in" ELSE "out")

\* A token of a new version is handed out once its key is.
Issued == [user : {u \in 0..version.user : u = version.user => keyUser \in {Absent, Is(u)}},
           session : 0..version.session]

UserNext ==
    \/ LogoutAll \/ Refresh \/ Logout \/ KeysFollow \/ KeysExpire \/ BanDevice
    \/ RedisComesOrGoes
    \/ \E q \in Checks :
          \/ \E t \in Issued, a \in {"valid", "expired", "old"} :
                Authenticate(q, t, a) \/ SocketAuth(q, t, a)
          \/ ReadKeys(q) \/ FindUserTokenVersion(q) \/ FindSession(q) \/ CheckErrs(q)

AdminNext ==
    \/ AdminLeaves \/ RedisComesOrGoes
    \/ \E q \in AdminChecks :
          \/ AuthenticateAdmin(q) \/ FindAdmin(q) \/ FindAdminSession(q)
          \/ LoadViewAccess(q) \/ RequireAdminRole(q)

AccessSpec == AccessInit /\ [][UserNext \/ AdminNext]_accessVars

-----------------------------------------------------------------------------
\* Where the session check is enforced, a request that begins after a logout, or a logout of
\* all devices, has reached the rows, and the keys that knew better have followed or expired,
\* is not let in: whether Redis answers or not, unless the check itself fails.
RevokedRefused ==
    \A q \in Checks : check[q].pc = "in" /\ modes.session = "enforce" /\ check[q].where = "rest"
                      => check[q].fails \/ ~check[q].due

\* A token refresh throws nobody off their socket: one that is turned away belongs to a user
\* who has logged out, is banned, or holds a token older than the grace.
RefreshKeepsSocket ==
    \A q \in Checks : check[q].pc = "out" /\ check[q].where = "socket"
                      => check[q].age = "old" \/ Revoked(check[q].t)

\* An admin who is deactivated, or whose only session was revoked, before a request begins is
\* not let in, though Redis be away.
GoneAdminRefused == \A q \in AdminChecks : adminCheck[q].due => adminCheck[q].pc # "in"

\* Those whose access ended are refused, the others stay.
AccessFollowsRows == RevokedRefused /\ RefreshKeepsSocket /\ GoneAdminRefused
=============================================================================
