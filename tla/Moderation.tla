----------------------------- MODULE Moderation -----------------------------
(***************************************************************************)
(* Frames of a stream or a call sent in for a check, and what a violation  *)
(* does: the stream is ended and its host suspended, in four writes to the *)
(* database and two keys, any of which may fail.  Several frames of one    *)
(* stream may be judged at once, and the host may be going live meanwhile: *)
(* go-live asks for the suspension in three places.                        *)
(***************************************************************************)
EXTENDS Naturals

CONSTANTS Frames,  \* frame checks in flight
          GoLives, \* go-lives of the host in flight
          MaxBans  \* bound on hostStreamBan rows

ASSUME ModerationAssumption == MaxBans \in Nat

VARIABLES live,       \* whether the host has a live row
          suspended,  \* users.suspended_until: the hours of the ban, 0 for none
          restricted, \* a userRestriction row LIVE_STREAM_START_BAN
          bans,       \* hostStreamBan rows
          banKey,     \* user:restriction:<host>:LIVE_STREAM_START_BAN
          suspKey,    \* user:suspended:<host>: "none", "true", "false"
          answers,    \* whether Redis does
          frame, goLive,
          slips       \* what went wrong, or crossed, while a ban was written

modVars == <<live, suspended, restricted, bans, banKey, suspKey, answers, frame, goLive, slips>>
rows == <<live, suspended, restricted, bans>>
modKeys == <<banKey, suspKey, answers>>

NoGoLive == [at |-> "out", saw |-> "none", due |-> FALSE]

ModerationInit ==
    /\ live = FALSE /\ suspended = 0 /\ restricted = FALSE /\ bans = 0
    /\ banKey = FALSE /\ suspKey = "none" /\ answers = TRUE
    /\ frame = [f \in Frames |-> [at |-> "idle", no |-> 0]]
    /\ goLive = [g \in GoLives |-> NoGoLive]
    /\ slips = {}

FrameTo(f, from, to) ==
    /\ frame[f].at = from
    /\ frame' = [frame EXCEPT ![f].at = to]

-----------------------------------------------------------------------------
\* verifyStreamFrameService

VerifyStreamFrame(f) ==
    /\ live /\ bans + 1 <= MaxBans /\ FrameTo(f, "idle", "judge")
    /\ UNCHANGED <<rows, modKeys, goLive, slips>>

\* moderateImage: 85 % of confidence make a block, less a warning; a check that fails, or that
\* the breaker refuses, ends the request.
ModerateImage(f) ==
    /\ \E to \in {"idle", "log"} : FrameTo(f, "judge", to)
    /\ UNCHANGED <<rows, modKeys, goLive, slips>>

\* The frame is kept, or not, and logged, or not; a warning goes no further.
LogFrame(f) ==
    /\ \E to \in {"idle", "end"} : FrameTo(f, "log", to)
    /\ UNCHANGED <<rows, modKeys, goLive, slips>>

\* The row is updated whatever it says by now.
EndBlocked(f) ==
    /\ FrameTo(f, "end", "count")
    /\ live' = FALSE
    /\ UNCHANGED <<suspended, restricted, bans, modKeys, goLive, slips>>

CountBans(f) ==
    /\ frame[f].at = "count"
    /\ frame' = [frame EXCEPT ![f] = [at |-> "suspend", no |-> bans + 1]]
    /\ UNCHANGED <<rows, modKeys, goLive, slips>>

BanHours(no) == CASE no = 1 -> 1 [] no = 2 -> 8 [] no = 3 -> 24 [] OTHER -> 72

Crossing == {"crossed" : g \in {h \in GoLives : goLive[h].at # "out"}}

\* The later of two frames sets the time, also when its number is the smaller.
Suspend(f) ==
    /\ FrameTo(f, "suspend", "keys")
    /\ suspended' = BanHours(frame[f].no)
    /\ slips' = slips \cup Crossing
    /\ UNCHANGED <<live, restricted, bans, modKeys, goLive>>

\* The keys, unless Redis is away.
CacheBan(f) ==
    /\ FrameTo(f, "keys", "ban")
    /\ IF answers THEN banKey' = TRUE /\ suspKey' = "true" /\ slips' = slips \cup Crossing
       ELSE UNCHANGED <<banKey, suspKey>> /\ slips' = slips \cup {"keys"}
    /\ UNCHANGED <<rows, answers, goLive>>

CreateBan(f) ==
    /\ FrameTo(f, "ban", "restrict")
    /\ bans' = IF bans < MaxBans THEN bans + 1 ELSE bans
    /\ UNCHANGED <<live, suspended, restricted, modKeys, goLive, slips>>

\* Mutant: a key that is there is enough.
CreateRestrictionUnlessKeyed(f) == restricted' = (restricted \/ ~banKey)
CreateRestriction(f) == restricted' = TRUE

\* The viewers are told, and the room is closed.
FinishBan(f) ==
    /\ FrameTo(f, "restrict", "idle")
    /\ CreateRestriction(f)
    /\ UNCHANGED <<live, suspended, bans, modKeys, goLive, slips>>

\* A write that fails takes the rest of the ban with it; the viewers are told all the same.
BanFails(f) ==
    /\ \E at \in {"count", "suspend", "ban", "restrict"} : FrameTo(f, at, "idle")
    /\ slips' = slips \cup (IF frame[f].at \in {"count", "suspend"} THEN {"all"} ELSE {"row"})
    /\ UNCHANGED <<rows, modKeys, goLive>>

-----------------------------------------------------------------------------
\* fastGoLiveStream: the restriction, the suspension's key with the restriction once more, and
\* the user's row where the key is missing.

GoLiveGoes(g, to) == goLive' = [goLive EXCEPT ![g].at = to]

\* A host is due to be refused once a ban was written and no frame is still at it.
Due == suspended > 0 /\ \A f \in Frames : frame[f].at \in {"idle", "judge", "log", "end"}

StartGoLive(g) ==
    /\ goLive[g].at = "out"
    /\ goLive' = [goLive EXCEPT ![g] = [at |-> "restriction", saw |-> "none", due |-> Due]]
    /\ UNCHANGED <<rows, modKeys, frame, slips>>

\* isUserRestrictedFast: the key, or the row, which is cached; where there is none the key goes,
\* in a later step, and with it a key that was written meanwhile.
AskRestriction(g, from, to) ==
    /\ goLive[g].at = from
    /\ GoLiveGoes(g, IF (answers /\ banKey) \/ restricted THEN "out" ELSE to)
    /\ banKey' = IF answers THEN banKey \/ restricted ELSE banKey
    /\ UNCHANGED <<rows, suspKey, answers, frame, slips>>
ForgetRestriction(g, from, to) ==
    /\ goLive[g].at = from
    /\ GoLiveGoes(g, to)
    /\ banKey' = IF answers THEN FALSE ELSE banKey
    /\ UNCHANGED <<rows, suspKey, answers, frame, slips>>

ReadSuspended(g) ==
    /\ goLive[g].at = "key"
    /\ goLive' = [goLive EXCEPT ![g].at = "again", ![g].saw = IF answers THEN suspKey ELSE "none"]
    /\ UNCHANGED <<rows, modKeys, frame, slips>>

\* The live row of another stream is ended before the new one's: not followed here.
JudgeSuspended(g) ==
    /\ goLive[g].at = "suspended"
    /\ GoLiveGoes(g, IF goLive[g].saw = "true" THEN "out"
                     ELSE IF goLive[g].saw = "false" THEN "insert" ELSE "user")
    /\ UNCHANGED <<rows, modKeys, frame, slips>>

ReadUser(g) ==
    /\ goLive[g].at = "user"
    /\ GoLiveGoes(g, IF suspended > 0 THEN "cacheTrue" ELSE "cacheFalse")
    /\ UNCHANGED <<rows, modKeys, frame, slips>>

CacheUser(g) ==
    /\ goLive[g].at \in {"cacheTrue", "cacheFalse"}
    /\ GoLiveGoes(g, IF goLive[g].at = "cacheTrue" THEN "out" ELSE "insert")
    /\ suspKey' = IF ~answers THEN suspKey
                  ELSE IF goLive[g].at = "cacheTrue" THEN "true" ELSE "false"
    /\ UNCHANGED <<rows, banKey, answers, frame, slips>>

InsertLive(g) ==
    /\ goLive[g].at = "insert"
    /\ live' = TRUE
    /\ GoLiveGoes(g, IF goLive[g].due THEN "slipped" ELSE "out")
    /\ UNCHANGED <<suspended, restricted, bans, modKeys, frame, slips>>

RedisChangesHere == answers' = ~answers /\ UNCHANGED <<rows, banKey, suspKey, frame, goLive, slips>>

\* "true" lives five minutes, "false" an hour, the ban's key as long as the ban.
SuspKeyExpires == suspKey' = "none" /\ UNCHANGED <<rows, banKey, answers, frame, goLive, slips>>

ModerationNext ==
    \/ RedisChangesHere \/ SuspKeyExpires
    \/ \E f \in Frames :
          \/ VerifyStreamFrame(f) \/ ModerateImage(f) \/ LogFrame(f) \/ EndBlocked(f)
          \/ CountBans(f) \/ Suspend(f) \/ CacheBan(f) \/ CreateBan(f) \/ FinishBan(f)
          \/ BanFails(f)
    \/ \E g \in GoLives :
          \/ StartGoLive(g)
          \/ AskRestriction(g, "restriction", "forget") \/ ForgetRestriction(g, "forget", "key")
          \/ AskRestriction(g, "again", "forgetAgain")
          \/ ForgetRestriction(g, "forgetAgain", "suspended")
          \/ ReadSuspended(g) \/ JudgeSuspended(g) \/ ReadUser(g) \/ CacheUser(g)
          \/ InsertLive(g)

ModerationSpec == ModerationInit /\ [][ModerationNext]_modVars

-----------------------------------------------------------------------------
\* A host who goes live after a ban was written is refused, by the restriction, by the key or
\* by the row of the user, also when one of these was lost: it takes a failed restriction row
\* and, besides, keys that could not be set or that a go-live under way has overwritten.
SuspendedRefused ==
    \A g \in GoLives : goLive[g].at = "slipped"
                       => "row" \in slips /\ slips \cap {"keys", "crossed"} # {}
=============================================================================
