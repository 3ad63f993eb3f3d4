---------------------------- MODULE RoomCaches -----------------------------
(***************************************************************************)
(* The rights and settings of a room that live in Postgres and are read    *)
(* through Redis: restrictions of a user, the coin freeze, room admins,    *)
(* the mic and chat permission, and what is shown of the gift catalogue    *)
(* and of a wallet.  A reader that misses goes to the database and fills   *)
(* the key in a later await, whatever has been written meanwhile.  The     *)
(* kinds differ in what they cache, for how long, and in the order of a    *)
(* writer; they share no state, so a behaviour follows one key of one kind.*)
(***************************************************************************)
EXTENDS Integers

CONSTANTS Readers,    \* checks in flight
          MaxWrites   \* bound: changes of the row

\* What a key may hold.
Kinds == {"restriction", "coins", "admin", "permission", "display"}

\* A restriction and an admin are only cached as held; a check that finds none deletes the
\* key of a restriction and leaves the admin set alone.
\* Mutant: the restriction, too.
CachesFalseAlways == Kinds
CachesFalse == {"coins", "permission", "display"}
ClearsOnFalse == {"restriction"}
\* Keys set with EX.  stream:mic_permission, stream:chat_permission, host:admins have none.
Expiring == {"restriction", "coins", "display"}
\* promoteDemoteAdminService writes Redis before Postgres.
CacheFirst == {"admin"}
\* ol-node-rest drops its keys after its commit.
DropsKey == {"display"}

VARIABLES kind,     \* the kind of the key
          row,      \* what Postgres says
          key,      \* what Redis says: "none", "held" or "not"
          ttl,      \* the key expires
          writes,   \* changes made so far
          writer,   \* the change under way: its place and value
          reader    \* each reader: its place, what it read, and whether it must find the row

cacheVars == <<kind, row, key, ttl, writes, writer, reader>>

Says(v) == IF v THEN "held" ELSE "not"
NoWriter == [pc |-> "idle", v |-> FALSE]
NoReader == [pc |-> "idle", saw |-> FALSE, due |-> FALSE]

CachesInit ==
    /\ kind \in Kinds
    /\ row = FALSE /\ key = "none" /\ ttl = FALSE /\ writes = 0
    /\ writer = NoWriter
    /\ reader = [r \in Readers |-> NoReader]

-----------------------------------------------------------------------------
\* Readers.

Hit(k) == key = "held" \/ (key = "not" /\ k \in CachesFalse)

\* The GET of the key.
Ask(r) ==
    /\ reader[r].pc \in {"idle", "yes", "no"}
    /\ reader' = [reader EXCEPT ![r] =
           [pc  |-> IF ~Hit(kind) THEN "db" ELSE IF key = "held" THEN "yes" ELSE "no",
            saw |-> FALSE, due |-> row]]
    /\ UNCHANGED <<kind, row, key, ttl, writes, writer>>

\* The functions that ask: isUserRestrictedFast, checkCoinsFrozenFast, isStreamAdminService and
\* getStreamAdminsService, the two permissions of a room, and what is only displayed, a page of
\* the gift catalogue and the balance of a wallet.
IsUserRestrictedFast(r) == kind = "restriction" /\ Ask(r)
CheckCoinsFrozenFast(r) == kind = "coins" /\ Ask(r)
IsStreamAdmin(r) == kind = "admin" /\ Ask(r)
GetStreamAdmins(r) == kind = "admin" /\ Ask(r)
GetMicPermission(r) == kind = "permission" /\ Ask(r)
GetChatPermission(r) == kind = "permission" /\ Ask(r)
GetActiveGiftCatalogPage(r) == kind = "display" /\ Ask(r)
GetWalletBalance(r) == kind = "display" /\ Ask(r)

Query(r) ==
    /\ reader[r].pc = "db"
    /\ reader' = [reader EXCEPT ![r].pc = "fill", ![r].saw = row]
    /\ UNCHANGED <<kind, row, key, ttl, writes, writer>>

\* getMicPermissionService and getChatPermissionService take a query that fails for the
\* default, and cache it.
QueryFails(r) ==
    /\ kind = "permission" /\ reader[r].pc = "db"
    /\ reader' = [reader EXCEPT ![r].pc = "fill", ![r].saw = FALSE]
    /\ UNCHANGED <<kind, row, key, ttl, writes, writer>>

\* What a reader leaves in Redis, fire and forget for restrictions and coins.
Filled(saw) ==
    IF saw \/ kind \in CachesFalse THEN Says(saw)
    ELSE IF kind \in ClearsOnFalse THEN "none" ELSE key

\* Mutant: the key of a restriction is set without EX.
ExpiresForSome == kind \in Expiring \ {"restriction"}
Expires == kind \in Expiring

Fill(r) ==
    /\ reader[r].pc = "fill"
    /\ key' = Filled(reader[r].saw)
    /\ ttl' = Expires
    /\ reader' = [reader EXCEPT ![r].pc = IF reader[r].saw THEN "yes" ELSE "no"]
    /\ UNCHANGED <<kind, row, writes, writer>>

-----------------------------------------------------------------------------
\* Writers.

\* What a writer leaves in Redis: applying a restriction sets the key and clearing it deletes
\* it; a demotion takes the admin out of the set; the other settings are written as they are.
Written(v) ==
    IF kind \in DropsKey \/ (~v /\ kind \notin CachesFalse) THEN "none" ELSE Says(v)

Change ==
    /\ writer.pc = "idle" /\ writes < MaxWrites
    /\ writes' = writes + 1
    /\ writer' = [pc |-> "first", v |-> ~row]
    /\ UNCHANGED <<kind, row, key, ttl, reader>>

\* The functions that change it.
ChangeRestriction == kind = "restriction" /\ Change
ToggleCoinsFreeze == kind = "coins" /\ Change
PromoteDemoteAdmin == kind = "admin" /\ Change
SetMicPermission == kind = "permission" /\ Change
SetRoomChatPermission == kind = "permission" /\ Change
EditedElsewhere == kind = "display" /\ Change

WriteRow ==
    /\ writer.pc = IF kind \in CacheFirst THEN "second" ELSE "first"
    /\ row' = writer.v
    /\ writer' = [writer EXCEPT !.pc = IF kind \in CacheFirst THEN "idle" ELSE "second"]
    /\ reader' = [r \in Readers |-> [reader[r] EXCEPT !.due = FALSE]]
    /\ UNCHANGED <<kind, key, ttl, writes>>

\* setMicPermissionService and setChatPermissionService go on when the row is not written.
WriteRowFails ==
    /\ kind = "permission" /\ writer.pc = "first"
    /\ writer' = [writer EXCEPT !.pc = "second"]
    /\ UNCHANGED <<kind, row, key, ttl, writes, reader>>

WriteKey ==
    /\ writer.pc = IF kind \in CacheFirst THEN "first" ELSE "second"
    /\ key' = Written(writer.v)
    /\ ttl' = Expires
    /\ writer' = [writer EXCEPT !.pc = IF kind \in CacheFirst THEN "second" ELSE "idle"]
    /\ UNCHANGED <<kind, row, writes, reader>>

\* A time to live runs out.
Expire ==
    /\ ttl /\ key # "none"
    /\ key' = "none"
    /\ UNCHANGED <<kind, row, ttl, writes, writer, reader>>

CachesNext ==
    \/ \E r \in Readers :
          \/ IsUserRestrictedFast(r) \/ CheckCoinsFrozenFast(r)
          \/ IsStreamAdmin(r) \/ GetStreamAdmins(r)
          \/ GetMicPermission(r) \/ GetChatPermission(r)
          \/ GetActiveGiftCatalogPage(r) \/ GetWalletBalance(r)
          \/ Query(r) \/ QueryFails(r) \/ Fill(r)
    \/ ChangeRestriction \/ ToggleCoinsFreeze \/ PromoteDemoteAdmin
    \/ SetMicPermission \/ SetRoomChatPermission \/ EditedElsewhere
    \/ WriteRow \/ WriteRowFails \/ WriteKey
    \/ Expire

CachesSpec == CachesInit /\ [][CachesNext]_cacheVars

-----------------------------------------------------------------------------
\* A restriction in force is never missed: a check that begins after it was committed, and
\* ends before it is cleared, finds it, whatever late fills of earlier checks put into Redis.
\* (A freeze is missed while a late fill's "0" lives, and a demoted admin may stay one.)
RestrictionFound ==
    \A r \in Readers : kind = "restriction" /\ reader[r].due => reader[r].pc # "no"

\* What a late fill left behind does not stay: where the key expires, Redis in the end says
\* what Postgres says, or nothing.  (The admin set and the permissions do not expire: there a
\* late fill of the old value stays until the next change.)
Agrees == kind \in {"restriction", "coins", "display"} => key \in {"none", Says(row)}
KeysAgreeInTheEnd == <>[]Agrees
=============================================================================
