------------------------------- MODULE Gifts -------------------------------
(***************************************************************************)
(* One gift, or paid global message, a client sends: its handlers, one per *)
(* try of the client, the ledger call of each with its retries, the replay *)
(* snapshot of a lucky gift, and what the room is told.  The ledger        *)
(* (ol-node-rest) is external: it answers a request id it has seen with    *)
(* the first answer, refuses a key that was used, and commits otherwise.   *)
(***************************************************************************)
EXTENDS Naturals

CONSTANTS Tries,     \* handlers the client's tries start
          Nodes,     \* processes that may seed the reserve pool
          Rewards,   \* rewards a draw may give
          Attempts,  \* requests of one call at most, three in the code
          Legacy     \* the Redis-era total the pool is seeded with

ASSUME GiftsAssumption == Attempts \in Nat \ {0} /\ Legacy \in Nat \ {0}

NoAnswer == [r |-> "none"]
\* Gifts of a stream and of a call, lucky gifts by REST or send_gift, the lucky socket event,
\* and the global message.
Kinds == {"live", "call", "lucky", "luckySocket", "global"}

VARIABLES kind,
          keyed,    \* the client named its transaction (clientTxId)
          try,      \* each handler: its place, its draw and what it will show
          sent,     \* requests of each handler so far
          wire,     \* requests that may still reach the ledger
          answer,   \* the ledger's answer to each handler's request id
          debits, paid,  \* commits, and the rewards they credited
          snap,     \* lucky:idempotency: the reward in it, if any
          claimed,  \* lucky:emitted
          redis,    \* Redis answers
          emits, said,   \* announcements of the gift in the room, and the rewards in them
          pool,     \* lucky_reserve_pool
          seeding,  \* each process: what it read of the pool
          faulty    \* history: Redis was away

giftVars == <<kind, keyed, try, sent, wire, answer, debits, paid, snap, claimed, redis,
              emits, said, pool, seeding, faulty>>
ledgerVars == <<wire, answer, debits, paid, pool>>
roomTold == <<emits, said>>
rest == <<kind, keyed, redis, seeding, faulty>>

IsLucky == kind \in {"lucky", "luckySocket"}

GiftsInit ==
    /\ kind \in Kinds
    \* The global message's controller passes no clientTxId on.
    /\ keyed \in IF kind = "global" THEN {FALSE} ELSE BOOLEAN
    /\ try = [t \in Tries |-> [pc |-> "new", draw |-> 0, show |-> {}]]
    /\ sent = [t \in Tries |-> 0] /\ wire = sent
    /\ answer = [t \in Tries |-> NoAnswer]
    /\ debits = 0 /\ paid = {} /\ snap = {} /\ claimed = FALSE
    /\ redis = TRUE /\ faulty = FALSE
    /\ emits = 0 /\ said = {}
    /\ pool = [seeded |-> FALSE, total |-> 0]
    /\ seeding = [n \in Nodes |-> "new"]

-----------------------------------------------------------------------------
\* The handler up to its ledger call.

Goes(t, place, d, show) ==
    /\ try[t].pc = "new"
    /\ try' = [try EXCEPT ![t] = [pc |-> place, draw |-> d, show |-> show]]
    /\ UNCHANGED <<sent, ledgerVars, snap, claimed, roomTold, rest>>

\* sendStreamGiftService, sendGift of a call and sendGlobalMessageService: past their checks.
SendStreamGift(t) == kind = "live" /\ Goes(t, "call", 0, {})
SendCallGift(t) == kind = "call" /\ Goes(t, "call", 0, {})
SendGlobalMessage(t) == kind = "global" /\ Goes(t, "call", 0, {})

\* sendLuckyGiftService: a gift that has a snapshot is answered from it; else it is drawn here
\* and now.
SendLuckyGift(t) ==
    /\ IsLucky /\ (keyed => redis)
    /\ IF keyed /\ snap # {}
       THEN Goes(t, "names", 0, snap)
       ELSE \E d \in Rewards : Goes(t, "call", d, {})

-----------------------------------------------------------------------------
\* callLedger: one request id, chosen before the first attempt.

Request(t) ==
    /\ try[t].pc = "call" /\ sent[t] < Attempts
    /\ sent' = [sent EXCEPT ![t] = @ + 1]
    /\ wire' = [wire EXCEPT ![t] = @ + 1]
    /\ try' = [try EXCEPT ![t].pc = "wait"]
    /\ UNCHANGED <<answer, debits, paid, pool, snap, claimed, roomTold, rest>>

\* A connection error or a 502, 503, 504: try again while attempts are left.
Retry(t) ==
    /\ try[t].pc = "wait"
    /\ try' = [try EXCEPT ![t].pc = IF sent[t] < Attempts THEN "call" ELSE "failed"]
    /\ UNCHANGED <<sent, ledgerVars, snap, claimed, roomTold, rest>>

\* An attempt that times out leaves no time for another: the outcome is not known.
TimeOut(t) ==
    /\ try[t].pc = "wait"
    /\ try' = [try EXCEPT ![t].pc = "failed"]
    /\ UNCHANGED <<sent, ledgerVars, snap, claimed, roomTold, rest>>

\* The ledger's key of the transaction: the client's, or one of this handler alone.
KeyUsedNever(t) == FALSE
KeyUsed(t) == keyed /\ debits > 0

\* What the ledger (external) makes of a request that arrives; with water_v1 it draws the
\* reward itself, a gift that is not lucky pays none.
Serve(t) ==
    /\ wire[t] > 0
    /\ wire' = [wire EXCEPT ![t] = @ - 1]
    /\ \/ /\ answer[t].r # "none" \/ KeyUsed(t)
          /\ answer' = [answer EXCEPT ![t] = IF @.r = "none" THEN [r |-> "used"] ELSE @]
          /\ UNCHANGED <<debits, paid, pool>>
       \/ /\ answer[t].r = "none" /\ ~KeyUsed(t)
          /\ answer' = [answer EXCEPT ![t] = [r |-> "refused"]]
          /\ UNCHANGED <<debits, paid, pool>>
       \/ /\ answer[t].r = "none" /\ ~KeyUsed(t)
          /\ \E w \in (IF IsLucky THEN Rewards ELSE {}) \cup {try[t].draw} :
                /\ answer' = [answer EXCEPT ![t] = [r |-> "ok", reward |-> w]]
                /\ paid' = paid \cup {w}
          /\ debits' = debits + 1
          /\ pool' = IF IsLucky THEN [pool EXCEPT !.total = @ + 1] ELSE pool
    /\ UNCHANGED <<try, sent, snap, claimed, roomTold, rest>>

Lose(t) ==
    /\ wire[t] > 0
    /\ wire' = [wire EXCEPT ![t] = @ - 1]
    /\ UNCHANGED <<try, sent, answer, debits, paid, pool, snap, claimed, roomTold, rest>>

\* Mutant: the app is shown the local draw, whichever engine the ledger ran.
ShownDraw(t) == try[t].draw
Shown(t) == answer[t].reward

Answered(t) ==
    /\ try[t].pc = "wait" /\ answer[t].r # "none"
    /\ try' = [try EXCEPT ![t].pc = IF answer[t].r # "ok" THEN "failed"
                                    ELSE IF IsLucky /\ keyed THEN "store"
                                    ELSE IF IsLucky THEN "names" ELSE "emit",
                          ![t].show = IF answer[t].r = "ok" THEN {Shown(t)} ELSE {}]
    /\ UNCHANGED <<sent, ledgerVars, snap, claimed, roomTold, rest>>

-----------------------------------------------------------------------------
\* After the commit.

\* The replay snapshot; without Redis the handler fails, though the gift is paid.
Store(t) ==
    /\ try[t].pc = "store"
    /\ snap' = IF redis THEN try[t].show ELSE snap
    /\ try' = [try EXCEPT ![t].pc = IF redis THEN "names" ELSE "failed"]
    /\ UNCHANGED <<sent, ledgerVars, claimed, roomTold, rest>>

\* send_lucky_gift looks for the receiver's name in a column users do not have: with a
\* receiver it fails here.
LookUpNames(t) ==
    /\ try[t].pc = "names"
    /\ \E ok \in IF kind = "luckySocket" THEN BOOLEAN ELSE {TRUE} :
          try' = [try EXCEPT ![t].pc = IF ok THEN "claim" ELSE "failed"]
    /\ UNCHANGED <<sent, ledgerVars, snap, claimed, roomTold, rest>>

\* withLuckyEmitOnce: SET NX of the transaction's key, the same for all tries that name one; a
\* failing Redis rather tells the room twice.
ClaimEmit(t) ==
    /\ try[t].pc = "claim"
    /\ claimed' = (claimed \/ (keyed /\ redis))
    /\ try' = [try EXCEPT ![t].pc = IF keyed /\ redis /\ claimed THEN "done" ELSE "emit"]
    /\ UNCHANGED <<sent, ledgerVars, snap, roomTold, rest>>

Emit(t) ==
    /\ try[t].pc = "emit"
    /\ emits' = emits + 1
    /\ said' = said \cup try[t].show
    /\ try' = [try EXCEPT ![t].pc = "done"]
    /\ UNCHANGED <<sent, ledgerVars, snap, claimed, rest>>

\* The controllers and socket handlers that tell the room, both sides of a call, or all rooms.
TellRoomByRest(t) == kind \in {"live", "lucky"} /\ Emit(t)
TellRoomBySocket(t) == kind \in {"live", "lucky"} /\ Emit(t)
TellRoomOfLucky(t) == IsLucky /\ Emit(t)
TellCall(t) == kind = "call" /\ Emit(t)
TellAllRooms(t) == kind = "global" /\ Emit(t)

RedisTurns ==
    /\ ~faulty \/ ~redis
    /\ redis' = ~redis /\ faulty' = TRUE
    /\ UNCHANGED <<kind, keyed, try, sent, ledgerVars, snap, claimed, roomTold, seeding>>

-----------------------------------------------------------------------------
\* ensureSeeded, before the first draw of a process.

SeedRead(n) ==
    /\ seeding[n] = "new" /\ IsLucky
    /\ seeding' = [seeding EXCEPT ![n] = IF pool.seeded THEN "checked" ELSE "insert"]
    /\ UNCHANGED <<kind, keyed, redis, faulty, try, sent, ledgerVars, snap, claimed, roomTold>>

SeedInsert(n) ==
    /\ seeding[n] = "insert"
    /\ pool' = IF pool.seeded THEN pool ELSE [seeded |-> TRUE, total |-> pool.total + Legacy]
    /\ seeding' = [seeding EXCEPT ![n] = "checked"]
    /\ UNCHANGED <<kind, keyed, redis, faulty, try, sent, wire, answer, debits, paid, snap,
                   claimed, roomTold>>

GiftsNext ==
    \/ \E t \in Tries :
          \/ SendStreamGift(t) \/ SendCallGift(t) \/ SendGlobalMessage(t) \/ SendLuckyGift(t)
          \/ Request(t) \/ Retry(t) \/ TimeOut(t) \/ Serve(t) \/ Lose(t)
          \/ Answered(t) \/ Store(t) \/ LookUpNames(t) \/ ClaimEmit(t)
          \/ TellRoomByRest(t) \/ TellRoomBySocket(t) \/ TellRoomOfLucky(t)
          \/ TellCall(t) \/ TellAllRooms(t)
    \/ RedisTurns
    \/ \E n \in Nodes : SeedRead(n) \/ SeedInsert(n)

GiftsSpec == GiftsInit /\ [][GiftsNext]_giftVars

-----------------------------------------------------------------------------
\* A gift whose client names its transaction is charged once, however often the client tries
\* again and however late a request the server gave up on arrives.
ChargedOnce == keyed => debits <= 1

\* What the room is told was paid, and with the reward the ledger credited: a second try may
\* draw another one, and the ledger may draw its own.
ShownIsPaid == said \subseteq paid

\* A lucky gift is shown in the room at most once while Redis answers.
LuckyShownOnce == keyed /\ IsLucky /\ ~faulty => emits <= 1

\* The pool that steers the draws counts the Redis era once and every paid lucky gift.
PoolIsExact == IsLucky => pool.total = debits + IF pool.seeded THEN Legacy ELSE 0

\* A gift tried again happens once: in the ledger, in the pool and in the room.
HappensOnce == ChargedOnce /\ LuckyShownOnce /\ PoolIsExact
=============================================================================
