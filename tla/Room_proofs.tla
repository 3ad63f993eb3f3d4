---------------------------- MODULE Room_proofs ----------------------------
(***************************************************************************)
(* What belongs to a stream's room: the gift gallery, the cached           *)
(* restrictions, the seats, the chat and the bans, for any users,          *)
(* requests, readers, frames and bounds.                                   *)
(***************************************************************************)
EXTENDS RoomSeats, RoomCaches, RoomChat, GiftGallery, Moderation, TLAPS

-----------------------------------------------------------------------------
(* The gift gallery *)

LookPlaces == {"idle", "gallery", "del", "add", "items", "flag", "progress", "query", "cache",
               "gotFlag", "show", "member", "collect", "row"}
SomeGifts == Presents \cup {NoPresent}
LookType == [at : LookPlaces, gift : SomeGifts, read : SUBSET SomeGifts]

\* What one request knows of the cached set and the rows: a set it is about to mark as loaded
\* has every row, and the gift it is about to save is in the set.
Knows(l, cached, inDb) ==
    /\ l.at = "cache" => inDb \subseteq cached \cup l.read
    /\ l.at = "gotFlag" => inDb \subseteq cached
    /\ l.at = "row" => l.gift \in cached

GalleryInv ==
    /\ CollectedIsShown
    /\ collected \subseteq SomeGifts /\ lapsed \in BOOLEAN
    /\ look \in [Looks -> LookType]
    /\ ~lapsed => \A r \in Looks : Knows(look[r], got, collected)

\* One request moves on; the cached set grows, and every new row is in it.
LEMMA OneLook ==
    ASSUME GalleryInv, NEW r \in Looks, NEW l \in LookType, UNCHANGED lapsed,
           ~lapsed => Knows(l, got', collected') /\ collected' \subseteq collected \cup got',
           look' = [look EXCEPT ![r] = l], got \subseteq got', collected' \subseteq SomeGifts,
           gotLoaded' => gotLoaded \/ lapsed \/ collected \subseteq got
    PROVE  GalleryInv'
<1>1. look' \in [Looks -> LookType]
  BY DEF GalleryInv
<1>2. CollectedIsShown'
  BY DEF GalleryInv, CollectedIsShown
<1>3. ASSUME NEW s \in Looks, ~lapsed PROVE Knows(look'[s], got', collected')
  <2>1. CASE s = r
    BY <1>3, <2>1 DEF GalleryInv
  <2>2. CASE s # r
    BY <1>3, <2>2 DEF GalleryInv, Knows
  <2> QED
    BY <2>1, <2>2
<1> QED
  BY <1>1, <1>2, <1>3 DEF GalleryInv

\* A request that begins, ends or moves to a place where it need know nothing.
LEMMA LookMoves ==
    ASSUME GalleryInv, NEW r \in Looks, NEW l \in LookType, look' = [look EXCEPT ![r] = l],
           l.at \notin {"cache", "gotFlag", "row"}, UNCHANGED <<got, collected, lapsed>>,
           gotLoaded' => gotLoaded \/ lapsed \/ collected \subseteq got
    PROVE  GalleryInv'
<1>1. collected \subseteq SomeGifts
  BY DEF GalleryInv
<1>2. Knows(l, got', collected')
  BY DEF Knows
<1> QED
  BY <1>1, <1>2, OneLook

LEMMA LookToKeeps ==
    ASSUME GalleryInv, NEW r \in Looks,
           \/ SeekGallery(r) \/ DelIds(r) \/ AddIds(r) \/ SetItems(r) \/ SetLoaded(r)
           \/ SeekProgress(r) \/ SetGotLoaded(r)
    PROVE  GalleryInv'
<1>1. UNCHANGED <<got, collected, lapsed>>
  BY DEF SeekGallery, DelIds, AddIds, SetItems, SetLoaded, SeekProgress, SetGotLoaded
<1>2. PICK place \in LookPlaces \ {"cache", "gotFlag", "row"} :
         look' = [look EXCEPT ![r].at = place]
  BY DEF SeekGallery, DelIds, AddIds, SetItems, SetLoaded, SeekProgress, SetGotLoaded, LookTo,
         LookPlaces
<1>3. gotLoaded' => gotLoaded \/ lapsed \/ collected \subseteq got
  <2>1. CASE SetGotLoaded(r)
    <3>1. look[r].at = "gotFlag"
      BY <2>1 DEF SetGotLoaded, LookTo
    <3> QED
      BY <3>1 DEF GalleryInv, Knows
  <2>2. CASE ~SetGotLoaded(r)
    BY <2>2 DEF SeekGallery, DelIds, AddIds, SetItems, SetLoaded, SeekProgress
  <2> QED
    BY <2>1, <2>2
<1> DEFINE l == [look[r] EXCEPT !.at = place]
<1>4. l \in LookType /\ l.at = place
  BY DEF GalleryInv, LookType
<1>5. look' = [look EXCEPT ![r] = l]
  BY <1>2
<1> HIDE DEF l
<1> QED
  BY <1>1, <1>3, <1>4, <1>5, LookMoves

LEMMA OtherLooksKeep ==
    ASSUME GalleryInv, NEW r \in Looks,
           \/ \E g \in Presents \cup {NoPresent} : AskGallery(r, g)
           \/ IsMember(r) \/ ShowGallery(r) \/ LookFails(r)
    PROVE  GalleryInv'
<1>1. look[r] \in LookType
  BY DEF GalleryInv
<1>2. UNCHANGED <<got, gotLoaded, collected, lapsed>>
  BY DEF AskGallery, IsMember, ShowGallery, LookFails
<1>3. \E l \in LookType : l.at \notin {"cache", "gotFlag", "row"} /\ look' = [look EXCEPT ![r] = l]
  <2>1. CASE \E g \in Presents \cup {NoPresent} : AskGallery(r, g)
    <3>1. PICK g \in SomeGifts : AskGallery(r, g)
      BY <2>1 DEF SomeGifts
    <3> DEFINE l == [at |-> "gallery", gift |-> g, read |-> {}]
    <3>2. l \in LookType /\ look' = [look EXCEPT ![r] = l]
      BY <3>1 DEF AskGallery, LookType, LookPlaces
    <3> QED
      BY <3>2
  <2>2. CASE ShowGallery(r) \/ LookFails(r)
    <3>1. NoLook \in LookType /\ NoLook.at = "idle"
      BY DEF NoLook, LookType, LookPlaces, SomeGifts
    <3>2. look' = [look EXCEPT ![r] = NoLook]
      BY <2>2 DEF ShowGallery, LookFails, LookEnds
    <3> QED
      BY <3>1, <3>2
  <2>3. CASE IsMember(r)
    <3> DEFINE onward == [look[r] EXCEPT !.at = "collect"]
               again == [NoLook EXCEPT !.at = "gallery"]
    <3>1. onward \in LookType /\ onward.at = "collect"
      BY <1>1 DEF LookType, LookPlaces
    <3>2. again \in LookType /\ again.at = "gallery"
      BY DEF NoLook, LookType, LookPlaces, SomeGifts
    <3>3. look' = [look EXCEPT ![r] = onward] \/ look' = [look EXCEPT ![r] = again]
      BY <2>3 DEF IsMember
    <3> HIDE DEF onward, again
    <3> QED
      BY <3>1, <3>2, <3>3
  <2> QED
    BY <2>1, <2>2, <2>3
<1> QED
  BY <1>2, <1>3, LookMoves

\* The rows are read; the cached set grows by them, or by a gift that is collected.
LEMMA SetsKeep ==
    ASSUME GalleryInv, NEW r \in Looks,
           QueryProgress(r) \/ CacheProgress(r) \/ Collect(r) \/ SaveRow(r)
    PROVE  GalleryInv'
<1>1. look[r] \in LookType /\ (~lapsed => Knows(look[r], got, collected))
      /\ collected \subseteq SomeGifts /\ look[r].gift \in SomeGifts
  BY DEF GalleryInv, LookType
<1>2. CASE QueryProgress(r)
  <2> DEFINE l == [look[r] EXCEPT !.at = "cache", !.read = collected]
  <2>1. l \in LookType /\ l.at = "cache" /\ l.read = collected
    BY <1>1 DEF LookType, LookPlaces
  <2>2. /\ look' = [look EXCEPT ![r] = l] /\ UNCHANGED <<got, gotLoaded, collected>>
        /\ lapsed' = (lapsed /\ (gotLoaded \/ Filling # {}))
    BY <1>2 DEF QueryProgress
  <2> HIDE DEF l
  <2>3. Knows(l, got', collected')
    BY <2>1, <2>2 DEF Knows
  <2>4. CASE gotLoaded \/ Filling # {}
    <3>1. lapsed' = lapsed
      BY <2>2, <2>4 DEF GalleryInv
    <3> QED
      BY <1>1, <2>1, <2>2, <2>3, <3>1, OneLook
  <2>5. CASE ~gotLoaded /\ Filling = {}
    <3>1. ASSUME NEW s \in Looks PROVE Knows(look'[s], got', collected')
      <4>1. CASE s = r
        BY <2>2, <2>3, <4>1 DEF GalleryInv
      <4>2. CASE s # r
        BY <2>2, <2>5, <4>2 DEF GalleryInv, Knows, Filling
      <4> QED
        BY <4>1, <4>2
    <3> QED
      BY <2>1, <2>2, <2>5, <3>1 DEF GalleryInv, CollectedIsShown
  <2> QED
    BY <2>2, <2>4, <2>5
<1>3. CASE CacheProgress(r)
  <2> DEFINE l == [look[r] EXCEPT !.at = "gotFlag"]
  <2>1. l \in LookType /\ l.at = "gotFlag"
    BY <1>1 DEF LookType, LookPlaces
  <2>2. /\ look' = [look EXCEPT ![r] = l] /\ UNCHANGED <<gotLoaded, collected, lapsed>>
        /\ look[r].at = "cache" /\ got' = got \cup look[r].read
    BY <1>3 DEF CacheProgress, LookTo, Cached
  <2> HIDE DEF l
  <2>3. ~lapsed => Knows(l, got', collected')
    BY <1>1, <2>1, <2>2 DEF Knows
  <2> QED
    BY <1>1, <2>1, <2>2, <2>3, OneLook
<1>4. CASE Collect(r)
  <2> DEFINE l == [look[r] EXCEPT !.at = "row"]
  <2>1. l \in LookType /\ l.at = "row" /\ l.gift = look[r].gift
    BY <1>1 DEF LookType, LookPlaces
  <2>2. /\ look' = [look EXCEPT ![r] = l] /\ UNCHANGED <<gotLoaded, collected, lapsed>>
        /\ got' = got \cup {look[r].gift}
    BY <1>4 DEF Collect, LookTo
  <2> HIDE DEF l
  <2>3. Knows(l, got', collected')
    BY <2>1, <2>2 DEF Knows
  <2> QED
    BY <1>1, <2>1, <2>2, <2>3, OneLook
<1>5. CASE SaveRow(r)
  <2> DEFINE l == [NoLook EXCEPT !.at = "gallery"]
  <2>1. l \in LookType /\ l.at = "gallery"
    BY DEF NoLook, LookType, LookPlaces, SomeGifts
  <2>2. /\ look' = [look EXCEPT ![r] = l] /\ UNCHANGED <<got, gotLoaded, lapsed>>
        /\ look[r].at = "row" /\ collected' \subseteq collected \cup {look[r].gift}
    BY <1>5 DEF SaveRow
  <2> HIDE DEF l
  <2>3. ~lapsed => look[r].gift \in got
    BY <1>1, <2>2 DEF Knows
  <2>4. Knows(l, got', collected')
    BY <2>1 DEF Knows
  <2> QED
    BY <1>1, <2>1, <2>2, <2>3, <2>4, OneLook
<1> QED
  BY <1>2, <1>3, <1>4, <1>5

\* While a host's progress counts as loaded, every gift with a row is in the cached set: for
\* any number of requests that load the progress and collect gifts at once, or fail, and keys
\* that expire one by one; a set that expired under its flag, or under a request that was filling
\* it, is short until the next load (ensureHostProgressCached, processGiftGalleryProgress).
THEOREM AllIsShown == GallerySpec => []CollectedIsShown
<1>1. GalleryInit => GalleryInv
  <2> SUFFICES ASSUME GalleryInit PROVE GalleryInv
    OBVIOUS
  <2>1. NoLook \in LookType /\ \A r \in Looks : look[r] = NoLook /\ NoLook.at = "idle"
    BY DEF GalleryInit, NoLook, LookType, LookPlaces, SomeGifts
  <2>2. look \in [Looks -> LookType]
    BY <2>1 DEF GalleryInit
  <2>3. \A r \in Looks : Knows(look[r], got, collected)
    BY <2>1 DEF Knows
  <2> QED
    BY <2>2, <2>3 DEF GalleryInit, GalleryInv, CollectedIsShown
<1>2. GalleryInv /\ [GalleryNext]_galleryVars => GalleryInv'
  <2> SUFFICES ASSUME GalleryInv, [GalleryNext]_galleryVars PROVE GalleryInv'
    OBVIOUS
  <2>1. CASE GalleryExpires \/ FlagExpires
    <3>1. UNCHANGED <<look, collected, got, lapsed>> /\ (gotLoaded' => gotLoaded)
      BY <2>1 DEF GalleryExpires, FlagExpires
    <3> QED
      BY <3>1 DEF GalleryInv, CollectedIsShown, Knows
  <2>3. CASE SetExpires
    <3>1. UNCHANGED <<look, collected, gotLoaded>>
      BY <2>3 DEF SetExpires
    <3>2. lapsed' \in BOOLEAN /\ (~lapsed' => ~gotLoaded /\ Filling = {})
      BY <2>3 DEF SetExpires
    <3>3. ~lapsed' => \A r \in Looks : Knows(look[r], got', collected)
      BY <3>2 DEF Knows, Filling
    <3> QED
      BY <3>1, <3>2, <3>3 DEF GalleryInv, CollectedIsShown
  <2>2. CASE UNCHANGED galleryVars
    BY <2>2 DEF galleryVars, GalleryInv, CollectedIsShown, Knows
  <2> QED
    BY <2>1, <2>2, <2>3, LookToKeeps, OtherLooksKeep, SetsKeep DEF GalleryNext
<1>3. GalleryInv => CollectedIsShown
  BY DEF GalleryInv
<1> QED
  BY <1>1, <1>2, <1>3, PTL DEF GallerySpec

-----------------------------------------------------------------------------
(* Cached restrictions *)

Reader == [pc : {"idle", "db", "fill", "yes", "no"}, saw : BOOLEAN, due : BOOLEAN]

\* A check that must find the restriction is on its way to it: the row is there still.
Finds(d) == kind = "restriction" /\ d.due => row /\ d.pc # "no" /\ (d.pc = "fill" => d.saw)

CachesInv ==
    /\ kind \in Kinds /\ row \in BOOLEAN
    /\ writer \in [pc : {"idle", "first", "second"}, v : BOOLEAN]
    /\ reader \in [Readers -> Reader]
    /\ \A r \in Readers : Finds(reader[r])

LEMMA OneReader ==
    ASSUME CachesInv, NEW r \in Readers, NEW d \in Reader, Finds(d),
           reader' = [reader EXCEPT ![r] = d], UNCHANGED <<kind, row, writer>>
    PROVE  CachesInv'
<1>1. \A s \in Readers : Finds(reader'[s])
  BY DEF CachesInv
<1>2. \A s \in Readers : Finds(reader[s])'
  BY <1>1 DEF Finds
<1> QED
  BY <1>2 DEF CachesInv

LEMMA AskKeeps == ASSUME CachesInv, NEW r \in Readers, Ask(r) PROVE CachesInv'
<1> DEFINE d == [pc  |-> IF ~Hit(kind) THEN "db" ELSE IF key = "held" THEN "yes" ELSE "no",
                 saw |-> FALSE, due |-> row]
<1>1. d \in Reader
  BY DEF CachesInv, Reader
<1>2. Finds(d)
  BY DEF Finds, Hit, CachesFalse
<1>3. reader' = [reader EXCEPT ![r] = d] /\ UNCHANGED <<kind, row, writer>>
  BY DEF Ask
<1> HIDE DEF d
<1> QED
  BY <1>1, <1>2, <1>3, OneReader

LEMMA QueryAndFillKeep ==
    ASSUME CachesInv, NEW r \in Readers, Query(r) \/ QueryFails(r) \/ Fill(r) PROVE CachesInv'
<1>1. reader[r] \in Reader /\ Finds(reader[r]) /\ UNCHANGED <<kind, row, writer>>
  BY DEF CachesInv, Query, QueryFails, Fill
<1>2. CASE Query(r) \/ QueryFails(r)
  <2>1. PICK v \in BOOLEAN : /\ reader' = [reader EXCEPT ![r].pc = "fill", ![r].saw = v]
                             /\ kind = "restriction" => v = row
    BY <1>2 DEF Query, QueryFails, CachesInv
  <2> DEFINE d == [reader[r] EXCEPT !.pc = "fill", !.saw = v]
  <2>2. d \in Reader /\ d.pc = "fill" /\ d.saw = v /\ d.due = reader[r].due
    BY <1>1 DEF Reader
  <2>3. reader' = [reader EXCEPT ![r] = d]
    BY <2>1
  <2> HIDE DEF d
  <2>4. Finds(d)
    BY <1>1, <2>1, <2>2 DEF Finds
  <2> QED
    BY <1>1, <2>2, <2>3, <2>4, OneReader
<1>3. CASE Fill(r)
  <2> DEFINE answer == IF reader[r].saw THEN "yes" ELSE "no"
             d == [reader[r] EXCEPT !.pc = answer]
  <2>1. reader' = [reader EXCEPT ![r] = d] /\ reader[r].pc = "fill"
    BY <1>3 DEF Fill
  <2>2. d \in Reader /\ d.pc = answer /\ d.due = reader[r].due
    BY <1>1 DEF Reader
  <2> HIDE DEF d
  <2>3. Finds(d)
    BY <1>1, <2>1, <2>2 DEF Finds
  <2> QED
    BY <1>1, <2>1, <2>2, <2>3, OneReader
<1> QED
  BY <1>2, <1>3

\* Changes of the row: no check that began before must find what is there after.
LEMMA WritersKeep ==
    ASSUME CachesInv, Change \/ WriteRow \/ WriteRowFails \/ WriteKey \/ Expire
    PROVE  CachesInv'
<1>1. CASE WriteRow
  <2>1. row' \in BOOLEAN /\ writer' \in [pc : {"idle", "first", "second"}, v : BOOLEAN]
        /\ kind' = kind
    BY <1>1 DEF WriteRow, CachesInv
  <2>2. \A r \in Readers : [reader[r] EXCEPT !.due = FALSE] \in Reader
                           /\ [reader[r] EXCEPT !.due = FALSE].due = FALSE
    BY DEF CachesInv, Reader
  <2>3. reader' = [r \in Readers |-> [reader[r] EXCEPT !.due = FALSE]]
    BY <1>1 DEF WriteRow
  <2>4. reader' \in [Readers -> Reader] /\ \A r \in Readers : reader'[r].due = FALSE
    BY <2>2, <2>3
  <2> QED
    BY <2>1, <2>4 DEF CachesInv, Finds
<1>2. CASE ~WriteRow
  <2>1. UNCHANGED <<kind, row, reader>>
    BY <1>2 DEF Change, WriteRowFails, WriteKey, Expire
  <2>2. writer' \in [pc : {"idle", "first", "second"}, v : BOOLEAN]
    <3>1. CASE Change
      BY <3>1 DEF Change, CachesInv
    <3>2. CASE \E to \in {"idle", "second"} : writer' = [writer EXCEPT !.pc = to]
      BY <3>2 DEF CachesInv
    <3>3. CASE UNCHANGED writer
      BY <3>3 DEF CachesInv
    <3> QED
      BY <1>2, <3>1, <3>2, <3>3 DEF WriteRowFails, WriteKey, Expire
  <2> QED
    BY <2>1, <2>2 DEF CachesInv, Finds
<1> QED
  BY <1>1, <1>2

\* A restriction in force is never missed, by any number of checks and changes, whatever their
\* late fills leave in Redis and whenever its keys expire (isUserRestrictedFast).
THEOREM NoneMissed == CachesSpec => []RestrictionFound
<1>1. CachesInit => CachesInv
  <2> SUFFICES ASSUME CachesInit PROVE CachesInv
    OBVIOUS
  <2>1. NoReader \in Reader /\ Finds(NoReader)
    BY DEF NoReader, Reader, Finds
  <2>2. NoWriter \in [pc : {"idle", "first", "second"}, v : BOOLEAN]
    BY DEF NoWriter
  <2> QED
    BY <2>1, <2>2 DEF CachesInit, CachesInv
<1>2. CachesInv /\ [CachesNext]_cacheVars => CachesInv'
  <2> SUFFICES ASSUME CachesInv, [CachesNext]_cacheVars PROVE CachesInv'
    OBVIOUS
  <2>1. CASE UNCHANGED cacheVars
    BY <2>1 DEF cacheVars, CachesInv, Finds
  <2>2. ASSUME NEW r \in Readers,
               \/ IsUserRestrictedFast(r) \/ CheckCoinsFrozenFast(r)
               \/ IsStreamAdmin(r) \/ GetStreamAdmins(r)
               \/ GetMicPermission(r) \/ GetChatPermission(r)
               \/ GetActiveGiftCatalogPage(r) \/ GetWalletBalance(r)
        PROVE  CachesInv'
    BY <2>2, AskKeeps DEF IsUserRestrictedFast, CheckCoinsFrozenFast, IsStreamAdmin,
       GetStreamAdmins, GetMicPermission, GetChatPermission, GetActiveGiftCatalogPage,
       GetWalletBalance
  <2>3. CASE \/ ChangeRestriction \/ ToggleCoinsFreeze \/ PromoteDemoteAdmin
             \/ SetMicPermission \/ SetRoomChatPermission \/ EditedElsewhere
    BY <2>3, WritersKeep DEF ChangeRestriction, ToggleCoinsFreeze, PromoteDemoteAdmin,
       SetMicPermission, SetRoomChatPermission, EditedElsewhere
  <2> QED
    BY <2>1, <2>2, <2>3, QueryAndFillKeep, WritersKeep DEF CachesNext
<1>3. CachesInv => RestrictionFound
  BY DEF CachesInv, Finds, RestrictionFound
<1> QED
  BY <1>1, <1>2, <1>3, PTL DEF CachesSpec

-----------------------------------------------------------------------------
(* Seats *)

Handler == [k : {"join", "host", "self", "fire", "lift"}, u : Users, m : BOOLEAN,
            pc : {"add", "look", "get", "put", "timer"},
            w : {NoSeat} \cup [at : {"seat"}, muted : BOOLEAN, byHost : BOOLEAN, until : Int]]

SeatsTyped ==
    /\ clock \in Nat
    /\ seat \in [Users -> {NoSeat} \cup [at : {"seat"}, muted : BOOLEAN, byHost : BOOLEAN, until : Int]]
    /\ restr \in [Users -> {"no", "yes", "cleared"}]
    /\ op \in [Requests -> {Idle} \cup Handler]

\* Kicked for a restriction in force, with no handler under way at the time.
Barred(u) == restr[u] = "yes" /\ u \notin kickDue /\ u \notin late

\* A handler that has yet to look at the seat of its user: an empty seat ends it.
Looking(o) == o.pc \in {"look", "get"}

OffInv == \A u \in Users : Barred(u) =>
              /\ ~Seated(u) /\ u \notin reading
              /\ \A r \in Requests : op[r] # Idle /\ op[r].u = u => Looking(op[r])

SeatsInv == SeatsTyped /\ OffInv

\* One handler takes a step without touching a seat.
LEMMA OneHandler ==
    ASSUME SeatsInv, NEW r \in Requests, NEW o \in {Idle} \cup Handler,
           op' = [op EXCEPT ![r] = o], late \subseteq late',
           o # Idle /\ Barred(o.u) => Looking(o) \/ o.u \in late',
           UNCHANGED <<clock, seat, restr, kickDue, reading>>
    PROVE  SeatsInv'
<1>1. SeatsTyped'
  BY DEF SeatsInv, SeatsTyped
<1>2. ASSUME NEW u \in Users, Barred(u)'
      PROVE  /\ ~Seated(u)' /\ u \notin reading'
             /\ \A q \in Requests : op'[q] # Idle /\ op'[q].u = u => Looking(op'[q])
  <2>1. Barred(u) /\ u \notin late'
    BY <1>2 DEF Barred
  <2>2. ~Seated(u)' /\ u \notin reading'
    BY <2>1 DEF SeatsInv, OffInv, Seated
  <2>3. ASSUME NEW q \in Requests, op'[q] # Idle, op'[q].u = u
        PROVE  Looking(op'[q])
    BY <2>1, <2>3 DEF SeatsInv, SeatsTyped, OffInv
  <2> QED
    BY <2>2, <2>3
<1>3. OffInv'
  BY <1>2 DEF OffInv, Looking
<1> QED
  BY <1>1, <1>3 DEF SeatsInv

\* A new handler: only one that looks first can begin for a user who is barred.
LEMMA StartKeeps ==
    ASSUME SeatsInv, NEW r \in Requests, NEW u \in Users, NEW m \in BOOLEAN,
           NEW k \in {"join", "host", "self", "fire", "lift"}, NEW p \in {"add", "look", "get"},
           p = "add" => ~Barred(u), Start(r, k, u, m, p)
    PROVE  SeatsInv'
<1> DEFINE o == [k |-> k, u |-> u, m |-> m, pc |-> p, w |-> NoSeat]
<1>1. o \in Handler /\ o.u = u /\ o.pc = p
  BY DEF Handler
<1>2. op' = [op EXCEPT ![r] = o] /\ UNCHANGED <<clock, seat, restr, kickDue, reading, late>>
  BY DEF Start
<1> HIDE DEF o
<1> QED
  BY <1>1, <1>2, OneHandler DEF Looking

LEMMA BeginsKeep ==
    ASSUME SeatsInv, NEW r \in Requests, NEW u \in Users,
           \/ AcceptInvite(r, u) \/ RequestToJoin(r, u) \/ AcceptRequest(r, u)
           \/ UnmuteFires(r, u) \/ LiftRuns(r, u)
           \/ \E m \in BOOLEAN : HostToggle(r, u, m) \/ SelfToggle(r, u, m)
    PROVE  SeatsInv'
<1>1. CASE TakeSeat(r, u)
  <2>1. Start(r, "join", u, FALSE, "add") /\ MayAnswer(u, FALSE)
    BY <1>1 DEF TakeSeat
  <2>2. ~Barred(u)
    BY <2>1 DEF MayAnswer, Barred
  <2> QED
    BY <2>1, <2>2, StartKeeps
<1>2. CASE UnmuteFires(r, u) \/ LiftRuns(r, u)
  <2>1. \E k \in {"fire", "lift"} : Start(r, k, u, FALSE, "look")
    BY <1>2 DEF UnmuteFires, LiftRuns
  <2> QED
    BY <2>1, StartKeeps
<1>3. CASE \E m \in BOOLEAN : HostToggle(r, u, m) \/ SelfToggle(r, u, m)
  <2>1. \E m \in BOOLEAN, k \in {"host", "self"}, p \in {"get", "look"} : Start(r, k, u, m, p)
    BY <1>3 DEF HostToggle, SelfToggle
  <2> QED
    BY <2>1, StartKeeps
<1> QED
  BY <1>1, <1>2, <1>3 DEF AcceptInvite, RequestToJoin, AcceptRequest

\* A check that failed lets anybody in, which the history remembers.
LEMMA CheckFailsKeeps ==
    ASSUME SeatsInv, NEW r \in Requests, NEW u \in Users, CheckFails(r, u) PROVE SeatsInv'
<1> DEFINE o == [k |-> "join", u |-> u, m |-> FALSE, pc |-> "add", w |-> NoSeat]
<1>1. o \in Handler /\ o.u = u
  BY DEF Handler
<1>2. op' = [op EXCEPT ![r] = o] /\ late' = late \cup {u}
      /\ UNCHANGED <<clock, seat, restr, kickDue, reading>>
  BY DEF CheckFails
<1> HIDE DEF o
<1> QED
  BY <1>1, <1>2, OneHandler

LEMMA HandlerOf ==
    ASSUME SeatsInv, NEW r \in Requests, op[r] # Idle
    PROVE  /\ op[r] \in Handler /\ op[r].u \in Users
           /\ Barred(op[r].u) => Looking(op[r]) /\ ~Seated(op[r].u)
BY DEF SeatsInv, SeatsTyped, OffInv, Handler

\* A handler ends.
LEMMA FinishKeeps ==
    ASSUME SeatsInv, NEW r \in Requests, Finish(r),
           UNCHANGED <<clock, seat, restr, kickDue, reading, late>>
    PROVE  SeatsInv'
BY OneHandler DEF Finish

LEMMA AddKeeps ==
    ASSUME SeatsInv, NEW r \in Requests, op[r].pc = "add", Add(r),
           UNCHANGED <<clock, seat, restr, kickDue, reading, late>>
    PROVE  SeatsInv'
<1>1. op[r] # Idle
  BY DEF Idle
<1>2. op[r] \in Handler /\ ~Barred(op[r].u)
  BY <1>1, HandlerOf DEF Looking
<1>3. PICK ans \in BOOLEAN : op' = [op EXCEPT ![r].pc = "put", ![r].w = Seat(ans, ans, None)]
  BY DEF Add
<1> DEFINE w == Seat(ans, ans, None)
           o == [op[r] EXCEPT !.pc = "put", !.w = w]
<1>4. w \in [at : {"seat"}, muted : BOOLEAN, byHost : BOOLEAN, until : Int]
  BY DEF Seat, None
<1>5. o \in Handler /\ o.u = op[r].u
  <2> HIDE DEF w
  <2> QED
    BY <1>2, <1>4 DEF Handler
<1>6. op' = [op EXCEPT ![r] = o]
  BY <1>3
<1> HIDE DEF o
<1> QED
  BY <1>2, <1>5, <1>6, OneHandler

LEMMA LookKeeps ==
    ASSUME SeatsInv, NEW r \in Requests, op[r].pc = "look", Look(r),
           UNCHANGED <<clock, seat, restr, kickDue, reading, late>>
    PROVE  SeatsInv'
<1>1. op[r] \in Handler
  BY HandlerOf DEF Idle
<1>2. CASE Finish(r)
  BY <1>2, FinishKeeps
<1>3. CASE op' = [op EXCEPT ![r].pc = "get"]
  <2> DEFINE o == [op[r] EXCEPT !.pc = "get"]
  <2>1. o \in Handler /\ o.pc = "get"
    BY <1>1 DEF Handler
  <2>2. op' = [op EXCEPT ![r] = o]
    BY <1>3
  <2> HIDE DEF o
  <2> QED
    BY <2>1, <2>2, OneHandler DEF Looking
<1> QED
  BY <1>2, <1>3 DEF Look

\* The read of the seat: a barred user has none, and the handler ends.
LEMMA GetKeeps ==
    ASSUME SeatsInv, NEW r \in Requests, op[r].pc = "get", Get(r),
           UNCHANGED <<clock, seat, restr, kickDue, reading, late>>
    PROVE  SeatsInv'
<1>1. op[r] # Idle
  BY DEF Idle
<1>2. op[r] \in Handler /\ (Barred(op[r].u) => ~Seated(op[r].u))
  BY <1>1, HandlerOf
<1>3. CASE Finish(r)
  BY <1>3, FinishKeeps
<1>4. CASE ~Finish(r)
  <2> DEFINE h == op[r].k = "host" /\ op[r].m
             w == Seat(op[r].m, h, IF h THEN clock + MuteFor ELSE None)
             o == [op[r] EXCEPT !.pc = "put", !.w = w]
  <2>1. Seated(op[r].u) /\ op' = [op EXCEPT ![r] = o]
    BY <1>4 DEF Get
  <2>2. w \in [at : {"seat"}, muted : BOOLEAN, byHost : BOOLEAN, until : Int]
    <3>1. op[r].m \in BOOLEAN /\ h \in BOOLEAN
      BY <1>2 DEF Handler
    <3>2. (IF h THEN clock + MuteFor ELSE None) \in Int
      BY SeatsAssumption DEF SeatsInv, SeatsTyped, None
    <3> HIDE DEF h
    <3> QED
      BY <3>1, <3>2 DEF Seat
  <2> HIDE DEF w
  <2>3. o \in Handler /\ o.u = op[r].u
    BY <1>2, <2>2 DEF Handler
  <2> HIDE DEF o
  <2> QED
    BY <1>2, <2>1, <2>3, OneHandler
<1> QED
  BY <1>3, <1>4

\* The write: never of a barred user's seat.
LEMMA PutKeeps ==
    ASSUME SeatsInv, NEW r \in Requests, op[r].pc = "put", Put(r),
           UNCHANGED <<clock, restr, kickDue, reading, late>>
    PROVE  SeatsInv'
<1>1. op[r] # Idle
  BY DEF Idle
<1>2. op[r] \in Handler /\ op[r].u \in Users /\ ~Barred(op[r].u)
  BY <1>1, HandlerOf DEF Looking
<1>3. seat' = [seat EXCEPT ![op[r].u] = op[r].w]
  BY DEF Put
<1>4. PICK o \in {Idle} \cup Handler : op' = [op EXCEPT ![r] = o] /\ (o # Idle => o.u = op[r].u)
  <2>1. [op[r] EXCEPT !.pc = "timer"] \in Handler /\ [op[r] EXCEPT !.pc = "timer"].u = op[r].u
    BY <1>2 DEF Handler
  <2> QED
    BY <2>1 DEF Put, Finish
<1>5. SeatsTyped'
  <2>1. op[r].w \in {NoSeat} \cup [at : {"seat"}, muted : BOOLEAN, byHost : BOOLEAN, until : Int]
    BY <1>2 DEF Handler
  <2> QED
    BY <1>3, <1>4, <2>1 DEF SeatsInv, SeatsTyped
<1>6. ASSUME NEW u \in Users, Barred(u)'
      PROVE  /\ ~Seated(u)' /\ u \notin reading'
             /\ \A q \in Requests : op'[q] # Idle /\ op'[q].u = u => Looking(op'[q])
  <2>1. Barred(u) /\ u # op[r].u
    BY <1>2, <1>6 DEF Barred
  <2>2. ~Seated(u)' /\ u \notin reading'
    BY <1>3, <2>1 DEF SeatsInv, SeatsTyped, OffInv, Seated
  <2>3. ASSUME NEW q \in Requests, op'[q] # Idle, op'[q].u = u
        PROVE  Looking(op'[q])
    BY <1>4, <2>1, <2>3 DEF SeatsInv, SeatsTyped, OffInv
  <2> QED
    BY <2>2, <2>3
<1>7. OffInv'
  BY <1>6 DEF OffInv, Looking
<1> QED
  BY <1>5, <1>7 DEF SeatsInv

LEMMA SeatStepKeeps == ASSUME SeatsInv, NEW r \in Requests, Step(r) PROVE SeatsInv'
<1>1. CASE op[r].pc = "timer" /\ SetTimer(r) /\ UNCHANGED <<clock, seat, restr, kickDue, reading, late>>
  BY <1>1, FinishKeeps DEF SetTimer
<1> QED
  BY <1>1, AddKeeps, LookKeeps, GetKeeps, PutKeeps DEF Step

\* What happens to seats and restrictions besides: nobody who is barred gets a seat, and who
\* becomes barred has none.
LEMMA RoomKeeps ==
    ASSUME SeatsInv,
           \/ \E u \in Users :
                 \/ ReadSheet(u) \/ Rewrite(u)
                 \/ LeaveSheet(u) \/ RemoveFromSheet(u) \/ SocketGone(u)
                 \/ ApplyRestriction(u) \/ Kick(u) \/ ClearRestriction(u) \/ RestrictionRunsOut(u)
           \/ EmptyForCall \/ SeatsTick
    PROVE  SeatsInv'
<1>1. UNCHANGED op
  BY DEF ReadSheet, Rewrite, LeaveSheet, RemoveFromSheet, SocketGone, StandUp, ApplyRestriction,
         Kick, ClearRestriction, RestrictionRunsOut, EmptyForCall, SeatsTick
<1>2. SeatsTyped'
  <2>1. clock' \in Nat
    <3>1. clock' = clock \/ clock' = clock + 1
      BY DEF ReadSheet, Rewrite, LeaveSheet, RemoveFromSheet, SocketGone, StandUp,
             ApplyRestriction, Kick, ClearRestriction, RestrictionRunsOut, EmptyForCall, SeatsTick
    <3> QED
      BY <3>1 DEF SeatsInv, SeatsTyped
  <2>2. restr' \in [Users -> {"no", "yes", "cleared"}]
    BY DEF SeatsInv, SeatsTyped, ReadSheet, Rewrite, LeaveSheet, RemoveFromSheet, SocketGone, StandUp,
           ApplyRestriction, Kick, ClearRestriction, RestrictionRunsOut, EmptyForCall, SeatsTick
  <2>3. Seat(FALSE, FALSE, None) \in [at : {"seat"}, muted : BOOLEAN, byHost : BOOLEAN, until : Int]
    BY DEF Seat, None
  <2>4. \/ UNCHANGED seat
        \/ \E u \in Users : seat' = [seat EXCEPT ![u] = NoSeat]
        \/ \E u \in Users : seat' = [seat EXCEPT ![u] = Seat(FALSE, FALSE, None)]
        \/ seat' = [u \in Users |-> NoSeat]
    BY DEF ReadSheet, Rewrite, LeaveSheet, RemoveFromSheet, SocketGone, StandUp,
           ApplyRestriction, Kick, ClearRestriction, RestrictionRunsOut, EmptyForCall, SeatsTick
  <2>5. seat' \in [Users -> {NoSeat} \cup [at : {"seat"}, muted : BOOLEAN, byHost : BOOLEAN, until : Int]]
    BY <2>3, <2>4 DEF SeatsInv, SeatsTyped
  <2> QED
    BY <1>1, <2>1, <2>2, <2>5 DEF SeatsInv, SeatsTyped
<1>3. ASSUME NEW u \in Users, Barred(u)'
      PROVE  /\ ~Seated(u)' /\ u \notin reading'
             /\ \A q \in Requests : op[q] # Idle /\ op[q].u = u => Looking(op[q])
  <2>1. CASE Barred(u)
    <3>1. ~Seated(u) /\ u \notin reading
          /\ \A q \in Requests : op[q] # Idle /\ op[q].u = u => Looking(op[q])
      BY <2>1 DEF SeatsInv, OffInv
    <3>2. u \notin reading'
      BY <3>1 DEF ReadSheet, Rewrite, LeaveSheet, RemoveFromSheet, SocketGone, StandUp,
         ApplyRestriction, Kick, ClearRestriction, RestrictionRunsOut, EmptyForCall, SeatsTick
    <3>3. \/ seat'[u] = seat[u] \/ seat'[u] = NoSeat
      BY <3>1 DEF SeatsInv, SeatsTyped, ReadSheet, Rewrite, LeaveSheet, RemoveFromSheet, SocketGone,
         StandUp, ApplyRestriction, Kick, ClearRestriction, RestrictionRunsOut, EmptyForCall, SeatsTick
    <3> QED
      BY <3>1, <3>2, <3>3 DEF Seated, NoSeat
  <2>2. CASE ~Barred(u)
    <3>1. Kick(u)
      BY <1>3, <2>2 DEF Barred, SeatsInv, SeatsTyped, ReadSheet, Rewrite, LeaveSheet, RemoveFromSheet,
         SocketGone, StandUp, ApplyRestriction, Kick, ClearRestriction, RestrictionRunsOut,
         EmptyForCall, SeatsTick
    <3>2. u \notin late'
      BY <1>3 DEF Barred
    <3>3. u \notin reading /\ \A q \in Requests : ~(op[q] # Idle /\ op[q].u = u)
      BY <3>1, <3>2 DEF Kick
    <3>4. reading' = reading /\ seat'[u] = NoSeat
      BY <3>1 DEF Kick, SeatsInv, SeatsTyped
    <3> QED
      BY <3>3, <3>4 DEF Seated, NoSeat
  <2> QED
    BY <2>1, <2>2
<1> QED
  BY <1>1, <1>2, <1>3 DEF SeatsInv, OffInv, Looking

\* Whom a restriction has taken off the seats stays off them, for any users and requests: a
\* handler that begins after the kick is refused or finds no seat to write back
\* (addUserToSheetService, toggleUserSheetMuteService, applyUserRestrictionService).
THEOREM BarredStayOff == SeatsSpec => []RestrictedOffSeats
<1>1. SeatsInit => SeatsInv
  <2> SUFFICES ASSUME SeatsInit PROVE SeatsInv
    OBVIOUS
  <2>1. SeatsTyped
    BY DEF SeatsInit, SeatsTyped
  <2>2. OffInv
    BY DEF SeatsInit, OffInv, Barred
  <2> QED
    BY <2>1, <2>2 DEF SeatsInv
<1>2. SeatsInv /\ [SeatsNext]_seatVars => SeatsInv'
  <2> SUFFICES ASSUME SeatsInv, [SeatsNext]_seatVars PROVE SeatsInv'
    OBVIOUS
  <2>1. CASE UNCHANGED seatVars
    BY <2>1 DEF seatVars, SeatsInv, SeatsTyped, OffInv, Barred, Seated, Looking
  <2> QED
    BY <2>1, BeginsKeep, CheckFailsKeeps, SeatStepKeeps, RoomKeeps DEF SeatsNext
<1>3. SeatsInv => RestrictedOffSeats
  BY DEF SeatsInv, OffInv, Barred, RestrictedOffSeats
<1> QED
  BY <1>1, <1>2, <1>3, PTL DEF SeatsSpec

-----------------------------------------------------------------------------
(* Bans *)

FramePlaces == {"idle", "judge", "log", "end", "count", "suspend", "keys", "ban", "restrict"}
GoLivePlaces == {"out", "restriction", "forget", "key", "again", "forgetAgain", "suspended", "user",
                 "cacheTrue", "cacheFalse", "insert", "slipped"}
GoLive == [at : GoLivePlaces, saw : {"none", "true", "false"}, due : BOOLEAN]

ModTyped ==
    /\ frame \in [Frames -> [at : FramePlaces, no : Nat]]
    /\ goLive \in [GoLives -> GoLive]
    /\ bans \in Nat
    /\ restricted \in BOOLEAN /\ banKey \in BOOLEAN /\ answers \in BOOLEAN
    /\ suspKey \in {"none", "true", "false"}

Banned == suspended > 0
Slip == slips \cap {"keys", "crossed"} # {}
Setting == \E f \in Frames : frame[f].at = "keys"

\* A ban has its restriction, or is about to, or its row was lost; and the key does not deny
\* it, unless it is about to be set or went wrong.
BanWritten ==
    Banned => /\ \/ restricted \/ "row" \in slips
                 \/ \E f \in Frames : frame[f].at \in {"keys", "ban", "restrict"}
              /\ suspKey = "false" => Slip \/ Setting

\* What a go-live that should be refused has come past, at each place.
Refusable(l) ==
    /\ l.at = "cacheFalse" /\ Banned => "crossed" \in slips
    /\ l.due /\ l.at # "out" =>
          /\ Banned
          /\ restricted \/ "row" \in slips
          /\ Setting => "crossed" \in slips
          /\ l.at # "restriction" => "row" \in slips
          /\ l.at \in {"again", "forgetAgain", "suspended"} /\ l.saw = "false" => Slip
          /\ l.at \in {"insert", "slipped"} => Slip
    /\ l.at = "slipped" => l.due

ModInv == ModTyped /\ BanWritten /\ \A g \in GoLives : Refusable(goLive[g])

\* A go-live takes a step that writes no row of the ban.
LEMMA OneGoLive ==
    ASSUME ModInv, NEW g \in GoLives, NEW l \in GoLive, Refusable(l),
           goLive' = [goLive EXCEPT ![g] = l],
           UNCHANGED <<suspended, restricted, bans, answers, frame, slips>>,
           banKey' \in BOOLEAN, suspKey' \in {"none", "true", "false"},
           suspKey' = "false" /\ Banned => suspKey = "false" \/ Slip
    PROVE  ModInv'
<1>1. ModTyped'
  BY DEF ModInv, ModTyped
<1>2. BanWritten'
  BY DEF ModInv, BanWritten, Banned, Slip, Setting
<1>3. \A h \in GoLives : Refusable(goLive'[h])
  BY DEF ModInv, ModTyped
<1>4. \A h \in GoLives : Refusable(goLive[h])'
  BY <1>3 DEF Refusable, Banned, Slip, Setting
<1> QED
  BY <1>1, <1>2, <1>4 DEF ModInv

\* A go-live that only moves on, leaving what it knows.
LEMMA GoLiveMoves ==
    ASSUME ModInv, NEW g \in GoLives, NEW to \in GoLivePlaces, GoLiveGoes(g, to),
           Refusable([goLive[g] EXCEPT !.at = to]),
           UNCHANGED <<suspended, restricted, bans, answers, frame, slips>>,
           banKey' \in BOOLEAN, suspKey' \in {"none", "true", "false"},
           suspKey' = "false" /\ Banned => suspKey = "false" \/ Slip
    PROVE  ModInv'
<1> DEFINE l == [goLive[g] EXCEPT !.at = to]
<1>1. l \in GoLive /\ Refusable(l)
  BY DEF ModInv, ModTyped, GoLive
<1>2. goLive' = [goLive EXCEPT ![g] = l]
  BY DEF GoLiveGoes
<1> HIDE DEF l
<1> QED
  BY <1>1, <1>2, OneGoLive

LEMMA GoLiveOf ==
    ASSUME ModInv, NEW g \in GoLives, NEW to \in GoLivePlaces
    PROVE  /\ goLive[g] \in GoLive /\ Refusable(goLive[g])
           /\ [goLive[g] EXCEPT !.at = to].at = to
           /\ [goLive[g] EXCEPT !.at = to].saw = goLive[g].saw
           /\ [goLive[g] EXCEPT !.at = to].due = goLive[g].due
BY DEF ModInv, ModTyped, GoLive

LEMMA StartGoLiveKeeps == ASSUME ModInv, NEW g \in GoLives, StartGoLive(g) PROVE ModInv'
<1> DEFINE l == [at |-> "restriction", saw |-> "none", due |-> Due]
<1>1. l \in GoLive
  BY DEF GoLive, GoLivePlaces, Due
<1>2. Due => Banned /\ ~Setting /\ (restricted \/ "row" \in slips)
  BY DEF ModInv, BanWritten, Banned, Due, Setting
<1>3. Refusable(l)
  BY <1>2 DEF Refusable
<1>4. goLive' = [goLive EXCEPT ![g] = l] /\ UNCHANGED <<rows, modKeys, frame, slips>>
  BY DEF StartGoLive
<1>5. banKey' \in BOOLEAN /\ suspKey' \in {"none", "true", "false"} /\ suspKey' = suspKey
      /\ UNCHANGED <<suspended, restricted, bans, answers, frame, slips>>
  BY <1>4 DEF modKeys, rows, ModInv, ModTyped
<1> HIDE DEF l
<1> QED
  BY <1>1, <1>3, <1>4, <1>5, OneGoLive

\* The restriction: with a row the go-live ends here.
LEMMA RestrictionKeeps ==
    ASSUME ModInv, NEW g \in GoLives,
           \/ AskRestriction(g, "restriction", "forget")
           \/ AskRestriction(g, "again", "forgetAgain")
           \/ ForgetRestriction(g, "forget", "key")
           \/ ForgetRestriction(g, "forgetAgain", "suspended")
    PROVE  ModInv'
<1>1. UNCHANGED <<suspended, restricted, bans, answers, frame, slips, suspKey>>
  BY DEF AskRestriction, ForgetRestriction, rows
<1>2. banKey' \in BOOLEAN /\ suspKey' \in {"none", "true", "false"}
  BY <1>1 DEF AskRestriction, ForgetRestriction, ModInv, ModTyped
<1>3. PICK to \in {"out", "forget", "forgetAgain", "key", "suspended"} :
         /\ GoLiveGoes(g, to)
         /\ to = "out" \/ \/ goLive[g].at = "restriction" /\ to = "forget" /\ ~restricted
                          \/ goLive[g].at = "again" /\ to = "forgetAgain"
                          \/ goLive[g].at = "forget" /\ to = "key"
                          \/ goLive[g].at = "forgetAgain" /\ to = "suspended"
  BY DEF AskRestriction, ForgetRestriction
<1>4. to \in GoLivePlaces
  BY DEF GoLivePlaces
<1>5. Refusable([goLive[g] EXCEPT !.at = to])
  <2> DEFINE l == [goLive[g] EXCEPT !.at = to]
  <2>1. Refusable(goLive[g]) /\ l.at = to /\ l.saw = goLive[g].saw /\ l.due = goLive[g].due
    BY <1>4, GoLiveOf
  <2> HIDE DEF l
  <2>2. Refusable(l)
    BY <1>3, <2>1 DEF Refusable
  <2> QED
    BY <2>2 DEF l
<1> QED
  BY <1>1, <1>2, <1>3, <1>4, <1>5, GoLiveMoves

\* The key of the suspension is read here and judged after the second look at the restriction.
LEMMA ReadSuspendedKeeps == ASSUME ModInv, NEW g \in GoLives, ReadSuspended(g) PROVE ModInv'
<1> DEFINE told == IF answers THEN suspKey ELSE "none"
           l == [goLive[g] EXCEPT !.at = "again", !.saw = told]
<1>1. goLive[g] \in GoLive /\ Refusable(goLive[g]) /\ goLive[g].at = "key"
  BY DEF ModInv, ModTyped, ReadSuspended
<1>2. told \in {"none", "true", "false"} /\ (told = "false" => suspKey = "false")
  BY DEF ModInv, ModTyped
<1>3. goLive' = [goLive EXCEPT ![g] = l]
  BY DEF ReadSuspended
<1> HIDE DEF told
<1>4. l \in GoLive /\ l.at = "again" /\ l.saw = told /\ l.due = goLive[g].due
  BY <1>1, <1>2 DEF GoLive, GoLivePlaces
<1>5. UNCHANGED <<suspended, restricted, bans, answers, frame, slips, banKey, suspKey>>
  BY DEF ReadSuspended, rows, modKeys
<1>6. banKey' \in BOOLEAN /\ suspKey' \in {"none", "true", "false"}
  BY <1>5 DEF ModInv, ModTyped
<1> HIDE DEF l
<1>7. Refusable(l)
  BY <1>1, <1>2, <1>4 DEF Refusable, ModInv, BanWritten, Slip
<1> QED
  BY <1>3, <1>4, <1>5, <1>6, <1>7, OneGoLive

LEMMA LastStepsKeep ==
    ASSUME ModInv, NEW g \in GoLives,
           JudgeSuspended(g) \/ ReadUser(g) \/ CacheUser(g) \/ InsertLive(g)
    PROVE  ModInv'
<1>1. UNCHANGED <<suspended, restricted, bans, answers, frame, slips, banKey>>
  BY DEF JudgeSuspended, ReadUser, CacheUser, InsertLive, rows, modKeys
<1>2. banKey' \in BOOLEAN /\ suspKey' \in {"none", "true", "false"}
  BY <1>1 DEF JudgeSuspended, ReadUser, CacheUser, InsertLive, modKeys, ModInv, ModTyped
<1>3. Refusable(goLive[g]) /\ goLive[g] \in GoLive
  BY DEF ModInv, ModTyped
<1>4. suspKey' = "false" /\ Banned => suspKey = "false" \/ Slip
  <2>1. CASE CacheUser(g) /\ goLive[g].at = "cacheFalse"
    BY <1>3, <2>1 DEF Refusable, Slip
  <2>2. CASE ~(CacheUser(g) /\ goLive[g].at = "cacheFalse")
    BY <2>2 DEF JudgeSuspended, ReadUser, CacheUser, InsertLive, modKeys
  <2> QED
    BY <2>1, <2>2
<1>5. PICK to \in {"out", "insert", "user", "cacheTrue", "cacheFalse", "slipped"} :
         /\ GoLiveGoes(g, to)
         /\ \/ to = "out" /\ (goLive[g].at = "insert" => ~goLive[g].due)
            \/ goLive[g].at = "suspended" /\ to = "insert" /\ goLive[g].saw = "false"
            \/ goLive[g].at = "suspended" /\ to = "user"
            \/ goLive[g].at = "user" /\ to = "cacheTrue"
            \/ goLive[g].at = "user" /\ to = "cacheFalse" /\ ~Banned
            \/ goLive[g].at = "cacheFalse" /\ to = "insert"
            \/ goLive[g].at = "insert" /\ to = "slipped" /\ goLive[g].due
  BY DEF JudgeSuspended, ReadUser, CacheUser, InsertLive, Banned
<1>6. to \in GoLivePlaces
  BY DEF GoLivePlaces
<1>7. Refusable([goLive[g] EXCEPT !.at = to])
  <2> DEFINE l == [goLive[g] EXCEPT !.at = to]
  <2>1. l.at = to /\ l.saw = goLive[g].saw /\ l.due = goLive[g].due
    BY <1>6, GoLiveOf
  <2> HIDE DEF l
  <2>2. Refusable(l)
    BY <1>3, <1>5, <2>1 DEF Refusable, Slip
  <2> QED
    BY <2>2 DEF l
<1> QED
  BY <1>1, <1>2, <1>4, <1>5, <1>6, <1>7, GoLiveMoves

-----------------------------------------------------------------------------
\* A frame moves on: it may write the restriction, or record a slip, but no suspension or key.
LEMMA FrameMoves ==
    ASSUME ModInv, NEW f \in Frames, NEW e \in [at : FramePlaces, no : Nat],
           frame' = [frame EXCEPT ![f] = e], bans' \in Nat,
           UNCHANGED <<suspended, banKey, suspKey, answers, goLive>>,
           restricted' \in BOOLEAN, restricted => restricted', slips \subseteq slips',
           e.at = "keys" => frame[f].at = "keys", frame[f].at = "keys" => e.at = "keys",
           frame[f].at \in {"ban", "restrict"} =>
               e.at \in {"ban", "restrict"} \/ restricted' \/ "row" \in slips'
    PROVE  ModInv'
<1>1. ModTyped'
  BY DEF ModInv, ModTyped
<1>2. \A h \in Frames : frame'[h] = IF h = f THEN e ELSE frame[h]
  BY DEF ModInv, ModTyped
<1>3. (Setting <=> Setting') /\ (Banned <=> Banned') /\ (Slip => Slip')
  BY <1>2 DEF Setting, Banned, Slip
<1>4. BanWritten'
  <2> SUFFICES ASSUME Banned
               PROVE  /\ \/ restricted' \/ "row" \in slips'
                         \/ \E h \in Frames : frame'[h].at \in {"keys", "ban", "restrict"}
                      /\ suspKey' = "false" => Slip' \/ Setting'
    BY <1>3 DEF BanWritten
  <2>1. suspKey' = "false" => Slip' \/ Setting'
    BY <1>3 DEF ModInv, BanWritten
  <2>2. CASE restricted \/ "row" \in slips
    BY <2>1, <2>2
  <2>3. CASE \E h \in Frames : frame[h].at \in {"keys", "ban", "restrict"}
    <3>1. PICK h \in Frames : frame[h].at \in {"keys", "ban", "restrict"}
      BY <2>3
    <3>2. CASE h = f
      BY <1>2, <2>1, <3>1, <3>2
    <3>3. CASE h # f
      BY <1>2, <2>1, <3>1, <3>3
    <3> QED
      BY <3>2, <3>3
  <2> QED
    BY <2>2, <2>3 DEF ModInv, BanWritten
<1>5. ASSUME NEW g \in GoLives PROVE Refusable(goLive[g])'
  BY <1>3 DEF ModInv, Refusable
<1> QED
  BY <1>1, <1>4, <1>5 DEF ModInv

LEMMA FramesKeep ==
    ASSUME ModInv, NEW f \in Frames,
           \/ VerifyStreamFrame(f) \/ ModerateImage(f) \/ LogFrame(f) \/ EndBlocked(f)
           \/ CountBans(f) \/ CreateBan(f) \/ FinishBan(f) \/ BanFails(f)
    PROVE  ModInv'
<1>1. frame[f] \in [at : FramePlaces, no : Nat] /\ bans \in Nat
  BY DEF ModInv, ModTyped
<1>2. UNCHANGED <<suspended, banKey, suspKey, answers, goLive>>
  BY DEF VerifyStreamFrame, ModerateImage, LogFrame, EndBlocked, CountBans, CreateBan, FinishBan,
         BanFails, rows, modKeys
<1>3. restricted' \in BOOLEAN /\ (restricted => restricted') /\ slips \subseteq slips' /\ bans' \in Nat
  <2>1. restricted' = restricted \/ restricted' = TRUE
    BY DEF VerifyStreamFrame, ModerateImage, LogFrame, EndBlocked, CountBans, CreateBan, FinishBan,
           CreateRestriction, BanFails, rows
  <2>2. bans' = bans \/ bans' = bans + 1
    BY DEF VerifyStreamFrame, ModerateImage, LogFrame, EndBlocked, CountBans, CreateBan, FinishBan,
           BanFails, rows
  <2>3. slips \subseteq slips'
    BY DEF VerifyStreamFrame, ModerateImage, LogFrame, EndBlocked, CountBans, CreateBan, FinishBan,
           BanFails, rows
  <2>4. restricted' \in BOOLEAN /\ (restricted => restricted')
    BY <2>1 DEF ModInv, ModTyped
  <2> QED
    BY <1>1, <2>2, <2>3, <2>4
<1>4. CASE CountBans(f)
  <2> DEFINE e == [at |-> "suspend", no |-> bans + 1]
  <2>1. e \in [at : FramePlaces, no : Nat] /\ e.at = "suspend"
    BY <1>1 DEF FramePlaces
  <2>2. frame' = [frame EXCEPT ![f] = e] /\ frame[f].at = "count"
    BY <1>4 DEF CountBans
  <2> HIDE DEF e
  <2> QED
    BY <1>2, <1>3, <2>1, <2>2, FrameMoves
<1>5. CASE ~CountBans(f)
  <2>1. PICK to \in FramePlaces :
           /\ FrameTo(f, frame[f].at, to)
           /\ to # "keys" /\ frame[f].at # "keys"
           /\ frame[f].at \in {"ban", "restrict"} => to \in {"restrict"} \/ restricted' \/ "row" \in slips'
    BY <1>5 DEF VerifyStreamFrame, ModerateImage, LogFrame, EndBlocked, CreateBan, FinishBan,
       CreateRestriction, BanFails, FrameTo, FramePlaces
  <2> DEFINE e == [frame[f] EXCEPT !.at = to]
  <2>2. e \in [at : FramePlaces, no : Nat] /\ e.at = to
    BY <1>1
  <2>3. frame' = [frame EXCEPT ![f] = e]
    BY <2>1 DEF FrameTo
  <2> HIDE DEF e
  <2> QED
    BY <1>2, <1>3, <2>1, <2>2, <2>3, FrameMoves
<1> QED
  BY <1>4, <1>5

\* The suspension is written: a go-live under way may cross it.
LEMMA SuspendKeeps == ASSUME ModInv, NEW f \in Frames, Suspend(f) PROVE ModInv'
<1>1. frame[f] \in [at : FramePlaces, no : Nat] /\ frame' = [frame EXCEPT ![f].at = "keys"]
      /\ UNCHANGED <<restricted, bans, banKey, suspKey, answers, goLive>>
      /\ slips' = slips \cup Crossing
  BY DEF ModInv, ModTyped, Suspend, FrameTo, modKeys
<1>2. [frame[f] EXCEPT !.at = "keys"] \in [at : FramePlaces, no : Nat]
  BY <1>1 DEF FramePlaces
<1>3. ModTyped'
  BY <1>1, <1>2 DEF ModInv, ModTyped
<1>4. frame'[f].at = "keys" /\ Setting'
  BY <1>1 DEF ModInv, ModTyped, Setting
<1>5. BanWritten'
  BY <1>4 DEF BanWritten
<1>6. suspended' > 0
  BY DEF Suspend, BanHours
<1>7. ASSUME NEW g \in GoLives PROVE Refusable(goLive[g])'
  <2>1. goLive[g].at # "out" => "crossed" \in slips'
    BY <1>1 DEF Crossing
  <2>2. Refusable(goLive[g])
    BY DEF ModInv
  <2> QED
    BY <1>1, <1>6, <2>1, <2>2 DEF Refusable, Banned, Slip
<1> QED
  BY <1>3, <1>5, <1>7 DEF ModInv

\* The keys: set, or lost with Redis away.
LEMMA CacheBanKeeps == ASSUME ModInv, NEW f \in Frames, CacheBan(f) PROVE ModInv'
<1>1. /\ frame[f] \in [at : FramePlaces, no : Nat] /\ frame' = [frame EXCEPT ![f].at = "ban"]
      /\ frame[f].at = "keys"
      /\ UNCHANGED <<suspended, restricted, bans, answers, goLive>>
      /\ slips \subseteq slips'
  BY DEF ModInv, ModTyped, CacheBan, FrameTo, rows
<1>2. banKey' \in BOOLEAN /\ suspKey' \in {"none", "true", "false"}
  BY DEF ModInv, ModTyped, CacheBan
<1>3. [frame[f] EXCEPT !.at = "ban"] \in [at : FramePlaces, no : Nat]
  BY <1>1 DEF FramePlaces
<1>4. ModTyped'
  BY <1>1, <1>2, <1>3 DEF ModInv, ModTyped
<1>5. frame'[f].at = "ban"
  BY <1>1 DEF ModInv, ModTyped
<1>6. suspKey' = "false" => Slip'
  BY DEF CacheBan, Slip
<1>7. BanWritten'
  BY <1>5, <1>6 DEF BanWritten
<1>8. Setting' => Setting
  BY <1>1 DEF Setting, ModInv, ModTyped
<1>9. ASSUME NEW g \in GoLives PROVE Refusable(goLive[g])'
  <2>1. Refusable(goLive[g]) /\ (Slip => Slip')
    BY <1>1 DEF ModInv, Slip
  <2> QED
    BY <1>1, <1>8, <2>1 DEF Refusable, Banned
<1> QED
  BY <1>4, <1>7, <1>9 DEF ModInv

\* A host who goes live after a ban was written is refused, for any number of frames judged and
\* go-lives under way, unless the restriction's row was lost and, besides, a key that could not
\* be set or that a go-live crossed denied it (verifyStreamFrameService, fastGoLiveStream).
THEOREM BannedRefused == ModerationSpec => []SuspendedRefused
<1>1. ModerationInit => ModInv
  <2> SUFFICES ASSUME ModerationInit PROVE ModInv
    OBVIOUS
  <2>1. NoGoLive \in GoLive /\ Refusable(NoGoLive)
    BY DEF NoGoLive, GoLive, GoLivePlaces, Refusable
  <2>2. ModTyped
    BY <2>1 DEF ModerationInit, ModTyped, FramePlaces
  <2>3. BanWritten
    BY DEF ModerationInit, BanWritten, Banned
  <2> QED
    BY <2>1, <2>2, <2>3 DEF ModerationInit, ModInv
<1>2. ModInv /\ [ModerationNext]_modVars => ModInv'
  <2> SUFFICES ASSUME ModInv, [ModerationNext]_modVars PROVE ModInv'
    OBVIOUS
  <2>1. CASE RedisChangesHere \/ SuspKeyExpires \/ UNCHANGED modVars
    <3>1. UNCHANGED <<suspended, restricted, bans, banKey, frame, goLive, slips>>
          /\ suspKey' \in {suspKey, "none"} /\ answers' \in BOOLEAN
      BY <2>1 DEF RedisChangesHere, SuspKeyExpires, modVars, rows, ModInv, ModTyped
    <3> QED
      BY <3>1 DEF ModInv, ModTyped, BanWritten, Refusable, Banned, Slip, Setting
  <2> QED
    BY <2>1, FramesKeep, SuspendKeeps, CacheBanKeeps, StartGoLiveKeeps, RestrictionKeeps,
       ReadSuspendedKeeps, LastStepsKeep DEF ModerationNext
<1>3. ModInv => SuspendedRefused
  BY DEF ModInv, Refusable, Slip, SuspendedRefused
<1> QED
  BY <1>1, <1>2, <1>3, PTL DEF ModerationSpec

-----------------------------------------------------------------------------
(* The chat *)

Message == [pc : {"new", "allowed", "stamped", "sent"}, at : Nat]
Clearing == [pc : {"new", "stamped", "done"}, at : Nat]
Viewing == [pc : {"idle", "db", "filter", "shown"}, got : SUBSET Msgs, after : Nat]
Ending == [how : {"none", "host", "moderation"}, pc : {"live", "keys", "copy", "insert", "over"},
           got : SUBSET Msgs]

MsgsTyped == msg \in [Msgs -> Message] /\ list \in Seq(Msgs) /\ saved \subseteq Msgs
ClearsTyped == chatNow \in Nat /\ cleared \in Nat /\ agreed \in Nat /\ clr \in [Clears -> Clearing]
ViewsTyped == view \in [Viewers -> Viewing] /\ end \in Ending

\* What is stored or held was sent, so that its time does not change any more.
Sent == {m \in Msgs : msg[m].pc = "sent"}
Stored == /\ ToSet(list) \subseteq Sent /\ saved \subseteq Sent /\ end.got \subseteq Sent
          /\ \A v \in Viewers : view[v].got \subseteq Sent

\* A clear that all agree on is not undone by one that has yet to be written.
ClearHolds ==
    /\ agreed <= cleared /\ agreed <= chatNow
    /\ \A c \in Clears : clr[c].pc = "stamped" => agreed <= clr[c].at /\ clr[c].at <= chatNow

Respects ==
    \A v \in Viewers :
        /\ view[v].after <= agreed
        /\ view[v].pc = "shown" => \A m \in view[v].got : msg[m].at > view[v].after

ChatInv == MsgsTyped /\ ClearsTyped /\ ViewsTyped /\ Stored /\ ClearHolds /\ Respects

\* The newest messages of a list are messages of the list.
LEMMA NewestOf ==
    ASSUME NEW S, NEW q \in Seq(S), Keep \in Nat
    PROVE  Newest(q) \in Seq(S) /\ ToSet(Newest(q)) \subseteq ToSet(q)
<1>1. CASE Len(q) > Keep
  <2> DEFINE from == Len(q) - Keep + 1
             n == SubSeq(q, from, Len(q))
  <2>1. from \in 1..Len(q) + 1 /\ Len(q) \in Nat
    BY <1>1
  <2>2. n \in Seq(S) /\ Len(n) = Keep /\ \A i \in 1..Keep : n[i] = q[from + i - 1]
    BY <1>1
  <2>3. \A i \in 1..Keep : from + i - 1 \in 1..Len(q)
    BY <1>1
  <2>4. DOMAIN n = 1..Keep /\ DOMAIN q = 1..Len(q)
    BY <2>2
  <2>5. Newest(q) = n
    BY <1>1 DEF Newest
  <2> HIDE DEF n, from
  <2> QED
    BY <2>2, <2>3, <2>4, <2>5 DEF ToSet
<1>2. CASE ~(Len(q) > Keep)
  BY <1>2 DEF Newest
<1> QED
  BY <1>1, <1>2

\* A message goes on; those that were sent stay as they are.
LEMMA MsgMoves ==
    ASSUME ChatInv, NEW m \in Msgs, NEW e \in Message, m \notin Sent,
           msg' = [msg EXCEPT ![m] = e],
           list' \in Seq(Msgs), ToSet(list') \subseteq ToSet(list) \cup (IF e.pc = "sent" THEN {m} ELSE {}),
           UNCHANGED <<chatNow, saved, cleared, clr, view, end, agreed>>
    PROVE  ChatInv'
<1>1. MsgsTyped' /\ ClearsTyped' /\ ViewsTyped' /\ ClearHolds'
  BY DEF ChatInv, MsgsTyped, ClearsTyped, ViewsTyped, ClearHolds
<1>2. \A k \in Msgs : msg'[k] = IF k = m THEN e ELSE msg[k]
  BY DEF ChatInv, MsgsTyped
<1>3. Sent \subseteq Sent' /\ (e.pc = "sent" => m \in Sent')
  BY <1>2 DEF Sent
<1>4. Stored'
  BY <1>3 DEF ChatInv, Stored
<1>5. Respects'
  <2> SUFFICES ASSUME NEW v \in Viewers, view[v].pc = "shown", NEW k \in view[v].got
               PROVE  msg'[k].at > view[v].after
    BY DEF ChatInv, Respects
  <2>1. k \in Sent /\ k \in Msgs
    BY DEF ChatInv, Stored, Sent
  <2> QED
    BY <1>2, <2>1 DEF ChatInv, Respects
<1> QED
  BY <1>1, <1>4, <1>5 DEF ChatInv

LEMMA SendsKeep ==
    ASSUME ChatInv, NEW m \in Msgs, (\E r \in Roles : Gate(m, r)) \/ Stamp(m) \/ Push(m)
    PROVE  ChatInv'
<1>1. msg[m] \in Message /\ chatNow \in Nat /\ list \in Seq(Msgs)
  BY DEF ChatInv, MsgsTyped, ClearsTyped
<1>2. UNCHANGED <<chatNow, saved, cleared, clr, view, end, agreed>>
  BY DEF Gate, Stamp, Push
<1>3. m \notin Sent
  BY DEF Gate, Stamp, Push, Sent
<1>4. CASE \E r \in Roles : Gate(m, r)
  <2> DEFINE e == [msg[m] EXCEPT !.pc = "allowed"]
  <2>1. e \in Message /\ e.pc = "allowed"
    BY <1>1 DEF Message
  <2>2. msg' = [msg EXCEPT ![m] = e] /\ list' = list
    BY <1>4 DEF Gate
  <2> HIDE DEF e
  <2> QED
    BY <1>1, <1>2, <1>3, <2>1, <2>2, MsgMoves
<1>5. CASE Stamp(m)
  <2> DEFINE e == [pc |-> "stamped", at |-> chatNow]
  <2>1. e \in Message /\ e.pc = "stamped"
    BY <1>1 DEF Message
  <2>2. msg' = [msg EXCEPT ![m] = e] /\ list' = list
    BY <1>5 DEF Stamp
  <2> HIDE DEF e
  <2> QED
    BY <1>1, <1>2, <1>3, <2>1, <2>2, MsgMoves
<1>6. CASE Push(m)
  <2> DEFINE e == [msg[m] EXCEPT !.pc = "sent"]
  <2>1. e \in Message /\ e.pc = "sent"
    BY <1>1 DEF Message
  <2>2. msg' = [msg EXCEPT ![m] = e] /\ list' = Newest(Append(list, m))
    BY <1>6 DEF Push
  <2>3. Append(list, m) \in Seq(Msgs)
    BY <1>1
  <2>4. ToSet(Append(list, m)) \subseteq ToSet(list) \cup {m}
    <3>1. \A i \in DOMAIN Append(list, m) :
             Append(list, m)[i] = m \/ (i \in DOMAIN list /\ Append(list, m)[i] = list[i])
      BY <1>1
    <3> QED
      BY <3>1 DEF ToSet
  <2>5. list' \in Seq(Msgs) /\ ToSet(list') \subseteq ToSet(list) \cup {m}
    BY <2>2, <2>3, <2>4, NewestOf, ChatAssumption
  <2> HIDE DEF e
  <2> QED
    BY <1>2, <1>3, <2>1, <2>2, <2>5, MsgMoves
<1> QED
  BY <1>4, <1>5, <1>6

\* Clears: each is stamped no earlier than the last one agreed on.
LEMMA ClearsKeep ==
    ASSUME ChatInv, NEW c \in Clears, StampClear(c) \/ WriteClear(c)
    PROVE  ChatInv'
<1>1. UNCHANGED <<chatNow, list, saved, msg, view, end>>
  BY DEF StampClear, WriteClear
<1>2. MsgsTyped' /\ ViewsTyped' /\ Stored'
  BY <1>1 DEF ChatInv, MsgsTyped, ViewsTyped, Stored, Sent
<1>3. chatNow \in Nat /\ cleared \in Nat /\ agreed \in Nat /\ clr[c] \in Clearing /\ clr[c].at \in Nat
  BY DEF ChatInv, ClearsTyped, Clearing
<1>4. CASE StampClear(c)
  <2>1. clr' = [clr EXCEPT ![c] = [pc |-> "stamped", at |-> chatNow]] /\ UNCHANGED <<cleared, agreed>>
    BY <1>4 DEF StampClear
  <2>2. [pc |-> "stamped", at |-> chatNow] \in Clearing
    BY <1>3 DEF Clearing
  <2>3. ClearsTyped'
    BY <1>1, <2>1, <2>2 DEF ChatInv, ClearsTyped
  <2>4. ClearHolds'
    BY <1>1, <1>3, <2>1 DEF ChatInv, ClearsTyped, ClearHolds
  <2>5. Respects'
    BY <1>1, <2>1 DEF ChatInv, Respects
  <2> QED
    BY <1>2, <2>3, <2>4, <2>5 DEF ChatInv
<1>5. CASE WriteClear(c)
  <2>1. /\ clr[c].pc = "stamped" /\ cleared' = clr[c].at /\ clr' = [clr EXCEPT ![c].pc = "done"]
        /\ agreed' = IF \E d \in Clears \ {c} : clr[d].pc = "stamped" THEN agreed ELSE clr[c].at
    BY <1>5 DEF WriteClear
  <2>2. [clr[c] EXCEPT !.pc = "done"] \in Clearing
    BY <1>3 DEF Clearing
  <2>3. ClearsTyped'
    BY <1>1, <1>3, <2>1, <2>2 DEF ChatInv, ClearsTyped
  <2>4. \A d \in Clears : clr'[d].pc = "stamped" => d # c /\ clr'[d] = clr[d]
    BY <1>3, <2>1 DEF ChatInv, ClearsTyped, Clearing
  <2>5. agreed <= clr[c].at /\ clr[c].at <= chatNow
    BY <2>1 DEF ChatInv, ClearHolds
  <2>6. agreed <= agreed' /\ agreed' <= cleared' /\ agreed' <= chatNow
    BY <1>3, <2>1, <2>5
  <2>7. ClearHolds'
    BY <1>1, <2>1, <2>4, <2>6 DEF ChatInv, ClearHolds
  <2>8. Respects'
    <3> SUFFICES ASSUME NEW v \in Viewers PROVE view[v].after <= agreed'
      BY <1>1 DEF ChatInv, Respects
    <3>1. view[v].after \in Nat /\ view[v].after <= agreed
      BY DEF ChatInv, ViewsTyped, Viewing, Respects
    <3> QED
      BY <1>3, <2>3, <2>6, <3>1 DEF ClearsTyped
  <2> QED
    BY <1>2, <2>3, <2>7, <2>8 DEF ChatInv
<1> QED
  BY <1>4, <1>5

\* A reader goes on.
LEMMA ViewsKeep ==
    ASSUME ChatInv, NEW v \in Viewers, ReadList(v) \/ ReadSaved(v) \/ Filter(v)
    PROVE  ChatInv'
<1>1. UNCHANGED <<chatNow, list, saved, cleared, msg, clr, end, agreed>>
  BY DEF ReadList, ReadSaved, Filter
<1>2. MsgsTyped' /\ ClearsTyped' /\ ClearHolds'
  BY <1>1 DEF ChatInv, MsgsTyped, ClearsTyped, ClearHolds
<1>3. view[v] \in Viewing /\ view[v].got \subseteq Sent /\ view[v].after <= agreed
      /\ view[v].after \in Nat
  BY DEF ChatInv, ViewsTyped, Viewing, Stored, Respects
<1>4. agreed \in Nat /\ cleared \in Nat /\ agreed <= cleared
  BY DEF ChatInv, ClearsTyped, ClearHolds
<1>5. \A m \in Msgs : msg[m].at \in Nat
  BY DEF ChatInv, MsgsTyped, Message
<1>6. PICK e \in Viewing :
         /\ view' = [view EXCEPT ![v] = e] /\ e.got \subseteq Sent /\ e.after <= agreed
         /\ e.pc = "shown" => \A m \in e.got : msg[m].at > e.after
  <2>1. CASE ReadList(v)
    <3> DEFINE e == [pc |-> IF list = <<>> THEN "db" ELSE "filter", got |-> ToSet(list),
                     after |-> agreed]
    <3>1. view' = [view EXCEPT ![v] = e]
      BY <2>1 DEF ReadList
    <3>2. ToSet(list) \subseteq Sent /\ Sent \subseteq Msgs
      BY DEF ChatInv, Stored, Sent
    <3>3. e \in Viewing /\ e.pc # "shown" /\ e.got = ToSet(list) /\ e.after = agreed
      BY <1>4, <3>2 DEF Viewing
    <3> HIDE DEF e
    <3>4. e.got \subseteq Sent /\ e.after <= agreed
      BY <1>4, <3>2, <3>3
    <3>5. e.pc = "shown" => \A m \in e.got : msg[m].at > e.after
      BY <3>3
    <3> QED
      BY <3>1, <3>3, <3>4, <3>5
  <2>2. CASE ReadSaved(v)
    <3> DEFINE e == [view[v] EXCEPT !.pc = "filter", !.got = saved]
    <3>1. view' = [view EXCEPT ![v] = e]
      BY <2>2 DEF ReadSaved
    <3>2. saved \subseteq Sent /\ Sent \subseteq Msgs
      BY DEF ChatInv, Stored, Sent
    <3>3. e \in Viewing /\ e.pc = "filter" /\ e.got = saved /\ e.after = view[v].after
      BY <1>3, <3>2 DEF Viewing
    <3> HIDE DEF e
    <3> QED
      BY <1>3, <3>1, <3>2, <3>3
  <2>3. CASE Filter(v)
    <3> DEFINE shown == {m \in view[v].got : msg[m].at > cleared}
               e == [view[v] EXCEPT !.pc = "shown", !.got = shown]
    <3>1. view' = [view EXCEPT ![v] = e]
      BY <2>3 DEF Filter
    <3>2. shown \subseteq Sent /\ shown \subseteq Msgs /\ \A m \in shown : msg[m].at > view[v].after
      BY <1>3, <1>4, <1>5 DEF Sent
    <3> HIDE DEF shown
    <3>3. e \in Viewing /\ e.pc = "shown" /\ e.got = shown /\ e.after = view[v].after
      BY <1>3, <3>2 DEF Viewing
    <3> HIDE DEF e
    <3> QED
      BY <1>3, <3>1, <3>2, <3>3
  <2> QED
    BY <2>1, <2>2, <2>3
<1>7. \A w \in Viewers : view'[w] = IF w = v THEN e ELSE view[w]
  BY <1>6 DEF ChatInv, ViewsTyped
<1>8. ViewsTyped'
  BY <1>1, <1>6 DEF ChatInv, ViewsTyped
<1>9. Stored'
  BY <1>1, <1>6, <1>7 DEF ChatInv, Stored, Sent
<1>10. Respects'
  BY <1>1, <1>6, <1>7 DEF ChatInv, Respects
<1> QED
  BY <1>2, <1>8, <1>9, <1>10 DEF ChatInv

\* The end of the stream moves the messages, the host sets the mode, and time passes.
LEMMA EndKeeps ==
    ASSUME ChatInv,
           \/ \E m \in Modes : SetChatPermission(m)
           \/ \E h \in Ends : Claim(h)
           \/ DeleteKeys \/ CopyRead \/ CopyInsert \/ ChatTick
    PROVE  ChatInv'
<1>1. UNCHANGED <<cleared, msg, clr, view, agreed>>
  BY DEF SetChatPermission, Claim, DeleteKeys, CopyRead, CopyInsert, ChatTick
<1>2. chatNow' \in Nat /\ chatNow \in Nat /\ chatNow <= chatNow'
  <2>1. chatNow' = chatNow \/ chatNow' = chatNow + 1
    BY DEF SetChatPermission, Claim, DeleteKeys, CopyRead, CopyInsert, ChatTick
  <2> QED
    BY <2>1 DEF ChatInv, ClearsTyped
<1>3. ClearsTyped' /\ Respects'
  BY <1>1, <1>2 DEF ChatInv, ClearsTyped, Respects
<1>4. ClearHolds'
  <2>1. agreed \in Nat /\ \A c \in Clears : clr[c].at \in Nat
    BY DEF ChatInv, ClearsTyped, Clearing
  <2> QED
    BY <1>1, <1>2, <2>1 DEF ChatInv, ClearHolds
<1>5. end \in Ending /\ end.got \subseteq Sent /\ ToSet(list) \subseteq Sent /\ saved \subseteq Sent
      /\ Sent \subseteq Msgs /\ list \in Seq(Msgs)
  BY DEF ChatInv, ViewsTyped, Stored, Sent, MsgsTyped
<1>6. /\ list' \in Seq(Msgs) /\ ToSet(list') \subseteq Sent
  <2>1. list' = list \/ list' = <<>>
    BY DEF SetChatPermission, Claim, DeleteKeys, CopyRead, CopyInsert, ChatTick
  <2>2. ToSet(<<>>) = {} /\ <<>> \in Seq(Msgs)
    BY DEF ToSet
  <2> QED
    BY <1>5, <2>1, <2>2
<1>7. saved' \subseteq Sent
  BY <1>5 DEF SetChatPermission, Claim, DeleteKeys, CopyRead, CopyInsert, ChatTick
<1>8. end' \in Ending /\ end'.got \subseteq Sent
  <2>1. CASE \E h \in Ends : Claim(h)
    BY <2>1 DEF Claim, Ends, Ending
  <2>2. CASE DeleteKeys
    BY <1>5, <2>2 DEF DeleteKeys, Ending
  <2>3. CASE CopyRead
    BY <1>5, <2>3 DEF CopyRead, Ending
  <2>4. CASE CopyInsert
    BY <1>5, <2>4 DEF CopyInsert, Ending
  <2>5. CASE UNCHANGED end
    BY <1>5, <2>5
  <2> QED
    BY <2>1, <2>2, <2>3, <2>4, <2>5 DEF SetChatPermission, ChatTick
<1>9. MsgsTyped' /\ ViewsTyped'
  BY <1>1, <1>5, <1>6, <1>7, <1>8 DEF ChatInv, MsgsTyped, ViewsTyped
<1>10. Stored'
  BY <1>1, <1>6, <1>7, <1>8 DEF ChatInv, Stored, Sent
<1> QED
  BY <1>3, <1>4, <1>9, <1>10 DEF ChatInv

\* What a clear took away is shown to nobody who asks later, for any messages, readers and
\* clears and any length of the list, while the stream ends meanwhile (getMessagesService).
THEOREM ClearedIsGone == ChatSpec => []ClearedStaysCleared
<1>1. ChatInit => ChatInv
  <2> SUFFICES ASSUME ChatInit PROVE ChatInv
    OBVIOUS
  <2>1. MsgsTyped /\ ClearsTyped
    BY DEF ChatInit, MsgsTyped, ClearsTyped, Message, Clearing
  <2>2. ViewsTyped
    BY DEF ChatInit, ViewsTyped, Viewing, Ending
  <2>3. Stored
    BY DEF ChatInit, Stored, ToSet
  <2>4. ClearHolds /\ Respects
    BY DEF ChatInit, ClearHolds, Respects
  <2> QED
    BY <2>1, <2>2, <2>3, <2>4 DEF ChatInv
<1>2. ChatInv /\ [ChatNext]_chatVars => ChatInv'
  <2> SUFFICES ASSUME ChatInv, [ChatNext]_chatVars PROVE ChatInv'
    OBVIOUS
  <2>1. CASE UNCHANGED chatVars
    BY <2>1 DEF chatVars, ChatInv, MsgsTyped, ClearsTyped, ViewsTyped, Stored, Sent, ClearHolds, Respects
  <2> QED
    BY <2>1, SendsKeep, ClearsKeep, ViewsKeep, EndKeeps DEF ChatNext
<1>3. ChatInv => ClearedStaysCleared
  BY DEF ChatInv, Respects, ClearedStaysCleared
<1> QED
  BY <1>1, <1>2, <1>3, PTL DEF ChatSpec
=============================================================================
