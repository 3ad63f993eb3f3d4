---------------------------- MODULE GiftGallery ----------------------------
(***************************************************************************)
(* The gift gallery of a month and what one host has collected of it.      *)
(* Both are kept in Redis, each with a flag that says it was loaded; a     *)
(* request that misses a flag loads from the database, and requests that   *)
(* miss it at once all do.  Collecting writes the cache, then the row.     *)
(***************************************************************************)
EXTENDS Naturals

CONSTANTS Looks,     \* requests, each done again and again
          Presents,  \* gifts that are sent
          InGallery, \* the ones in active sections of the month's gallery
          NoPresent  \* a request that only shows the gallery

ASSUME GalleryAssumption == InGallery \subseteq Presents /\ NoPresent \notin Presents

VARIABLES ids,       \* gift_gallery:gift_ids, {} when the key is not there
          items,     \* gift_gallery:active, {} when not there or empty
          loaded,    \* gift_gallery:loaded
          got,       \* host_gallery_progress of the host
          gotLoaded, \* host_gallery_progress:loaded
          collected, \* gift_gallery_progress rows
          lapsed,    \* history: the host's set expired while it counted as loaded, or was filled
          look       \* each request: its place, its gift, what it has read

galleryVars == <<ids, items, loaded, got, gotLoaded, collected, lapsed, look>>

NoLook == [at |-> "idle", gift |-> NoPresent, read |-> {}]

GalleryInit ==
    /\ ids = {} /\ items = {} /\ loaded = FALSE
    /\ got = {} /\ gotLoaded = FALSE /\ collected = {} /\ lapsed = FALSE
    /\ look = [r \in Looks |-> NoLook]

LookTo(r, from, to) ==
    /\ look[r].at = from
    /\ look' = [look EXCEPT ![r].at = to]
LookEnds(r) == look' = [look EXCEPT ![r] = NoLook]

\* A gift (processGiftGalleryProgress), or the gallery alone (getGiftGalleryTargetsService).
AskGallery(r, g) ==
    /\ look[r].at = "idle"
    /\ look' = [look EXCEPT ![r] = [at |-> "gallery", gift |-> g, read |-> {}]]
    /\ UNCHANGED <<ids, items, loaded, got, gotLoaded, collected, lapsed>>

-----------------------------------------------------------------------------
\* ensureActiveGalleryCached: both keys, the query, then the writes one by one.  The ids of an
\* empty gallery are never there, so it is asked for each time.

SeekGallery(r) ==
    /\ LookTo(r, "gallery", IF loaded /\ ids # {} THEN "progress"
                            ELSE IF InGallery # {} THEN "del" ELSE "items")
    /\ UNCHANGED <<ids, items, loaded, got, gotLoaded, collected, lapsed>>

DelIds(r) ==
    /\ LookTo(r, "del", "add") /\ ids' = {}
    /\ UNCHANGED <<items, loaded, got, gotLoaded, collected, lapsed>>

AddIds(r) ==
    /\ LookTo(r, "add", "items") /\ ids' = ids \cup InGallery
    /\ UNCHANGED <<items, loaded, got, gotLoaded, collected, lapsed>>

SetItems(r) ==
    /\ LookTo(r, "items", "flag") /\ items' = InGallery
    /\ UNCHANGED <<ids, loaded, got, gotLoaded, collected, lapsed>>

SetLoaded(r) ==
    /\ LookTo(r, "flag", "progress") /\ loaded' = TRUE
    /\ UNCHANGED <<ids, items, got, gotLoaded, collected, lapsed>>

-----------------------------------------------------------------------------
\* ensureHostProgressCached

SeekProgress(r) ==
    /\ LookTo(r, "progress", IF ~gotLoaded THEN "query"
                             ELSE IF look[r].gift = NoPresent THEN "show" ELSE "member")
    /\ UNCHANGED <<ids, items, loaded, got, gotLoaded, collected, lapsed>>

\* Requests that have read the rows and not set the flag yet, or added to the set and not saved.
Filling == {r \in Looks : look[r].at \in {"cache", "gotFlag", "row"}}

QueryProgress(r) ==
    /\ look[r].at = "query"
    /\ look' = [look EXCEPT ![r].at = "cache", ![r].read = collected]
    /\ lapsed' = (lapsed /\ (gotLoaded \/ Filling # {}))
    /\ UNCHANGED <<ids, items, loaded, got, gotLoaded, collected>>

\* SADD of the rows, which others may have added to since.
\* Mutant: the cached set is replaced.
CachedReplacing(r) == look[r].read
Cached(r) == got \cup look[r].read

CacheProgress(r) ==
    /\ LookTo(r, "cache", "gotFlag") /\ got' = Cached(r)
    /\ UNCHANGED <<ids, items, loaded, gotLoaded, collected, lapsed>>

SetGotLoaded(r) ==
    /\ LookTo(r, "gotFlag", IF look[r].gift = NoPresent THEN "show" ELSE "member")
    /\ gotLoaded' = TRUE
    /\ UNCHANGED <<ids, items, loaded, got, collected, lapsed>>

-----------------------------------------------------------------------------
\* processGiftGalleryProgress after the two; at last it shows the gallery, from the start.

IsMember(r) ==
    /\ look[r].at = "member"
    /\ look' = [look EXCEPT ![r] = IF @.gift \in ids THEN [@ EXCEPT !.at = "collect"]
                                   ELSE [NoLook EXCEPT !.at = "gallery"]]
    /\ UNCHANGED <<ids, items, loaded, got, gotLoaded, collected, lapsed>>

Collect(r) ==
    /\ LookTo(r, "collect", "row") /\ got' = got \cup {look[r].gift}
    /\ UNCHANGED <<ids, items, loaded, gotLoaded, collected, lapsed>>

\* The upsert; its error is swallowed.
SaveRow(r) ==
    /\ look[r].at = "row"
    /\ look' = [look EXCEPT ![r] = [NoLook EXCEPT !.at = "gallery"]]
    /\ collected' \in {collected, collected \cup {look[r].gift}}
    /\ UNCHANGED <<ids, items, loaded, got, gotLoaded, lapsed>>

\* The answer: the items, and which of them are received.
ShowGallery(r) ==
    /\ look[r].at = "show" /\ LookEnds(r)
    /\ UNCHANGED <<ids, items, loaded, got, gotLoaded, collected, lapsed>>

\* Redis or the database fails, or the node dies.
LookFails(r) ==
    /\ look[r].at # "idle" /\ LookEnds(r)
    /\ UNCHANGED <<ids, items, loaded, got, gotLoaded, collected, lapsed>>

\* Each key of the gallery has an expiry of its own, of a day.
GalleryExpires ==
    /\ \/ ids' = {} /\ UNCHANGED <<items, loaded>>
       \/ items' = {} /\ UNCHANGED <<ids, loaded>>
       \/ loaded' = FALSE /\ UNCHANGED <<ids, items>>
    /\ UNCHANGED <<got, gotLoaded, collected, lapsed, look>>

\* The flag of the host's progress expires a week after it was set.
FlagExpires ==
    /\ gotLoaded /\ gotLoaded' = FALSE
    /\ UNCHANGED <<ids, items, loaded, got, collected, lapsed, look>>

\* The set itself expires a week after the last load or gift, whatever its flag says: after a
\* load it does so a moment before the flag.
SetExpires ==
    /\ got # {} /\ got' = {}
    /\ lapsed' = (lapsed \/ gotLoaded \/ Filling # {})
    /\ UNCHANGED <<ids, items, loaded, gotLoaded, collected, look>>

GalleryNext ==
    \/ GalleryExpires \/ FlagExpires \/ SetExpires
    \/ \E r \in Looks :
          \/ \E g \in Presents \cup {NoPresent} : AskGallery(r, g)
          \/ SeekGallery(r) \/ DelIds(r) \/ AddIds(r) \/ SetItems(r) \/ SetLoaded(r)
          \/ SeekProgress(r) \/ QueryProgress(r) \/ CacheProgress(r) \/ SetGotLoaded(r)
          \/ IsMember(r) \/ Collect(r) \/ SaveRow(r) \/ ShowGallery(r) \/ LookFails(r)

GallerySpec == GalleryInit /\ [][GalleryNext]_galleryVars

-----------------------------------------------------------------------------
\* What a host has collected is shown: while the progress counts as loaded, every gift with a row is
\* in the cached set, though requests that missed the flag load it at once and one of them may
\* have read the rows before another collected.  A set that expired under its flag, or under a
\* request that was filling it, stays short until it is loaded again.
CollectedIsShown == gotLoaded /\ ~lapsed => collected \subseteq got
=============================================================================
