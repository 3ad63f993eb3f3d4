------------------------------- MODULE MCRoom -------------------------------
(***************************************************************************)
(* What belongs to a stream's room for TLC: its seats, cached checks, chat *)
(* and viewers, the host's gift gallery and the checks of its frames; and  *)
(* the slots of the billings of a process.  They share no variable: a      *)
(* behaviour follows one of them, chosen at the start, so that the state   *)
(* spaces add up instead of multiplying.                                   *)
(***************************************************************************)
EXTENDS RoomSeats, RoomCaches, RoomChat, RoomViewers, GiftGallery, Moderation,
        BillingSlots

VARIABLE part

roomVars == <<part, seatVars, cacheVars, chatVars, viewerVars, galleryVars, modVars,
              slotVars>>

\* A part that is not followed starts in one state only.
Init ==
    /\ part \in {"seats", "caches", "chat", "viewers", "gallery", "moderation", "slots"}
    /\ SeatsInit /\ CachesInit /\ ChatInit /\ ViewersInit
    /\ GalleryInit /\ ModerationInit /\ SlotsInit
    /\ part # "caches" => kind = "restriction"
    /\ part # "viewers" => stealth = {}

RoomNext ==
    \/ part = "seats" /\ SeatsNext /\ UNCHANGED <<cacheVars, chatVars, viewerVars>>
    \/ part = "caches" /\ CachesNext /\ UNCHANGED <<seatVars, chatVars, viewerVars>>
    \/ part = "chat" /\ ChatNext /\ UNCHANGED <<seatVars, cacheVars, viewerVars>>
    \/ part = "viewers" /\ ViewersNext /\ UNCHANGED <<seatVars, cacheVars, chatVars>>

OtherNext ==
    \/ part = "gallery" /\ GalleryNext /\ UNCHANGED <<modVars, slotVars>>
    \/ part = "moderation" /\ ModerationNext /\ UNCHANGED <<galleryVars, slotVars>>
    \/ part = "slots" /\ SlotsNext /\ UNCHANGED <<galleryVars, modVars>>

Next ==
    /\ \/ RoomNext /\ UNCHANGED <<galleryVars, modVars, slotVars>>
       \/ OtherNext /\ UNCHANGED <<seatVars, cacheVars, chatVars, viewerVars>>
    /\ UNCHANGED part

\* Time passes, checks and changes under way go on, and the room's details, with its seats and
\* viewers, are asked for on every node from time to time (the GET of a stream by any viewer).
SeatsFairness ==
    /\ WF_seatVars(part = "seats" /\ SeatsTick)
    /\ \A u \in Users :
          /\ WF_seatVars(part = "seats" /\ ReadSheet(u))
          /\ WF_seatVars(part = "seats" /\ Rewrite(u))
CachesFairness ==
    /\ \A r \in Readers :
          /\ WF_cacheVars(part = "caches" /\ Query(r))
          /\ WF_cacheVars(part = "caches" /\ Fill(r))
    /\ WF_cacheVars(part = "caches" /\ WriteRow)
    /\ WF_cacheVars(part = "caches" /\ WriteKey)
    /\ WF_cacheVars(part = "caches" /\ Expire)
ViewersFairness ==
    \A n \in Nodes :
        /\ WF_viewerVars(part = "viewers" /\ SyncRead(n))
        /\ WF_viewerVars(part = "viewers" /\ SyncLook(n))
        /\ WF_viewerVars(part = "viewers" /\ SyncAdd(n))

\* A billing that has its slot ends, and the promise that wakes one is served.
SlotsFairness ==
    \A b \in Bills :
        /\ WF_slotVars(part = "slots" /\ GoOn(b))
        /\ WF_slotVars(part = "slots" /\ Leave(b))

Spec ==
    /\ Init /\ [][Next]_roomVars
    /\ SeatsFairness /\ CachesFairness /\ ViewersFairness /\ SlotsFairness

\* One user with a phone and a browser, on two nodes.
UserOfDef == [s1 |-> "u1", s2 |-> "u1"]
NodeOfDef == [s1 |-> "n1", s2 |-> "n2"]
=============================================================================
