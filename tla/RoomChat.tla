------------------------------ MODULE RoomChat ------------------------------
(***************************************************************************)
(* The chat of one room: the Redis list stream:chats (the newest Keep      *)
(* messages), the time it was last cleared, the chat mode, and the copy to *)
(* Postgres when the stream ends.  A handler stamps its message, or its    *)
(* clear, with the time before the command that stores it is sent, and     *)
(* GET /:id/messages reads the list, the table and the clear time in three *)
(* awaits.                                                                 *)
(***************************************************************************)
EXTENDS Naturals, Sequences, SequencesExt

CONSTANTS Msgs,     \* messages that may be sent
          Clears,   \* clear_chat handlers
          Viewers,  \* readers of the chat
          Modes,    \* chat modes the host sets
          Keep,     \* bound: length of the list, 200 in the code
          MaxChat   \* bound of the clock

ASSUME ChatAssumption ==
    /\ Keep \in Nat \ {0} /\ MaxChat \in Nat
    /\ Modes \subseteq {"EVERYONE", "ALL_MUTED", "ADMINS_ONLY", "FOLLOWERS_ONLY"}

Roles == {"host", "admin", "follower", "viewer", "system"}

VARIABLES chatNow, mode,
          list,     \* stream:chats
          saved,    \* LiveMessage
          cleared,  \* stream:chat_cleared, 0 when it was never set; no end deletes it
          msg,      \* each message: its handler's place and createdAt
          clr,      \* each clear: its handler's place and clearedAt
          view,     \* each reader: its place, what it holds, and the clear it must respect
          end,      \* the end of the stream: its kind, its place and the messages it read
          agreed,   \* history: the last clear written while no other was under way
          had       \* history: the list when the end was claimed

chatVars == <<chatNow, mode, list, saved, cleared, msg, clr, view, end, agreed, had>>

ChatInit ==
    /\ chatNow = 1 /\ mode = "EVERYONE"
    /\ list = <<>> /\ saved = {} /\ cleared = 0
    /\ msg = [m \in Msgs |-> [pc |-> "new", at |-> 0]]
    /\ clr = [c \in Clears |-> [pc |-> "new", at |-> 0]]
    /\ view = [v \in Viewers |-> [pc |-> "idle", got |-> {}, after |-> 0]]
    /\ end = [how |-> "none", pc |-> "live", got |-> {}]
    /\ agreed = 0 /\ had = {}

-----------------------------------------------------------------------------
\* Sending.

\* sendMessageService: who may speak.  FOLLOWERS_ONLY asks for a follower and makes no
\* exception for the host, who does not follow themselves.
MayChat(r) ==
    CASE mode = "EVERYONE" \/ r = "system" -> TRUE
      [] mode = "ALL_MUTED"   -> r = "host"
      [] mode = "ADMINS_ONLY" -> r \in {"host", "admin"}
      [] OTHER                -> r = "follower"

\* sendMessage and the first round of sendMessageService; a refused or restricted sender
\* changes nothing.  Nothing here asks whether the stream is still live.
Gate(m, r) ==
    /\ msg[m].pc = "new" /\ MayChat(r)
    /\ msg' = [msg EXCEPT ![m].pc = "allowed"]
    /\ UNCHANGED <<chatNow, mode, list, saved, cleared, clr, view, end, agreed, had>>

Stamp(m) ==
    /\ msg[m].pc = "allowed"
    /\ msg' = [msg EXCEPT ![m] = [pc |-> "stamped", at |-> chatNow]]
    /\ UNCHANGED <<chatNow, mode, list, saved, cleared, clr, view, end, agreed, had>>

\* MULTI: rPush, lTrim.
Newest(s) == IF Len(s) > Keep THEN SubSeq(s, Len(s) - Keep + 1, Len(s)) ELSE s
Push(m) ==
    /\ msg[m].pc = "stamped"
    /\ list' = Newest(Append(list, m))
    /\ msg' = [msg EXCEPT ![m].pc = "sent"]
    /\ UNCHANGED <<chatNow, mode, saved, cleared, clr, view, end, agreed, had>>

SetChatPermission(m) ==
    /\ mode' = m /\ m # mode
    /\ UNCHANGED <<chatNow, list, saved, cleared, msg, clr, view, end, agreed, had>>

-----------------------------------------------------------------------------
\* clear_chat.

StampClear(c) ==
    /\ clr[c].pc = "new"
    /\ clr' = [clr EXCEPT ![c] = [pc |-> "stamped", at |-> chatNow]]
    /\ UNCHANGED <<chatNow, mode, list, saved, cleared, msg, view, end, agreed, had>>

\* The SET; the message that says so follows in a setImmediate, like any system message.
WriteClear(c) ==
    /\ clr[c].pc = "stamped"
    /\ cleared' = clr[c].at
    /\ clr' = [clr EXCEPT ![c].pc = "done"]
    /\ agreed' = IF \E d \in Clears \ {c} : clr[d].pc = "stamped" THEN agreed ELSE clr[c].at
    /\ UNCHANGED <<chatNow, mode, list, saved, msg, view, end, had>>

-----------------------------------------------------------------------------
\* getMessagesService.

ReadList(v) ==
    /\ view[v].pc = "idle"
    /\ view' = [view EXCEPT ![v] = [pc    |-> IF list = <<>> THEN "db" ELSE "filter",
                                    got   |-> ToSet(list),
                                    after |-> agreed]]
    /\ UNCHANGED <<chatNow, mode, list, saved, cleared, msg, clr, end, agreed, had>>

ReadSaved(v) ==
    /\ view[v].pc = "db"
    /\ view' = [view EXCEPT ![v].pc = "filter", ![v].got = saved]
    /\ UNCHANGED <<chatNow, mode, list, saved, cleared, msg, clr, end, agreed, had>>

\* Mutant: only the messages of the list are filtered.
FilterListOnly(v) ==
    /\ view[v].pc = "filter"
    /\ view' = [view EXCEPT ![v].pc = "shown",
                            ![v].got = {m \in @ : msg[m].at > cleared \/ list = <<>>}]
    /\ UNCHANGED <<chatNow, mode, list, saved, cleared, msg, clr, end, agreed, had>>

Filter(v) ==
    /\ view[v].pc = "filter"
    /\ view' = [view EXCEPT ![v].pc = "shown", ![v].got = {m \in @ : msg[m].at > cleared}]
    /\ UNCHANGED <<chatNow, mode, list, saved, cleared, msg, clr, end, agreed, had>>

-----------------------------------------------------------------------------
\* The end of the stream, once claimed (module LiveStream).  endLiveStreamService deletes
\* the room's keys and then copies the list; the end by image moderation copies first.

Ends == {"host", "moderation"}

Claim(how) ==
    /\ end.pc = "live"
    /\ end' = [how |-> how, pc |-> IF how = "host" THEN "keys" ELSE "copy", got |-> {}]
    /\ had' = ToSet(list)
    /\ UNCHANGED <<chatNow, mode, list, saved, cleared, msg, clr, view, agreed>>

DeleteKeys ==
    /\ end.pc = "keys"
    /\ list' = <<>>
    /\ end' = [end EXCEPT !.pc = IF end.how = "host" THEN "copy" ELSE "over"]
    /\ UNCHANGED <<chatNow, mode, saved, cleared, msg, clr, view, agreed, had>>

CopyRead ==
    /\ end.pc = "copy"
    /\ end' = [end EXCEPT !.pc = "insert", !.got = ToSet(list)]
    /\ UNCHANGED <<chatNow, mode, list, saved, cleared, msg, clr, view, agreed, had>>

CopyInsert ==
    /\ end.pc = "insert"
    /\ saved' = saved \cup end.got
    /\ end' = [end EXCEPT !.pc = IF end.how = "host" THEN "over" ELSE "keys"]
    /\ UNCHANGED <<chatNow, mode, list, cleared, msg, clr, view, agreed, had>>

ChatTick ==
    /\ chatNow < MaxChat
    /\ chatNow' = chatNow + 1
    /\ UNCHANGED <<mode, list, saved, cleared, msg, clr, view, end, agreed, had>>

ChatNext ==
    \/ \E m \in Msgs, r \in Roles : Gate(m, r)
    \/ \E m \in Msgs : Stamp(m) \/ Push(m)
    \/ \E m \in Modes : SetChatPermission(m)
    \/ \E c \in Clears : StampClear(c) \/ WriteClear(c)
    \/ \E v \in Viewers : ReadList(v) \/ ReadSaved(v) \/ Filter(v)
    \/ \E h \in Ends : Claim(h)
    \/ DeleteKeys \/ CopyRead \/ CopyInsert
    \/ ChatTick

ChatSpec == ChatInit /\ [][ChatNext]_chatVars

-----------------------------------------------------------------------------
\* What a clear took away is shown to nobody who asks later, neither from the list nor from
\* Postgres once the stream is over, whichever step of which handler comes between; unless
\* two clears overlap, when the older may be written last.
ClearedStaysCleared ==
    \A v \in Viewers : view[v].pc = "shown" =>
        \A m \in view[v].got : msg[m].at > view[v].after

\* What the room had said when its end was claimed is in Postgres when the end is over.
ChatIsSaved == end.pc = "over" => had \subseteq saved
=============================================================================
