---------------------------- MODULE StreamLife ----------------------------
(***************************************************************************)
(* What go-live and the ends of a host's streams promise, without          *)
(* requests, awaits and Redis: a stream whose id was given out goes live,  *)
(* ends and stays ended.  Who ends it owes one announcement by LIVE_STATUS *)
(* and so does who aborts it before its row is there, and image            *)
(* moderation, which does not ask whether it has ended.  A debt is paid    *)
(* once or lost with its node.  The room may be told stream_ended any      *)
(* number of times, before the end as well as after it.                    *)
(***************************************************************************)
EXTENDS Naturals

CONSTANTS Streams,  \* ids
          Enders    \* who may owe an announcement

VARIABLES next,     \* the next id
          row,      \* stream -> "none", "live", "ended"
          owed,     \* <<e, s>>: e is to announce the end of s
          off,      \* stream -> announcements of its end
          told,     \* streams whose room was told
          moderated, \* streams ended by image moderation
          aborted   \* streams ended without a row

lifeVars == <<next, row, owed, off, told, moderated, aborted>>

Init ==
    /\ next = 1
    /\ row = [s \in Streams |-> "none"]
    /\ owed = {} /\ off = [s \in Streams |-> 0] /\ told = {}
    /\ moderated = {} /\ aborted = {}

GiveOut == next' = next + 1 /\ UNCHANGED <<row, owed, off, told, moderated, aborted>>

GoLive(s) ==
    /\ s < next /\ row[s] = "none"
    /\ row' = [row EXCEPT ![s] = "live"]
    /\ UNCHANGED <<next, owed, off, told, moderated, aborted>>

Owe(s) == \E e \in Enders : owed' = owed \cup {<<e, s>>}
Close(s) == row' = [row EXCEPT ![s] = "ended"] /\ UNCHANGED <<next, off, told, aborted>>

\* One wins the end of a live stream, or nobody knows that it has.
End(s) ==
    /\ row[s] = "live"
    /\ Close(s)
    /\ owed' = owed \/ Owe(s)
    /\ UNCHANGED moderated

Moderate(s) ==
    /\ row[s] # "none"
    /\ Close(s)
    /\ Owe(s)
    /\ moderated' = moderated \cup {s}

\* Its row, which was not there when it was looked for, may come all the same.
Abort(s) ==
    /\ s < next
    /\ Owe(s)
    /\ aborted' = aborted \cup {s}
    /\ UNCHANGED <<next, row, off, told, moderated>>

Announce(e, s) ==
    /\ <<e, s>> \in owed
    /\ owed' = owed \ {<<e, s>>}
    /\ off' = [off EXCEPT ![s] = @ + 1]
    /\ told' \in {told, told \cup {s}}
    /\ UNCHANGED <<next, row, moderated, aborted>>

Tell(s) ==
    /\ row[s] # "none" \/ s \in aborted
    /\ told' = told \cup {s}
    /\ UNCHANGED <<next, row, owed, off, moderated, aborted>>

Lose ==
    \E S \in SUBSET owed :
        owed' = owed \ S /\ UNCHANGED <<next, row, off, told, moderated, aborted>>

Next ==
    \/ GiveOut \/ Lose
    \/ \E s \in Streams : \/ GoLive(s) \/ End(s) \/ Moderate(s) \/ Abort(s) \/ Tell(s)
                          \/ \E e \in Enders : Announce(e, s)

Spec == Init /\ [][Next]_lifeVars
=============================================================================
