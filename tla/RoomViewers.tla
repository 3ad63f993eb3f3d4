---------------------------- MODULE RoomViewers ----------------------------
(***************************************************************************)
(* Who is counted as a viewer of one room: the Redis set stream:active,    *)
(* kept by REST join and leave, by the socket's join_stream and            *)
(* disconnect, by kicks, and by syncAndGetActiveViewerIds, which adds the  *)
(* users of the sockets its own node has in the room.  A user may have     *)
(* several sockets, on several nodes.                                      *)
(***************************************************************************)
EXTENDS Naturals

CONSTANTS Nodes,    \* server processes
          Sockets,  \* sockets of viewers
          UserOf,   \* the user of each socket
          NodeOf    \* the node each socket connects to

ASSUME ViewersAssumption == NodeOf \in [Sockets -> Nodes]

People == {UserOf[s] : s \in Sockets}

VARIABLES stealth,  \* users with the mystery privilege
          sock,     \* each socket: open, in the room, socket.data.streamId, and whether
                    \* its join_stream or disconnect handler is still to write
          active,   \* stream:active
          history,  \* stream:history
          kicked,   \* stream:kicked:user, a key with EX 600
          rest,     \* users whose REST join is past the kick check
          kick,     \* the kick of each user: "none", "set" or "out"
          sync      \* the sync of each node: its place, what it read, what it adds

viewerVars == <<stealth, sock, active, history, kicked, rest, kick, sync>>

Closed == [open |-> FALSE, room |-> FALSE, data |-> FALSE, todo |-> "none"]

ViewersInit ==
    /\ stealth \in SUBSET People
    /\ sock = [s \in Sockets |-> Closed]
    /\ active = {} /\ history = {} /\ kicked = {} /\ rest = {}
    /\ kick = [u \in People |-> "none"]
    /\ sync = [n \in Nodes |-> [pc |-> "idle", ids |-> {}]]

-----------------------------------------------------------------------------
\* Sockets.

\* connection and join_stream up to its first await: no check of kicks or passwords.
JoinStream(s) ==
    /\ sock[s].todo = "none" /\ ~sock[s].room
    /\ sock' = [sock EXCEPT ![s] = [open |-> TRUE, room |-> TRUE, data |-> TRUE, todo |-> "add"]]
    /\ UNCHANGED <<stealth, active, history, kicked, rest, kick, sync>>

\* The rest of join_stream, joinStreamService's two SADDs: a stealth user is not counted.
AddViewer(s) ==
    /\ sock[s].todo = "add"
    /\ sock' = [sock EXCEPT ![s].todo = "none"]
    /\ history' = history \cup {UserOf[s]}
    /\ active' = active \cup ({UserOf[s]} \ stealth)
    /\ UNCHANGED <<stealth, kicked, rest, kick, sync>>

\* leave_stream takes the socket out of the room; the set is left to the REST call.
LeaveStream(s) ==
    /\ sock[s].open /\ sock[s].room
    /\ sock' = [sock EXCEPT ![s].room = FALSE, ![s].data = FALSE]
    /\ UNCHANGED <<stealth, active, history, kicked, rest, kick, sync>>

\* disconnect: only a socket that still has its streamId cleans up after itself.
Disconnect(s) ==
    /\ sock[s].open /\ sock[s].todo = "none"
    /\ sock' = [sock EXCEPT ![s] = [Closed EXCEPT !.todo = IF sock[s].data THEN "remove" ELSE "none"]]
    /\ UNCHANGED <<stealth, active, history, kicked, rest, kick, sync>>

RemoveViewer(s) ==
    /\ sock[s].todo = "remove"
    /\ sock' = [sock EXCEPT ![s].todo = "none"]
    /\ active' = active \ {UserOf[s]}
    /\ UNCHANGED <<stealth, history, kicked, rest, kick, sync>>

\* A deploy or a crash of a node: its sockets close and no handler cleans up.
Restart(n) ==
    /\ \E s \in Sockets : NodeOf[s] = n /\ sock[s].open
    /\ sock' = [s \in Sockets |-> IF NodeOf[s] = n THEN Closed ELSE sock[s]]
    /\ sync' = [sync EXCEPT ![n] = [pc |-> "idle", ids |-> {}]]
    /\ UNCHANGED <<stealth, active, history, kicked, rest, kick>>

-----------------------------------------------------------------------------
\* REST.

\* joinLiveStream: past isUserKickedService and the password; then joinStreamService.
RestJoin(u) ==
    /\ u \notin kicked /\ u \notin rest
    /\ rest' = rest \cup {u}
    /\ UNCHANGED <<stealth, sock, active, history, kicked, kick, sync>>

RestAdd(u) ==
    /\ u \in rest
    /\ rest' = rest \ {u}
    /\ history' = history \cup {u}
    /\ active' = active \cup ({u} \ stealth)
    /\ UNCHANGED <<stealth, sock, kicked, kick, sync>>

RestLeave(u) ==
    /\ u \in active
    /\ active' = active \ {u}
    /\ UNCHANGED <<stealth, sock, history, kicked, rest, kick, sync>>

\* kickUser: kickUserService writes the key and the set; lookups and the system message come
\* before forceLeaveRoom, which takes every socket of the user out of the room.
KickUser(u) ==
    /\ kick[u] = "none" /\ u \notin stealth
    /\ kicked' = kicked \cup {u}
    /\ kick' = [kick EXCEPT ![u] = "set"]
    /\ UNCHANGED <<stealth, sock, active, history, rest, sync>>

KickRemove(u) ==
    /\ kick[u] = "set"
    /\ active' = active \ {u}
    /\ kick' = [kick EXCEPT ![u] = "out"]
    /\ UNCHANGED <<stealth, sock, history, kicked, rest, sync>>

ForceLeave(u) ==
    /\ kick[u] = "out"
    /\ sock' = [s \in Sockets |->
           IF UserOf[s] = u THEN [sock[s] EXCEPT !.room = FALSE, !.data = FALSE] ELSE sock[s]]
    /\ kick' = [kick EXCEPT ![u] = "none"]
    /\ UNCHANGED <<stealth, active, history, kicked, rest, sync>>

KickExpires(u) ==
    /\ u \in kicked
    /\ kicked' = kicked \ {u}
    /\ UNCHANGED <<stealth, sock, active, history, rest, kick, sync>>

-----------------------------------------------------------------------------
\* syncAndGetActiveViewerIds of a GET of the stream, or of a join, on one node: read the
\* set, look at the sockets in the room after another await, add who is missing.  A stealth
\* user's socket is in the room like any other.
SyncRead(n) ==
    /\ sync[n].pc = "idle"
    /\ sync' = [sync EXCEPT ![n] = [pc |-> "look", ids |-> active]]
    /\ UNCHANGED <<stealth, sock, active, history, kicked, rest, kick>>

Here(n) == {UserOf[s] : s \in {t \in Sockets : NodeOf[t] = n /\ sock[t].room}}
\* Mutant: the difference is taken the wrong way round.
SyncLookSwapped(n) ==
    /\ sync[n].pc = "look"
    /\ sync' = [sync EXCEPT ![n] = [pc |-> "add", ids |-> sync[n].ids \ Here(n)]]
    /\ UNCHANGED <<stealth, sock, active, history, kicked, rest, kick>>

SyncLook(n) ==
    /\ sync[n].pc = "look"
    /\ sync' = [sync EXCEPT ![n] = [pc |-> "add", ids |-> Here(n) \ sync[n].ids]]
    /\ UNCHANGED <<stealth, sock, active, history, kicked, rest, kick>>

SyncAdd(n) ==
    /\ sync[n].pc = "add"
    /\ active' = active \cup sync[n].ids
    /\ sync' = [sync EXCEPT ![n] = [pc |-> "idle", ids |-> {}]]
    /\ UNCHANGED <<stealth, sock, history, kicked, rest, kick>>

ViewersNext ==
    \/ \E s \in Sockets :
          JoinStream(s) \/ AddViewer(s) \/ LeaveStream(s) \/ Disconnect(s) \/ RemoveViewer(s)
    \/ \E u \in People :
          \/ RestJoin(u) \/ RestAdd(u) \/ RestLeave(u)
          \/ KickUser(u) \/ KickRemove(u) \/ ForceLeave(u) \/ KickExpires(u)
    \/ \E n \in Nodes : Restart(n) \/ SyncRead(n) \/ SyncLook(n) \/ SyncAdd(n)

-----------------------------------------------------------------------------
\* A viewer whose socket stays in the room is counted in the end, though the close of
\* another socket of theirs, a kick or a REST leave took them out of the set.
PresentIsCounted == \A s \in Sockets : sock[s].room ~> (UserOf[s] \in active \/ ~sock[s].room)
=============================================================================
