----------------------------- MODULE LeaderLock -----------------------------
(***************************************************************************)
(* The lease live:leader:<name> by which one node at a time runs a loop    *)
(* (isLeader, runAsLeader, guardedTick), and the shutdown that hands it    *)
(* over.  Time is told by how much of the lease is left and by how long    *)
(* each tick has lasted.  Nothing bounds a tick: the loops await Redis,    *)
(* Postgres and HTTP calls, and the lease is not renewed in between.       *)
(***************************************************************************)
EXTENDS Integers

CONSTANTS Peers,      \* processes; a restarted one has a new NODE_ID and is another peer
          NoPeer,     \* the key is not there
          LeaderTTL   \* LEADER_TTL_MS

ASSUME LeaderAssumption ==
    /\ NoPeer \notin Peers
    /\ LeaderTTL \in Nat \ {0}

VARIABLES holder,  \* value of the key
          left,    \* its PX, 0 when the key is not there
          place,   \* each peer's tick: "idle", "renew" between the SET and the script, "lead", "dead"
          age,     \* how long ago Redis made the peer leader, while it leads, up to LeaderTTL
          held,    \* heldLocks: the peers that would release the lock
          leaving, \* shuttingDown
          failed   \* peers whose question to Redis has failed; the bound on failures

leaderVars == <<holder, left, place, age, held, leaving, failed>>

LeaderInit ==
    /\ holder = NoPeer /\ left = 0
    /\ place = [p \in Peers |-> "idle"]
    /\ age = [p \in Peers |-> 0]
    /\ held = {} /\ leaving = {} /\ failed = {}

-----------------------------------------------------------------------------
\* isLeader: SET NX, then the script that renews the peer's own lease.

Grant(p) ==
    /\ holder' = p /\ left' = LeaderTTL
    /\ place' = [place EXCEPT ![p] = "lead"]
    /\ age' = [age EXCEPT ![p] = 0]
    /\ held' = held \cup {p}

\* The peer is not the leader: its tick ends at once.
StandBy(p) ==
    /\ place' = [place EXCEPT ![p] = "idle"]
    /\ held' = held \ {p}
    /\ UNCHANGED <<holder, left, age>>

SetNX(p) ==
    /\ place[p] = "idle" /\ p \notin leaving
    /\ \/ holder = NoPeer /\ Grant(p)
       \/ /\ holder # NoPeer
          /\ place' = [place EXCEPT ![p] = "renew"]
          /\ UNCHANGED <<holder, left, age, held>>
    /\ UNCHANGED <<leaving, failed>>

\* RENEW_LUA: the lease may have run out, or gone to another peer, since the SET.
Renew(p) ==
    /\ place[p] = "renew"
    /\ IF holder = p THEN Grant(p) ELSE StandBy(p)
    /\ UNCHANGED <<leaving, failed>>

\* The answer is lost, whether Redis took the lease or not: no tick (F11).
AskFails(p) ==
    /\ p \notin failed /\ failed' = failed \cup {p}
    /\ \/ /\ place[p] = "idle" /\ p \notin leaving /\ holder = NoPeer
          /\ holder' = p /\ left' = LeaderTTL
       \/ /\ place[p] = "renew"
          /\ UNCHANGED holder
          /\ left' \in {left, IF holder = p THEN LeaderTTL ELSE left}
    /\ place' = [place EXCEPT ![p] = "idle"]
    /\ UNCHANGED <<age, held, leaving>>

TickEnds(p) ==
    /\ place[p] = "lead"
    /\ place' = [place EXCEPT ![p] = "idle"]
    /\ age' = [age EXCEPT ![p] = 0]
    /\ UNCHANGED <<holder, left, held, leaving, failed>>

-----------------------------------------------------------------------------
\* shutdown: no new ticks; the lock is released though a tick may still be under way.

BeginShutdown(p) ==
    /\ place[p] # "dead" /\ p \notin leaving
    /\ leaving' = leaving \cup {p}
    /\ UNCHANGED <<holder, left, place, age, held, failed>>

\* Mutant: DEL without the comparison.
ReleaseUncompared(p) ==
    /\ p \in leaving /\ place[p] # "dead"
    /\ IF p \in held THEN holder' = NoPeer /\ left' = 0 ELSE UNCHANGED <<holder, left>>
    /\ held' = held \ {p}
    /\ UNCHANGED <<place, age, leaving, failed>>

\* releaseLeaderLocks: the lock may be another's by now.
ReleaseLeaderLocks(p) ==
    /\ p \in leaving /\ place[p] # "dead"
    /\ IF p \in held /\ holder = p THEN holder' = NoPeer /\ left' = 0
                                   ELSE UNCHANGED <<holder, left>>
    /\ held' = held \ {p}
    /\ UNCHANGED <<place, age, leaving, failed>>

\* The process exits, at the end of its shutdown or by a crash.
Exit(p) ==
    /\ place[p] # "dead"
    /\ place' = [place EXCEPT ![p] = "dead"]
    /\ age' = [age EXCEPT ![p] = 0]
    /\ UNCHANGED <<holder, left, held, leaving, failed>>

LeaseTime ==
    /\ left' = IF left > 0 THEN left - 1 ELSE 0
    /\ holder' = IF left = 1 THEN NoPeer ELSE holder
    /\ age' = [p \in Peers |-> IF place[p] = "lead" /\ age[p] < LeaderTTL THEN age[p] + 1 ELSE age[p]]
    /\ UNCHANGED <<place, held, leaving, failed>>

LeaderNext ==
    \/ \E p \in Peers :
          \/ SetNX(p) \/ Renew(p) \/ AskFails(p) \/ TickEnds(p)
          \/ BeginShutdown(p) \/ ReleaseLeaderLocks(p) \/ Exit(p)
    \/ LeaseTime

LeaderSpec == LeaderInit /\ [][LeaderNext]_leaderVars

-----------------------------------------------------------------------------
\* The tick has lasted as long as the lease it began with: another node may lead by now.
Outlasted(p) == age[p] = LeaderTTL

\* Two nodes run a loop at once only while one of them shuts down, which releases the lock though
\* a tick is under way, or when the tick of one has outlasted the lease: however locks expire,
\* are renewed, released late or left by dead nodes, no other tick overlaps the next leader's.
OneLeaderWorks ==
    \A p, q \in Peers :
        place[p] = "lead" /\ place[q] = "lead" /\ p # q
            => \E r \in {p, q} : r \in leaving \/ Outlasted(r)
=============================================================================
