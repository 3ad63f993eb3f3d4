----------------------------- MODULE HostTimers -----------------------------
(***************************************************************************)
(* The two windows a host has to come back to a live stream: after their   *)
(* socket closes ("disconnect") and after a video call ("return").  Each   *)
(* is a key "pending" with an expiry, set when the window opens, and a     *)
(* durable deadline (DurableTimers) whose handler ends the stream if the   *)
(* key is still there.  A join of the host's deletes the keys.             *)
(***************************************************************************)
EXTENDS Naturals

CONSTANTS Sockets, \* of the host: a new one may join before the old one's close is noticed
          Window   \* how long a window is open, in ticks

Windows == {"disconnect", "return"}
NoDeadline == Window + 1

VARIABLES socket,   \* where each is: out, in its join, in, or in its close
          call,     \* the host's call: none, active, or over and about to open a window
          key,      \* what is left of each key's expiry; 0: no key
          deadline, \* what is left until each deadline; 0: due
          handler,  \* where the deadline's handler is, and what it found
          back,     \* whether a join has looked at the window's key since it was opened
          live, redisOn

timerVars == <<socket, call, key, deadline, handler, back, live, redisOn>>

TimersInit ==
    /\ socket = [s \in Sockets |-> "out"]
    /\ call = "none"
    /\ key = [w \in Windows |-> 0]
    /\ deadline = [w \in Windows |-> NoDeadline]
    /\ handler = [w \in Windows |-> "idle"]
    /\ back = [w \in Windows |-> FALSE]
    /\ live = TRUE /\ redisOn = TRUE

\* The key first; the deadline is counted from after it is set.
Open(w) ==
    /\ key' = IF redisOn THEN [key EXCEPT ![w] = Window] ELSE key
    /\ back' = [back EXCEPT ![w] = FALSE]
SetDeadline(w) == deadline' = [deadline EXCEPT ![w] = Window]

SocketTo(s, from, to) == socket[s] = from /\ socket' = [socket EXCEPT ![s] = to]

HostDisconnects(s) ==
    /\ SocketTo(s, "in", "closing") /\ Open("disconnect")
    /\ UNCHANGED <<call, deadline, handler, live, redisOn>>
DisconnectScheduled(s) ==
    /\ SocketTo(s, "closing", "out") /\ SetDeadline("disconnect")
    /\ UNCHANGED <<call, key, handler, back, live, redisOn>>

CallStarts ==
    /\ call = "none" /\ call' = "active"
    /\ UNCHANGED <<socket, key, deadline, handler, back, live, redisOn>>
OpenReturnWindow ==
    /\ call = "active" /\ live /\ call' = "over" /\ Open("return")
    /\ UNCHANGED <<socket, deadline, handler, live, redisOn>>
ReturnScheduled ==
    /\ call = "over" /\ call' = "none" /\ SetDeadline("return")
    /\ UNCHANGED <<socket, key, handler, back, live, redisOn>>

\* join_stream of the host: the disconnect key is read, then deleted; the return deadline is
\* cancelled, and its keys are read, then deleted.  The disconnect deadline stays.
HostJoins(s) ==
    /\ live /\ SocketTo(s, "out", IF ~redisOn THEN "in"
                               ELSE IF key["disconnect"] > 0 THEN "clear" ELSE "cancel")
    /\ back' = IF redisOn THEN [back EXCEPT !["disconnect"] = TRUE] ELSE back
    /\ UNCHANGED <<call, key, deadline, handler, live, redisOn>>
ClearDisconnect(s) ==
    /\ SocketTo(s, "clear", "cancel")
    /\ key' = IF redisOn THEN [key EXCEPT !["disconnect"] = 0] ELSE key
    /\ UNCHANGED <<call, deadline, handler, back, live, redisOn>>
CancelReturn(s) ==
    /\ SocketTo(s, "cancel", IF redisOn /\ key["return"] > 0 THEN "resume" ELSE "in")
    /\ deadline' = IF redisOn THEN [deadline EXCEPT !["return"] = NoDeadline] ELSE deadline
    /\ back' = [back EXCEPT !["return"] = TRUE]
    /\ UNCHANGED <<call, key, handler, live, redisOn>>
Resume(s) ==
    /\ SocketTo(s, "resume", "in")
    /\ key' = IF redisOn THEN [key EXCEPT !["return"] = 0] ELSE key
    /\ UNCHANGED <<call, deadline, handler, back, live, redisOn>>

\* A deadline is claimed, and its handler asks for the key; a closed Redis leaves it pending.
HandlerGoes(w, from, to) == handler[w] = from /\ handler' = [handler EXCEPT ![w] = to]

Fire(w) ==
    /\ deadline[w] = 0 /\ HandlerGoes(w, "idle", "look")
    /\ deadline' = [deadline EXCEPT ![w] = NoDeadline]
    /\ UNCHANGED <<socket, call, key, back, live, redisOn>>
LookForKey(w) ==
    /\ HandlerGoes(w, "look", IF redisOn /\ key[w] = 0 THEN "returned" ELSE "gone")
    /\ key' = IF redisOn THEN [key EXCEPT ![w] = 0] ELSE key
    /\ UNCHANGED <<socket, call, deadline, back, live, redisOn>>
\* The disconnect handler leaves a host alone who is on a call or in the other window.
EndIfGone(w) ==
    /\ HandlerGoes(w, "gone", "idle")
    /\ live' = (live /\ w = "disconnect"
                     /\ (call = "active" \/ (redisOn /\ key["return"] > 0)))
    /\ UNCHANGED <<socket, call, key, deadline, back, redisOn>>
HandlerReturns(w) ==
    /\ HandlerGoes(w, "returned", "idle")
    /\ UNCHANGED <<socket, call, key, deadline, back, live, redisOn>>

\* Keys expire and deadlines come nearer together.
TimersTick ==
    /\ key' = [w \in Windows |-> IF key[w] > 0 THEN key[w] - 1 ELSE 0]
    /\ deadline' = [w \in Windows |-> IF deadline[w] \in 1..Window THEN deadline[w] - 1
                                      ELSE deadline[w]]
    /\ UNCHANGED <<socket, call, handler, back, live, redisOn>>

RedisChanges ==
    /\ redisOn' = ~redisOn
    /\ UNCHANGED <<socket, call, key, deadline, handler, back, live>>

TimersNext ==
    \/ CallStarts \/ OpenReturnWindow \/ ReturnScheduled \/ TimersTick \/ RedisChanges
    \/ \E s \in Sockets :
          \/ HostDisconnects(s) \/ DisconnectScheduled(s)
          \/ HostJoins(s) \/ ClearDisconnect(s) \/ CancelReturn(s) \/ Resume(s)
    \/ \E w \in Windows : Fire(w) \/ LookForKey(w) \/ EndIfGone(w) \/ HandlerReturns(w)

TimersSpec == TimersInit /\ [][TimersNext]_timerVars

-----------------------------------------------------------------------------
\* A disconnect deadline that is waved through, "Host reconnected within grace period", belongs
\* to a host who did come back.  The code does otherwise: the key expires after the very time
\* that the deadline waits for, so that the handler never finds it.
WavedThroughIsBack == handler["disconnect"] = "returned" => back["disconnect"]
=============================================================================
