------------------------- MODULE CallSession_proofs -------------------------
(***************************************************************************)
(* Theorems about CallSession, for any users, requests and bounds.         *)
(***************************************************************************)
EXTENDS CallSession, FiniteSetTheorems, TLAPS

Initiating == {"lockCreator", "callerBusy", "creatorBusy", "create"}
Ending     == {"endRead", "endUpdate", "announce"}
rowVars    == <<status, parties, billed, nextCall, told>>

\* What process p knows of its request at each label.
Phase(p) ==
    /\ pc[p] \in Initiating => caller[p] \in Users /\ creator[p] \in Users
    /\ pc[p] \in {"idle", "ledger", "reject"} => caller[p] = None /\ back[p] = "idle"
    /\ pc[p] \in Ending \cup {"ledger", "reject"} =>
           target[p] \in Calls /\ status[target[p]] # "NONE"
    /\ pc[p] \in Ending =>
           \/ back[p] = "idle" /\ caller[p] = None
           \/ back[p] \in {"creatorBusy", "create"}
              /\ caller[p] \in Users /\ creator[p] \in Users

\* Where p's endCall stands: a second attempt starts only on a call that was accepted
\* or is over, so it can only fail on a call that is over.
Attempts(p) ==
    /\ pc[p] \in Initiating \cup {"idle", "ledger", "reject"} => tries[p] = 0
    /\ pc[p] = "endRead" =>
           tries[p] \in 0..1 /\ (tries[p] = 1 => status[target[p]] # "RINGING")
    /\ pc[p] = "endUpdate" =>
           /\ tries[p] \in 1..2 /\ seen[p] \in Live
           /\ tries[p] = 2 => seen[p] = "ACTIVE"
           /\ seen[p] = "ACTIVE" => status[target[p]] # "RINGING"

\* At most one process has won the end of a call, and it has not announced it yet.
Winner(p) ==
    pc[p] = "announce" =>
        /\ status[target[p]] \in Terminal
        /\ told[target[p]] = 0
        /\ \A q \in Procs : pc[q] = "announce" /\ target[q] = target[p] => p = q

\* The rows created so far, and the calls whose end was announced.
Rows ==
    \A i \in Calls :
        /\ status[i] = "NONE" <=> i >= nextCall
        /\ told[i] # 0 => status[i] \in Terminal

EndInv == TypeOK /\ Rows /\ \A p \in Procs : Phase(p) /\ Attempts(p) /\ Winner(p)

Others(p) ==
    \A q \in Procs \ {p} :
        /\ pc'[q] = pc[q] /\ caller'[q] = caller[q] /\ creator'[q] = creator[q]
        /\ target'[q] = target[q] /\ seen'[q] = seen[q] /\ tries'[q] = tries[q]
        /\ back'[q] = back[q]

----------------------------------------------------------------------------
(* EndInv is inductive *)

\* A step of p that changes no row and announces nothing keeps EndInv for the others.
LEMMA NoRowMoves ==
    ASSUME EndInv, NEW p \in Procs, TypeOK', UNCHANGED rowVars, Others(p),
           pc'[p] # "announce", Phase(p)', Attempts(p)'
    PROVE  EndInv'
<1>1. Rows'
  BY DEF EndInv, Rows, rowVars
<1>2. ASSUME NEW q \in Procs PROVE (Phase(q) /\ Attempts(q) /\ Winner(q))'
  <2>1. CASE q = p
    BY <2>1 DEF Winner
  <2>2. CASE q # p
    BY <2>2 DEF EndInv, Others, Phase, Attempts, Winner, Ending, rowVars
  <2>3. QED BY <2>1, <2>2
<1>3. QED BY <1>1, <1>2 DEF EndInv

\* A row only moves forward: what an endCall has excluded stays excluded.
Forward ==
    \A i \in Calls :
        \/ status'[i] = status[i]
        \/ status[i] = "NONE" /\ status'[i] = "RINGING"
        \/ status[i] = "RINGING" /\ status'[i] \in {"ACTIVE", "MISSED", "REJECTED"}
        \/ status[i] = "ACTIVE" /\ status'[i] = "ENDED"

\* A step of p that moves rows forward, and announces nothing new, keeps EndInv for
\* the others.
LEMMA RowsMove ==
    ASSUME EndInv, NEW p \in Procs, TypeOK', Forward, Rows', UNCHANGED told, Others(p),
           Phase(p)', Attempts(p)', Winner(p)',
           \A q \in Procs \ {p} : pc[q] = "announce" /\ pc'[p] = "announce"
                                      => target[q] # target'[p]
    PROVE  EndInv'
<1>1. ASSUME NEW q \in Procs PROVE (Phase(q) /\ Attempts(q) /\ Winner(q))'
  <2>1. CASE q = p
    BY <2>1
  <2>2. CASE q # p
    <3>1. Phase(q)'
      BY <2>2 DEF EndInv, Others, Phase, Ending, Forward
    <3>2. Attempts(q)'
      BY <2>2 DEF EndInv, Others, Phase, Attempts, Ending, Forward
    <3>3. Winner(q)'
      BY <2>2 DEF EndInv, Others, Phase, Winner, Ending, Forward, Terminal
    <3>4. QED BY <3>1, <3>2, <3>3
  <2>3. QED BY <2>1, <2>2
<1>2. QED BY <1>1 DEF EndInv

\* EndInv holds in every state: types, and what each request knows of its call.
THEOREM EndInvariant == Spec => []EndInv
<1> USE CallSessionAssumption
<1>1. Init => EndInv
  <2> SUFFICES ASSUME Init PROVE EndInv
    OBVIOUS
  <2>1. TypeOK
    BY DEF Init, TypeOK, Statuses, Labels, Calls
  <2>2. Rows
    BY DEF Init, Rows, Calls
  <2>3. \A p \in Procs : Phase(p) /\ Attempts(p) /\ Winner(p)
    BY DEF Init, Phase, Attempts, Winner, Initiating, Ending
  <2>4. QED BY <2>1, <2>2, <2>3 DEF EndInv
<1>2. EndInv /\ [Next]_vars => EndInv'
  <2> SUFFICES ASSUME EndInv, [Next]_vars PROVE EndInv'
    OBVIOUS
  <2>1. TypeOK /\ Rows /\ \A p \in Procs : Phase(p) /\ Attempts(p) /\ Winner(p)
    BY DEF EndInv
  <2> USE DEF Initiating, Ending
  <2>2. ASSUME NEW p \in Procs, NEW c \in Users, NEW r \in Users, Initiate(p, c, r)
        PROVE  EndInv'
    <3>1. TypeOK'
      BY <2>1, <2>2 DEF Initiate, TypeOK, SetLock, Goto, Labels, rows, endVars
    <3>2. UNCHANGED rowVars /\ Others(p)
      BY <2>1, <2>2 DEF Initiate, TypeOK, Goto, rows, endVars, rowVars, Others
    <3>3. pc'[p] # "announce" /\ Phase(p)' /\ Attempts(p)'
      BY <2>1, <2>2 DEF Initiate, TypeOK, Goto, rows, endVars, Phase, Attempts
    <3>4. QED BY <3>1, <3>2, <3>3, NoRowMoves
  <2>3. ASSUME NEW p \in Procs, NEW c \in Users, NEW r \in Users, InitiateUnlocked(p, c, r)
        PROVE  EndInv'
    <3>1. TypeOK'
      BY <2>1, <2>3 DEF InitiateUnlocked, TypeOK, Goto, Labels, rows, endVars
    <3>2. UNCHANGED rowVars /\ Others(p)
      BY <2>1, <2>3 DEF InitiateUnlocked, TypeOK, Goto, rows, endVars, rowVars, Others
    <3>3. pc'[p] # "announce" /\ Phase(p)' /\ Attempts(p)'
      BY <2>1, <2>3 DEF InitiateUnlocked, TypeOK, Goto, rows, endVars, Phase, Attempts
    <3>4. QED BY <3>1, <3>2, <3>3, NoRowMoves
  <2>4. ASSUME NEW p \in Procs, LockCreator(p) PROVE EndInv'
    <3>1. TypeOK'
      BY <2>1, <2>4 DEF LockCreator, TypeOK, Phase, SetLock, Goto, Labels, rows, endVars
    <3>2. UNCHANGED rowVars /\ Others(p)
      BY <2>1, <2>4 DEF LockCreator, TypeOK, Goto, rows, endVars, rowVars, Others
    <3>3. pc'[p] # "announce" /\ Phase(p)' /\ Attempts(p)'
      BY <2>1, <2>4 DEF LockCreator, TypeOK, Goto, rows, endVars, Phase, Attempts
    <3>4. QED BY <3>1, <3>2, <3>3, NoRowMoves
  <2>5. ASSUME NEW p \in Procs, CallerBusy(p) \/ CreatorBusy(p) PROVE EndInv'
    <3>1. PICK u \in Users, next \in {"creatorBusy", "create"} :
              /\ pc[p] \in {"callerBusy", "creatorBusy"}
              /\ BusyCheck(p, u, next)
              /\ UNCHANGED <<rows, told, lock, caller, creator, held, lapses>>
      BY <2>1, <2>5 DEF CallerBusy, CreatorBusy, Phase
    <3>2. TypeOK'
      <4>1. CASE \E i \in Calls : CallEnd(p, i, next)
        BY <2>1, <3>1, <4>1 DEF CallEnd, TypeOK, Goto, Labels, rows, Calls
      <4>2. CASE (Goto(p, next) \/ Goto(p, "release")) /\ UNCHANGED endVars
        BY <2>1, <3>1, <4>2 DEF TypeOK, Goto, Labels, rows, endVars
      <4>3. QED BY <3>1, <4>1, <4>2 DEF BusyCheck, LiveCalls
    <3>3. UNCHANGED rowVars /\ Others(p)
      BY <2>1, <3>1 DEF BusyCheck, CallEnd, TypeOK, Goto, rows, endVars, rowVars, Others
    <3>4. pc'[p] # "announce" /\ Phase(p)' /\ Attempts(p)'
      BY <2>1, <3>1 DEF BusyCheck, CallEnd, TypeOK, Goto, rows, endVars, Phase, Attempts,
                        LiveCalls, Live
    <3>5. QED BY <3>2, <3>3, <3>4, NoRowMoves
  <2>6. ASSUME NEW p \in Procs, Release(p) PROVE EndInv'
    <3>1. TypeOK'
      BY <2>1, <2>6 DEF Release, Finish, TypeOK, SetLock, Goto, Labels, Statuses, rows, endVars
    <3>2. UNCHANGED rowVars /\ Others(p)
      BY <2>1, <2>6 DEF Release, Finish, TypeOK, Goto, rows, endVars, rowVars, Others
    <3>3. pc'[p] # "announce" /\ Phase(p)' /\ Attempts(p)'
      BY <2>1, <2>6 DEF Release, Finish, TypeOK, Goto, rows, endVars, Phase, Attempts
    <3>4. QED BY <3>1, <3>2, <3>3, NoRowMoves
  <2>7. ASSUME NEW p \in Procs, NEW i \in Calls, Accept(p, i) \/ Reject(p, i) PROVE EndInv'
    <3>1. PICK label \in {"ledger", "reject"} : Answer(p, i, label)
      BY <2>7 DEF Accept, Reject
    <3>2. TypeOK'
      BY <2>1, <3>1 DEF Answer, TypeOK, Goto, Labels, rows, Calls
    <3>3. UNCHANGED rowVars /\ Others(p)
      BY <2>1, <3>1 DEF Answer, TypeOK, Goto, rows, rowVars, Others
    <3>4. pc'[p] # "announce" /\ Phase(p)' /\ Attempts(p)'
      BY <2>1, <3>1 DEF Answer, TypeOK, Goto, rows, Phase, Attempts
    <3>5. QED BY <3>2, <3>3, <3>4, NoRowMoves
  <2>8. ASSUME NEW p \in Procs, NEW i \in Calls, EndCall(p, i) PROVE EndInv'
    <3>1. TypeOK'
      BY <2>1, <2>8 DEF EndCall, CallEnd, TypeOK, Goto, Labels, rows, Calls
    <3>2. UNCHANGED rowVars /\ Others(p)
      BY <2>1, <2>8 DEF EndCall, CallEnd, TypeOK, Goto, rows, rowVars, Others
    <3>3. pc'[p] # "announce" /\ Phase(p)' /\ Attempts(p)'
      BY <2>1, <2>8 DEF EndCall, CallEnd, TypeOK, Goto, rows, Phase, Attempts, Live
    <3>4. QED BY <3>1, <3>2, <3>3, NoRowMoves
  <2>9. ASSUME NEW p \in Procs, EndRead(p) PROVE EndInv'
    <3>1. tries[p] \in 0..1 /\ target[p] \in Calls
      BY <2>1, <2>9 DEF EndRead, Phase, Attempts
    <3>2. TypeOK'
      BY <2>1, <2>9, <3>1 DEF EndRead, EndReturns, TypeOK, Goto, Labels, Statuses, rows
    <3>3. UNCHANGED rowVars /\ Others(p)
      BY <2>1, <2>9 DEF EndRead, EndReturns, TypeOK, Goto, rows, rowVars, Others
    <3>4. pc'[p] # "announce" /\ Phase(p)' /\ Attempts(p)'
      BY <2>1, <2>9, <3>1 DEF EndRead, EndReturns, TypeOK, Goto, rows, Phase, Attempts, Live
    <3>5. QED BY <3>2, <3>3, <3>4, NoRowMoves
  <2>10. ASSUME NEW p \in Procs, Fails(p) PROVE EndInv'
    <3>1. TypeOK'
      BY <2>1, <2>10 DEF Fails, Finish, TypeOK, Goto, Labels, Statuses, rows, endVars
    <3>2. UNCHANGED rowVars /\ Others(p)
      BY <2>1, <2>10 DEF Fails, Finish, TypeOK, Goto, rows, endVars, rowVars, Others
    <3>3. pc'[p] # "announce" /\ Phase(p)' /\ Attempts(p)'
      BY <2>1, <2>10 DEF Fails, Finish, TypeOK, Goto, rows, endVars, Phase, Attempts
    <3>4. QED BY <3>1, <3>2, <3>3, NoRowMoves
  <2>11. ASSUME NEW p \in Procs, Crash(p) PROVE EndInv'
    <3>1. TypeOK'
      BY <2>1, <2>11 DEF Crash, Finish, TypeOK, Goto, Labels, Statuses, rows
    <3>2. UNCHANGED rowVars /\ Others(p)
      BY <2>1, <2>11 DEF Crash, Finish, TypeOK, Goto, rows, rowVars, Others
    <3>3. pc'[p] # "announce" /\ Phase(p)' /\ Attempts(p)'
      BY <2>1, <2>11 DEF Crash, Finish, TypeOK, Goto, rows, Phase, Attempts
    <3>4. QED BY <3>1, <3>2, <3>3, NoRowMoves
  <2>12. ASSUME NEW p \in Procs, Create(p) PROVE EndInv'
    <3>1. TypeOK'
      <4>1. pc' \in [Procs -> Labels] /\ caller[p] \in Users /\ creator[p] \in Users
        BY <2>1, <2>12 DEF Create, TypeOK, Phase, Goto, Labels
      <4>2. CASE nextCall \in Calls
        <5>1. status' \in [Calls -> Statuses] /\ parties' \in [Calls -> SUBSET Users]
          BY <2>1, <2>12, <4>1, <4>2 DEF Create, TypeOK, Statuses, Live
        <5>2. nextCall' \in 1..(MaxCalls + 1)
          BY <2>12, <4>2 DEF Create, Calls
        <5>3. QED BY <2>1, <2>12, <4>1, <5>1, <5>2 DEF Create, TypeOK, endVars
      <4>3. CASE nextCall \notin Calls
        BY <2>1, <2>12, <4>1, <4>3 DEF Create, TypeOK, endVars
      <4>4. QED BY <4>2, <4>3
    <3>2. Forward /\ Others(p) /\ UNCHANGED told
      BY <2>1, <2>12 DEF Create, TypeOK, Goto, Others, Forward, Rows, endVars, Calls
    <3>3. Rows'
      <4>1. CASE nextCall \in Calls
        <5>1. ASSUME NEW i \in Calls PROVE status'[i] = "NONE" <=> i >= nextCall'
          <6>1. i \in Nat /\ nextCall \in Nat /\ nextCall' = nextCall + 1
            BY <2>12, <4>1 DEF Create, Calls
          <6>2. status'[i] = IF i = nextCall THEN "RINGING" ELSE status[i]
            BY <2>1, <2>12, <4>1 DEF Create, TypeOK
          <6>3. QED BY <2>1, <6>1, <6>2 DEF Rows
        <5>2. ASSUME NEW i \in Calls, told'[i] # 0 PROVE status'[i] \in Terminal
          <6>1. told[nextCall] = 0
            BY <2>1, <4>1 DEF Rows, Terminal, Calls
          <6>2. QED BY <2>1, <2>12, <4>1, <5>2, <6>1 DEF Create, TypeOK, Rows
        <5>3. QED BY <5>1, <5>2 DEF Rows
      <4>2. CASE nextCall \notin Calls
        BY <2>1, <2>12, <4>2 DEF Create, Rows
      <4>3. QED BY <4>1, <4>2
    <3>4. pc'[p] # "announce" /\ Phase(p)' /\ Attempts(p)' /\ Winner(p)'
      BY <2>1, <2>12 DEF Create, TypeOK, Goto, Phase, Attempts, Winner, endVars
    <3>5. QED BY <3>1, <3>2, <3>3, <3>4, RowsMove
  <2>13. ASSUME NEW p \in Procs, LedgerAccept(p) PROVE EndInv'
    <3>1. TypeOK'
      BY <2>1, <2>13 DEF LedgerAccept, Finish, TypeOK, Phase, Goto, Labels, Statuses, Live
    <3>2. Forward /\ Others(p) /\ UNCHANGED told
      BY <2>1, <2>13 DEF LedgerAccept, Finish, TypeOK, Goto, Others, Forward
    <3>3. Rows'
      BY <2>1, <2>13 DEF LedgerAccept, TypeOK, Rows, Terminal
    <3>4. pc'[p] # "announce" /\ Phase(p)' /\ Attempts(p)' /\ Winner(p)'
      BY <2>1, <2>13 DEF LedgerAccept, Finish, TypeOK, Goto, Phase, Attempts, Winner
    <3>5. QED BY <3>1, <3>2, <3>3, <3>4, RowsMove
  <2>14. ASSUME NEW p \in Procs, RejectUpdate(p) PROVE EndInv'
    <3> USE DEF RejectUpdate, Finish
    <3>1. TypeOK'
      BY <2>1, <2>14 DEF TypeOK, Phase, Goto, Labels, Statuses, Terminal, endVars
    <3>2. Forward /\ Others(p) /\ UNCHANGED told
      BY <2>1, <2>14 DEF TypeOK, Goto, Others, Forward, endVars
    <3>3. Rows'
      BY <2>1, <2>14 DEF TypeOK, Rows, Terminal
    <3>4. Phase(p)' /\ Attempts(p)'
      BY <2>1, <2>14 DEF TypeOK, Goto, Phase, Attempts, endVars
    <3>5. /\ Winner(p)'
          /\ \A q \in Procs \ {p} : pc[q] = "announce" /\ pc'[p] = "announce"
                                         => target[q] # target'[p]
      BY <2>1, <2>14, <3>2 DEF TypeOK, Goto, Phase, Winner, Rows, Terminal, endVars, Others
    <3>6. QED BY <3>1, <3>2, <3>3, <3>4, <3>5, RowsMove
  <2>15. ASSUME NEW p \in Procs, EndUpdate(p) PROVE EndInv'
    <3> USE DEF EndUpdate, EndReturns, EndedFrom
    <3>1. /\ tries[p] \in 1..2 /\ seen[p] \in Live /\ target[p] \in Calls
          /\ tries[p] = 2 => seen[p] = "ACTIVE"
          /\ seen[p] = "ACTIVE" => status[target[p]] # "RINGING"
      BY <2>1, <2>15 DEF Phase, Attempts
    <3>2. TypeOK'
      BY <2>1, <2>15, <3>1 DEF TypeOK, Phase, Goto, Labels, Statuses, Terminal, endVars
    <3>3. Forward /\ Others(p) /\ UNCHANGED told
      BY <2>1, <2>15, <3>1 DEF TypeOK, Goto, Others, Forward, Live, endVars
    <3>4. Rows'
      BY <2>1, <2>15, <3>1 DEF TypeOK, Rows, Live, Terminal
    <3>5. Phase(p)'
      BY <2>1, <2>15, <3>1 DEF TypeOK, Goto, Phase, endVars
    <3>6. Attempts(p)'
      BY <2>1, <2>15, <3>1 DEF TypeOK, Goto, Phase, Attempts, Live, endVars
    <3>7. /\ Winner(p)'
          /\ \A q \in Procs \ {p} : pc[q] = "announce" /\ pc'[p] = "announce"
                                         => target[q] # target'[p]
      BY <2>1, <2>15, <3>1, <3>3 DEF TypeOK, Goto, Phase, Winner, Rows, Live, Terminal, endVars, Others
    <3>8. QED BY <3>2, <3>3, <3>4, <3>5, <3>6, <3>7, RowsMove
  <2>16. ASSUME NEW p \in Procs, Announce(p) PROVE EndInv'
    <3> USE DEF Announce, EndReturns
    <3>1. target[p] \in Calls /\ status[target[p]] \in Terminal /\ told[target[p]] = 0
      BY <2>1, <2>16 DEF Phase, Winner
    <3>2. TypeOK'
      BY <2>1, <2>16, <3>1 DEF TypeOK, Phase, Goto, Labels, Statuses, rows
    <3>3. Rows'
      BY <2>1, <2>16, <3>1 DEF TypeOK, Rows, rows
    <3>4. ASSUME NEW q \in Procs PROVE (Phase(q) /\ Attempts(q) /\ Winner(q))'
      <4>1. CASE q = p
        BY <2>1, <2>16, <4>1 DEF TypeOK, Goto, Phase, Attempts, Winner, rows
      <4>2. CASE q # p
        BY <2>1, <2>16, <3>1, <4>2 DEF TypeOK, Goto, Phase, Attempts, Winner, rows
      <4>3. QED BY <4>1, <4>2
    <3>5. QED BY <3>2, <3>3, <3>4 DEF EndInv
  <2>17. ASSUME NEW u \in Users, ExpireLock(u) PROVE EndInv'
    <3>1. TypeOK'
      BY <2>1, <2>17 DEF ExpireLock, SetLock, TypeOK, rows, endVars
    <3>2. Rows'
      BY <2>1, <2>17 DEF ExpireLock, Rows, rows
    <3>3. ASSUME NEW q \in Procs PROVE (Phase(q) /\ Attempts(q) /\ Winner(q))'
      BY <2>1, <2>17 DEF ExpireLock, Phase, Attempts, Winner, rows, endVars
    <3>4. QED BY <3>1, <3>2, <3>3 DEF EndInv
  <2>18. CASE UNCHANGED vars
    <3>1. TypeOK' /\ Rows'
      BY <2>1, <2>18 DEF vars, TypeOK, Rows
    <3>2. ASSUME NEW q \in Procs PROVE (Phase(q) /\ Attempts(q) /\ Winner(q))'
      BY <2>1, <2>18 DEF vars, Phase, Attempts, Winner
    <3>3. QED BY <3>1, <3>2 DEF EndInv
  <2>19. QED
    BY <2>2, <2>3, <2>4, <2>5, <2>6, <2>7, <2>8, <2>9, <2>10, <2>11, <2>12, <2>13, <2>14,
       <2>15, <2>16, <2>17, <2>18 DEF Next, Step, SweepRinging
<1>3. QED BY <1>1, <1>2, PTL DEF Spec

\* Every variable keeps its type.
COROLLARY TypeCorrect == Spec => []TypeOK
BY EndInvariant, PTL DEF EndInv

----------------------------------------------------------------------------
(* Two attempts of endCall, and the life of a call *)

\* An endCall that returns without having won leaves a call that is over.
THEOREM TwoAttempts == Spec => EndLeavesCallOver
<1>1. EndInv /\ [Next]_vars =>
        [\A p \in Procs :
           ((EndRead(p) \/ EndUpdate(p)) /\ pc'[p] \notin {"endRead", "endUpdate", "announce"})
               => status'[target[p]] \in Terminal]_vars
  <2> SUFFICES ASSUME EndInv, NEW p \in Procs, EndRead(p) \/ EndUpdate(p),
                      pc'[p] \notin {"endRead", "endUpdate", "announce"}
               PROVE  status'[target[p]] \in Terminal
    OBVIOUS
  <2>1. TypeOK /\ Phase(p) /\ Attempts(p)
    BY DEF EndInv
  <2>2. target[p] \in Calls /\ status[target[p]] \in Statuses \ {"NONE"}
    BY <2>1 DEF EndRead, EndUpdate, Phase, Ending, TypeOK
  <2>3. CASE EndRead(p)
    BY <2>1, <2>2, <2>3 DEF EndRead, TypeOK, Goto, Statuses, rows
  <2>4. CASE EndUpdate(p)
    BY <2>1, <2>2, <2>4 DEF EndUpdate, TypeOK, Goto, Statuses, Attempts, Live
  <2>5. QED BY <2>3, <2>4
<1>2. QED BY <1>1, EndInvariant, PTL DEF Spec, EndLeavesCallOver

\* The requests implement the atomic life of a call.
THEOREM Implements == Spec => ImplementsLifecycle
<1> USE CallSessionAssumption
<1>1. Init => Lifecycle!Init
  BY DEF Init, Lifecycle!Init
<1>2. EndInv /\ [Next]_vars => [Lifecycle!Next]_(Lifecycle!vars)
  <2> SUFFICES ASSUME EndInv, [Next]_vars
               PROVE  Lifecycle!Next \/ UNCHANGED <<status, billed, told>>
    BY DEF Lifecycle!vars
  <2>1. TypeOK /\ Rows /\ \A p \in Procs : Phase(p) /\ Attempts(p) /\ Winner(p)
    BY DEF EndInv
  <2>2. ASSUME NEW p \in Procs, Create(p)
        PROVE  Lifecycle!Next \/ UNCHANGED <<status, billed, told>>
    <3>1. CASE nextCall \in Calls
      <4>1. status[nextCall] = "NONE"
        BY <2>1, <3>1 DEF Rows, Calls
      <4>2. Lifecycle!Create(nextCall)
        BY <2>2, <3>1, <4>1 DEF Create, Lifecycle!Create, Lifecycle!Move
      <4>3. QED BY <3>1, <4>2 DEF Lifecycle!Next
    <3>2. CASE nextCall \notin Calls
      BY <2>2, <3>2 DEF Create
    <3>3. QED BY <3>1, <3>2
  <2>3. ASSUME NEW p \in Procs, LedgerAccept(p)
        PROVE  Lifecycle!Next \/ UNCHANGED <<status, billed, told>>
    <3>1. target[p] \in Calls
      BY <2>1, <2>3 DEF LedgerAccept, Phase
    <3>2. CASE status[target[p]] = "RINGING"
      <4>1. Lifecycle!Accept(target[p])
        BY <2>3, <3>2 DEF LedgerAccept, Lifecycle!Accept, Lifecycle!Move
      <4>2. QED BY <3>1, <4>1 DEF Lifecycle!Next
    <3>3. CASE status[target[p]] # "RINGING"
      BY <2>3, <3>3 DEF LedgerAccept
    <3>4. QED BY <3>2, <3>3
  <2>4. ASSUME NEW p \in Procs, RejectUpdate(p)
        PROVE  Lifecycle!Next \/ UNCHANGED <<status, billed, told>>
    <3>1. target[p] \in Calls
      BY <2>1, <2>4 DEF RejectUpdate, Phase
    <3>2. CASE status[target[p]] = "RINGING"
      <4>1. Lifecycle!Reject(target[p])
        BY <2>4, <3>2 DEF RejectUpdate, Lifecycle!Reject, Lifecycle!Move
      <4>2. QED BY <3>1, <4>1 DEF Lifecycle!Next
    <3>3. CASE status[target[p]] # "RINGING"
      BY <2>4, <3>3 DEF RejectUpdate
    <3>4. QED BY <3>2, <3>3
  <2>5. ASSUME NEW p \in Procs, EndUpdate(p)
        PROVE  Lifecycle!Next \/ UNCHANGED <<status, billed, told>>
    <3>1. target[p] \in Calls /\ seen[p] \in Live
      BY <2>1, <2>5 DEF EndUpdate, Phase, Attempts, Ending
    <3>2. CASE status[target[p]] = seen[p]
      <4>1. Lifecycle!Miss(target[p]) \/ Lifecycle!End(target[p])
        BY <2>5, <3>1, <3>2 DEF EndUpdate, EndedFrom, Live,
                                Lifecycle!Miss, Lifecycle!End, Lifecycle!Move
      <4>2. QED BY <3>1, <4>1 DEF Lifecycle!Next
    <3>3. CASE status[target[p]] # seen[p]
      BY <2>5, <3>3 DEF EndUpdate
    <3>4. QED BY <3>2, <3>3
  <2>6. ASSUME NEW p \in Procs, Announce(p)
        PROVE  Lifecycle!Next
    <3>1. /\ target[p] \in Calls /\ told[target[p]] = 0
          /\ status[target[p]] \in Terminal
      BY <2>1, <2>6 DEF Announce, Phase, Winner, Ending
    <3>2. Lifecycle!Announce(target[p])
      BY <2>1, <2>6, <3>1 DEF Announce, TypeOK, Terminal, rows,
                              Lifecycle!Announce, Lifecycle!Terminal
    <3>3. QED BY <3>1, <3>2 DEF Lifecycle!Next
  <2>7. ASSUME \/ \E p \in Procs : \/ LockCreator(p) \/ CallerBusy(p) \/ CreatorBusy(p)
                                   \/ Release(p) \/ EndRead(p) \/ Fails(p) \/ Crash(p)
               \/ \E p \in Procs, c \in Users, r \in Users :
                      Initiate(p, c, r) \/ InitiateUnlocked(p, c, r)
               \/ \E p \in Procs, i \in Calls : Accept(p, i) \/ Reject(p, i) \/ EndCall(p, i)
               \/ \E u \in Users : ExpireLock(u)
               \/ UNCHANGED vars
        PROVE  UNCHANGED <<status, billed, told>>
    BY <2>7 DEF LockCreator, CallerBusy, CreatorBusy, Release, EndRead, Fails, Crash, Initiate,
                InitiateUnlocked, Accept, Reject, Answer, EndCall, ExpireLock, rows, vars
  <2>8. QED BY <2>2, <2>3, <2>4, <2>5, <2>6, <2>7 DEF Next, Step, SweepRinging
<1>3. QED BY <1>1, <1>2, EndInvariant, PTL DEF Spec, ImplementsLifecycle, Lifecycle!Spec

----------------------------------------------------------------------------
(* One live call per user while no lock lapses *)

\* p has both locks and has not created or given up yet.
Guarded(p) ==
    \/ pc[p] \in {"callerBusy", "creatorBusy", "create"}
    \/ pc[p] \in Ending /\ back[p] # "idle"

\* What p's locks and busy checks are worth: the locks are its own, and between a
\* check and the insert nobody gives the user another call.
Locked(p) ==
    /\ \A u \in held[p] : lock[u] = p
    /\ pc[p] = "lockCreator" => caller[p] \in held[p]
    /\ Guarded(p) => caller[p] \in held[p] /\ creator[p] \in held[p]
    /\ pc[p] \in {"creatorBusy", "create"} => LiveCalls(caller[p]) = {}
    /\ pc[p] = "create" => LiveCalls(creator[p]) = {}
    /\ pc[p] \in Ending /\ back[p] = "creatorBusy" => LiveCalls(caller[p]) \subseteq {target[p]}
    /\ pc[p] \in Ending /\ back[p] = "create" =>
           LiveCalls(caller[p]) = {} /\ LiveCalls(creator[p]) \subseteq {target[p]}

OneLive == \A u \in Users : \A i, j \in LiveCalls(u) : i = j

LockInv == lapses = 0 => OneLive /\ \A p \in Procs : Locked(p)

\* No user gets a live call, and no other process loses a lock.
Harmless(p) ==
    /\ lapses' = lapses
    /\ \A u \in Users : LiveCalls(u)' \subseteq LiveCalls(u)
    /\ \A q \in Procs \ {p} : held'[q] = held[q]
    /\ \A u \in Users : lock[u] \in Procs \ {p} => lock'[u] = lock[u]

\* A harmless step of p keeps the locks and checks of the others.
LEMMA OthersKeepLocks ==
    ASSUME EndInv, LockInv, NEW p \in Procs, Others(p), Harmless(p),
           lapses = 0 => Locked(p)'
    PROVE  LockInv'
<1>1. SUFFICES ASSUME lapses = 0 PROVE OneLive' /\ \A q \in Procs : Locked(q)'
  BY DEF Harmless, LockInv
<1>2. OneLive /\ \A q \in Procs : Locked(q)
  BY <1>1 DEF LockInv
<1>3. OneLive'
  BY <1>2 DEF OneLive, Harmless
<1>4. ASSUME NEW q \in Procs PROVE Locked(q)'
  <2>1. CASE q = p
    BY <1>1, <2>1
  <2>2. CASE q # p
    <3>1. /\ pc'[q] = pc[q] /\ back'[q] = back[q] /\ target'[q] = target[q]
          /\ caller'[q] = caller[q] /\ creator'[q] = creator[q] /\ held'[q] = held[q]
      BY <2>2 DEF Others, Harmless
    <3>2. Locked(q) /\ held[q] \subseteq Users
      BY <1>2 DEF EndInv, TypeOK
    <3>3. \A u \in held[q] : lock'[u] = q
      BY <2>2, <3>2 DEF Locked, Harmless
    <3>4. Guarded(q) => caller[q] \in Users /\ creator[q] \in Users
      BY DEF EndInv, Phase, Guarded, Initiating, Ending
    <3>5. /\ caller[q] \in Users => LiveCalls(caller[q])' \subseteq LiveCalls(caller[q])
          /\ creator[q] \in Users => LiveCalls(creator[q])' \subseteq LiveCalls(creator[q])
      BY <3>1 DEF Harmless, LiveCalls
    <3>6. QED BY <3>1, <3>2, <3>3, <3>4, <3>5 DEF Locked, Guarded
  <2>3. QED BY <2>1, <2>2
<1>5. QED BY <1>3, <1>4

\* While no lock has lapsed: one live call per user, and every lock is its holder's.
THEOREM LocksInvariant == Spec => []LockInv
<1> USE CallSessionAssumption DEF Initiating, Ending
<1>1. Init => LockInv
  BY DEF Init, LockInv, OneLive, Locked, Guarded, LiveCalls, Live
<1>2. EndInv /\ EndInv' /\ LockInv /\ [Next]_vars => LockInv'
  <2> SUFFICES ASSUME EndInv, EndInv', LockInv, [Next]_vars PROVE LockInv'
    OBVIOUS
  <2>1. /\ TypeOK /\ Rows
        /\ \A p \in Procs : Phase(p) /\ Attempts(p) /\ Winner(p)
        /\ lapses = 0 => OneLive /\ \A p \in Procs : Locked(p)
    BY DEF EndInv, LockInv
  <2>2. UNCHANGED rows => \A u \in Users : LiveCalls(u)' = LiveCalls(u)
    BY DEF rows, LiveCalls
  <2>3. ASSUME NEW p \in Procs, NEW c \in Users, NEW r \in Users, Initiate(p, c, r)
        PROVE  LockInv'
    <3>1. Others(p) /\ Harmless(p)
      BY <2>1, <2>2, <2>3 DEF Initiate, TypeOK, SetLock, Goto, endVars, Others, Harmless
    <3>2. Locked(p)'
      BY <2>1, <2>3 DEF Initiate, TypeOK, SetLock, Goto, endVars, Locked, Guarded
    <3>3. QED BY <3>1, <3>2, OthersKeepLocks
  <2>4. ASSUME NEW p \in Procs, NEW c \in Users, NEW r \in Users, InitiateUnlocked(p, c, r)
        PROVE  LockInv'
    BY <2>1, <2>4 DEF InitiateUnlocked, TypeOK, LockInv
  <2>5. ASSUME NEW p \in Procs, LockCreator(p) PROVE LockInv'
    <3>1. caller[p] \in Users /\ creator[p] \in Users
      BY <2>1, <2>5 DEF LockCreator, Phase
    <3>2. Others(p) /\ Harmless(p)
      BY <2>1, <2>2, <2>5, <3>1 DEF LockCreator, TypeOK, SetLock, Goto, endVars, Others, Harmless
    <3>3. lapses = 0 => Locked(p)'
      BY <2>1, <2>5, <3>1 DEF LockCreator, TypeOK, SetLock, Goto, endVars, Locked, Guarded
    <3>4. QED BY <3>2, <3>3, OthersKeepLocks
  <2>6. ASSUME NEW p \in Procs, CallerBusy(p) PROVE LockInv'
    <3>1. /\ caller[p] \in Users /\ tries[p] = 0
          /\ UNCHANGED <<rows, lock, caller, creator, held, lapses>>
      BY <2>1, <2>6 DEF CallerBusy, Phase, Attempts
    <3>2. Others(p) /\ Harmless(p)
      BY <2>1, <2>2, <2>6 DEF CallerBusy, BusyCheck, CallEnd, TypeOK, Goto, endVars, Others, Harmless
    <3>3. ASSUME lapses = 0 PROVE Locked(p)'
      <4>1. OneLive /\ Locked(p) /\ Guarded(p)
        BY <2>1, <2>6, <3>3 DEF CallerBusy, Guarded
      <4>2. LiveCalls(caller[p])' = LiveCalls(caller[p])
        BY <3>1 DEF rows, LiveCalls
      <4>3. CASE \E i \in LiveCalls(caller[p]) : CallEnd(p, i, "creatorBusy")
        <5>1. PICK i \in LiveCalls(caller[p]) : CallEnd(p, i, "creatorBusy")
          BY <4>3
        <5>2. LiveCalls(caller[p]) \subseteq {i}
          BY <3>1, <4>1, <5>1 DEF OneLive
        <5>3. QED BY <2>1, <3>1, <4>1, <4>2, <5>1, <5>2 DEF CallEnd, Goto, TypeOK, Locked, Guarded
      <4>4. CASE LiveCalls(caller[p]) = {} /\ Goto(p, "creatorBusy")
        BY <2>1, <3>1, <4>1, <4>2, <4>4 DEF Goto, TypeOK, Locked, Guarded
      <4>5. CASE Goto(p, "release")
        BY <2>1, <3>1, <4>1, <4>5 DEF Goto, TypeOK, Locked, Guarded
      <4>6. QED BY <2>6, <4>3, <4>4, <4>5 DEF CallerBusy, BusyCheck
    <3>4. QED BY <3>2, <3>3, OthersKeepLocks
  <2>7. ASSUME NEW p \in Procs, CreatorBusy(p) PROVE LockInv'
    <3>1. /\ creator[p] \in Users /\ tries[p] = 0
          /\ UNCHANGED <<rows, lock, caller, creator, held, lapses>>
      BY <2>1, <2>7 DEF CreatorBusy, Phase, Attempts
    <3>2. Others(p) /\ Harmless(p)
      BY <2>1, <2>2, <2>7 DEF CreatorBusy, BusyCheck, CallEnd, TypeOK, Goto, endVars, Others, Harmless
    <3>3. ASSUME lapses = 0 PROVE Locked(p)'
      <4>1. OneLive /\ Locked(p) /\ Guarded(p) /\ LiveCalls(caller[p]) = {}
        BY <2>1, <2>7, <3>3 DEF CreatorBusy, Guarded, Locked
      <4>2. /\ LiveCalls(caller[p])' = LiveCalls(caller[p])
            /\ LiveCalls(creator[p])' = LiveCalls(creator[p])
        BY <3>1 DEF rows, LiveCalls
      <4>3. CASE \E i \in LiveCalls(creator[p]) : CallEnd(p, i, "create")
        <5>1. PICK i \in LiveCalls(creator[p]) : CallEnd(p, i, "create")
          BY <4>3
        <5>2. LiveCalls(creator[p]) \subseteq {i}
          BY <3>1, <4>1, <5>1 DEF OneLive
        <5>3. QED BY <2>1, <3>1, <4>1, <4>2, <5>1, <5>2 DEF CallEnd, Goto, TypeOK, Locked, Guarded
      <4>4. CASE LiveCalls(creator[p]) = {} /\ Goto(p, "create")
        BY <2>1, <3>1, <4>1, <4>2, <4>4 DEF Goto, TypeOK, Locked, Guarded
      <4>5. CASE Goto(p, "release")
        BY <2>1, <3>1, <4>1, <4>5 DEF Goto, TypeOK, Locked, Guarded
      <4>6. QED BY <2>7, <4>3, <4>4, <4>5 DEF CreatorBusy, BusyCheck
    <3>4. QED BY <3>2, <3>3, OthersKeepLocks
  <2>8. ASSUME NEW p \in Procs, Create(p) PROVE LockInv'
    <3>1. caller[p] \in Users /\ creator[p] \in Users
      BY <2>1, <2>8 DEF Create, Phase
    <3>2. SUFFICES ASSUME lapses = 0, nextCall \in Calls
                   PROVE  OneLive' /\ \A q \in Procs : Locked(q)'
      <4>1. CASE nextCall \in Calls
        BY <2>8, <3>2, <4>1 DEF Create, LockInv
      <4>2. CASE nextCall \notin Calls
        <5>1. Others(p) /\ Harmless(p)
          BY <2>1, <2>8, <4>2 DEF Create, TypeOK, Goto, endVars, Others, Harmless, LiveCalls
        <5>2. lapses = 0 => Locked(p)'
          BY <2>1, <2>8, <4>2 DEF Create, TypeOK, Goto, endVars, Locked, Guarded
        <5>3. QED BY <5>1, <5>2, OthersKeepLocks
      <4>3. QED BY <4>1, <4>2
    <3>3. OneLive /\ \A q \in Procs : Locked(q)
      BY <2>1, <3>2
    <3>4. /\ LiveCalls(caller[p]) = {} /\ LiveCalls(creator[p]) = {}
          /\ lock[caller[p]] = p /\ lock[creator[p]] = p
      BY <2>8, <3>3 DEF Create, Locked, Guarded
    <3>5. \A u \in Users : LiveCalls(u)' =
             IF u \in {caller[p], creator[p]} THEN LiveCalls(u) \cup {nextCall}
             ELSE LiveCalls(u) \ {nextCall}
      <4>1. /\ status' = [status EXCEPT ![nextCall] = "RINGING"]
            /\ parties' = [parties EXCEPT ![nextCall] = {caller[p], creator[p]}]
        BY <2>8, <3>2 DEF Create
      <4>2. ASSUME NEW i \in Calls
            PROVE  /\ status'[i] = IF i = nextCall THEN "RINGING" ELSE status[i]
                   /\ parties'[i] = IF i = nextCall THEN {caller[p], creator[p]} ELSE parties[i]
        BY <2>1, <4>1 DEF TypeOK
      <4>3. ASSUME NEW u \in Users, NEW i \in Calls
            PROVE  i \in LiveCalls(u)' <=>
                     IF i = nextCall THEN u \in {caller[p], creator[p]} ELSE i \in LiveCalls(u)
        BY <4>2 DEF LiveCalls, Live
      <4>4. \A u : LiveCalls(u) \subseteq Calls /\ LiveCalls(u)' \subseteq Calls
        BY DEF LiveCalls
      <4>5. QED BY <3>2, <4>3, <4>4
    <3>6. OneLive'
      BY <3>3, <3>4, <3>5 DEF OneLive
    <3>7. ASSUME NEW q \in Procs PROVE Locked(q)'
      <4>1. CASE q = p
        BY <2>1, <2>8, <3>3, <4>1 DEF Create, TypeOK, Goto, endVars, Locked, Guarded
      <4>2. CASE q # p
        <5>1. /\ pc'[q] = pc[q] /\ back'[q] = back[q] /\ target'[q] = target[q]
              /\ caller'[q] = caller[q] /\ creator'[q] = creator[q]
              /\ held'[q] = held[q] /\ lock' = lock
          BY <2>1, <2>8, <4>2 DEF Create, TypeOK, Goto, endVars
        <5>2. Locked(q)
          BY <3>3
        <5>3. Guarded(q) => /\ caller[q] \in Users \ {caller[p], creator[p]}
                            /\ creator[q] \in Users \ {caller[p], creator[p]}
          BY <2>1, <3>4, <4>2, <5>2 DEF Phase, Guarded, Locked
        <5>4. Guarded(q) => /\ LiveCalls(caller[q])' \subseteq LiveCalls(caller[q])
                            /\ LiveCalls(creator[q])' \subseteq LiveCalls(creator[q])
          <6>1. ASSUME NEW v \in Users, v \notin {caller[p], creator[p]}
                PROVE  LiveCalls(v)' \subseteq LiveCalls(v)
            BY <3>5, <6>1
          <6>2. QED BY <5>1, <5>3, <6>1 DEF LiveCalls
        <5>5. QED BY <5>1, <5>2, <5>4 DEF Locked, Guarded
      <4>3. QED BY <4>1, <4>2
    <3>8. QED BY <3>6, <3>7
  <2>9. ASSUME NEW p \in Procs, Release(p) PROVE LockInv'
    <3>1. Others(p) /\ Harmless(p)
      BY <2>1, <2>2, <2>9 DEF Release, Finish, TypeOK, SetLock, Goto, endVars, Others, Harmless
    <3>2. lapses = 0 => Locked(p)'
      BY <2>1, <2>9 DEF Release, Finish, TypeOK, SetLock, Goto, endVars, Locked, Guarded
    <3>3. QED BY <3>1, <3>2, OthersKeepLocks
  <2>10. ASSUME NEW p \in Procs, NEW i \in Calls, Accept(p, i) \/ Reject(p, i) \/ EndCall(p, i)
         PROVE  LockInv'
    <3>1. Others(p) /\ Harmless(p)
      BY <2>1, <2>2, <2>10 DEF Accept, Reject, Answer, EndCall, CallEnd, TypeOK, Goto, Others, Harmless
    <3>2. lapses = 0 => Locked(p)'
      BY <2>1, <2>10 DEF Accept, Reject, Answer, EndCall, CallEnd, TypeOK, Goto, Locked, Guarded, Phase
    <3>3. QED BY <3>1, <3>2, OthersKeepLocks
  <2>11. ASSUME NEW p \in Procs, LedgerAccept(p) \/ RejectUpdate(p) \/ EndUpdate(p) \/ Announce(p)
                                  \/ EndRead(p)
         PROVE  LockInv'
    <3>1. UNCHANGED <<parties, lock, caller, creator, held, lapses>> /\ Others(p)
      BY <2>1, <2>11 DEF LedgerAccept, RejectUpdate, EndUpdate, Announce, EndRead, EndReturns,
                         Finish, TypeOK, Goto, rows, endVars, Others
    <3>2. target[p] \in Calls /\ (pc[p] = "endUpdate" => seen[p] \in Live)
      BY <2>1, <2>11 DEF LedgerAccept, RejectUpdate, EndUpdate, Announce, EndRead, Phase, Attempts
    <3>3. \A i \in Calls : status'[i] \in Live => status[i] \in Live
      BY <2>1, <2>11, <3>2 DEF LedgerAccept, RejectUpdate, EndUpdate, Announce, EndRead, EndedFrom,
                               TypeOK, Live, rows
    <3>4. Harmless(p) /\ \A u : LiveCalls(u)' \subseteq LiveCalls(u)
      BY <3>1, <3>3 DEF Harmless, LiveCalls
    <3>5. \/ pc'[p] = "idle" \/ (pc'[p] \in Ending /\ UNCHANGED <<target, back>>)
          \/ (pc'[p] = back[p] /\ pc[p] \in Ending /\ status'[target[p]] \notin Live)
      <4>1. CASE LedgerAccept(p) \/ RejectUpdate(p)
        BY <2>1, <4>1 DEF LedgerAccept, RejectUpdate, Finish, TypeOK, Goto, endVars
      <4>2. CASE EndUpdate(p)
        BY <2>1, <3>2, <4>2 DEF EndUpdate, EndReturns, TypeOK, Goto, endVars, Attempts, Live
      <4>3. CASE Announce(p)
        BY <2>1, <4>3 DEF Announce, EndReturns, TypeOK, Goto, Winner, Live, Terminal, rows
      <4>4. CASE EndRead(p)
        BY <2>1, <4>4 DEF EndRead, EndReturns, TypeOK, Goto, rows
      <4>5. QED BY <2>11, <4>1, <4>2, <4>3, <4>4
    <3>6. ASSUME lapses = 0 PROVE Locked(p)'
      <4>1. Locked(p) /\ Phase(p)
        BY <2>1, <3>6
      <4>2. /\ LiveCalls(caller[p])' \subseteq LiveCalls(caller[p])
            /\ LiveCalls(creator[p])' \subseteq LiveCalls(creator[p])
        BY <3>1, <3>4 DEF LiveCalls
      <4>3. CASE pc'[p] = "idle"
        BY <3>1, <4>1, <4>3 DEF Locked, Guarded
      <4>4. CASE pc'[p] \in Ending /\ UNCHANGED <<target, back>>
        <5>1. pc[p] \in Ending \/ (pc[p] = "reject" /\ back[p] = "idle")
          BY <2>1, <2>11, <4>1, <4>4 DEF LedgerAccept, RejectUpdate, EndUpdate, Announce, EndRead, Phase,
                                    Finish, Goto, TypeOK
        <5>2. QED BY <3>1, <4>1, <4>2, <4>4, <5>1 DEF Locked, Guarded
      <4>5. CASE pc'[p] = back[p] /\ pc[p] \in Ending /\ status'[target[p]] \notin Live
        <5>1. target[p] \notin LiveCalls(caller[p])' /\ target[p] \notin LiveCalls(creator[p])'
          BY <4>5 DEF LiveCalls
        <5>2. back[p] \in {"idle", "creatorBusy", "create"}
          BY <4>1, <4>5 DEF Phase
        <5>3. QED BY <3>1, <4>1, <4>2, <4>5, <5>1, <5>2 DEF Locked, Guarded
      <4>6. QED BY <3>5, <4>3, <4>4, <4>5
    <3>7. QED BY <3>1, <3>4, <3>6, OthersKeepLocks
  <2>12. ASSUME NEW p \in Procs, Fails(p) PROVE LockInv'
    <3>1. Others(p) /\ Harmless(p)
      BY <2>1, <2>2, <2>12 DEF Fails, Finish, TypeOK, Goto, endVars, Others, Harmless
    <3>2. lapses = 0 => Locked(p)'
      BY <2>1, <2>12 DEF Fails, Finish, TypeOK, Goto, endVars, Locked, Guarded
    <3>3. QED BY <3>1, <3>2, OthersKeepLocks
  <2>13. ASSUME NEW p \in Procs, Crash(p) PROVE LockInv'
    <3>1. Others(p) /\ Harmless(p)
      BY <2>1, <2>2, <2>13 DEF Crash, Finish, TypeOK, Goto, Others, Harmless
    <3>2. lapses = 0 => Locked(p)'
      BY <2>1, <2>13 DEF Crash, Finish, TypeOK, Goto, Locked, Guarded
    <3>3. QED BY <3>1, <3>2, OthersKeepLocks
  <2>14. ASSUME NEW u \in Users, ExpireLock(u) PROVE LockInv'
    <3>1. CASE lapses' = lapses + 1
      BY <2>1, <3>1 DEF TypeOK, LockInv
    <3>2. CASE lock[u] = Orphan /\ UNCHANGED lapses
      <4>1. SUFFICES ASSUME lapses = 0 PROVE OneLive' /\ \A q \in Procs : Locked(q)'
        BY <3>2 DEF LockInv
      <4>2. \A v : LiveCalls(v)' = LiveCalls(v)
        BY <2>14 DEF ExpireLock, rows, LiveCalls
      <4>3. OneLive'
        BY <2>1, <4>1, <4>2 DEF OneLive
      <4>4. ASSUME NEW q \in Procs PROVE Locked(q)'
        <5>1. /\ pc'[q] = pc[q] /\ back'[q] = back[q] /\ target'[q] = target[q]
              /\ caller'[q] = caller[q] /\ creator'[q] = creator[q] /\ held'[q] = held[q]
          BY <2>14 DEF ExpireLock, endVars
        <5>2. Locked(q) /\ u \notin held[q]
          BY <2>1, <3>2, <4>1 DEF Locked
        <5>3. \A v \in held[q] : lock'[v] = q
          BY <2>1, <2>14, <5>2 DEF ExpireLock, SetLock, TypeOK, Locked
        <5>4. LiveCalls(caller[q])' = LiveCalls(caller[q]) /\ LiveCalls(creator[q])' = LiveCalls(creator[q])
          BY <5>1, <4>2 DEF LiveCalls
        <5>5. QED BY <5>1, <5>2, <5>3, <5>4 DEF Locked, Guarded
      <4>5. QED BY <4>3, <4>4
    <3>3. QED BY <2>14, <3>1, <3>2 DEF ExpireLock
  <2>15. CASE UNCHANGED vars
    BY <2>15 DEF vars, LockInv, OneLive, Locked, Guarded, LiveCalls
  <2>16. QED
    BY <2>3, <2>4, <2>5, <2>6, <2>7, <2>8, <2>9, <2>10, <2>11, <2>12, <2>13, <2>14, <2>15
       DEF Next, Step, SweepRinging
<1>3. QED BY <1>1, <1>2, EndInvariant, PTL DEF Spec

\* A set whose members are all equal has at most one.
LEMMA AtMostOne ==
    ASSUME NEW S, \A x, y \in S : x = y
    PROVE  Cardinality(S) <= 1
<1>1. CASE S = {}
  BY <1>1, FS_EmptySet
<1>2. CASE \E x \in S : S = {x}
  BY <1>2, FS_Singleton
<1>3. QED BY <1>1, <1>2

\* While no initiate lock lapses, no user is in two live calls.
THEOREM OneLiveCallPerUser == Spec => []OneLiveCall
<1>1. LockInv => OneLiveCall
  BY AtMostOne DEF LockInv, OneLive, OneLiveCall
<1>2. QED BY <1>1, LocksInvariant, PTL

----------------------------------------------------------------------------
(* ReleasesOwnLock *)

\* A step that touches no lock, or sets one that nobody holds.
LEMMA TakesFreeLock ==
    ASSUME NEW v \in Users, NEW o, lock[v] = None, TypeOK,
           SetLock(v, o) \/ UNCHANGED lock,
           NEW u \in Users, lock[u] \in Procs
    PROVE  lock'[u] = lock[u]
BY CallSessionAssumption DEF SetLock, TypeOK

\* A lock changes hands under a request only when that request gives it up, dies or lets it
\* lapse: releaseInitiateLocks deletes what still carries its own token, however late it comes.
THEOREM OwnLockOnly == Spec => ReleasesOwnLock
<1>1. ASSUME TypeOK, [Next]_vars, NEW u \in Users,
             lock[u] \in Procs, lock'[u] # lock[u], lapses' = lapses
      PROVE  u \notin held'[lock[u]]
  <2>1. ASSUME NEW p \in Procs, NEW c \in Users, NEW r \in Users,
               Initiate(p, c, r) \/ InitiateUnlocked(p, c, r)
        PROVE  FALSE
    BY <1>1, <2>1, TakesFreeLock DEF Initiate, InitiateUnlocked
  <2>2. ASSUME NEW p \in Procs, LockCreator(p)
        PROVE  FALSE
    <3>1. lock[creator[p]] = None /\ SetLock(creator[p], p)
      BY <1>1, <2>2 DEF LockCreator
    <3>2. lock'[u] = lock[u]
      BY <1>1, <3>1, CallSessionAssumption DEF SetLock, TypeOK
    <3> QED
      BY <1>1, <3>2
  <2>3. ASSUME NEW p \in Procs, Release(p)
        PROVE  u \notin held'[lock[u]]
    <3>1. PICK v \in held[p] :
             /\ held' = [held EXCEPT ![p] = @ \ {v}]
             /\ lock[v] = p /\ (SetLock(v, None) \/ SetLock(v, Orphan))
      BY <1>1, <2>3 DEF Release
    <3>2. u = v /\ lock[u] = p
      BY <1>1, <3>1 DEF SetLock, TypeOK
    <3> QED
      BY <1>1, <3>1, <3>2 DEF TypeOK
  <2>4. ASSUME NEW p \in Procs, Crash(p)
        PROVE  u \notin held'[lock[u]]
    <3>1. lock[u] = p
      BY <1>1, <2>4 DEF Crash
    <3> QED
      BY <1>1, <2>4, <3>1 DEF Crash, TypeOK
  <2>5. ASSUME NEW v \in Users, ExpireLock(v)
        PROVE  FALSE
    <3>1. lock[v] = Orphan /\ SetLock(v, None)
      BY <1>1, <2>5 DEF ExpireLock, TypeOK
    <3> QED
      BY <1>1, <3>1, CallSessionAssumption DEF SetLock, TypeOK
  <2>6. ASSUME NEW p \in Procs,
               \/ CallerBusy(p) \/ CreatorBusy(p) \/ Create(p) \/ LedgerAccept(p)
               \/ RejectUpdate(p) \/ EndRead(p) \/ EndUpdate(p) \/ Announce(p) \/ Fails(p)
        PROVE  FALSE
    BY <1>1, <2>6 DEF CallerBusy, CreatorBusy, Create, LedgerAccept, RejectUpdate, EndRead,
                      EndUpdate, Announce, Fails
  <2>7. ASSUME NEW p \in Procs, NEW i \in Calls, Accept(p, i) \/ Reject(p, i) \/ EndCall(p, i)
        PROVE  FALSE
    BY <1>1, <2>7 DEF Accept, Reject, Answer, EndCall
  <2>8. CASE UNCHANGED vars
    BY <1>1, <2>8 DEF vars
  <2> QED
    BY <1>1, <2>1, <2>2, <2>3, <2>4, <2>5, <2>6, <2>7, <2>8 DEF Next, Step, SweepRinging
<1>2. TypeOK /\ [Next]_vars
          => [\A u \in Users : (lock[u] \in Procs /\ lock'[u] # lock[u] /\ lapses' = lapses)
                                   => u \notin held'[lock[u]]]_vars
  BY <1>1
<1> QED
  BY <1>2, TypeCorrect, PTL DEF Spec, ReleasesOwnLock
=============================================================================
