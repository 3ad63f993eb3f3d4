-------------------------- MODULE LiveStream_proofs --------------------------
(***************************************************************************)
(* Proofs about LiveStream, for any number of requests and streams.        *)
(***************************************************************************)
EXTENDS LiveStream, FiniteSetTheorems, TLAPS

----------------------------------------------------------------------------
(* Types *)

\* A request names a stream wherever it uses one, and only a go-live goes live.
Moderating  == {"modUpdate", "modClear", "modPublish"}
NamesStream == {"insert", "retry", "undo", "warn"} \cup Moderating \cup Ending
Fits(label, s, g) ==
    /\ label \in NamesStream => s \in Streams
    /\ label \in GoingLive => g
    /\ label \in {"idle", "warn"} \cup Moderating => ~g

ReqInv  == RequestsOK /\ \A p \in Procs : Fits(pc[p], target[p], p \in going)
TypeInv == TypeOK /\ ReqInv

\* The moves of a request keep ReqInv if the new place fits.
LEMMA MoveFits ==
    ASSUME ReqInv, NEW p \in Procs, RequestsOK', Fits(pc'[p], target'[p], p \in going'),
           \A q \in Procs \ {p} :
               pc'[q] = pc[q] /\ target'[q] = target[q] /\ (q \in going' <=> q \in going)
    PROVE  ReqInv'
<1>1. ASSUME NEW q \in Procs PROVE Fits(pc'[q], target'[q], q \in going')
  <2>1. CASE q = p
    BY <2>1 DEF Fits
  <2>2. CASE q # p
    <3>1. Fits(pc[q], target[q], q \in going)
      BY DEF ReqInv
    <3>2. pc'[q] = pc[q] /\ target'[q] = target[q] /\ (q \in going' <=> q \in going)
      BY <2>2
    <3>3. QED BY <3>1, <3>2 DEF Fits
  <2>3. QED BY <2>1, <2>2
<1>2. QED BY <1>1 DEF ReqInv

LEMMA GotoFits ==
    ASSUME ReqInv, NEW p \in Procs, NEW l \in Labels, Goto(p, l),
           Fits(l, target[p], p \in going)
    PROVE  ReqInv'
<1>1. RequestsOK' /\ pc'[p] = l
  BY DEF ReqInv, RequestsOK, Goto
<1>2. QED
  BY <1>1, MoveFits DEF ReqInv, RequestsOK, Goto

LEMMA RestFits ==
    ASSUME ReqInv, NEW p \in Procs, Rest(p)
    PROVE  ReqInv'
<1>1. RequestsOK' /\ pc'[p] = "idle" /\ p \notin going'
  BY DEF ReqInv, RequestsOK, Rest, Labels
<1>2. Fits("idle", target'[p], p \in going')
  BY <1>1 DEF Fits, NamesStream, Moderating, Ending, GoingLive
<1>3. QED
  BY <1>1, <1>2, MoveFits DEF ReqInv, RequestsOK, Rest

LEMMA ReturnFits ==
    ASSUME ReqInv, NEW p \in Procs, Return(p)
    PROVE  ReqInv'
<1>1. CASE p \in going /\ Goto(p, "delMarker")
  BY <1>1, GotoFits DEF Fits, NamesStream, Moderating, Ending, GoingLive, Labels
<1>2. QED
  BY <1>1, RestFits DEF Return

LEMMA TakeUpFits ==
    ASSUME ReqInv, NEW p \in Procs, NEW s \in Streams, NEW l \in {"endFind", "warn", "modUpdate"},
           TakeUp(p, l, s)
    PROVE  ReqInv'
<1>1. RequestsOK' /\ pc'[p] = l /\ target'[p] = s /\ p \notin going'
  BY DEF ReqInv, RequestsOK, TakeUp, Labels, Ending, Fits
<1>2. Fits(pc'[p], target'[p], p \in going')
  BY <1>1 DEF Fits, NamesStream, Moderating, Ending, GoingLive
<1>3. QED
  BY <1>1, <1>2, MoveFits DEF ReqInv, RequestsOK, TakeUp

LEMMA UnmovedFits == ReqInv /\ UNCHANGED reqVars => ReqInv'
BY DEF ReqInv, RequestsOK, reqVars

\* Every request goes on to a place that fits what it has.
LEMMA RequestsKept ==
    ASSUME TypeInv, [Next]_vars
    PROVE  ReqInv'
<1>0. ReqInv /\ StreamsOK
  BY DEF TypeInv, TypeOK
<1>1. ASSUME NEW p \in Procs, GoLive(p) PROVE ReqInv'
  <2>1. RequestsOK' /\ pc'[p] = "find" /\ p \in going'
    BY <1>0, <1>1 DEF GoLive, ReqInv, RequestsOK, Labels, GoingLive
  <2>2. Fits(pc'[p], target'[p], p \in going')
    BY <2>1 DEF Fits, NamesStream, Moderating, Ending
  <2>3. QED
    BY <1>0, <1>1, <2>1, <2>2, MoveFits DEF GoLive, ReqInv, RequestsOK
<1>2. ASSUME NEW p \in Procs, FindLive(p) PROVE ReqInv'
  <2>1. CASE Live = {}
    BY <1>0, <1>2, <2>1, GotoFits DEF FindLive, ReqInv, Fits, NamesStream, Moderating, Ending, GoingLive, Labels
  <2>2. CASE Live # {}
    <3>1. PICK s \in Live : target' = [target EXCEPT ![p] = s]
      BY <1>2, <2>2 DEF FindLive
    <3>2. RequestsOK' /\ pc'[p] = "endFind" /\ target'[p] \in Streams
      BY <1>0, <1>2, <2>2, <3>1 DEF FindLive, ReqInv, RequestsOK, Labels, Ending, Live
    <3>3. Fits(pc'[p], target'[p], p \in going')
      BY <3>2 DEF Fits, NamesStream, Moderating, Ending, GoingLive
    <3>4. QED
      BY <1>0, <1>2, <2>2, <3>1, <3>2, <3>3, MoveFits DEF FindLive, ReqInv, RequestsOK
  <2>3. QED BY <2>1, <2>2
<1>3. ASSUME NEW p \in Procs, DelMarker(p) PROVE ReqInv'
  BY <1>0, <1>3, GotoFits DEF DelMarker, ReqInv, Fits, NamesStream, Moderating, Ending, GoingLive, Labels
<1>4. ASSUME NEW p \in Procs, WriteMarkers(p) PROVE ReqInv'
  <2>1. next \in Streams
    BY <1>0, <1>4, LiveStreamAssumption DEF WriteMarkers, StreamsOK, Streams
  <2>2. RequestsOK' /\ pc'[p] = "insert" /\ target'[p] \in Streams /\ p \in going'
    BY <1>0, <1>4, <2>1 DEF WriteMarkers, ReqInv, RequestsOK, Fits, GoingLive, Labels
  <2>3. Fits(pc'[p], target'[p], p \in going')
    BY <2>2 DEF Fits, Moderating
  <2>4. QED
    BY <1>0, <1>4, <2>2, <2>3, MoveFits DEF WriteMarkers, ReqInv, RequestsOK
<1>5. ASSUME NEW p \in Procs, InsertFails(p) PROVE ReqInv'
  <2>1. CASE pc[p] = "insert"
    BY <1>0, <1>5, <2>1, GotoFits DEF InsertFails, ReqInv, Fits, NamesStream, Moderating, Ending, GoingLive, Labels
  <2>2. CASE pc[p] = "retry"
    BY <1>0, <1>5, <2>2, GotoFits DEF InsertFails, ReqInv, Fits, NamesStream, Moderating, Ending, GoingLive, Labels
  <2>3. QED BY <1>5, <2>1, <2>2 DEF InsertFails, Window
<1>6. ASSUME NEW p \in Procs, Insert(p) \/ Undo(p) \/ MarkersFail(p) PROVE ReqInv'
  BY <1>0, <1>6, RestFits DEF Insert, Undo, MarkersFail
<1>7. ASSUME NEW p \in Procs, NEW s \in Streams, EndLiveStream(p, s) \/ EndByTimer(p, s) \/ Moderate(p, s) PROVE ReqInv'
  BY <1>0, <1>7, TakeUpFits DEF EndLiveStream, EndByTimer, Moderate
<1>8. ASSUME NEW p \in Procs, EndFind(p) PROVE ReqInv'
  BY <1>0, <1>8, GotoFits DEF EndFind, StreamsOK, ReqInv, Fits, NamesStream, Moderating, Ending, GoingLive, Labels
<1>9. ASSUME NEW p \in Procs, Abort(p) \/ Publish(p) PROVE ReqInv'
  BY <1>0, <1>9, GotoFits, ReturnFits, RestFits DEF Abort, Throw, Publish, Answer, ReqInv,
     Fits, NamesStream, Moderating, Ending, GoingLive, Labels
<1>10. ASSUME NEW p \in Procs, Claim(p) PROVE ReqInv'
  BY <1>0, <1>10, GotoFits DEF Claim, ReqInv, Fits, NamesStream, Moderating, Ending, GoingLive, Labels
<1>11. ASSUME NEW p \in Procs, Finish(p) PROVE ReqInv'
  BY <1>0, <1>11, GotoFits DEF Finish, ReqInv, Fits, NamesStream, Moderating, Ending, GoingLive, Labels
<1>12. ASSUME NEW p \in Procs, ModUpdate(p) PROVE ReqInv'
  BY <1>0, <1>12, GotoFits DEF ModUpdate, ReqInv, Fits, NamesStream, Moderating, Ending, GoingLive, Labels
<1>13. ASSUME NEW p \in Procs, Clear(p) \/ ClearLoser(p) PROVE ReqInv'
  BY <1>0, <1>13, GotoFits, ReturnFits DEF Clear, ClearLoser, Answer, ReqInv, Fits, NamesStream, Moderating, Ending, GoingLive, Labels
<1>14. ASSUME NEW p \in Procs, Fails(p) \/ DelFails(p) PROVE ReqInv'
  BY <1>0, <1>14, GotoFits, RestFits, ReturnFits DEF Fails, DelFails, Answer, Throw, ReqInv, Fits, NamesStream, Moderating, Ending, GoingLive, Labels
<1>15. CASE Crash
  BY <1>0, <1>15 DEF Crash, ReqInv, RequestsOK, Fits, NamesStream, Moderating, Ending, GoingLive, Labels
<1>16. CASE Reconcile \/ RecFails \/ Handover \/ Flush \/ UNCHANGED vars
  BY <1>0, <1>16, UnmovedFits DEF Reconcile, RecRead, RecPlan,
     RecRepair, RecFails, Handover, Flush, reqVars, vars
<1>17. QED
  BY <1>1, <1>2, <1>3, <1>4, <1>5, <1>6, <1>7, <1>8, <1>9, <1>10, <1>11, <1>12, <1>13, <1>14, <1>15, <1>16
     DEF Next, Step

LEMMA StreamsKept ==
    ASSUME TypeInv, [Next]_vars
    PROVE  StreamsOK'
<1>0. /\ StreamsOK /\ ReconcilerOK
      /\ \A p \in Procs : pc[p] \in NamesStream => target[p] \in Streams
  BY DEF TypeInv, TypeOK, ReqInv, Fits
<1> USE DEF keys, history
<1>1. ASSUME NEW p \in Procs, FindLive(p) \/ Finish(p) PROVE StreamsOK'
  BY <1>0, <1>1 DEF FindLive, Finish, StreamsOK
<1>17. ASSUME NEW p \in Procs, EndFind(p) PROVE StreamsOK'
  BY <1>0, <1>17 DEF EndFind, NamesStream, Ending, StreamsOK
<1>2. ASSUME NEW p \in Procs, NEW s \in Streams, EndLiveStream(p, s) \/ EndByTimer(p, s) \/ Moderate(p, s) PROVE StreamsOK'
  BY <1>0, <1>2 DEF EndLiveStream, EndByTimer, Moderate, StreamsOK
<1>3. ASSUME NEW p \in Procs, GoLive(p) PROVE StreamsOK'
  BY <1>0, <1>3 DEF GoLive, StreamsOK
<1>4. ASSUME NEW p \in Procs, DelMarker(p) PROVE StreamsOK'
  BY <1>0, <1>4 DEF DelMarker, StreamsOK
<1>5. ASSUME NEW p \in Procs, WriteMarkers(p) \/ MarkersFail(p) PROVE StreamsOK'
  <2>1. next \in Streams /\ next + 1 \in 1..(MaxStreams + 1)
    BY <1>0, <1>5, LiveStreamAssumption DEF WriteMarkers, MarkersFail, StreamsOK, Streams
  <2>2. /\ UNCHANGED <<row, off, told, moderated, aborted, crossed>> /\ next' = next + 1
        /\ marker' \in {marker, next} /\ info' \in {info, info \cup {next}}
    BY <1>5 DEF WriteMarkers, MarkersFail
  <2>3. QED
    BY <1>0, <2>1, <2>2 DEF StreamsOK
<1>6. ASSUME NEW p \in Procs, Insert(p) \/ InsertFails(p) PROVE StreamsOK'
  BY <1>0, <1>6 DEF Insert, InsertFails, Window, NamesStream, Moderating, StreamsOK
<1>7. ASSUME NEW p \in Procs, Undo(p) \/ Clear(p) PROVE StreamsOK'
  BY <1>0, <1>7 DEF Undo, Clear, ClearKeys, StreamsOK
<1>18. ASSUME NEW p \in Procs, ClearLoser(p) PROVE StreamsOK'
  BY <1>0, <1>18 DEF ClearLoser, Answer, ClearKeys, NamesStream, Ending, StreamsOK
<1>8. ASSUME NEW p \in Procs, Abort(p) PROVE StreamsOK'
  BY <1>0, <1>8 DEF Abort, Throw, ClearKeys, NamesStream, Moderating, Ending, StreamsOK
<1>9. ASSUME NEW p \in Procs, Claim(p) PROVE StreamsOK'
  BY <1>0, <1>9 DEF Claim, StreamsOK
<1>10. ASSUME NEW p \in Procs, Publish(p) PROVE StreamsOK'
  <2>1. off' \in [Streams -> Nat]
    BY <1>0, <1>10 DEF Publish, StreamsOK, NamesStream, Moderating, Ending
  <2>2. /\ UNCHANGED <<row, marker, info, next, moderated, aborted, crossed>>
        /\ told' \subseteq Streams
    BY <1>0, <1>10 DEF Publish, Answer, StreamsOK, NamesStream, Ending
  <2>3. QED
    BY <1>0, <2>1, <2>2 DEF StreamsOK
<1>11. ASSUME NEW p \in Procs, ModUpdate(p) PROVE StreamsOK'
  BY <1>0, <1>11 DEF ModUpdate, NamesStream, Moderating, StreamsOK
<1>12. ASSUME NEW p \in Procs, Fails(p) \/ DelFails(p) PROVE StreamsOK'
  <2>1. CASE Fails(p)
    BY <1>0, <2>1 DEF Fails, Throw, StreamsOK
  <2>2. CASE DelFails(p)
    BY <1>0, <2>2 DEF DelFails, Answer, NamesStream, Ending, StreamsOK
  <2>3. QED BY <1>12, <2>1, <2>2
<1>13. CASE RecRepair
  BY <1>0, <1>13 DEF RecRepair, ClearKeys, ReconcilerOK, Repairs, StreamsOK
<1>14. CASE Flush
  BY <1>0, <1>14 DEF Flush, StreamsOK
<1>15. CASE RecRead \/ RecPlan \/ RecFails \/ Handover \/ Crash \/ UNCHANGED vars
  BY <1>0, <1>15 DEF RecRead, RecPlan, RecFails, Handover,
     Crash, vars, StreamsOK
<1>16. QED
  BY <1>1, <1>2, <1>3, <1>4, <1>5, <1>6, <1>7, <1>8, <1>9, <1>10, <1>11, <1>12, <1>13, <1>14, <1>15,
     <1>17, <1>18
     DEF Next, Step, Reconcile

LEMMA ReconcilerKept ==
    ASSUME TypeInv, [Next]_vars
    PROVE  ReconcilerOK' /\ requests' \in 0..MaxRequests /\ faults' \in 0..MaxFaults /\ lapses' \in 0..MaxLapses
<1>0. /\ StreamsOK /\ ReconcilerOK /\ Live \subseteq Streams
      /\ requests \in 0..MaxRequests /\ faults \in 0..MaxFaults /\ lapses \in 0..MaxLapses
      /\ MaxRequests \in Nat /\ MaxFaults \in Nat /\ MaxLapses \in Nat
  BY LiveStreamAssumption DEF TypeInv, TypeOK, Live
<1>1. /\ requests' \in {requests} \cup {r \in {requests + 1} : requests < MaxRequests}
      /\ faults' \in {faults} \cup {f \in {faults + 1} : faults < MaxFaults}
      /\ lapses' \in {lapses} \cup {l \in {lapses + 1} : lapses < MaxLapses}
  <2> USE DEF bounds, Requested, Fault
  <2>1. ASSUME NEW p \in Procs, Step(p) PROVE UNCHANGED bounds
    BY <2>1 DEF Step, FindLive, DelMarker, WriteMarkers, Insert, Undo, EndFind, Abort, Claim,
       Finish, Clear, ClearLoser, Answer, Publish, ModUpdate
  <2>2. QED
    BY <2>1 DEF Next, vars, GoLive, InsertFails, MarkersFail, Fails, DelFails, EndLiveStream, EndByTimer, Moderate,
       Reconcile, RecRead, RecPlan, RecRepair, RecFails, Crash, Handover, Flush
<1>2. requests' \in 0..MaxRequests /\ faults' \in 0..MaxFaults /\ lapses' \in 0..MaxLapses
  BY <1>0, <1>1
<1>3. ASSUME NEW p \in Procs, Step(p) PROVE UNCHANGED recVars /\ old' \subseteq old
  BY <1>3 DEF Step, FindLive, DelMarker, WriteMarkers, Insert, Undo, EndFind, Abort, Claim,
     Finish, Clear, ClearLoser, Answer, Publish, ModUpdate
<1>4. ASSUME NEW p \in Procs, GoLive(p) \/ InsertFails(p) \/ MarkersFail(p) \/ Fails(p) \/ DelFails(p)
      PROVE  UNCHANGED recVars /\ old' \subseteq old
  BY <1>4 DEF GoLive, InsertFails, MarkersFail, Fails, DelFails
<1>5. ASSUME NEW p \in Procs, NEW s \in Streams, EndLiveStream(p, s) \/ EndByTimer(p, s) \/ Moderate(p, s)
      PROVE  UNCHANGED recVars /\ old' \subseteq old
  BY <1>5 DEF EndLiveStream, EndByTimer, Moderate
<1>6. ASSUME Crash \/ Flush \/ UNCHANGED vars PROVE UNCHANGED recVars /\ old' \subseteq old
  BY <1>6 DEF Crash, Flush, vars, recVars
<1>7. CASE UNCHANGED recVars /\ old' \subseteq old
  BY <1>0, <1>2, <1>7 DEF recVars, ReconcilerOK
<1>8. CASE RecRead
  BY <1>0, <1>2, <1>8 DEF RecRead, Window, StreamsOK, ReconcilerOK
<1>9. CASE RecPlan
  <2>1. Repairable(seen, Live) \subseteq Repairs
    BY <1>0 DEF Repairable, Repairs, ReconcilerOK
  <2>2. QED
    BY <1>0, <1>2, <1>9, <2>1 DEF RecPlan, PlanMarkerRepair, ReconcilerOK
<1>10. CASE RecRepair \/ RecFails \/ Handover
  BY <1>0, <1>2, <1>10 DEF RecRepair, RecFails, Handover, ReconcilerOK
<1>11. QED
  BY <1>3, <1>4, <1>5, <1>6, <1>7, <1>8, <1>9, <1>10 DEF Next, Reconcile

\* Every reachable state is of its type, and every request names what it works on.
THEOREM TypeInvariant == Spec => []TypeInv
<1>1. Init => TypeInv
  <2> SUFFICES ASSUME Init PROVE TypeInv
    OBVIOUS
  <2>1. RequestsOK
    BY DEF Init, RequestsOK, Labels
  <2>2. \A p \in Procs : Fits(pc[p], target[p], p \in going)
    BY DEF Init, Fits, NamesStream, Moderating, Ending, GoingLive
  <2>3. StreamsOK
    <3>1. 1 \in 1..(MaxStreams + 1)
      BY LiveStreamAssumption
    <3>2. QED
      BY <3>1 DEF Init, StreamsOK
  <2>4. ReconcilerOK
    BY DEF Init, ReconcilerOK
  <2>5. QED
    BY <2>1, <2>2, <2>3, <2>4, LiveStreamAssumption DEF Init, TypeInv, TypeOK, ReqInv
<1>2. TypeInv /\ [Next]_vars => TypeInv'
  BY RequestsKept, StreamsKept, ReconcilerKept DEF TypeInv, TypeOK, ReqInv
<1>3. QED
  BY <1>1, <1>2, PTL DEF Spec

\* The type invariant of the runs holds for any number of requests and streams.
THEOREM TypeCorrect == Spec => []TypeOK
<1>1. TypeInv => TypeOK
  BY DEF TypeInv
<1>2. QED
  BY <1>1, TypeInvariant, PTL

----------------------------------------------------------------------------
(* One end of a stream is announced *)

\* EndsOnce says nothing of the winners under way: a stream has one at most, none once its
\* end is announced, and its row is closed from the claim on.
EndsInv ==
    \A s \in Streams \ (moderated \cup aborted) :
        /\ off[s] > 0 => row[s] = "ended"
        /\ \A p \in Procs : Wins(p, s) => row[s] = "ended" /\ off[s] = 0
        /\ \A p, q \in Procs : Wins(p, s) /\ Wins(q, s) => p = q
        /\ off[s] <= 1

\* A step after which no request wins that did not before.
LEMMA NoNewWinner ==
    ASSUME EndsInv, moderated \subseteq moderated', aborted \subseteq aborted', UNCHANGED off,
           \A s \in Streams : row[s] = "ended" => row'[s] = "ended",
           \A p \in Procs : \A s \in Streams \ (moderated' \cup aborted') : Wins(p, s)' => Wins(p, s)
    PROVE  EndsInv'
BY DEF EndsInv

\* Requests that do not move, or move to a place where nothing is won.
LEMMA NobodyWins ==
    ASSUME EndsInv, NEW p \in Procs, UNCHANGED <<moderated, aborted, off>>,
           \A s \in Streams : row[s] = "ended" => row'[s] = "ended",
           \A q \in Procs \ {p} : pc'[q] = pc[q] /\ target'[q] = target[q],
           pc'[p] \notin {"finish", "clear", "publish", "modClear", "modPublish"}
    PROVE  EndsInv'
<1>1. \A q \in Procs : \A s \in Streams \ (moderated' \cup aborted') : Wins(q, s)' => Wins(q, s)
  BY DEF Wins
<1>2. QED BY <1>1, NoNewWinner

\* Spec => []EndsInv: the claim makes the only winner, the announcement uses it up.
THEOREM EndsInvariant == Spec => []EndsInv
<1>1. Init => EndsInv
  BY DEF Init, EndsInv, Wins
<1>2. TypeInv /\ EndsInv /\ [Next]_vars => EndsInv'
  <2> SUFFICES ASSUME TypeInv, EndsInv, [Next]_vars PROVE EndsInv'
    OBVIOUS
  <2>0. RequestsOK /\ StreamsOK
    BY DEF TypeInv, TypeOK
  <2> USE DEF history
  <2>1. ASSUME NEW p \in Procs, GoLive(p) PROVE EndsInv'
    BY <2>0, <2>1, NobodyWins DEF GoLive, Streams, RequestsOK, StreamsOK
  <2>2. ASSUME NEW p \in Procs, FindLive(p) PROVE EndsInv'
    BY <2>0, <2>2, NobodyWins DEF FindLive, Goto, RequestsOK, StreamsOK
  <2>3. ASSUME NEW p \in Procs, DelMarker(p) PROVE EndsInv'
    BY <2>0, <2>3, NobodyWins DEF DelMarker, Goto, RequestsOK, StreamsOK
  <2>4. ASSUME NEW p \in Procs, WriteMarkers(p) PROVE EndsInv'
    BY <2>0, <2>4, NobodyWins DEF WriteMarkers, Streams, RequestsOK, StreamsOK
  <2>5. ASSUME NEW p \in Procs, Insert(p) PROVE EndsInv'
    BY <2>0, <2>5, NobodyWins DEF Insert, Rest, RequestsOK, StreamsOK
  <2>6. ASSUME NEW p \in Procs, InsertFails(p) PROVE EndsInv'
    BY <2>0, <2>6, NobodyWins DEF InsertFails, Goto, Window, RequestsOK, StreamsOK
  <2>7. ASSUME NEW p \in Procs, MarkersFail(p) PROVE EndsInv'
    BY <2>0, <2>7, NobodyWins DEF MarkersFail, Rest, RequestsOK, StreamsOK
  <2>8. ASSUME NEW p \in Procs, Undo(p) PROVE EndsInv'
    BY <2>0, <2>8, NobodyWins DEF Undo, Rest, RequestsOK, StreamsOK
  <2>9. ASSUME NEW p \in Procs, NEW s \in Streams, EndLiveStream(p, s) \/ EndByTimer(p, s) PROVE EndsInv'
    BY <2>0, <2>9, NobodyWins DEF EndLiveStream, EndByTimer, TakeUp, RequestsOK, StreamsOK
  <2>10. ASSUME NEW p \in Procs, EndFind(p) PROVE EndsInv'
    <3>1. target[p] \in Streams
      BY <2>10 DEF EndFind, TypeInv, ReqInv, Fits, NamesStream, Moderating, Ending
    <3>2. pc'[p] \in {"abort", "claim", "loserClear"}
      BY <2>0, <2>10, <3>1 DEF EndFind, Goto, RequestsOK, StreamsOK
    <3>3. QED
      BY <2>0, <2>10, <3>2, NobodyWins DEF EndFind, Goto, RequestsOK
  <2>11. ASSUME NEW p \in Procs, Abort(p) PROVE EndsInv'
    <3>1. \A q \in Procs : \A s \in Streams \ (moderated' \cup aborted') : Wins(q, s)' => Wins(q, s)
      BY <2>0, <2>11 DEF Abort, Throw, Goto, Return, Rest, RequestsOK, Wins
    <3>2. QED BY <2>11, <3>1, NoNewWinner DEF Abort
  <2>12. ASSUME NEW p \in Procs, Claim(p) PROVE EndsInv'
    <3>1. CASE row[target[p]] # "live"
      BY <2>0, <2>12, <3>1, NobodyWins DEF Claim, Goto, RequestsOK, StreamsOK
    <3>2. CASE row[target[p]] = "live"
      <4>1. \A q \in Procs, s \in Streams : Wins(q, s)' => Wins(q, s) \/ (q = p /\ s = target[p])
        BY <2>0, <2>12, <3>2 DEF Claim, Goto, RequestsOK, Wins
      <4>2. \A s \in Streams : row'[s] = IF s = target[p] THEN "ended" ELSE row[s]
        BY <2>0, <2>12, <3>2 DEF Claim, StreamsOK
      <4>3. \A s \in Streams : off[s] \in Nat
        BY <2>0 DEF StreamsOK
      <4>4. QED
        BY <2>12, <3>2, <4>1, <4>2, <4>3 DEF Claim, EndsInv
    <3>3. QED BY <3>1, <3>2
  <2>13. ASSUME NEW p \in Procs, Finish(p) PROVE EndsInv'
    <3>1. \A q \in Procs : \A s \in Streams \ (moderated' \cup aborted') : Wins(q, s)' => Wins(q, s)
      BY <2>0, <2>13 DEF Finish, Goto, RequestsOK, Wins
    <3>2. QED BY <2>13, <3>1, NoNewWinner DEF Finish
  <2>14. ASSUME NEW p \in Procs, Clear(p) \/ ClearLoser(p) PROVE EndsInv'
    <3>1. \A q \in Procs : \A s \in Streams \ (moderated' \cup aborted') : Wins(q, s)' => Wins(q, s)
      BY <2>0, <2>14 DEF Clear, ClearLoser, Answer, Goto, Return, Rest, RequestsOK, Wins
    <3>2. QED BY <2>14, <3>1, NoNewWinner DEF Clear, ClearLoser, Answer
  <2>15. ASSUME NEW p \in Procs, Publish(p) PROVE EndsInv'
    <3>1. \A q \in Procs, s \in Streams : Wins(q, s)' => Wins(q, s) /\ q # p
      BY <2>0, <2>15 DEF Publish, Answer, Goto, Return, Rest, RequestsOK, Wins
    <3>2. Wins(p, target[p])
      BY <2>15 DEF Publish, Answer, Wins
    <3>3. \A s \in Streams : off'[s] = IF s = target[p] THEN off[s] + 1 ELSE off[s]
      BY <2>0, <2>15 DEF Publish, Answer, StreamsOK
    <3>4. QED
      BY <2>0, <2>15, <3>1, <3>2, <3>3 DEF Publish, Answer, EndsInv, StreamsOK
  <2>16. ASSUME NEW p \in Procs, NEW s \in Streams, Moderate(p, s) PROVE EndsInv'
    BY <2>0, <2>16, NobodyWins DEF Moderate, TakeUp, RequestsOK, StreamsOK
  <2>17. ASSUME NEW p \in Procs, ModUpdate(p) PROVE EndsInv'
    <3>1. \A q \in Procs : \A s \in Streams \ (moderated' \cup aborted') : Wins(q, s)' => Wins(q, s)
      BY <2>0, <2>17 DEF ModUpdate, Goto, RequestsOK, Wins
    <3>2. QED BY <2>0, <2>17, <3>1, NoNewWinner DEF ModUpdate, StreamsOK
  <2>18. ASSUME NEW p \in Procs, Fails(p) \/ DelFails(p) PROVE EndsInv'
    <3>1. \A q \in Procs : \A s \in Streams \ (moderated' \cup aborted') : Wins(q, s)' => Wins(q, s)
      BY <2>0, <2>18 DEF Fails, DelFails, Answer, Throw, Goto, Return, Rest, RequestsOK, Wins
    <3>2. QED BY <2>0, <2>18, <3>1, NoNewWinner DEF Fails, DelFails, Answer, Throw, StreamsOK
  <2>19. CASE Crash
    <3>1. \A q \in Procs : \A s \in Streams \ (moderated' \cup aborted') : Wins(q, s)' => Wins(q, s)
      BY <2>0, <2>19 DEF Crash, RequestsOK, Wins
    <3>2. QED BY <2>19, <3>1, NoNewWinner DEF Crash
  <2>20. CASE Reconcile \/ RecFails \/ Handover \/ Flush \/ UNCHANGED vars
    <3>1. UNCHANGED <<pc, target, row, off, moderated, aborted>>
      BY <2>20 DEF Reconcile, RecRead, RecPlan, RecRepair, RecFails, Handover, Flush, vars, reqVars
    <3>2. QED BY <3>1, NoNewWinner DEF Wins
  <2>21. QED
    BY <2>1, <2>2, <2>3, <2>4, <2>5, <2>6, <2>7, <2>8, <2>9, <2>10, <2>11, <2>12, <2>13, <2>14, <2>15, <2>16, <2>17, <2>18, <2>19, <2>20
       DEF Next, Step
<1>3. QED
  BY <1>1, <1>2, TypeInvariant, PTL DEF Spec

\* LIVE-29 for any number of requests that end a stream at once.
THEOREM OneAnnouncedEnd == Spec => []EndsOnce
<1>1. EndsInv => EndsOnce
  BY DEF EndsInv, EndsOnce
<1>2. QED
  BY <1>1, EndsInvariant, PTL

----------------------------------------------------------------------------
(* One live stream at a time *)

NoneLive     == \A s \in Streams : row[s] # "live"
OnlyLive(s)  == \A t \in Streams : row[t] = "live" => t = s
AtMostOne    == \A s, t \in Streams : row[s] = "live" /\ row[t] = "live" => s = t

\* What a go-live that was never crossed knows: on its way to the end of the stream it found,
\* that stream is the only one that may be live; after that none is, until its INSERT, whose
\* answer it may not have got.
Knows(p) ==
    /\ pc[p] \in {"endFind", "claim", "retry", "undo"} => OnlyLive(target[p])
    /\ pc[p] = "endFind" => row[target[p]] # "none"
    /\ pc[p] \in {"finish", "clear", "publish", "loserClear", "delMarker", "markers", "insert"}
           => NoneLive
    /\ pc[p] # "abort"

Alone == \A p, q \in going : p = q

OneInv == ~crossed => AtMostOne /\ Alone /\ \A p \in going : Knows(p)

\* Steps after which the go-live in flight stands where it stood and fewer streams are live.
LEMMA KnowsMore ==
    ASSUME TypeInv, OneInv, crossed => crossed',
           going' \subseteq going,
           \A p \in going' : pc'[p] = pc[p] /\ target'[p] = target[p],
           \A s \in Streams : (row'[s] = "live" => row[s] = "live")
                                /\ (row'[s] = "none" => row[s] = "none")
    PROVE  OneInv'
<1>1. \A p \in going' : pc[p] = "endFind" => target[p] \in Streams
  BY DEF TypeInv, TypeOK, RequestsOK, ReqInv, Fits, NamesStream, Ending
<1>2. QED
  BY <1>1 DEF OneInv, AtMostOne, Alone, Knows, NoneLive, OnlyLive

\* Spec => []OneInv.
THEOREM OneInvariant == Spec => []OneInv
<1>1. Init => OneInv
  BY DEF Init, OneInv, AtMostOne, Alone
<1>2. TypeInv /\ OneInv /\ [Next]_vars => OneInv'
  <2> SUFFICES ASSUME TypeInv, OneInv, [Next]_vars PROVE OneInv'
    OBVIOUS
  <2>0. /\ RequestsOK /\ StreamsOK
        /\ \A p \in Procs : (pc[p] \in NamesStream => target[p] \in Streams)
                         /\ (pc[p] \in GoingLive => p \in going)
                         /\ (pc[p] \in {"idle", "warn"} \cup Moderating => p \notin going)
    BY DEF TypeInv, TypeOK, ReqInv, Fits
  <2> USE DEF history, bounds
  <2>1. ASSUME NEW p \in Procs, GoLive(p) PROVE OneInv'
    BY <2>0, <2>1 DEF GoLive, OneInv, AtMostOne, Alone, Knows, RequestsOK
  <2>2. ASSUME NEW p \in Procs, FindLive(p) PROVE OneInv'
    BY <2>0, <2>2 DEF FindLive, Goto, OneInv, AtMostOne, Alone, Knows, NoneLive, OnlyLive,
       RequestsOK, GoingLive, Live
  <2>3. ASSUME NEW p \in Procs, DelMarker(p) PROVE OneInv'
    BY <2>0, <2>3 DEF DelMarker, Goto, OneInv, AtMostOne, Alone, Knows, NoneLive, OnlyLive,
       RequestsOK, GoingLive
  <2>4. ASSUME NEW p \in Procs, WriteMarkers(p) PROVE OneInv'
    BY <2>0, <2>4 DEF WriteMarkers, Goto, OneInv, AtMostOne, Alone, Knows, NoneLive, OnlyLive,
       RequestsOK, GoingLive
  <2>5. ASSUME NEW p \in Procs, Insert(p) PROVE OneInv'
    <3>1. p \in going /\ going' = going \ {p} /\ pc[p] \in {"insert", "retry"} /\ target[p] \in Streams
      BY <2>0, <2>5 DEF Insert, Window, Rest, GoingLive, NamesStream
    <3>2. \A s \in Streams : row'[s] = "live" => row[s] = "live" \/ s = target[p]
      BY <2>0, <2>5 DEF Insert, StreamsOK
    <3>3. QED
      BY <2>5, <3>1, <3>2 DEF Insert, OneInv, AtMostOne, Alone, Knows, NoneLive, OnlyLive
  <2>6. ASSUME NEW p \in Procs, InsertFails(p) PROVE OneInv'
    <3>1. /\ p \in going /\ going' = going /\ target[p] \in Streams /\ target' = target
          /\ pc[p] \in {"insert", "retry"} /\ pc'[p] \in {"retry", "undo"}
          /\ UNCHANGED crossed
      BY <2>0, <2>6 DEF InsertFails, Window, Goto, GoingLive, NamesStream, RequestsOK
    <3>2. \A s \in Streams : row'[s] = "live" => row[s] = "live" \/ s = target[p]
      BY <2>0, <2>6 DEF InsertFails, StreamsOK
    <3>3. QED
      BY <3>1, <3>2 DEF OneInv, AtMostOne, Alone, Knows, NoneLive, OnlyLive
  <2>19. ASSUME NEW p \in Procs, MarkersFail(p) PROVE OneInv'
    BY <2>0, <2>19, KnowsMore DEF MarkersFail, Rest, RequestsOK
  <2>20. ASSUME NEW p \in Procs, Fails(p) PROVE OneInv'
    <3>1. \A s \in Streams : /\ row'[s] = "live" => row[s] = "live"
                             /\ row'[s] = "none" => row[s] = "none"
      BY <2>0, <2>20 DEF Fails, StreamsOK
    <3>2. CASE p \notin going'
      <4>1. \/ UNCHANGED crossed /\ (Rest(p) \/ Return(p))
            \/ Throw(p)
        BY <2>20 DEF Fails
      <4>2. crossed => crossed'
        BY <4>1 DEF Throw
      <4>3. Rest(p) \/ Goto(p, "delMarker")
        BY <4>1 DEF Throw, Return
      <4>4. /\ going' \subseteq going
            /\ \A q \in Procs \ {p} : pc'[q] = pc[q] /\ target'[q] = target[q]
        BY <2>0, <4>3 DEF Goto, Rest, RequestsOK
      <4>5. \A q \in going' : q \in Procs \ {p}
        BY <2>0, <3>2, <4>4 DEF RequestsOK
      <4>6. \A q \in going' : pc'[q] = pc[q] /\ target'[q] = target[q]
        BY <4>4, <4>5
      <4>7. QED BY <3>1, <4>2, <4>4, <4>6, KnowsMore
    <3>3. CASE p \in going'
      <4>1. Throw(p) /\ p \in going /\ pc'[p] = "delMarker" /\ going' = going /\ target' = target
        BY <2>0, <2>20, <3>3 DEF Fails, Throw, Goto, Return, Rest, RequestsOK
      <4>2. pc[p] \in Ending /\ target[p] \in Streams
        BY <2>0, <2>20, <4>1 DEF Fails, Moderating, NamesStream, Ending, Rest
      <4>3. ~crossed' => ~crossed /\ row'[target[p]] # "live"
        BY <4>1 DEF Throw
      <4>4. ~crossed' => NoneLive'
        BY <3>1, <4>1, <4>2, <4>3 DEF OneInv, Knows, OnlyLive, NoneLive, Ending
      <4>5. QED
        BY <4>1, <4>3, <4>4 DEF OneInv, AtMostOne, Alone, Knows, NoneLive
    <3>4. QED BY <3>2, <3>3
  <2>21. ASSUME NEW p \in Procs, DelFails(p) PROVE OneInv'
    <3>1. UNCHANGED <<row, crossed>>
      BY <2>21 DEF DelFails
    <3>2. CASE p \notin going'
      BY <2>0, <2>21, <3>1, <3>2, KnowsMore DEF DelFails, Answer, Goto, Return, Rest, RequestsOK
    <3>3. CASE p \in going'
      <4>1. /\ p \in going /\ going' = going /\ pc[p] \in {"delMarker", "clear", "loserClear"}
            /\ pc'[p] \in {"markers", "publish", "delMarker"}
        BY <2>0, <2>21, <3>3 DEF DelFails, Answer, Goto, Return, Rest, RequestsOK, Moderating
      <4>2. QED
        BY <3>1, <4>1 DEF OneInv, AtMostOne, Alone, Knows, NoneLive
    <3>4. QED BY <3>2, <3>3
  <2>7. ASSUME NEW p \in Procs, Undo(p) PROVE OneInv'
    BY <2>0, <2>7, KnowsMore DEF Undo, Rest, RequestsOK
  <2>8. ASSUME NEW p \in Procs, NEW s \in Streams, EndLiveStream(p, s) \/ EndByTimer(p, s) \/ Moderate(p, s) PROVE OneInv'
    BY <2>0, <2>8, KnowsMore DEF EndLiveStream, EndByTimer, Moderate, TakeUp, RequestsOK
  <2>9. ASSUME NEW p \in Procs, EndFind(p) PROVE OneInv'
    <3>1. target[p] \in Streams
      BY <2>0, <2>9 DEF EndFind, NamesStream, Moderating, Ending
    <3>2. CASE p \in going
      BY <2>0, <2>9, <3>1, <3>2
         DEF EndFind, Goto, OneInv, AtMostOne, Alone, Knows, NoneLive, OnlyLive, RequestsOK, StreamsOK
    <3>3. CASE p \notin going
      BY <2>0, <2>9, <3>1, <3>3, KnowsMore DEF EndFind, Goto, RequestsOK, StreamsOK
    <3>4. QED BY <3>2, <3>3
  <2>10. ASSUME NEW p \in Procs, Abort(p) PROVE OneInv'
    <3>1. target[p] \in Streams
      BY <2>0, <2>10 DEF Abort, Throw, NamesStream, Moderating, Ending
    <3>2. CASE p \in going
      BY <2>0, <2>10, <3>1, <3>2
         DEF Abort, Throw, Goto, Return, Rest, OneInv, AtMostOne, Alone, Knows, NoneLive, OnlyLive, RequestsOK, StreamsOK
    <3>3. CASE p \notin going
      BY <2>0, <2>10, <3>1, <3>3, KnowsMore DEF Abort, Throw, Goto, Return, Rest, RequestsOK, StreamsOK
    <3>4. QED BY <3>2, <3>3
  <2>11. ASSUME NEW p \in Procs, Claim(p) PROVE OneInv'
    <3>1. target[p] \in Streams
      BY <2>0, <2>11 DEF Claim, NamesStream, Moderating, Ending
    <3>2. CASE p \in going
      BY <2>0, <2>11, <3>1, <3>2
         DEF Claim, Goto, OneInv, AtMostOne, Alone, Knows, NoneLive, OnlyLive, RequestsOK, StreamsOK
    <3>3. CASE p \notin going
      BY <2>0, <2>11, <3>1, <3>3, KnowsMore DEF Claim, Goto, RequestsOK, StreamsOK
    <3>4. QED BY <3>2, <3>3
  <2>12. ASSUME NEW p \in Procs, Finish(p) PROVE OneInv'
    <3>1. target[p] \in Streams
      BY <2>0, <2>12 DEF Finish, NamesStream, Moderating, Ending
    <3>2. CASE p \in going
      BY <2>0, <2>12, <3>1, <3>2
         DEF Finish, Goto, OneInv, AtMostOne, Alone, Knows, NoneLive, OnlyLive, RequestsOK, StreamsOK
    <3>3. CASE p \notin going
      BY <2>0, <2>12, <3>1, <3>3, KnowsMore DEF Finish, Goto, RequestsOK, StreamsOK
    <3>4. QED BY <3>2, <3>3
  <2>13. ASSUME NEW p \in Procs, Clear(p) \/ ClearLoser(p) PROVE OneInv'
    <3>1. target[p] \in Streams
      BY <2>0, <2>13 DEF Clear, ClearLoser, Answer, NamesStream, Moderating, Ending
    <3>2. CASE p \in going
      BY <2>0, <2>13, <3>1, <3>2
         DEF Clear, ClearLoser, Answer, Goto, Return, Rest, OneInv, AtMostOne, Alone, Knows, NoneLive, OnlyLive, RequestsOK, StreamsOK
    <3>3. CASE p \notin going
      BY <2>0, <2>13, <3>1, <3>3, KnowsMore DEF Clear, ClearLoser, Answer, Goto, Return, Rest, RequestsOK, StreamsOK
    <3>4. QED BY <3>2, <3>3
  <2>14. ASSUME NEW p \in Procs, Publish(p) PROVE OneInv'
    <3>1. target[p] \in Streams
      BY <2>0, <2>14 DEF Publish, Answer, NamesStream, Moderating, Ending
    <3>2. CASE p \in going
      BY <2>0, <2>14, <3>1, <3>2
         DEF Publish, Answer, Goto, Return, Rest, OneInv, AtMostOne, Alone, Knows, NoneLive, OnlyLive, RequestsOK, StreamsOK
    <3>3. CASE p \notin going
      BY <2>0, <2>14, <3>1, <3>3, KnowsMore DEF Publish, Answer, Goto, Return, Rest, RequestsOK, StreamsOK
    <3>4. QED BY <3>2, <3>3
  <2>15. ASSUME NEW p \in Procs, ModUpdate(p) PROVE OneInv'
    <3>1. target[p] \in Streams /\ p \notin going
      BY <2>0, <2>15 DEF ModUpdate, NamesStream, Moderating
    <3>2. QED
      BY <2>0, <2>15, <3>1, KnowsMore DEF ModUpdate, Goto, RequestsOK, StreamsOK
  <2>16. CASE Crash
    <3>1. /\ UNCHANGED <<row, crossed>> /\ going' \subseteq going
          /\ \A p \in going' : pc'[p] = pc[p] /\ target'[p] = target[p]
      BY <2>0, <2>16 DEF Crash, RequestsOK
    <3>2. QED BY <3>1, KnowsMore
  <2>17. CASE Reconcile \/ Handover \/ RecFails \/ Flush \/ UNCHANGED vars
    <3>1. UNCHANGED <<pc, target, going, row, crossed>>
      BY <2>17 DEF Reconcile, RecRead, RecPlan, RecRepair, Handover, RecFails, Flush, vars, reqVars
    <3>2. QED BY <3>1, KnowsMore
  <2>18. QED
    BY <2>1, <2>2, <2>3, <2>4, <2>5, <2>6, <2>7, <2>8, <2>9, <2>10, <2>11, <2>12, <2>13, <2>14, <2>15, <2>16, <2>17,
       <2>19, <2>20, <2>21
       DEF Next, Step
<1>3. QED
  BY <1>1, <1>2, TypeInvariant, PTL DEF Spec

\* A host has one live stream, whoever ends streams and whatever fails, as long as go-lives do not
\* overlap and none has gone on past the failed end of a stream that was live still.
THEOREM OneLive == Spec => []OneLiveStream
<1>1. TypeInv /\ OneInv => OneLiveStream
  <2> SUFFICES ASSUME TypeInv, OneInv, ~crossed PROVE Cardinality(Live) <= 1
    BY DEF OneLiveStream
  <2>1. CASE Live = {}
    BY <2>1, FS_EmptySet
  <2>2. CASE Live # {}
    <3>1. PICK s \in Live : TRUE
      BY <2>2
    <3>2. Live = {s}
      BY <3>1 DEF OneInv, AtMostOne, Live
    <3>3. QED
      BY <3>2, FS_Singleton
  <2>3. QED BY <2>1, <2>2
<1>2. QED
  BY <1>1, TypeInvariant, OneInvariant, PTL

----------------------------------------------------------------------------
(* The reconciler *)

Del(s)    == [do |-> "del", s |-> s]
Win(s)    == {p \in Window : target[p] = s}

\* Every stream id in use was given out, so a new one is nobody's.
IdInv ==
    /\ marker # None => marker < next
    /\ seen # None => seen < next
    /\ \A r \in todo \cup suspects : r.s < next
    /\ \A s \in Streams : row[s] # "none" => s < next
    /\ \A p \in Procs : pc[p] \in NamesStream => target[p] < next

\* Between ticks the go-lives of a suspect are those the last tick saw; once the next tick
\* has begun, without a lapse, a suspect has none, and so nobody left to make it live.
RecInv ==
    /\ \A s \in Streams : Del(s) \in suspects => Win(s) \subseteq old
    /\ rec = "plan" /\ seen # None => Win(seen) \subseteq old
    /\ rec = "plan" /\ lapses = 0 => \A s \in Streams : Del(s) \in suspects => Win(s) = {}
    /\ rec = "repair" /\ lapses = 0
           => \A s \in Streams : Del(s) \in todo => Win(s) = {} /\ row[s] # "live"

\* Spec => []IdInv.
THEOREM IdInvariant == Spec => []IdInv
<1>1. Init => IdInv
  BY DEF Init, IdInv, NamesStream, Moderating, Ending
<1>2. TypeInv /\ IdInv /\ [Next]_vars => IdInv'
  <2> SUFFICES ASSUME TypeInv, IdInv, [Next]_vars PROVE IdInv'
    OBVIOUS
  <2>0. /\ RequestsOK /\ StreamsOK /\ ReconcilerOK
        /\ \A p \in Procs : pc[p] \in NamesStream => target[p] \in Streams
        /\ next \in Nat /\ Streams \subseteq Nat /\ None \notin Nat
    BY LiveStreamAssumption DEF TypeInv, TypeOK, ReqInv, Fits, StreamsOK, Streams
  <2> USE DEF history, bounds, keys, recVars
  <2>1. ASSUME NEW p \in Procs, GoLive(p) PROVE IdInv'
    BY <2>0, <2>1 DEF GoLive, IdInv, NamesStream, Moderating, Ending, RequestsOK, StreamsOK, ReconcilerOK
  <2>2. ASSUME NEW p \in Procs, FindLive(p) PROVE IdInv'
    BY <2>0, <2>2 DEF FindLive, Goto, Live, IdInv, NamesStream, Moderating, Ending, RequestsOK, StreamsOK, ReconcilerOK
  <2>3. ASSUME NEW p \in Procs, DelMarker(p) PROVE IdInv'
    BY <2>0, <2>3 DEF DelMarker, Goto, IdInv, NamesStream, Moderating, Ending, RequestsOK, StreamsOK, ReconcilerOK
  <2>4. ASSUME NEW p \in Procs, WriteMarkers(p) \/ MarkersFail(p) PROVE IdInv'
    <3>1. /\ UNCHANGED <<row, seen, todo, suspects>> /\ next' = next + 1 /\ marker' \in {marker, next}
          /\ \A q \in Procs : (pc'[q] = pc[q] /\ target'[q] = target[q]) \/ target'[q] = next \/ pc'[q] = "idle"
      BY <2>0, <2>4 DEF WriteMarkers, MarkersFail, Rest, RequestsOK
    <3>2. \A r \in todo \cup suspects : r.s \in Nat
      BY <2>0 DEF ReconcilerOK, Repairs
    <3>3. (seen # None => seen \in Nat) /\ (marker # None => marker \in Nat)
      BY <2>0 DEF ReconcilerOK, StreamsOK
    <3>4. \A q \in Procs : pc'[q] \in NamesStream => target'[q] < next + 1
      <4> SUFFICES ASSUME NEW q \in Procs, pc'[q] \in NamesStream PROVE target'[q] < next + 1
        OBVIOUS
      <4>1. CASE target'[q] = next
        BY <2>0, <4>1
      <4>2. CASE pc'[q] = pc[q] /\ target'[q] = target[q]
        <5>1. target[q] \in Nat /\ target[q] < next
          BY <2>0, <4>2 DEF IdInv
        <5>2. QED BY <2>0, <4>2, <5>1
      <4>3. QED BY <3>1, <4>1, <4>2 DEF NamesStream, Moderating, Ending
    <3>5. \A s \in Streams : row'[s] # "none" => s < next + 1
      BY <2>0, <3>1 DEF IdInv
    <3>6. \A r \in todo \cup suspects : r.s < next + 1
      BY <2>0, <3>2 DEF IdInv
    <3>7. marker' # None => marker' < next + 1
      BY <2>0, <3>1, <3>3 DEF IdInv
    <3>8. seen # None => seen < next + 1
      BY <2>0, <3>3 DEF IdInv
    <3>9. QED
      BY <3>1, <3>4, <3>5, <3>6, <3>7, <3>8 DEF IdInv
  <2>5. ASSUME NEW p \in Procs, Insert(p) PROVE IdInv'
    BY <2>0, <2>5 DEF Insert, Rest, Window, IdInv, NamesStream, Moderating, Ending, RequestsOK, StreamsOK, ReconcilerOK
  <2>6. ASSUME NEW p \in Procs, InsertFails(p) PROVE IdInv'
    BY <2>0, <2>6 DEF InsertFails, Goto, Window, IdInv, NamesStream, Moderating, Ending, RequestsOK, StreamsOK, ReconcilerOK
  <2>7. ASSUME NEW p \in Procs, Undo(p) PROVE IdInv'
    BY <2>0, <2>7 DEF Undo, Rest, ClearKeys, IdInv, NamesStream, Moderating, Ending, RequestsOK, StreamsOK, ReconcilerOK
  <2>8. ASSUME NEW p \in Procs, NEW s \in Streams, EndLiveStream(p, s) \/ EndByTimer(p, s) \/ Moderate(p, s) PROVE IdInv'
    BY <2>0, <2>8 DEF EndLiveStream, EndByTimer, Moderate, TakeUp, IdInv, NamesStream, Moderating, Ending, RequestsOK, StreamsOK, ReconcilerOK
  <2>9. ASSUME NEW p \in Procs, EndFind(p) PROVE IdInv'
    BY <2>0, <2>9 DEF EndFind, Goto, IdInv, NamesStream, Moderating, Ending, RequestsOK, StreamsOK, ReconcilerOK
  <2>10. ASSUME NEW p \in Procs, Abort(p) PROVE IdInv'
    BY <2>0, <2>10 DEF Abort, Throw, ClearKeys, Return, Goto, Rest, IdInv, NamesStream, Moderating, Ending, RequestsOK, StreamsOK, ReconcilerOK
  <2>11. ASSUME NEW p \in Procs, Claim(p) PROVE IdInv'
    BY <2>0, <2>11 DEF Claim, Goto, IdInv, NamesStream, Moderating, Ending, RequestsOK, StreamsOK, ReconcilerOK
  <2>12. ASSUME NEW p \in Procs, Finish(p) PROVE IdInv'
    BY <2>0, <2>12 DEF Finish, Goto, IdInv, NamesStream, Moderating, Ending, RequestsOK, StreamsOK, ReconcilerOK
  <2>13. ASSUME NEW p \in Procs, Clear(p) \/ ClearLoser(p) PROVE IdInv'
    BY <2>0, <2>13 DEF Clear, ClearLoser, Answer, ClearKeys, Return, Goto, Rest, IdInv, NamesStream, Moderating, Ending, RequestsOK, StreamsOK, ReconcilerOK
  <2>14. ASSUME NEW p \in Procs, Publish(p) PROVE IdInv'
    BY <2>0, <2>14 DEF Publish, Answer, Return, Goto, Rest, IdInv, NamesStream, Moderating, Ending, RequestsOK, StreamsOK, ReconcilerOK
  <2>15. ASSUME NEW p \in Procs, ModUpdate(p) PROVE IdInv'
    BY <2>0, <2>15 DEF ModUpdate, Goto, IdInv, NamesStream, Moderating, Ending, RequestsOK, StreamsOK, ReconcilerOK
  <2>16. ASSUME NEW p \in Procs, Fails(p) \/ DelFails(p) PROVE IdInv'
    BY <2>0, <2>16 DEF Fails, DelFails, Answer, Throw, Return, Goto, Rest, IdInv, NamesStream, Moderating, Ending, RequestsOK, StreamsOK, ReconcilerOK
  <2>17. CASE Crash \/ Handover \/ RecFails \/ Flush \/ UNCHANGED vars
    BY <2>0, <2>17 DEF Crash, Handover, RecFails, Flush, vars, reqVars, IdInv, NamesStream, Moderating, Ending
  <2>18. CASE Reconcile
    <3>1. CASE RecRead
      BY <2>0, <3>1 DEF RecRead, reqVars, IdInv
    <3>2. CASE RecPlan
      <4>1. \A r \in Repairable(seen, Live) : r.s < next
        BY <2>0 DEF Repairable, IdInv, Live, StreamsOK, ReconcilerOK
      <4>2. QED
        BY <2>0, <3>2, <4>1 DEF RecPlan, PlanMarkerRepair, reqVars, IdInv
    <3>3. CASE RecRepair
      BY <2>0, <3>3 DEF RecRepair, ClearKeys, reqVars, IdInv, ReconcilerOK
    <3>4. QED BY <2>18, <3>1, <3>2, <3>3 DEF Reconcile
  <2>19. QED
    BY <2>1, <2>2, <2>3, <2>4, <2>5, <2>6, <2>7, <2>8, <2>9, <2>10, <2>11, <2>12, <2>13, <2>14, <2>15, <2>16, <2>17, <2>18
       DEF Next, Step
<1>3. QED
  BY <1>1, <1>2, TypeInvariant, PTL DEF Spec

\* What a step of a request or a node may do to the reconciler's evidence.
Harmless ==
    /\ UNCHANGED <<rec, seen, todo, suspects, lapses>>
    /\ \A s \in Streams : s < next => Win(s)' \subseteq Win(s)
    /\ old \cap Window' \subseteq old'
    /\ \A s \in Streams : row'[s] = "live" => row[s] = "live" \/ Win(s) # {}

LEMMA HarmlessKeepsRecInv ==
    ASSUME TypeInv, IdInv, RecInv, Harmless
    PROVE  RecInv'
<1>1. \A s \in Streams : Del(s) \in suspects \cup todo => s < next
  BY DEF IdInv, Del
<1>2. \A s \in Streams : s < next /\ Win(s) \subseteq old => Win(s)' \subseteq old'
  BY DEF Harmless, Win
<1>3. seen # None => seen \in Streams /\ seen < next
  BY DEF TypeInv, TypeOK, ReconcilerOK, IdInv
<1>4. \A s \in Streams : s < next /\ Win(s) = {} => Win(s)' = {} /\ (row'[s] = "live" => row[s] = "live")
  BY DEF Harmless
<1>5. UNCHANGED <<rec, seen, todo, suspects, lapses>>
  BY DEF Harmless
<1> HIDE DEF Win, Harmless
<1>6. QED
  BY <1>1, <1>2, <1>3, <1>4, <1>5 DEF RecInv, Del

LEMMA RequestHarmless ==
    ASSUME TypeInv, IdInv, NEW p \in Procs,
           Step(p) \/ GoLive(p) \/ InsertFails(p) \/ MarkersFail(p) \/ Fails(p) \/ DelFails(p)
               \/ \E s \in Streams : EndLiveStream(p, s) \/ EndByTimer(p, s) \/ Moderate(p, s)
    PROVE  Harmless
<1>0. /\ RequestsOK /\ StreamsOK
      /\ \A q \in Procs : pc[q] \in NamesStream => target[q] \in Streams
      /\ next \in Nat /\ Streams \subseteq Nat
  BY LiveStreamAssumption DEF TypeInv, TypeOK, ReqInv, Fits, StreamsOK, Streams
<1> USE DEF history, bounds, recVars
<1>1. ASSUME GoLive(p) PROVE Harmless
  BY <1>0, <1>1 DEF GoLive, Harmless, Win, Window, RequestsOK, StreamsOK
<1>2. ASSUME FindLive(p) PROVE Harmless
  BY <1>0, <1>2 DEF FindLive, Goto, Harmless, Win, Window, RequestsOK, StreamsOK
<1>3. ASSUME DelMarker(p) PROVE Harmless
  BY <1>0, <1>3 DEF DelMarker, Goto, Harmless, Win, Window, RequestsOK, StreamsOK
<1>4. ASSUME WriteMarkers(p) PROVE Harmless
  BY <1>0, <1>4 DEF WriteMarkers, Harmless, Win, Window, RequestsOK, StreamsOK
<1>5. ASSUME Insert(p) PROVE Harmless
  BY <1>0, <1>5 DEF Insert, Rest, NamesStream, Moderating, Harmless, Win, Window, RequestsOK, StreamsOK
<1>6. ASSUME InsertFails(p) PROVE Harmless
  BY <1>0, <1>6 DEF InsertFails, Goto, NamesStream, Moderating, Harmless, Win, Window, RequestsOK, StreamsOK
<1>7. ASSUME MarkersFail(p) PROVE Harmless
  BY <1>0, <1>7 DEF MarkersFail, Rest, Harmless, Win, Window, RequestsOK, StreamsOK
<1>8. ASSUME Undo(p) PROVE Harmless
  BY <1>0, <1>8 DEF Undo, Rest, Harmless, Win, Window, RequestsOK, StreamsOK
<1>9. ASSUME NEW s \in Streams, EndLiveStream(p, s) \/ EndByTimer(p, s) \/ Moderate(p, s) PROVE Harmless
  BY <1>0, <1>9 DEF EndLiveStream, EndByTimer, Moderate, TakeUp, Harmless, Win, Window, RequestsOK, StreamsOK
<1>10. ASSUME EndFind(p) PROVE Harmless
  BY <1>0, <1>10 DEF EndFind, Goto, Harmless, Win, Window, RequestsOK, StreamsOK
<1>11. ASSUME Abort(p) PROVE Harmless
  BY <1>0, <1>11 DEF Abort, Throw, Return, Goto, Rest, Harmless, Win, Window, RequestsOK, StreamsOK
<1>12. ASSUME Claim(p) PROVE Harmless
  BY <1>0, <1>12 DEF Claim, Goto, Harmless, Win, Window, RequestsOK, StreamsOK
<1>13. ASSUME Finish(p) PROVE Harmless
  BY <1>0, <1>13 DEF Finish, Goto, Harmless, Win, Window, RequestsOK, StreamsOK
<1>14. ASSUME Clear(p) \/ ClearLoser(p) PROVE Harmless
  BY <1>0, <1>14 DEF Clear, ClearLoser, Answer, Return, Goto, Rest, Harmless, Win, Window, RequestsOK, StreamsOK
<1>15. ASSUME Publish(p) PROVE Harmless
  BY <1>0, <1>15 DEF Publish, Answer, Return, Goto, Rest, Harmless, Win, Window, RequestsOK, StreamsOK
<1>16. ASSUME ModUpdate(p) PROVE Harmless
  BY <1>0, <1>16 DEF ModUpdate, Goto, Harmless, Win, Window, RequestsOK, StreamsOK
<1>17. ASSUME Fails(p) \/ DelFails(p) PROVE Harmless
  BY <1>0, <1>17 DEF Fails, DelFails, Answer, Throw, Return, Goto, Rest, Harmless, Win, Window, RequestsOK, StreamsOK
<1>18. QED
  BY <1>1, <1>2, <1>3, <1>4, <1>5, <1>6, <1>7, <1>8, <1>9, <1>10, <1>11, <1>12, <1>13, <1>14, <1>15, <1>16, <1>17
     DEF Step

\* Spec => []RecInv.
THEOREM RecInvariant == Spec => []RecInv
<1>1. Init => RecInv
  BY DEF Init, RecInv, Del
<1>2. TypeInv /\ IdInv /\ RecInv /\ [Next]_vars => RecInv'
  <2> SUFFICES ASSUME TypeInv, IdInv, RecInv, [Next]_vars PROVE RecInv'
    OBVIOUS
  <2>0. RequestsOK /\ StreamsOK /\ ReconcilerOK /\ lapses \in Nat /\ None \notin Streams
    BY LiveStreamAssumption DEF TypeInv, TypeOK, ReqInv, Streams
  <2>1. ASSUME NEW p \in Procs,
               Step(p) \/ GoLive(p) \/ InsertFails(p) \/ MarkersFail(p) \/ Fails(p) \/ DelFails(p)
                   \/ \E s \in Streams : EndLiveStream(p, s) \/ EndByTimer(p, s) \/ Moderate(p, s)
        PROVE  RecInv'
    BY <2>1, RequestHarmless, HarmlessKeepsRecInv
  <2>2. CASE RecRead
    <3>1. UNCHANGED <<row, suspects, reqVars>> /\ rec' = "plan" /\ old' = Window
      BY <2>2 DEF RecRead
    <3>2. \A s : Win(s)' = Win(s) /\ Win(s) \subseteq Window
      BY <3>1 DEF Win, Window, reqVars
    <3>3. ASSUME lapses' = 0 PROVE lapses = 0 /\ old \cap Window = {} /\ rec = "idle"
      BY <2>0, <2>2, <3>3 DEF RecRead
    <3>4. QED
      BY <3>1, <3>2, <3>3 DEF RecInv, Del
  <2>3. CASE RecPlan
    <3>1. /\ UNCHANGED <<row, reqVars, old, lapses>> /\ rec = "plan" /\ rec' = "repair"
          /\ todo' = PlanMarkerRepair(seen, Live, suspects) /\ suspects' = Repairable(seen, Live)
      BY <2>3 DEF RecPlan, bounds
    <3>2. \A s : Win(s)' = Win(s)
      BY <3>1 DEF Win, Window, reqVars
    <3>3. \A s \in Streams : Del(s) \in suspects' => s = seen /\ row[s] # "live"
      BY <3>1 DEF Repairable, Del, Live
    <3>4. todo' = suspects' \cap suspects
      BY <3>1 DEF PlanMarkerRepair
    <3>5. QED
      BY <2>0, <3>1, <3>2, <3>3, <3>4 DEF RecInv
  <2>4. CASE RecRepair
    <3>1. UNCHANGED <<row, reqVars, old, lapses, suspects>> /\ rec = "repair" /\ rec' = "idle"
      BY <2>4 DEF RecRepair, bounds
    <3>2. \A s : Win(s)' = Win(s)
      BY <3>1 DEF Win, Window, reqVars
    <3>3. QED
      BY <3>1, <3>2 DEF RecInv, Del
  <2>5. CASE Crash
    <3>1. Harmless
      BY <2>0, <2>5 DEF Crash, Harmless, Win, Window, recVars, RequestsOK
    <3>2. QED BY <3>1, HarmlessKeepsRecInv
  <2>6. CASE Handover
    BY <2>6 DEF Handover, RecInv
  <2>7. CASE UNCHANGED vars
    <3>1. Harmless
      BY <2>7 DEF vars, Harmless, Win, Window
    <3>2. QED BY <3>1, HarmlessKeepsRecInv
  <2>8. CASE RecFails
    <3>1. UNCHANGED <<row, reqVars, old, lapses, suspects>> /\ rec' = "idle"
      BY <2>8 DEF RecFails
    <3>2. \A s : Win(s)' = Win(s)
      BY <3>1 DEF Win, Window, reqVars
    <3>3. QED
      BY <3>1, <3>2 DEF RecInv, Del
  <2>9. CASE Flush
    <3>1. Harmless
      BY <2>9 DEF Flush, Harmless, Win, Window, reqVars, recVars
    <3>2. QED BY <3>1, HarmlessKeepsRecInv
  <2>10. QED
    BY <2>1, <2>2, <2>3, <2>4, <2>5, <2>6, <2>7, <2>8, <2>9 DEF Next, Reconcile
<1>3. QED
  BY <1>1, <1>2, TypeInvariant, IdInvariant, PTL DEF Spec

\* As long as no go-live outlasts an interval of its ticks, the reconciler deletes no marker
\* of a live stream.
THEOREM KeepsLive == Spec => ReconcilerKeepsLive
<1>1. TypeInv /\ RecInv /\ [Next]_vars
      => (rec = "repair" /\ rec' = "idle" /\ marker \in Live /\ lapses = 0 => marker' = marker)
  <2> SUFFICES ASSUME TypeInv, RecInv, [Next]_vars,
                      rec = "repair", rec' = "idle", marker \in Live, lapses = 0
               PROVE  marker' = marker
    OBVIOUS
  <2>1. RecRepair \/ RecFails \/ Handover
    BY DEF Next, Step, Reconcile, GoLive, FindLive, DelMarker, WriteMarkers, Insert, InsertFails,
       Undo, EndLiveStream, EndByTimer, EndFind, Abort, Claim, Finish, Clear, ClearLoser, Answer, Publish, Moderate, ModUpdate,
       MarkersFail, Fails, DelFails, Crash, Flush, RecRead, RecPlan, recVars, vars
  <2>2. CASE Handover \/ RecFails
    BY <2>2 DEF Handover, RecFails, keys
  <2>3. CASE RecRepair
    <3>1. \A s \in Streams : Del(s) \in todo => row[s] # "live"
      BY DEF RecInv
    <3>2. \A r \in todo : r.do = "del" => r = Del(r.s) /\ r.s \in Streams
      BY DEF TypeInv, TypeOK, ReconcilerOK, Repairs, Del
    <3>3. marker \in Streams /\ row[marker] = "live" /\ marker # None
      BY LiveStreamAssumption DEF Live, Streams
    <3>4. QED
      BY <2>3, <3>1, <3>2, <3>3 DEF RecRepair, keys
  <2>4. QED BY <2>1, <2>2, <2>3
<1>2. QED
  BY <1>1, TypeInvariant, RecInvariant, PTL DEF Spec, ReconcilerKeepsLive

----------------------------------------------------------------------------
(* The life of streams *)

\* The debts of StreamLife.
Owed == {d \in Procs \X Streams : Wins(d[1], d[2])}

\* Places that a request only comes to once it has found its stream live or ended.
Seen == {"warn", "claim", "loserClear", "modUpdate"}
SeenLive == \A p \in Procs : pc[p] \in Seen => row[target[p]] # "none"

LifeInv == TypeInv /\ IdInv /\ SeenLive

\* A win adds one debt and its announcement takes it away.
LEMMA OwedAdds ==
    ASSUME NEW p \in Procs, NEW t \in Streams,
           \A q \in Procs, s \in Streams : Wins(q, s)' <=> Wins(q, s) \/ (q = p /\ s = t)
    PROVE  Owed' = Owed \cup {<<p, t>>}
<1>1. \A d \in Procs \X Streams : d = <<d[1], d[2]>> /\ d[1] \in Procs /\ d[2] \in Streams
  OBVIOUS
<1>2. \A d \in Procs \X Streams : Wins(d[1], d[2])' <=> Wins(d[1], d[2]) \/ d = <<p, t>>
  BY <1>1
<1> QED
  BY <1>2 DEF Owed

LEMMA OwedPays ==
    ASSUME NEW p \in Procs, NEW t \in Streams,
           \A q \in Procs, s \in Streams : Wins(q, s)' <=> Wins(q, s) /\ ~(q = p /\ s = t)
    PROVE  Owed' = Owed \ {<<p, t>>}
<1>1. \A d \in Procs \X Streams : d = <<d[1], d[2]>> /\ d[1] \in Procs /\ d[2] \in Streams
  OBVIOUS
<1>2. \A d \in Procs \X Streams : Wins(d[1], d[2])' <=> Wins(d[1], d[2]) /\ d # <<p, t>>
  BY <1>1
<1> QED
  BY <1>2 DEF Owed

LEMMA LifeVars == Life!lifeVars = <<next, row, Owed, off, told, moderated, aborted>>
BY DEF Life!lifeVars, Owed

\* Nobody wins who did not before, and no row, id or announcement changes.
LEMMA LoseStep ==
    ASSUME UNCHANGED <<next, row, off, told, moderated, aborted>>,
           \A p \in Procs, s \in Streams : Wins(p, s)' => Wins(p, s)
    PROVE  Life!Lose
<1>1. Owed' \subseteq Owed
  BY DEF Owed, Wins
<1>2. Owed \ Owed' \in SUBSET Owed /\ Owed' = Owed \ (Owed \ Owed')
  BY <1>1
<1> QED
  BY <1>2 DEF Life!Lose, Owed

\* What a request that moves from p's place leaves of the debts.
LEMMA OthersOwe ==
    ASSUME NEW p \in Procs, \A q \in Procs \ {p} : pc'[q] = pc[q] /\ target'[q] = target[q],
           \A s \in Streams : Wins(p, s)' <=> Wins(p, s)
    PROVE  Owed' = Owed
<1>1. \A q \in Procs, s \in Streams : Wins(q, s)' <=> Wins(q, s)
  BY DEF Wins
<1> QED
  BY <1>1 DEF Owed, Wins

----------------------------------------------------------------------------
(* Steps of the life of a stream *)

LEMMA GivenOut ==
    ASSUME RequestsOK, NEW p \in Procs, WriteMarkers(p) \/ MarkersFail(p)
    PROVE  Life!GiveOut
<1>1. /\ UNCHANGED <<row, off, told, moderated, aborted>> /\ next' = next + 1
      /\ pc[p] = "markers" /\ pc'[p] \in {"insert", "idle"}
      /\ \A q \in Procs \ {p} : pc'[q] = pc[q] /\ target'[q] = target[q]
  BY DEF RequestsOK, WriteMarkers, MarkersFail, Rest, history
<1>2. Owed' = Owed
  BY <1>1, OthersOwe DEF Wins
<1> QED
  BY <1>1, <1>2 DEF Life!GiveOut, Owed

LEMMA WentLive ==
    ASSUME LifeInv, NEW p \in Procs, Insert(p) \/ InsertFails(p)
    PROVE  (\E s \in Streams : Life!GoLive(s)) \/ UNCHANGED Life!lifeVars
<1>1. RequestsOK /\ StreamsOK /\ p \in Window
  BY DEF LifeInv, TypeInv, TypeOK, Insert, InsertFails
<1>2. target[p] \in Streams /\ target[p] < next
  BY <1>1 DEF LifeInv, TypeInv, ReqInv, Fits, IdInv, Window, NamesStream, Moderating
<1>3. /\ UNCHANGED <<next, off, told, moderated, aborted>>
      /\ \/ UNCHANGED row
         \/ row[target[p]] = "none" /\ row' = [row EXCEPT ![target[p]] = "live"]
  BY <1>1, <1>2 DEF Insert, InsertFails, history, StreamsOK
<1>4. Owed' = Owed
  <2>1. /\ pc[p] \in {"insert", "retry"} /\ pc'[p] \in {"idle", "retry", "undo"}
        /\ \A q \in Procs \ {p} : pc'[q] = pc[q] /\ target'[q] = target[q]
    BY <1>1 DEF RequestsOK, Insert, InsertFails, Rest, Goto, Window
  <2> QED
    BY <2>1, OthersOwe DEF Wins
<1>5. CASE UNCHANGED row
  BY <1>3, <1>4, <1>5, LifeVars DEF Life!lifeVars, Owed
<1>6. CASE row[target[p]] = "none" /\ row' = [row EXCEPT ![target[p]] = "live"]
  <2>1. Life!GoLive(target[p])
    BY <1>2, <1>3, <1>4, <1>6 DEF Life!GoLive, Owed
  <2> QED
    BY <1>2, <2>1
<1> QED
  BY <1>3, <1>5, <1>6

LEMMA Claimed ==
    ASSUME LifeInv, NEW p \in Procs, Claim(p)
    PROVE  (\E s \in Streams : Life!End(s)) \/ Life!Lose
<1>1. RequestsOK /\ StreamsOK /\ pc[p] = "claim"
  BY DEF LifeInv, TypeInv, TypeOK, Claim
<1>2. target[p] \in Streams
  BY <1>1 DEF LifeInv, TypeInv, ReqInv, Fits, NamesStream, Moderating, Ending
<1> DEFINE t == target[p]
<1>3. CASE row[t] # "live"
  <2>1. /\ UNCHANGED <<next, row, off, told, moderated, aborted>>
        /\ \A q \in Procs, s \in Streams : Wins(q, s)' => Wins(q, s)
    BY <1>1, <1>3 DEF Claim, Goto, RequestsOK, Wins, history
  <2> QED
    BY <2>1, LoseStep
<1>4. CASE row[t] = "live"
  <2>1. /\ UNCHANGED <<next, off, told, moderated, aborted>>
        /\ row' = [row EXCEPT ![t] = "ended"]
    BY <1>4 DEF Claim, history
  <2>2. \A q \in Procs, s \in Streams : Wins(q, s)' <=> Wins(q, s) \/ (q = p /\ s = t)
    BY <1>1, <1>4 DEF Claim, Goto, RequestsOK, Wins
  <2>3. Owed' = Owed \cup {<<p, t>>}
    BY <1>2, <2>2, OwedAdds
  <2>4. Life!End(t)
    BY <1>4, <2>1, <2>3 DEF Life!End, Life!Close, Life!Owe, Owed
  <2> QED
    BY <1>2, <2>4
<1> QED
  BY <1>3, <1>4

LEMMA Moderated ==
    ASSUME LifeInv, NEW p \in Procs, ModUpdate(p)
    PROVE  \E s \in Streams : Life!Moderate(s)
<1>1. RequestsOK /\ StreamsOK /\ pc[p] = "modUpdate"
  BY DEF LifeInv, TypeInv, TypeOK, ModUpdate
<1> DEFINE t == target[p]
<1>2. t \in Streams /\ row[t] # "none"
  BY <1>1 DEF LifeInv, TypeInv, ReqInv, Fits, NamesStream, Moderating, SeenLive, Seen
<1>3. /\ UNCHANGED <<next, off, told, aborted>> /\ moderated' = moderated \cup {t}
      /\ row' = [row EXCEPT ![t] = "ended"]
  BY DEF ModUpdate
<1>4. \A q \in Procs, s \in Streams : Wins(q, s)' <=> Wins(q, s) \/ (q = p /\ s = t)
  BY <1>1 DEF ModUpdate, Goto, RequestsOK, Wins
<1>5. Owed' = Owed \cup {<<p, t>>}
  BY <1>2, <1>4, OwedAdds
<1> HIDE DEF t
<1>6. Life!Moderate(t)
  BY <1>2, <1>3, <1>5 DEF Life!Moderate, Life!Close, Life!Owe, Owed
<1> QED
  BY <1>2, <1>6

LEMMA Published ==
    ASSUME LifeInv, NEW p \in Procs, Publish(p)
    PROVE  \E s \in Streams : Life!Announce(p, s)
<1>1. RequestsOK /\ StreamsOK /\ pc[p] \in {"publish", "modPublish"}
  BY DEF LifeInv, TypeInv, TypeOK, Publish
<1> DEFINE t == target[p]
<1>2. t \in Streams /\ Wins(p, t)
  BY <1>1 DEF LifeInv, TypeInv, ReqInv, Fits, NamesStream, Moderating, Ending, Wins
<1>3. /\ UNCHANGED <<next, row, moderated, aborted>>
      /\ off' = [off EXCEPT ![t] = @ + 1] /\ told' \in {told, told \cup {t}}
  BY DEF Publish, Answer
<1>4. \A q \in Procs, s \in Streams : Wins(q, s)' <=> Wins(q, s) /\ ~(q = p /\ s = t)
  BY <1>1 DEF Publish, Answer, Return, Goto, Rest, RequestsOK, Wins
<1>5. Owed' = Owed \ {<<p, t>>} /\ <<p, t>> \in Owed
  <2>1. Owed' = Owed \ {<<p, t>>}
    BY <1>2, <1>4, OwedPays
  <2>2. <<p, t>> \in Owed
    BY <1>2 DEF Owed
  <2> QED
    BY <2>1, <2>2
<1> HIDE DEF t
<1>6. Life!Announce(p, t)
  BY <1>3, <1>5 DEF Life!Announce, Owed
<1> QED
  BY <1>2, <1>6

\* A frame for the room, or none.
LEMMA ToldStep ==
    ASSUME LifeInv, NEW p \in Procs, pc[p] \in {"warn", "endFind", "loserClear"},
           target[p] \in Streams, UNCHANGED <<next, row, off, moderated, aborted>>,
           told' = told \/ (pc[p] \in Seen /\ told' = told \cup {target[p]}),
           \A q \in Procs \ {p} : pc'[q] = pc[q] /\ target'[q] = target[q],
           pc'[p] \in {"abort", "claim", "loserClear", "delMarker", "idle"}
    PROVE  (\E s \in Streams : Life!Tell(s)) \/ UNCHANGED Life!lifeVars
<1>1. Owed' = Owed
  BY OthersOwe DEF Wins
<1>2. CASE told' = told
  BY <1>1, <1>2, LifeVars DEF Life!lifeVars, Owed
<1>3. CASE pc[p] \in Seen /\ told' = told \cup {target[p]}
  <2>1. row[target[p]] # "none"
    BY <1>3 DEF LifeInv, SeenLive
  <2>2. Life!Tell(target[p])
    BY <1>1, <1>3, <2>1 DEF Life!Tell, Owed
  <2> QED
    BY <2>2
<1> QED
  BY <1>2, <1>3

LEMMA Answered ==
    ASSUME LifeInv, NEW p \in Procs,
           EndFind(p) \/ ClearLoser(p) \/ (DelFails(p) /\ pc[p] = "loserClear")
    PROVE  (\E s \in Streams : Life!Tell(s)) \/ UNCHANGED Life!lifeVars
<1>1. RequestsOK /\ StreamsOK
  BY DEF LifeInv, TypeInv, TypeOK
<1>2. pc[p] \in {"warn", "endFind", "loserClear"} /\ target[p] \in Streams
  BY DEF LifeInv, TypeInv, ReqInv, Fits, NamesStream, Ending, EndFind, ClearLoser
<1>3. /\ UNCHANGED <<next, row, off, moderated, aborted>>
      /\ told' = told \/ (pc[p] \in Seen /\ told' = told \cup {target[p]})
  BY DEF EndFind, ClearLoser, DelFails, Answer, Seen
<1>4. /\ \A q \in Procs \ {p} : pc'[q] = pc[q] /\ target'[q] = target[q]
      /\ pc'[p] \in {"abort", "claim", "loserClear", "delMarker", "idle"}
  BY <1>1, <1>2 DEF EndFind, ClearLoser, DelFails, Answer, Return, Goto, Rest, RequestsOK, StreamsOK
<1> QED
  BY <1>2, <1>3, <1>4, ToldStep

LEMMA Aborted ==
    ASSUME LifeInv, NEW p \in Procs, Abort(p)
    PROVE  (\E s \in Streams : Life!Abort(s)) \/ Life!Lose
<1>1. RequestsOK /\ StreamsOK /\ pc[p] = "abort"
  BY DEF LifeInv, TypeInv, TypeOK, Abort
<1> DEFINE t == target[p]
<1>2. t \in Streams /\ t < next
  BY <1>1 DEF LifeInv, TypeInv, ReqInv, Fits, IdInv, NamesStream, Ending
<1>3. CASE t \notin info
  <2>1. /\ UNCHANGED <<next, row, off, told, moderated, aborted>>
        /\ \A q \in Procs, s \in Streams : Wins(q, s)' => Wins(q, s)
    BY <1>1, <1>3 DEF Abort, Throw, Return, Goto, Rest, RequestsOK, Wins
  <2> QED
    BY <2>1, LoseStep
<1>4. CASE t \in info
  <2>1. UNCHANGED <<next, row, off, told, moderated>> /\ aborted' = aborted \cup {t}
    BY <1>4 DEF Abort
  <2>2. \A q \in Procs, s \in Streams : Wins(q, s)' <=> Wins(q, s) \/ (q = p /\ s = t)
    BY <1>1, <1>4 DEF Abort, Goto, RequestsOK, Wins
  <2>3. Owed' = Owed \cup {<<p, t>>}
    BY <1>2, <2>2, OwedAdds
  <2> HIDE DEF t
  <2>4. Life!Abort(t)
    BY <1>2, <2>1, <2>3 DEF Life!Abort, Life!Owe, Owed
  <2> QED
    BY <1>2, <2>4
<1> QED
  BY <1>3, <1>4

\* An await throws: its claim may have ended the stream and told nobody.
LEMMA FailsQuietly ==
    ASSUME LifeInv, NEW p \in Procs, Fails(p)
    PROVE  (\E s \in Streams : Life!End(s)) \/ Life!Lose
<1>1. RequestsOK /\ StreamsOK
  BY DEF LifeInv, TypeInv, TypeOK
<1>2. UNCHANGED <<next, off, told, moderated, aborted>>
  BY DEF Fails, DelFails, Answer, Throw, history
<1>3. CASE UNCHANGED row
  <2>1. \A q \in Procs, s \in Streams : Wins(q, s)' => Wins(q, s)
    BY <1>1 DEF Fails, DelFails, Answer, Throw, Goto, Return, Rest, RequestsOK, Wins
  <2> QED
    BY <1>2, <1>3, <2>1, LoseStep
<1>4. CASE row' # row
  <2>1. /\ pc[p] = "claim" \/ pc[p] = "modUpdate"
        /\ row' = [row EXCEPT ![target[p]] = "ended"]
        /\ Return(p)
    BY <1>4 DEF Fails, Throw
  <2>2. target[p] \in Streams
    BY <2>1 DEF LifeInv, TypeInv, ReqInv, Fits, NamesStream, Moderating, Ending
  <2>3. row[target[p]] = "live"
    <3>1. row[target[p]] # "ended"
      BY <1>1, <1>4, <2>1, <2>2 DEF StreamsOK
    <3>2. row[target[p]] # "none"
      BY <2>1 DEF LifeInv, SeenLive, Seen
    <3> QED
      BY <1>1, <2>2, <3>1, <3>2 DEF StreamsOK
  <2>4. Owed' = Owed
    <3>1. \A q \in Procs \ {p} : pc'[q] = pc[q] /\ target'[q] = target[q]
      BY <1>1, <2>1 DEF Return, Goto, Rest, RequestsOK
    <3>2. pc'[p] \in {"delMarker", "idle"}
      BY <1>1, <2>1 DEF Return, Goto, Rest, RequestsOK
    <3> QED
      BY <2>1, <3>1, <3>2, OthersOwe DEF Wins
  <2>5. Life!End(target[p])
    BY <1>2, <2>1, <2>3, <2>4 DEF Life!End, Life!Close, Life!Owe, Owed
  <2> QED
    BY <2>2, <2>5
<1> QED
  BY <1>3, <1>4

\* All other steps change no row, and at most lose debts.
LEMMA OthersLose ==
    ASSUME LifeInv,
           \/ \E p \in Procs :
                 \/ GoLive(p) \/ FindLive(p) \/ DelMarker(p) \/ Undo(p) \/ Finish(p) \/ Clear(p)
                 \/ DelFails(p) /\ pc[p] # "loserClear"
                 \/ \E s \in Streams : EndLiveStream(p, s) \/ EndByTimer(p, s) \/ Moderate(p, s)
           \/ Reconcile \/ RecFails \/ Crash \/ Handover \/ Flush \/ UNCHANGED vars
    PROVE  Life!Lose
<1>0. RequestsOK /\ StreamsOK
  BY DEF LifeInv, TypeInv, TypeOK
<1> USE DEF history
<1>1. UNCHANGED <<next, row, off, told, moderated, aborted>>
  BY DEF GoLive, FindLive, DelMarker, Undo, Finish, Clear, DelFails, EndLiveStream, EndByTimer,
     Moderate, Reconcile, RecRead, RecPlan, RecRepair, RecFails, Crash, Handover, Flush, vars
<1>2. \A q \in Procs, t \in Streams : Wins(q, t)' => Wins(q, t)
  <2>1. ASSUME NEW p \in Procs, GoLive(p) \/ FindLive(p) \/ DelMarker(p) \/ Undo(p)
        PROVE  \A q \in Procs, t \in Streams : Wins(q, t)' => Wins(q, t)
    BY <1>0, <2>1 DEF GoLive, FindLive, DelMarker, Undo, Goto, Rest, RequestsOK, Wins
  <2>2. ASSUME NEW p \in Procs, DelFails(p), pc[p] # "loserClear"
        PROVE  \A q \in Procs, t \in Streams : Wins(q, t)' => Wins(q, t)
    BY <1>0, <2>2 DEF DelFails, Goto, RequestsOK, Wins
  <2>3. ASSUME NEW p \in Procs, Finish(p) \/ Clear(p)
        PROVE  \A q \in Procs, t \in Streams : Wins(q, t)' => Wins(q, t)
    BY <1>0, <2>3 DEF Finish, Clear, Goto, RequestsOK, Wins
  <2>4. ASSUME NEW p \in Procs, NEW s \in Streams, EndLiveStream(p, s) \/ EndByTimer(p, s) \/ Moderate(p, s)
        PROVE  \A q \in Procs, t \in Streams : Wins(q, t)' => Wins(q, t)
    BY <1>0, <2>4 DEF EndLiveStream, EndByTimer, Moderate, TakeUp, RequestsOK, Wins
  <2>5. CASE Crash
    BY <1>0, <2>5 DEF Crash, RequestsOK, Wins
  <2>6. CASE Reconcile \/ RecFails \/ Handover \/ Flush \/ UNCHANGED vars
    BY <2>6 DEF Reconcile, RecRead, RecPlan, RecRepair, RecFails, Handover, Flush, vars,
       reqVars, Wins
  <2> QED
    BY <2>1, <2>2, <2>3, <2>4, <2>5, <2>6
<1> QED
  BY <1>1, <1>2, LoseStep

LEMMA LifeStep == LifeInv /\ [Next]_vars => [Life!Next]_Life!lifeVars
<1> SUFFICES ASSUME LifeInv, [Next]_vars
             PROVE  Life!Next \/ UNCHANGED Life!lifeVars
  OBVIOUS
<1>1. RequestsOK
  BY DEF LifeInv, TypeInv, TypeOK
<1>2. ASSUME NEW p \in Procs, WriteMarkers(p) \/ MarkersFail(p) PROVE Life!Next
  BY <1>1, <1>2, GivenOut DEF Life!Next
<1>3. ASSUME NEW p \in Procs, Insert(p) \/ InsertFails(p)
      PROVE  Life!Next \/ UNCHANGED Life!lifeVars
  BY <1>3, WentLive DEF Life!Next
<1>4. ASSUME NEW p \in Procs, Claim(p) \/ Fails(p) PROVE Life!Next
  BY <1>4, Claimed, FailsQuietly DEF Life!Next
<1>5. ASSUME NEW p \in Procs, ModUpdate(p) PROVE Life!Next
  BY <1>5, Moderated DEF Life!Next
<1>6. ASSUME NEW p \in Procs, Publish(p) PROVE Life!Next
  BY <1>6, Published DEF Life!Next
<1>7. ASSUME NEW p \in Procs,
             EndFind(p) \/ ClearLoser(p) \/ (DelFails(p) /\ pc[p] = "loserClear")
      PROVE  Life!Next \/ UNCHANGED Life!lifeVars
  BY <1>7, Answered DEF Life!Next
<1>8. ASSUME NEW p \in Procs, Abort(p) PROVE Life!Next
  BY <1>8, Aborted DEF Life!Next
<1>9. ASSUME Life!Lose PROVE Life!Next
  BY <1>9 DEF Life!Next
<1> QED
  BY <1>2, <1>3, <1>4, <1>5, <1>6, <1>7, <1>8, <1>9, OthersLose DEF Next, Step

\* Where a request comes to such a place from.
LEMMA SeenBy ==
    ASSUME LifeInv, [Next]_vars, NEW p \in Procs, pc'[p] \in Seen
    PROVE  \/ pc[p] \in Seen /\ target'[p] = target[p]
           \/ target'[p] \in Streams /\ row[target'[p]] # "none"
<1>0. RequestsOK /\ StreamsOK
  BY DEF LifeInv, TypeInv, TypeOK
<1>1. ASSUME NEW q \in Procs,
             Step(q) \/ GoLive(q) \/ InsertFails(q) \/ MarkersFail(q) \/ Fails(q) \/ DelFails(q)
      PROVE  \A r \in Procs \ {q} : pc'[r] = pc[r] /\ target'[r] = target[r]
  BY <1>0, <1>1 DEF Step, GoLive, FindLive, DelMarker, WriteMarkers, Insert, InsertFails, Undo,
     EndFind, Abort, Throw, Claim, Finish, Clear, ClearLoser, Answer, Publish, ModUpdate, Fails,
     DelFails, MarkersFail, Goto, Rest, Return, RequestsOK
<1>2. ASSUME NEW q \in Procs, NEW s \in Streams, EndLiveStream(q, s) \/ EndByTimer(q, s) \/ Moderate(q, s)
      PROVE  \/ pc[p] \in Seen /\ target'[p] = target[p]
             \/ target'[p] \in Streams /\ row[target'[p]] # "none"
  BY <1>0, <1>2 DEF EndLiveStream, EndByTimer, Moderate, TakeUp, RequestsOK, Seen
<1>3. ASSUME EndFind(p) PROVE target'[p] \in Streams /\ row[target'[p]] # "none"
  <2>1. target[p] \in Streams /\ target' = target /\ pc[p] \in {"warn", "endFind"}
    BY <1>3 DEF EndFind, Goto, LifeInv, TypeInv, ReqInv, Fits, NamesStream, Ending
  <2>2. row[target[p]] = "none" => pc'[p] = "abort"
    BY <1>0, <1>3 DEF EndFind, Goto, RequestsOK
  <2> QED
    BY <2>1, <2>2 DEF Seen
<1>4. ASSUME Claim(p) PROVE pc[p] \in Seen /\ target'[p] = target[p]
  BY <1>4 DEF Claim, Goto, Seen
<1>5. ASSUME Step(p) \/ GoLive(p) \/ InsertFails(p) \/ MarkersFail(p) \/ Fails(p) \/ DelFails(p)
      PROVE  EndFind(p) \/ Claim(p)
  <2>1. pc'[p] \in {"warn", "claim", "loserClear", "modUpdate"}
    BY DEF Seen
  <2>2. ASSUME FindLive(p) \/ DelMarker(p) \/ WriteMarkers(p) \/ Insert(p) \/ Undo(p) \/ Abort(p)
               \/ Finish(p) \/ Clear(p)
        PROVE  FALSE
    BY <1>0, <2>1, <2>2 DEF FindLive, DelMarker, WriteMarkers, Insert, Undo, Abort, Throw,
       Finish, Clear, Goto, Rest, Return, RequestsOK
  <2>3. ASSUME ClearLoser(p) \/ Publish(p) \/ ModUpdate(p) \/ GoLive(p) \/ InsertFails(p)
               \/ MarkersFail(p)
        PROVE  FALSE
    BY <1>0, <2>1, <2>3 DEF ClearLoser, Answer, Publish, ModUpdate, GoLive, InsertFails,
       MarkersFail, Goto, Rest, Return, RequestsOK
  <2>4. ASSUME Fails(p) \/ DelFails(p) PROVE FALSE
    BY <1>0, <2>1, <2>4 DEF Fails, DelFails, Answer, Throw, Goto, Rest, Return, RequestsOK
  <2> QED
    BY <1>5, <2>2, <2>3, <2>4 DEF Step
<1>6. CASE Crash
  BY <1>0, <1>6 DEF Crash, RequestsOK, Seen
<1>7. CASE Reconcile \/ RecFails \/ Handover \/ Flush \/ UNCHANGED vars
  BY <1>7 DEF Reconcile, RecRead, RecPlan, RecRepair, RecFails, Handover, Flush, vars, reqVars
<1> QED
  BY <1>1, <1>2, <1>3, <1>4, <1>5, <1>6, <1>7 DEF Next

\* Rows are never deleted.
LEMMA SeenLiveKept == LifeInv /\ [Next]_vars => SeenLive'
<1> SUFFICES ASSUME LifeInv, [Next]_vars, NEW p \in Procs, pc'[p] \in Seen
             PROVE  row'[target'[p]] # "none"
  BY DEF SeenLive
<1>0. RequestsOK /\ StreamsOK
  BY DEF LifeInv, TypeInv, TypeOK
<1>1. \A s \in Streams : row[s] # "none" => row'[s] # "none"
  BY <1>0 DEF Next, Step, GoLive, FindLive, DelMarker, WriteMarkers, Insert, InsertFails, Undo,
     EndLiveStream, EndByTimer, EndFind, Abort, Claim, Finish, Clear, ClearLoser, Publish, Moderate,
     ModUpdate, Fails, DelFails, MarkersFail, Reconcile, RecRead, RecPlan, RecRepair, RecFails,
     Crash, Handover, Flush, history, vars, StreamsOK
<1>2. CASE pc[p] \in Seen /\ target'[p] = target[p]
  <2>1. target[p] \in Streams /\ row[target[p]] # "none"
    BY <1>2 DEF LifeInv, TypeInv, ReqInv, Fits, NamesStream, Moderating, Ending, SeenLive, Seen
  <2> QED
    BY <1>1, <1>2, <2>1
<1> QED
  BY <1>1, <1>2, SeenBy

\* Go-lives, ends, moderation and failures together are the life of the host's streams: a row
\* that ended stays ended, though the INSERT is tried again, and of all the ends of a stream one
\* wins and announces it, once or not at all.
THEOREM LifeImplemented == Spec => ImplementsLife
<1>1. Init => SeenLive /\ Life!Init
  BY DEF Init, SeenLive, Seen, Life!Init, Wins
<1>2. LifeInv /\ [Next]_vars => SeenLive' /\ [Life!Next]_Life!lifeVars
  BY SeenLiveKept, LifeStep
<1> QED
  BY <1>1, <1>2, TypeInvariant, IdInvariant, PTL DEF Spec, LifeInv, ImplementsLife, Life!Spec
============================================================================
