------------------------------ MODULE Breaker ------------------------------
(***************************************************************************)
(* The circuit breaker in front of Rekognition (createCircuitBreaker): it  *)
(* opens after Threshold failures in a row, fails fast for OpenFor, and    *)
(* then lets one trial call decide.  Calls overlap: one that began before  *)
(* the breaker opened ends whenever it likes, and its end counts.          *)
(***************************************************************************)
EXTENDS Naturals, FiniteSets

CONSTANTS Callers,   \* frame checks that call the dependency
          Threshold, \* failureThreshold
          OpenFor    \* openMs, in ticks

ASSUME BreakerAssumption == Threshold \in Nat \ {0} /\ OpenFor \in Nat \ {0}

VARIABLES failures,      \* in a row
          opened, openAge,   \* whether openedAt is set, and how long ago that was
          trialInFlight,
          call,          \* what each caller is at: no call, or one that may still fail
          healthy        \* whether the dependency answers

breakerVars == <<failures, opened, openAge, trialInFlight, call, healthy>>

NoCall == [at |-> "idle", sick |-> FALSE]

BreakerInit ==
    /\ failures = 0 /\ opened = FALSE /\ openAge = 0 /\ trialInFlight = FALSE
    /\ call = [c \in Callers |-> NoCall]
    /\ healthy = TRUE

State == IF ~opened THEN "closed" ELSE IF openAge >= OpenFor THEN "half-open" ELSE "open"
InFlight(c) == call[c].at \in {"call", "trial"}

\* exec: the state is read once, before the call.
FailFast(c) ==
    /\ call[c].at = "idle"
    /\ State = "open" \/ (State = "half-open" /\ trialInFlight)
    /\ call' = [call EXCEPT ![c].at = "refused"]
    /\ UNCHANGED <<failures, opened, openAge, trialInFlight, healthy>>

Exec(c) ==
    /\ call[c].at \in {"idle", "refused"}
    /\ State = "closed" \/ (State = "half-open" /\ ~trialInFlight)
    /\ call' = [call EXCEPT ![c] = [at |-> IF State = "closed" THEN "call" ELSE "trial",
                                    sick |-> ~healthy]]
    /\ trialInFlight' = (trialInFlight \/ State = "half-open")
    /\ UNCHANGED <<failures, opened, openAge, healthy>>

\* The finally clause: only the trial gives the trial's place back.
\* Mutant: whatever call ends does.
FinallyAnyone(c) == FALSE
Finally(c) == IF call[c].at = "trial" THEN FALSE ELSE trialInFlight

Returns(c) ==
    /\ InFlight(c)
    /\ trialInFlight' = Finally(c)
    /\ call' = [call EXCEPT ![c] = NoCall]
    /\ UNCHANGED healthy

\* A success closes the breaker, whenever its call began.
Succeeds(c) ==
    /\ healthy /\ Returns(c)
    /\ failures' = 0 /\ opened' = FALSE /\ openAge' = 0

\* failures only counts up to Threshold here: more makes no difference.
Fails(c) ==
    /\ call[c].sick /\ Returns(c)
    /\ failures' = IF failures < Threshold THEN failures + 1 ELSE failures
    /\ IF call[c].at = "trial" \/ failures' >= Threshold
       THEN opened' = TRUE /\ openAge' = 0
       ELSE UNCHANGED <<opened, openAge>>

\* A bad image: isFailure says no.
BadInput(c) == Returns(c) /\ UNCHANGED <<failures, opened, openAge>>

BreakerTick ==
    /\ opened /\ openAge < OpenFor
    /\ openAge' = openAge + 1
    /\ UNCHANGED <<failures, opened, trialInFlight, call, healthy>>

\* The dependency goes down, and the calls in flight with it, or comes back.
HealthChanges ==
    /\ healthy' = ~healthy
    /\ call' = [c \in Callers |-> [call[c] EXCEPT !.sick = InFlight(c) /\ (@ \/ healthy)]]
    /\ UNCHANGED <<failures, opened, openAge, trialInFlight>>

BreakerNext ==
    \/ BreakerTick \/ HealthChanges
    \/ \E c \in Callers : FailFast(c) \/ Exec(c) \/ Succeeds(c) \/ Fails(c) \/ BadInput(c)

BreakerSpec == BreakerInit /\ [][BreakerNext]_breakerVars

-----------------------------------------------------------------------------
BreakerTypeOK ==
    /\ failures \in 0..Threshold /\ openAge \in 0..OpenFor
    /\ opened \in BOOLEAN /\ trialInFlight \in BOOLEAN /\ healthy \in BOOLEAN
    /\ call \in [Callers -> [at : {"idle", "refused", "call", "trial"}, sick : BOOLEAN]]

\* A half-open breaker tries the dependency with one call at a time, and it knows when one is
\* under way: also when late calls of an earlier time end, close the breaker and open it again
\* while a trial is out.
OneTrial ==
    /\ \A c, d \in Callers : call[c].at = "trial" /\ call[d].at = "trial" => c = d
    /\ trialInFlight <=> \E c \in Callers : call[c].at = "trial"
=============================================================================
