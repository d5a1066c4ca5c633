---------------------------- MODULE BridgeHealth ----------------------------
(***************************************************************************)
(* Self-recovery of the bridge: bridgeHealthMonitor and its watchdog in    *)
(* cmd/hydroxide/main.go.                                                  *)
(*                                                                         *)
(* API clients report the result of each request, IMAP logins report when  *)
(* they begin and end, and the watchdog of "serve" leaves the process with *)
(* status 75 when either says the bridge is stuck.  Every method runs      *)
(* under the monitor's mutex.  Points in time are kept as ages, which      *)
(* TimePasses advances and which saturate where the code stops telling     *)
(* them apart.                                                             *)
(***************************************************************************)
EXTENDS Integers, FiniteSets, Sequences

CONSTANTS
  Logins,            \* concurrent IMAP logins
  FailureThreshold,  \* 6 in the code
  MinimumAge,        \* in ticks; 3 minutes in the code
  StallTimeout       \* in ticks; 75 seconds in the code

ASSUME BridgeHealthAssumption ==
  /\ IsFiniteSet(Logins)
  /\ FailureThreshold \in Nat \ {0}
  /\ MinimumAge \in Nat \ {0} /\ StallTimeout \in Nat \ {0}

VARIABLES
  consecutiveFails,
  firstFailureAge,  \* age of firstFailureAt, or Zero
  lastSuccessAge,   \* age of lastSuccessAt, or Zero
  activeIMAPOps,
  oldestIMAPOpAge,  \* age of oldestIMAPOpAt, or Zero
  loginAge,         \* age of each login in progress, or Zero
  failures,         \* history: ages of the failures since the last success
  exited            \* why the watchdog left the process, or "no"

requestVars == <<consecutiveFails, firstFailureAge, lastSuccessAge, failures>>
loginVars == <<activeIMAPOps, oldestIMAPOpAge, loginAge>>
healthVars == <<requestVars, loginVars, exited>>

Zero == -1    \* Go's zero time.Time

Age(bound) == 0 .. bound
Older(age, bound) == IF age = Zero \/ age = bound THEN age ELSE age + 1

InProgress == {l \in Logins : loginAge[l] # Zero}

-----------------------------------------------------------------------------
(* Results of requests.  A result is what doJSON got and from which path.   *)

Errors == {"timeout", "unexpected EOF", "invalid character '<'", "API 5xx", "API other"}
Paths == {"/api/events/", "other", "none"}   \* "none": a nil request

\* isRecoverableBridgeError
IsRecoverable(path, err) ==
  \/ err \in {"timeout", "unexpected EOF", "invalid character '<'"}
  \/ err = "API 5xx" /\ path = "/api/events/"

\* Mutant: a success leaves the count.
ObserveSuccessKeepsCount ==
  /\ firstFailureAge' = Zero
  /\ lastSuccessAge' = 0
  /\ failures' = << >>
  /\ UNCHANGED <<consecutiveFails, loginVars, exited>>

\* observe, without an error
ObserveSuccess ==
  /\ consecutiveFails' = 0
  /\ firstFailureAge' = Zero
  /\ lastSuccessAge' = 0
  /\ failures' = << >>
  /\ UNCHANGED <<loginVars, exited>>

\* observe, with an error; any other error changes nothing.  The count is
\* kept up to the threshold.
ObserveFailure(path, err) ==
  /\ IsRecoverable(path, err)
  /\ consecutiveFails < FailureThreshold
  /\ firstFailureAge' = IF firstFailureAge = Zero THEN 0 ELSE firstFailureAge
  /\ consecutiveFails' = consecutiveFails + 1
  /\ failures' = Append(failures, 0)
  /\ UNCHANGED <<lastSuccessAge, loginVars, exited>>

-----------------------------------------------------------------------------
(* Logins: backend.Login brackets its work with these two calls.            *)

\* Mutant: every beginning starts the clock again.
BeginIMAPOperationRestarts(l) ==
  /\ loginAge[l] = Zero
  /\ oldestIMAPOpAge' = 0
  /\ activeIMAPOps' = activeIMAPOps + 1
  /\ loginAge' = [loginAge EXCEPT ![l] = 0]
  /\ UNCHANGED <<requestVars, exited>>

BeginIMAPOperation(l) ==
  /\ loginAge[l] = Zero
  /\ oldestIMAPOpAge' = IF activeIMAPOps = 0 THEN 0 ELSE oldestIMAPOpAge
  /\ activeIMAPOps' = activeIMAPOps + 1
  /\ loginAge' = [loginAge EXCEPT ![l] = 0]
  /\ UNCHANGED <<requestVars, exited>>

\* Mutant: the end of any operation clears the clock.
EndIMAPOperationClears(l) ==
  /\ loginAge[l] # Zero
  /\ activeIMAPOps' = IF activeIMAPOps > 0 THEN activeIMAPOps - 1 ELSE activeIMAPOps
  /\ oldestIMAPOpAge' = Zero
  /\ loginAge' = [loginAge EXCEPT ![l] = Zero]
  /\ UNCHANGED <<requestVars, exited>>

EndIMAPOperation(l) ==
  /\ loginAge[l] # Zero
  /\ activeIMAPOps' = IF activeIMAPOps > 0 THEN activeIMAPOps - 1 ELSE activeIMAPOps
  /\ oldestIMAPOpAge' = IF activeIMAPOps' = 0 THEN Zero ELSE oldestIMAPOpAge
  /\ loginAge' = [loginAge EXCEPT ![l] = Zero]
  /\ UNCHANGED <<requestVars, exited>>

-----------------------------------------------------------------------------
(* shouldRestart and the watchdog.                                          *)

Stalled ==
  /\ activeIMAPOps > 0
  /\ oldestIMAPOpAge # Zero
  /\ oldestIMAPOpAge >= StallTimeout

\* Mutant: any success ever.
SucceededEver == lastSuccessAge # Zero

\* lastSuccessAt.After(firstFailureAt); the zero time is before all others.
SucceededSince ==
  /\ lastSuccessAge # Zero
  /\ lastSuccessAge < firstFailureAge

Failing ==
  /\ consecutiveFails >= FailureThreshold
  /\ firstFailureAge # Zero
  /\ ~SucceededSince
  /\ firstFailureAge >= MinimumAge

Watchdog ==
  /\ Stalled \/ Failing
  /\ exited' = IF Stalled THEN "stalled IMAP operation"
               ELSE "repeated Proton event API failures"
  /\ UNCHANGED <<requestVars, loginVars>>

TimePasses ==
  /\ firstFailureAge' = Older(firstFailureAge, MinimumAge)
  /\ lastSuccessAge' = Older(lastSuccessAge, MinimumAge)
  /\ oldestIMAPOpAge' = Older(oldestIMAPOpAge, StallTimeout)
  /\ loginAge' = [l \in Logins |-> Older(loginAge[l], StallTimeout)]
  /\ failures' = [i \in DOMAIN failures |-> Older(failures[i], MinimumAge)]
  /\ UNCHANGED <<consecutiveFails, activeIMAPOps, exited>>

-----------------------------------------------------------------------------
HealthInit ==
  /\ consecutiveFails = 0
  /\ firstFailureAge = Zero
  /\ lastSuccessAge = Zero
  /\ activeIMAPOps = 0
  /\ oldestIMAPOpAge = Zero
  /\ loginAge = [l \in Logins |-> Zero]
  /\ failures = << >>
  /\ exited = "no"

\* Nothing happens in a process that has exited.
HealthNext ==
  /\ exited = "no"
  /\ \/ ObserveSuccess
     \/ \E path \in Paths, err \in Errors : ObserveFailure(path, err)
     \/ \E l \in Logins : BeginIMAPOperation(l) \/ EndIMAPOperation(l)
     \/ Watchdog
     \/ TimePasses

HealthSpec == HealthInit /\ [][HealthNext]_healthVars

\* Time passes and the watchdog's ticker fires; nobody has to log in or out,
\* and no request has to be made.
HealthFairSpec ==
  /\ HealthSpec
  /\ WF_healthVars(exited = "no" /\ TimePasses)
  /\ WF_healthVars(exited = "no" /\ Watchdog)

-----------------------------------------------------------------------------
(* Properties.                                                             *)

\* Types, and the monitor's fields agree with each other: a failure has a time
\* exactly while failures are counted.
HealthTypeOK ==
  /\ consecutiveFails \in 0 .. FailureThreshold
  /\ firstFailureAge \in Age(MinimumAge) \cup {Zero}
  /\ lastSuccessAge \in Age(MinimumAge) \cup {Zero}
  /\ activeIMAPOps \in Nat
  /\ oldestIMAPOpAge \in Age(StallTimeout) \cup {Zero}
  /\ loginAge \in [Logins -> Age(StallTimeout) \cup {Zero}]
  /\ failures \in Seq(Age(MinimumAge))
  /\ (consecutiveFails = 0) = (firstFailureAge = Zero)

\* The count of logins is exact, and no login has been in progress for longer
\* than the clock of the monitor says, however logins overlap: a login that
\* hangs cannot hide behind others that come and go.
LoginsCovered ==
  /\ activeIMAPOps = Cardinality(InProgress)
  /\ \A l \in InProgress : oldestIMAPOpAge >= loginAge[l]

\* The process is only given up for API failures when recoverable failures in
\* a row, with no success between them, have lasted for the minimum age: a
\* success cancels the recovery, and other errors count for nothing.
RestartJustified ==
  exited = "repeated Proton event API failures" =>
    /\ Len(failures) >= FailureThreshold
    /\ failures[1] >= MinimumAge

\* A login that never ends restarts the bridge, even when other logins keep
\* coming and going.
StuckLoginRestarts ==
  \A l \in Logins : <>[](loginAge[l] # Zero) => <>(exited # "no")

\* So does an API that keeps failing and never succeeds again, whatever
\* successes there were before.
FailingApiRestarts ==
  <>[](consecutiveFails >= FailureThreshold) => <>(exited # "no")

\* A stall is only reported for a login that has been in progress for that
\* long: the comment at imap/backend.go:16 promises to detect "a real IMAP
\* operation that has stopped making progress".
StallIsReal ==
  exited = "stalled IMAP operation" =>
    \E l \in Logins : loginAge[l] >= StallTimeout
=============================================================================
