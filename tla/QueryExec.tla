----------------------------- MODULE QueryExec ------------------------------
(***************************************************************************)
(* One query through LiveExecutor of mqo-auth-bridge: executor.rs (token,  *)
(* dispatch, per-attempt deadline, row budget) and the loop of retry.rs.   *)
(* PGWire queries are retried after transient errors; XMLA queries are     *)
(* sent once.                                                              *)
(*                                                                         *)
(* Time is counted in the unit of the backoff.  The timers of the program  *)
(* (the timeout of an attempt, the sleep between two) fire on time; what   *)
(* the token endpoint and the engine do, and when, is left open.  A query  *)
(* result is abstracted to its number of rows, an error to its class.      *)
(***************************************************************************)
EXTENDS Naturals, Sequences

CONSTANTS
  Deadline,        \* EndpointConfig::query_deadline_secs
  DeadlineMax,     \* EndpointConfig::query_deadline_max_secs
  Overrides,       \* per-request deadlines a caller may ask for
  MaxRetries,      \* RetryConfig::max_retries
  BaseMs,          \* RetryConfig::base_ms
  MaxBackoffMs,    \* RetryConfig::max_backoff_ms
  MaxResultRows,   \* EndpointConfig::max_result_rows
  Limits,          \* limits a caller may pass
  NoLimit,         \* the absent limit
  FullSizes,       \* how many rows the engine may have for a query
  MaxTokenWait     \* bound on the time a token request takes

ASSUME QueryExecConstantsOK ==
  /\ Deadline \in Nat /\ DeadlineMax \in Nat /\ Overrides \subseteq Nat
  /\ MaxRetries \in Nat
  /\ BaseMs \in Nat /\ MaxBackoffMs \in Nat
  /\ MaxResultRows \in Nat /\ MaxTokenWait \in Nat
  /\ Limits \subseteq Nat /\ NoLimit \notin Nat
  /\ FullSizes \subseteq Nat

\* The shifts of backoff_duration, which the provers know nothing of.
ASSUME ShiftsOK == \A k \in 0..30 : 2^k \in Nat

VARIABLES
  pc,            \* what the call is waiting for
  clock,
  backend,       \* "sql" (PGWire) or "xmla"
  direct,        \* whether a PGWire password makes the token unnecessary
  limit,         \* the caller's limit, or NoLimit
  full,          \* how many rows the engine has for the query
  deadlineSecs,  \* how long an attempt of this call may last
  deadlineEnd,   \* deadline_end, computed before the token is fetched
  ready,         \* when the credentials were there
  started,       \* when the current attempt began
  wake,          \* when the current sleep ends
  errors,        \* the classes of the errors of the attempts so far
  outcome        \* what the call returned

callVars == <<backend, direct, limit, full, deadlineSecs, deadlineEnd>>
vars == <<pc, clock, callVars, ready, started, wake, errors, outcome>>

Waiting == {"token", "attempt", "sleep", "send", "body", "refusal"}

PCs == Waiting \cup {"idle", "done"}

\* is_transient holds of "transient" alone; "http" is EngineError::Http.
Classes == {"transient", "permanent", "deadline", "http"}

Rows(n, capped) == [kind |-> "rows", n |-> n, capped |-> capped]

Error(kind) == [kind |-> kind, n |-> 0, capped |-> FALSE]

Pending == Error("pending")

Kinds == Classes \cup {"rows", "pending", "auth", "retried_exhausted"}

-----------------------------------------------------------------------------
Least(a, b) == IF a <= b THEN a ELSE b

Greatest(a, b) == IF a <= b THEN b ELSE a

MaxAttempts == MaxRetries + 1

Attempt == Len(errors) + 1

\* resolve_deadline: zero stands for the absent override.
Resolved(override) == IF override = 0 THEN Deadline ELSE Least(override, DeadlineMax)

\* jitter_ms and backoff_duration; attempt counts from 0.
Jitter(attempt) == (attempt * 37 + 13) % (BaseMs \div 4 + 1)

Backoff(attempt) == Least(BaseMs * 2^Least(attempt, 30), MaxBackoffMs) + Jitter(attempt)

\* Faulty: the time still to be slept is forgotten.
TimeForRetryNow(backoff) == clock < deadlineEnd

TimeForRetry(backoff) == clock + backoff < deadlineEnd

\* The materialization budget, and the row more that betrays an excess.
Budget == Greatest(MaxResultRows, 1)

\* Faulty: an excess can not be told from a full budget.
FetchedJustBudget == Least(full, Budget)

Fetched == Least(full, Budget + 1)

UserLimit == IF limit = NoLimit THEN Budget ELSE Least(limit, Budget)

(***************************************************************************)
(* The result of an attempt that succeeds: the budget is looked at before  *)
(* the caller's limit.                                                     *)
(***************************************************************************)
Result ==
  IF Fetched > Budget THEN Rows(Budget, TRUE) ELSE Rows(Least(Fetched, UserLimit), FALSE)

-----------------------------------------------------------------------------
Init ==
  /\ pc = "idle" /\ clock = 0
  /\ backend = "sql" /\ direct = FALSE /\ limit = NoLimit /\ full = 0
  /\ deadlineSecs = 0 /\ deadlineEnd = 0 /\ ready = 0 /\ started = 0 /\ wake = 0
  /\ errors = <<>> /\ outcome = Pending

Return(result) ==
  /\ outcome' = result
  /\ pc' = "done"
  /\ UNCHANGED <<clock, callVars, ready, started, wake>>

\* The credentials are there: the first attempt begins.
Begin ==
  /\ ready' = clock
  /\ started' = clock
  /\ pc' = IF backend' = "sql" THEN "attempt" ELSE "send"

\* execute and execute_with_deadline: the deadline is fixed before the token
\* is asked for.
Call(b, d, l, n, override) ==
  /\ pc = "idle"
  /\ d => b = "sql"
  /\ backend' = b /\ direct' = d /\ limit' = l /\ full' = n
  /\ deadlineSecs' = Resolved(override)
  /\ deadlineEnd' = clock + Resolved(override)
  /\ \/ d /\ Begin
     \/ ~d /\ pc' = "token" /\ UNCHANGED <<ready, started>>
  /\ UNCHANGED <<clock, wake, errors, outcome>>

\* An XMLA query needs a model path of a catalog and a cube.
CallWithoutCube == pc = "idle" /\ Return(Error("permanent")) /\ UNCHANGED errors

\* fetch_token_sync; its requests have no timeout.
TokenArrives ==
  /\ pc = "token"
  /\ UNCHANGED callVars
  /\ Begin
  /\ UNCHANGED <<clock, wake, errors, outcome>>

TokenFails == pc = "token" /\ Return(Error("auth")) /\ UNCHANGED errors

AttemptSucceeds == pc = "attempt" /\ Return(Result) /\ UNCHANGED errors

Retryable(class) == class = "transient"

LastAttempt == Attempt = MaxAttempts

(***************************************************************************)
(* An attempt fails with an error of this class: with_retry sleeps and     *)
(* tries again, gives up for lack of time or of attempts, or returns what  *)
(* is not transient at once.                                               *)
(***************************************************************************)
AttemptFails(class) ==
  LET backoff == Backoff(Attempt - 1)
  IN  /\ pc = "attempt"
      /\ errors' = Append(errors, class)
      /\ \/ /\ Retryable(class) /\ ~LastAttempt /\ TimeForRetry(backoff)
            /\ wake' = clock + backoff
            /\ pc' = "sleep"
            /\ UNCHANGED <<clock, callVars, ready, started, outcome>>
         \/ /\ Retryable(class) /\ ~LastAttempt /\ ~TimeForRetry(backoff)
            /\ Return(Error(class))
         \/ /\ Retryable(class) /\ LastAttempt
            /\ Return(Error(IF MaxAttempts > 1 THEN "retried_exhausted" ELSE class))
         \/ ~Retryable(class) /\ Return(Error(class))

\* Faulty: the timeout is for what is left until deadline_end.
AttemptTimesOutAtEnd == clock = deadlineEnd /\ AttemptFails("deadline")

\* pgwire_execute gives each attempt the whole deadline.
AttemptTimesOut ==
  /\ clock = started + deadlineSecs
  /\ AttemptFails("deadline")

\* The sleep is over: the next attempt, with the same credentials.
Wake ==
  /\ pc = "sleep"
  /\ clock = wake
  /\ pc' = "attempt"
  /\ started' = clock
  /\ UNCHANGED <<clock, callVars, ready, wake, errors, outcome>>

\* xmla_execute: the response has begun to arrive; its status may be a refusal.
ResponseBegins ==
  /\ pc = "send"
  /\ pc' \in {"body", "refusal"}
  /\ UNCHANGED <<clock, callVars, ready, started, wake, errors, outcome>>

SendFails == pc = "send" /\ Return(Error("http")) /\ UNCHANGED errors

\* The client's timeout, before the response and while its body is read.
SendTimesOut ==
  /\ pc = "send" /\ clock = started + deadlineSecs
  /\ Return(Error("deadline")) /\ UNCHANGED errors

BodyTimesOut ==
  /\ pc = "body" /\ clock = started + deadlineSecs
  /\ Return(Error("http")) /\ UNCHANGED errors

\* A body that is cut off, that does not parse, or that is the result.
BodyEnds ==
  /\ pc = "body"
  /\ \E result \in {Result, Error("permanent"), Error("http")} : Return(result)
  /\ UNCHANGED errors

\* The text of a refusal is read as far as it comes.
RefusalEnds == pc = "refusal" /\ Return(Error("permanent")) /\ UNCHANGED errors

RefusalTimesOut == clock = started + deadlineSecs /\ RefusalEnds

\* When the timer that is running fires.
Timer ==
  IF pc = "token" THEN deadlineEnd - deadlineSecs + MaxTokenWait
  ELSE IF pc = "sleep" THEN wake ELSE started + deadlineSecs

Tick ==
  /\ pc \in Waiting
  /\ clock < Timer
  /\ clock' = clock + 1
  /\ UNCHANGED <<pc, callVars, ready, started, wake, errors, outcome>>

AttemptStep ==
  \/ AttemptSucceeds
  \/ \E class \in {"transient", "permanent"} : AttemptFails(class)
  \/ AttemptTimesOut

XmlaStep ==
  \/ ResponseBegins
  \/ SendFails
  \/ SendTimesOut
  \/ BodyEnds
  \/ BodyTimesOut
  \/ RefusalEnds

Next ==
  \/ \E b \in {"sql", "xmla"}, d \in BOOLEAN, l \in Limits \cup {NoLimit},
        n \in FullSizes, override \in Overrides \cup {0} :
       Call(b, d, l, n, override)
  \/ CallWithoutCube
  \/ TokenArrives
  \/ TokenFails
  \/ AttemptStep
  \/ XmlaStep
  \/ Wake
  \/ Tick

Spec == Init /\ [][Next]_vars

(***************************************************************************)
(* Time passes, timers fire, and the token endpoint answers.  The engine   *)
(* need not answer: that is what the deadline is for.                      *)
(***************************************************************************)
FairSpec ==
  /\ Spec
  /\ WF_vars(Tick)
  /\ WF_vars(TokenArrives \/ TokenFails)
  /\ WF_vars(Wake)
  /\ WF_vars(AttemptTimesOut \/ SendTimesOut \/ BodyTimesOut \/ RefusalTimesOut)

-----------------------------------------------------------------------------
(***************************************************************************)
(* The types of the variables; attempts are counted from 1 to MaxAttempts. *)
(***************************************************************************)
TypeOK ==
  /\ pc \in PCs
  /\ clock \in Nat /\ deadlineSecs \in Nat /\ deadlineEnd \in Nat
  /\ ready \in Nat /\ started \in Nat /\ wake \in Nat
  /\ backend \in {"sql", "xmla"} /\ direct \in BOOLEAN
  /\ limit \in Nat \cup {NoLimit} /\ full \in Nat
  /\ errors \in Seq(Classes) /\ Len(errors) <= MaxAttempts
  /\ outcome \in [kind : Kinds, n : Nat, capped : BOOLEAN]

\* The call has its credentials and has not returned.
UnderWay == pc \in {"attempt", "sleep", "send", "body", "refusal"}

(***************************************************************************)
(* However many retries there are and whatever the engine does, a call     *)
(* ends within one deadline after deadline_end, or after its credentials   *)
(* came if that was later: with_retry starts a retry only before           *)
(* deadline_end, and an attempt lasts one deadline.                        *)
(***************************************************************************)
OverrunBounded ==
  UnderWay \/ (pc = "done" /\ outcome.kind # "auth")
    => clock <= Greatest(deadlineEnd, ready) + deadlineSecs

AllTransient == \A i \in 1..Len(errors) : errors[i] = "transient"

(***************************************************************************)
(* EngineErrorRetriedExhausted is returned after every attempt allowed was *)
(* made and failed transiently, and after more than one; a call goes on to *)
(* another attempt only when it saw nothing but transient errors.          *)
(***************************************************************************)
ExhaustedMeansTried ==
  /\ outcome.kind = "retried_exhausted" =>
       Len(errors) = MaxAttempts /\ Len(errors) > 1 /\ AllTransient
  /\ UnderWay => AllTransient

(***************************************************************************)
(* The budget never clamps silently: an answer has every row of the        *)
(* result, or is bounded by the caller's own limit, or is flagged, and     *)
(* only an answer the budget did cut is flagged.                           *)
(***************************************************************************)
NoSilentClamp ==
  outcome.kind = "rows" =>
    /\ outcome.n = full \/ outcome.n = limit \/ outcome.capped
    /\ outcome.capped => outcome.n = Budget /\ outcome.n < full

(***************************************************************************)
(* What a call returns says what happened: neither its error nor its rows  *)
(* claim more than the attempts and the engine gave.                       *)
(***************************************************************************)
OutcomeIsTrue == ExhaustedMeansTried /\ NoSilentClamp

(***************************************************************************)
(* A call returns, whatever the engine does, as long as the token endpoint *)
(* answers: every wait of the executor has a timer of its own.             *)
(***************************************************************************)
CallReturns == pc \in Waiting ~> pc = "done"
=============================================================================
