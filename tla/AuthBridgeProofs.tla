--------------------------- MODULE AuthBridgeProofs ---------------------------
(***************************************************************************)
(* Proofs of the safety properties of QueryExec, for every deadline, retry *)
(* configuration, budget and result size, and of TokenCache, for any       *)
(* number of threads and any lifetimes, skew and latency.                  *)
(*                                                                         *)
(* Of QueryExec, TypeOK and OverrunBounded are not inductive alone: that   *)
(* an attempt ends in time needs when it may have started, that needs when *)
(* the sleep before it may have ended, and that the errors stay within     *)
(* MaxAttempts needs that a call under way has an attempt left.            *)
(*                                                                         *)
(* Of TokenCache, what a thread knows of its token depends on the step it  *)
(* is at: one that is fetching has seen a stale cache, a token on its way  *)
(* was born in the past, one that has arrived counts from its arrival, and *)
(* one in use was more than the skew away from its expiry when it was      *)
(* found good.                                                             *)
(***************************************************************************)
EXTENDS QueryExec, TokenCache, TLAPS

-----------------------------------------------------------------------------
\* One call of the executor.
\* The latest instant at which an attempt of this call may start.
LastStart == Greatest(deadlineEnd, ready)

\* Where the call stands in time.
Timely ==
  /\ pc = "idle" => clock = 0
  /\ pc \in {"attempt", "send", "body", "refusal"} =>
       started <= LastStart /\ clock <= started + deadlineSecs
  /\ pc = "sleep" => clock <= wake /\ wake < deadlineEnd
  /\ pc = "done" /\ outcome.kind # "auth" => clock <= LastStart + deadlineSecs

\* What the call has seen of its attempts.
Counted ==
  /\ pc \in {"attempt", "sleep"} => Len(errors) < MaxAttempts
  /\ pc # "done" => AllTransient
  /\ pc \notin {"attempt", "sleep", "done"} => errors = <<>>
  /\ outcome.kind = "retried_exhausted" =>
       Len(errors) = MaxAttempts /\ Len(errors) > 1 /\ AllTransient

Answered ==
  /\ pc # "done" => outcome = Pending
  /\ NoSilentClamp

IInv == TypeOK /\ Timely /\ Counted /\ Answered

-----------------------------------------------------------------------------
(***************************************************************************)
(* backoff_duration is a natural number.                                   *)
(***************************************************************************)
LEMMA BackoffNat ==
  ASSUME NEW attempt \in Nat
  PROVE  Backoff(attempt) \in Nat
<1>1. Least(attempt, 30) \in 0..30
  BY DEF Least
<1>2. 2^Least(attempt, 30) \in Nat
  BY <1>1, ShiftsOK
<1>3. PICK shift : shift = 2^Least(attempt, 30)
  OBVIOUS
<1>4. BaseMs * shift \in Nat
  BY <1>2, <1>3, QueryExecConstantsOK
<1>5. Least(BaseMs * shift, MaxBackoffMs) \in Nat
  BY <1>4, QueryExecConstantsOK DEF Least
<1>6. Jitter(attempt) \in Nat
  BY QueryExecConstantsOK DEF Jitter
<1>7. Backoff(attempt) = Least(BaseMs * shift, MaxBackoffMs) + Jitter(attempt)
  BY <1>3 DEF Backoff
<1> QED
  BY <1>5, <1>6, <1>7

(***************************************************************************)
(* The deadline of an override is a natural number.                        *)
(***************************************************************************)
LEMMA ResolvedNat ==
  ASSUME NEW override \in Overrides \cup {0}
  PROVE  Resolved(override) \in Nat
  BY QueryExecConstantsOK DEF Resolved, Least

(***************************************************************************)
(* What execute makes of the rows it fetched is an answer that does not    *)
(* clamp silently.                                                         *)
(***************************************************************************)
LEMMA ResultSound ==
  ASSUME full \in Nat, limit \in Nat \cup {NoLimit}
  PROVE  /\ Result \in [kind : Kinds, n : Nat, capped : BOOLEAN]
         /\ Result.kind = "rows"
         /\ Result.n = full \/ Result.n = limit \/ Result.capped
         /\ Result.capped => Result.n = Budget /\ Result.n < full
<1>1. Budget \in Nat
  BY QueryExecConstantsOK DEF Budget, Greatest
<1>2. Fetched \in Nat /\ Fetched <= full /\ (Fetched <= Budget => Fetched = full)
  BY <1>1 DEF Fetched, Least
<1>3. UserLimit \in Nat /\ UserLimit <= Budget /\ (UserLimit = limit \/ UserLimit = Budget)
  BY <1>1 DEF UserLimit, Least
<1>4. CASE Fetched > Budget
  <2>1. Result = Rows(Budget, TRUE)
    BY <1>4 DEF Result
  <2> QED
    BY <2>1, <1>1, <1>2, <1>4 DEF Rows, Kinds, Classes
<1>5. CASE ~(Fetched > Budget)
  <2>1. Result = Rows(Least(Fetched, UserLimit), FALSE)
    BY <1>5 DEF Result
  <2>2. Least(Fetched, UserLimit) \in Nat
    BY <1>2, <1>3 DEF Least
  <2>3. Least(Fetched, UserLimit) = full \/ Least(Fetched, UserLimit) = limit
    BY <1>1, <1>2, <1>3, <1>5 DEF Least
  <2> QED
    BY <2>1, <2>2, <2>3 DEF Rows, Kinds, Classes
<1> QED
  BY <1>4, <1>5

(***************************************************************************)
(* IInv holds in every state before the call.                              *)
(***************************************************************************)
LEMMA InitInductive == Init => IInv
<1> SUFFICES ASSUME Init PROVE IInv
  OBVIOUS
<1>0. errors \in Seq(Classes) /\ Len(errors) <= MaxAttempts
  BY QueryExecConstantsOK DEF Init, MaxAttempts
<1>1. TypeOK
  BY <1>0 DEF Init, TypeOK, PCs, Waiting, Pending, Error, Kinds
<1>2. Timely /\ Counted /\ Answered
  BY DEF Init, Timely, Counted, Answered, AllTransient, NoSilentClamp, Pending, Error
<1> QED
  BY <1>1, <1>2 DEF IInv

(***************************************************************************)
(* A call with its credentials starts within LastStart.                    *)
(***************************************************************************)
LEMMA CallInductive ==
  ASSUME IInv, NEW b \in {"sql", "xmla"}, NEW d \in BOOLEAN,
         NEW l \in Limits \cup {NoLimit}, NEW n \in FullSizes,
         NEW override \in Overrides \cup {0}, Call(b, d, l, n, override)
  PROVE  IInv'
<1>1. Resolved(override) \in Nat /\ l \in Nat \cup {NoLimit} /\ n \in Nat
  BY ResolvedNat, QueryExecConstantsOK
<1>2. /\ clock \in Nat /\ clock' = clock /\ deadlineSecs' = Resolved(override)
      /\ deadlineEnd' = clock + Resolved(override)
      /\ errors' = errors /\ errors = <<>> /\ outcome' = outcome /\ outcome = Pending
      /\ wake' = wake
  BY DEF Call, IInv, TypeOK, Counted, Answered
<1>3. \/ pc' = "token" /\ ready' = ready /\ started' = started
      \/ pc' \in {"attempt", "send"} /\ ready' = clock /\ started' = clock
  BY DEF Call, Begin
<1>4. TypeOK'
  BY <1>1, <1>2, <1>3 DEF Call, IInv, TypeOK, PCs, Waiting
<1>5. Timely'
  BY <1>1, <1>2, <1>3 DEF Timely, LastStart, Greatest
<1>6. Counted'
  BY <1>2, <1>3, QueryExecConstantsOK
     DEF Counted, AllTransient, MaxAttempts, Pending, Error
<1>7. Answered'
  BY <1>2, <1>3 DEF Answered, NoSilentClamp, Pending, Error
<1> QED
  BY <1>4, <1>5, <1>6, <1>7 DEF IInv

(***************************************************************************)
(* What a step that returns has to show: its result is well formed and     *)
(* sound, the errors counted fit it, and it is not late.                   *)
(***************************************************************************)
LEMMA ReturnInductive ==
  ASSUME IInv, NEW result, Return(result),
         result \in [kind : Kinds, n : Nat, capped : BOOLEAN],
         result.kind = "rows" =>
           /\ result.n = full \/ result.n = limit \/ result.capped
           /\ result.capped => result.n = Budget /\ result.n < full,
         errors' \in Seq(Classes), Len(errors') <= MaxAttempts,
         result.kind = "retried_exhausted" =>
           Len(errors') = MaxAttempts /\ Len(errors') > 1 /\ AllTransient',
         result.kind # "auth" => clock <= LastStart + deadlineSecs
  PROVE  IInv'
<1>1. /\ outcome' = result /\ pc' = "done" /\ clock' = clock
      /\ backend' = backend /\ direct' = direct /\ limit' = limit /\ full' = full
      /\ deadlineSecs' = deadlineSecs /\ deadlineEnd' = deadlineEnd
      /\ ready' = ready /\ started' = started /\ wake' = wake
  BY DEF Return, callVars
<1>2. TypeOK'
  BY <1>1 DEF IInv, TypeOK, PCs
<1>3. Timely'
  BY <1>1 DEF Timely, LastStart
<1>4. Counted'
  BY <1>1 DEF Counted
<1>5. Answered'
  BY <1>1 DEF Answered, NoSilentClamp, Budget
<1> QED
  BY <1>2, <1>3, <1>4, <1>5 DEF IInv

(***************************************************************************)
(* An error is well formed.                                                *)
(***************************************************************************)
LEMMA ErrorSound ==
  ASSUME NEW kind \in Kinds
  PROVE  /\ Error(kind) \in [kind : Kinds, n : Nat, capped : BOOLEAN]
         /\ Error(kind).kind = kind
  BY DEF Error

(***************************************************************************)
(* While it waits for the engine a call is not late.                       *)
(***************************************************************************)
LEMMA InTime ==
  ASSUME IInv, UnderWay \/ pc = "idle"
  PROVE  clock <= LastStart + deadlineSecs /\ LastStart \in Nat
<1>1. LastStart \in Nat /\ deadlineEnd <= LastStart
  BY DEF IInv, TypeOK, LastStart, Greatest
<1>2. CASE pc \in {"attempt", "send", "body", "refusal"}
  BY <1>1, <1>2 DEF IInv, TypeOK, Timely
<1>3. CASE pc \in {"sleep", "idle"}
  BY <1>1, <1>3 DEF IInv, TypeOK, Timely
<1> QED
  BY <1>1, <1>2, <1>3 DEF UnderWay

(***************************************************************************)
(* The steps that return without counting an error.                        *)
(***************************************************************************)
LEMMA FailInductive ==
  ASSUME IInv, UNCHANGED errors,
         NEW kind \in {"auth", "permanent", "deadline", "http"}, Return(Error(kind)),
         kind = "auth" \/ UnderWay \/ pc = "idle"
  PROVE  IInv'
<1>1. kind \in Kinds /\ kind # "rows" /\ kind # "retried_exhausted"
  BY DEF Kinds, Classes
<1>2. errors' \in Seq(Classes) /\ Len(errors') <= MaxAttempts
  BY DEF IInv, TypeOK
<1>3. kind # "auth" => clock <= LastStart + deadlineSecs
  BY InTime
<1> QED
  BY <1>1, <1>2, <1>3, ErrorSound, ReturnInductive

(***************************************************************************)
(* The steps that return the rows of an attempt.                           *)
(***************************************************************************)
LEMMA SucceedInductive ==
  ASSUME IInv, UNCHANGED errors, UnderWay, Return(Result)
  PROVE  IInv'
<1>1. full \in Nat /\ limit \in Nat \cup {NoLimit}
  BY DEF IInv, TypeOK
<1>2. errors' \in Seq(Classes) /\ Len(errors') <= MaxAttempts
  BY DEF IInv, TypeOK
<1>3. clock <= LastStart + deadlineSecs
  BY InTime
<1>4. /\ Result \in [kind : Kinds, n : Nat, capped : BOOLEAN]
      /\ Result.kind = "rows"
      /\ Result.n = full \/ Result.n = limit \/ Result.capped
      /\ Result.capped => Result.n = Budget /\ Result.n < full
  BY <1>1, ResultSound
<1> QED
  BY <1>2, <1>3, <1>4, ReturnInductive

(***************************************************************************)
(* A failed attempt: its error is one more, of at most MaxAttempts; the    *)
(* sleep before the next attempt ends before deadlineEnd.                  *)
(***************************************************************************)
LEMMA AttemptFailsInductive ==
  ASSUME IInv, NEW class \in {"transient", "permanent", "deadline"}, AttemptFails(class)
  PROVE  IInv'
<1> DEFINE backoff == Backoff(Attempt - 1)
<1>1. /\ pc = "attempt" /\ errors \in Seq(Classes) /\ Len(errors) < MaxAttempts
      /\ AllTransient /\ MaxAttempts \in Nat /\ MaxAttempts >= 1 /\ class \in Classes
      /\ errors' = Append(errors, class)
  BY QueryExecConstantsOK DEF IInv, TypeOK, Counted, AttemptFails, MaxAttempts, Classes
<1>2. errors' \in Seq(Classes) /\ Len(errors') = Len(errors) + 1 /\ Len(errors') <= MaxAttempts
  BY <1>1
<1>3. class = "transient" => AllTransient'
  BY <1>1, <1>2 DEF AllTransient
<1>4. clock <= LastStart + deadlineSecs /\ clock \in Nat
  BY <1>1, InTime DEF UnderWay, IInv, TypeOK
<1>5. backoff \in Nat
  BY <1>1, BackoffNat DEF Attempt
<1>6. CASE /\ Retryable(class) /\ ~LastAttempt /\ TimeForRetry(backoff)
           /\ wake' = clock + backoff /\ pc' = "sleep"
           /\ UNCHANGED <<clock, callVars, ready, started, outcome>>
  <2>1. /\ clock' = clock /\ deadlineSecs' = deadlineSecs /\ deadlineEnd' = deadlineEnd
        /\ backend' = backend /\ direct' = direct /\ limit' = limit /\ full' = full
        /\ ready' = ready /\ started' = started /\ outcome' = outcome /\ pc' = "sleep"
        /\ wake' \in Nat /\ clock <= wake' /\ wake' < deadlineEnd
    BY <1>4, <1>5, <1>6 DEF callVars, TimeForRetry
  <2>2. TypeOK'
    BY <1>2, <2>1 DEF IInv, TypeOK, PCs, Waiting
  <2>3. Timely'
    BY <2>1 DEF Timely
  <2>4. outcome' = Pending
    BY <1>1, <2>1 DEF IInv, Answered
  <2>5. Len(errors') < MaxAttempts
    BY <1>1, <1>2, <1>6 DEF LastAttempt, Attempt
  <2>6. Counted'
    BY <1>3, <1>6, <2>1, <2>4, <2>5 DEF Counted, Retryable, Pending, Error
  <2>7. Answered'
    BY <2>1, <2>4 DEF Answered, NoSilentClamp, Pending, Error
  <2> QED
    BY <2>2, <2>3, <2>6, <2>7 DEF IInv
<1>7. CASE Return(Error(class))
  <2>1. class \in Kinds /\ class # "rows" /\ class # "retried_exhausted"
    BY DEF Kinds, Classes
  <2> QED
    BY <1>2, <1>4, <1>7, <2>1, ErrorSound, ReturnInductive
<1>8. CASE /\ Retryable(class) /\ LastAttempt
           /\ Return(Error(IF MaxAttempts > 1 THEN "retried_exhausted" ELSE class))
  <2>1. CASE MaxAttempts > 1
    <3>1. Return(Error("retried_exhausted")) /\ "retried_exhausted" \in Kinds
      BY <1>8, <2>1 DEF Kinds
    <3>2. Len(errors') = MaxAttempts /\ Len(errors') > 1 /\ AllTransient'
      BY <1>1, <1>2, <1>3, <1>8, <2>1 DEF LastAttempt, Attempt, Retryable
    <3> QED
      BY <1>2, <1>4, <3>1, <3>2, ErrorSound, ReturnInductive
  <2>2. CASE ~(MaxAttempts > 1)
    BY <1>7, <1>8, <2>2
  <2> QED
    BY <2>1, <2>2
<1> QED
  <2>1. \/ /\ Retryable(class) /\ ~LastAttempt /\ TimeForRetry(backoff)
           /\ wake' = clock + backoff /\ pc' = "sleep"
           /\ UNCHANGED <<clock, callVars, ready, started, outcome>>
        \/ Return(Error(class))
        \/ /\ Retryable(class) /\ LastAttempt
           /\ Return(Error(IF MaxAttempts > 1 THEN "retried_exhausted" ELSE class))
    BY DEF AttemptFails
  <2> QED
    BY <1>6, <1>7, <1>8, <2>1

(***************************************************************************)
(* With its credentials the call starts its first attempt, in time by the  *)
(* definition of LastStart.                                                *)
(***************************************************************************)
LEMMA TokenArrivesInductive == IInv /\ TokenArrives => IInv'
<1> SUFFICES ASSUME IInv, TokenArrives PROVE IInv'
  OBVIOUS
<1>1. /\ clock \in Nat /\ clock' = clock /\ ready' = clock /\ started' = clock
      /\ pc' \in {"attempt", "send"} /\ wake' = wake /\ errors' = errors
      /\ outcome' = outcome /\ deadlineSecs' = deadlineSecs /\ deadlineEnd' = deadlineEnd
      /\ backend' = backend /\ direct' = direct /\ limit' = limit /\ full' = full
  BY DEF TokenArrives, Begin, callVars, IInv, TypeOK
<1>2. errors = <<>> /\ outcome = Pending
  BY DEF TokenArrives, IInv, Counted, Answered
<1>3. TypeOK'
  BY <1>1 DEF IInv, TypeOK, PCs, Waiting
<1>4. Timely'
  BY <1>1, <1>3 DEF Timely, LastStart, Greatest, TypeOK
<1>5. Counted'
  BY <1>1, <1>2, QueryExecConstantsOK DEF Counted, AllTransient, MaxAttempts, Pending, Error
<1>6. Answered'
  BY <1>1, <1>2 DEF Answered, NoSilentClamp, Pending, Error
<1> QED
  BY <1>3, <1>4, <1>5, <1>6 DEF IInv

(***************************************************************************)
(* A sleep ends before deadlineEnd, so the next attempt starts in time.    *)
(***************************************************************************)
LEMMA WakeInductive == IInv /\ Wake => IInv'
<1> SUFFICES ASSUME IInv, Wake PROVE IInv'
  OBVIOUS
<1>1. /\ clock \in Nat /\ clock' = clock /\ clock < deadlineEnd /\ ready' = ready
      /\ started' = clock /\ pc' = "attempt" /\ wake' = wake /\ errors' = errors
      /\ outcome' = outcome /\ deadlineSecs' = deadlineSecs /\ deadlineEnd' = deadlineEnd
      /\ backend' = backend /\ direct' = direct /\ limit' = limit /\ full' = full
  BY DEF Wake, callVars, IInv, TypeOK, Timely
<1>2. outcome = Pending /\ AllTransient /\ Len(errors) < MaxAttempts
  BY DEF Wake, IInv, Counted, Answered
<1>3. TypeOK'
  BY <1>1 DEF IInv, TypeOK, PCs, Waiting
<1>4. Timely'
  BY <1>1, <1>3 DEF Timely, LastStart, Greatest, TypeOK
<1>5. Counted'
  BY <1>1, <1>2 DEF Counted, AllTransient, Pending, Error
<1>6. Answered'
  BY <1>1, <1>2 DEF Answered, NoSilentClamp, Pending, Error
<1> QED
  BY <1>3, <1>4, <1>5, <1>6 DEF IInv

(***************************************************************************)
(* Time passes only until the running timer fires.                         *)
(***************************************************************************)
LEMMA TickInductive == IInv /\ Tick => IInv'
<1> SUFFICES ASSUME IInv, Tick PROVE IInv'
  OBVIOUS
<1>1. /\ clock \in Nat /\ clock' = clock + 1 /\ clock < Timer /\ pc \in Waiting
      /\ pc' = pc /\ ready' = ready /\ started' = started /\ wake' = wake
      /\ errors' = errors /\ outcome' = outcome
      /\ deadlineSecs' = deadlineSecs /\ deadlineEnd' = deadlineEnd
      /\ backend' = backend /\ direct' = direct /\ limit' = limit /\ full' = full
  BY DEF Tick, callVars, IInv, TypeOK
<1>2. TypeOK'
  BY <1>1 DEF IInv, TypeOK
<1>3. CASE pc = "token"
  <2>1. Timely'
    BY <1>1, <1>3 DEF Timely
  <2> QED
    BY <1>1, <1>2, <1>3, <2>1
       DEF IInv, Counted, Answered, AllTransient, NoSilentClamp, Budget
<1>4. CASE pc = "sleep"
  <2>1. clock + 1 <= wake
    BY <1>1, <1>4 DEF Timer, IInv, TypeOK
  <2>2. Timely'
    BY <1>1, <1>4, <2>1 DEF Timely, IInv
  <2> QED
    BY <1>1, <1>2, <1>4, <2>2
       DEF IInv, Counted, Answered, AllTransient, NoSilentClamp, Budget
<1>5. CASE pc \in {"attempt", "send", "body", "refusal"}
  <2>1. clock + 1 <= started + deadlineSecs
    BY <1>1, <1>5 DEF Timer, IInv, TypeOK
  <2>2. Timely'
    BY <1>1, <1>5, <2>1 DEF Timely, LastStart, IInv
  <2> QED
    BY <1>1, <1>2, <1>5, <2>2
       DEF IInv, Counted, Answered, AllTransient, NoSilentClamp, Budget
<1> QED
  BY <1>1, <1>3, <1>4, <1>5 DEF Waiting

(***************************************************************************)
(* The steps of an XMLA query, which is sent once.                         *)
(***************************************************************************)
LEMMA XmlaInductive == IInv /\ XmlaStep => IInv'
<1> SUFFICES ASSUME IInv, XmlaStep PROVE IInv'
  OBVIOUS
<1>1. CASE ResponseBegins
  <2>1. /\ pc = "send" /\ pc' \in {"body", "refusal"} /\ clock' = clock
        /\ ready' = ready /\ started' = started /\ wake' = wake
        /\ errors' = errors /\ outcome' = outcome
        /\ deadlineSecs' = deadlineSecs /\ deadlineEnd' = deadlineEnd
        /\ backend' = backend /\ direct' = direct /\ limit' = limit /\ full' = full
    BY <1>1 DEF ResponseBegins, callVars
  <2>2. TypeOK'
    BY <2>1 DEF IInv, TypeOK, PCs, Waiting
  <2>3. Timely'
    BY <2>1 DEF IInv, Timely, LastStart
  <2> QED
    BY <2>1, <2>2, <2>3
       DEF IInv, Counted, Answered, AllTransient, NoSilentClamp, Budget
<1>2. CASE SendFails \/ SendTimesOut
  <2>1. UnderWay /\ UNCHANGED errors
    BY <1>2 DEF SendFails, SendTimesOut, UnderWay
  <2> QED
    BY <1>2, <2>1, FailInductive DEF SendFails, SendTimesOut
<1>3. CASE BodyTimesOut
  <2>1. UnderWay /\ UNCHANGED errors
    BY <1>3 DEF BodyTimesOut, UnderWay
  <2> QED
    BY <1>3, <2>1, FailInductive DEF BodyTimesOut
<1>4. CASE BodyEnds
  <2>1. UnderWay /\ UNCHANGED errors
    BY <1>4 DEF BodyEnds, UnderWay
  <2>2. Return(Result) \/ Return(Error("permanent")) \/ Return(Error("http"))
    BY <1>4 DEF BodyEnds
  <2> QED
    BY <2>1, <2>2, FailInductive, SucceedInductive
<1>5. CASE RefusalEnds
  <2>1. UnderWay /\ UNCHANGED errors
    BY <1>5 DEF RefusalEnds, UnderWay
  <2> QED
    BY <1>5, <2>1, FailInductive DEF RefusalEnds
<1> QED
  BY <1>1, <1>2, <1>3, <1>4, <1>5 DEF XmlaStep

(***************************************************************************)
(* IInv is inductive.                                                      *)
(***************************************************************************)
THEOREM Inductive == Spec => []IInv
<1>1. IInv /\ [Next]_vars => IInv'
  <2> SUFFICES ASSUME IInv, [Next]_vars PROVE IInv'
    OBVIOUS
  <2>1. ASSUME NEW b \in {"sql", "xmla"}, NEW d \in BOOLEAN,
               NEW l \in Limits \cup {NoLimit}, NEW n \in FullSizes,
               NEW override \in Overrides \cup {0}, Call(b, d, l, n, override)
        PROVE  IInv'
    BY <2>1, CallInductive
  <2>2. CASE CallWithoutCube
    BY <2>2, FailInductive DEF CallWithoutCube
  <2>3. CASE TokenArrives
    BY <2>3, TokenArrivesInductive
  <2>4. CASE TokenFails
    BY <2>4, FailInductive DEF TokenFails
  <2>5. CASE AttemptStep
    <3>1. CASE AttemptSucceeds
      BY <3>1, SucceedInductive DEF AttemptSucceeds, UnderWay
    <3>2. ASSUME NEW class \in {"transient", "permanent"}, AttemptFails(class)
          PROVE  IInv'
      BY <3>2, AttemptFailsInductive
    <3>3. CASE AttemptTimesOut
      BY <3>3, AttemptFailsInductive DEF AttemptTimesOut
    <3> QED
      BY <2>5, <3>1, <3>2, <3>3 DEF AttemptStep
  <2>6. CASE XmlaStep
    BY <2>6, XmlaInductive
  <2>7. CASE Wake
    BY <2>7, WakeInductive
  <2>8. CASE Tick
    BY <2>8, TickInductive
  <2>9. CASE UNCHANGED vars
    BY <2>9 DEF vars, callVars, IInv, TypeOK, Timely, LastStart, Counted, Answered,
                AllTransient, NoSilentClamp, Budget
  <2> QED
    BY <2>1, <2>2, <2>3, <2>4, <2>5, <2>6, <2>7, <2>8, <2>9 DEF Next
<1> QED
  BY <1>1, InitInductive, PTL DEF Spec

(***************************************************************************)
(* Every variable keeps its type and no call makes more than MaxAttempts   *)
(* attempts.                                                               *)
(***************************************************************************)
THEOREM TypeCorrect == Spec => []TypeOK
<1>1. IInv => TypeOK
  BY DEF IInv
<1> QED
  BY <1>1, Inductive, PTL

(***************************************************************************)
(* No call of execute is late by more than one deadline.                   *)
(***************************************************************************)
THEOREM CallsEndInTime == Spec => []OverrunBounded
<1>1. IInv => OverrunBounded
  <2> SUFFICES ASSUME IInv PROVE OverrunBounded
    OBVIOUS
  <2>1. UnderWay => clock <= LastStart + deadlineSecs
    BY InTime
  <2>2. pc = "done" /\ outcome.kind # "auth" => clock <= LastStart + deadlineSecs
    BY DEF IInv, Timely
  <2> QED
    BY <2>1, <2>2 DEF OverrunBounded, LastStart
<1> QED
  BY <1>1, Inductive, PTL

(***************************************************************************)
(* EngineErrorRetriedExhausted is never returned before with_retry made    *)
(* every attempt, and only transient errors are retried.                   *)
(***************************************************************************)
THEOREM ExhaustionIsReal == Spec => []ExhaustedMeansTried
<1>1. IInv => ExhaustedMeansTried
  BY DEF IInv, Counted, ExhaustedMeansTried, UnderWay
<1> QED
  BY <1>1, Inductive, PTL

(***************************************************************************)
(* The materialization budget of execute never clamps silently.            *)
(***************************************************************************)
THEOREM BudgetIsSignalled == Spec => []NoSilentClamp
<1>1. IInv => NoSilentClamp
  BY DEF IInv, Answered
<1> QED
  BY <1>1, Inductive, PTL

(***************************************************************************)
(* What execute returns says what happened.                                *)
(***************************************************************************)
THEOREM OutcomesAreTrue == Spec => []OutcomeIsTrue
BY ExhaustionIsReal, BudgetIsSignalled, PTL DEF OutcomeIsTrue

-----------------------------------------------------------------------------
(***************************************************************************)
(* The token cache.                                                        *)
(***************************************************************************)
Stale(t) == ~ IsValid(t)

InFlight(p) ==
  /\ at[p] \in Fetching => Stale(seen[p])
  /\ at[p] = "issued" => token[p].born <= now
  /\ at[p] = "arrived" => /\ token[p].born <= judged[p]
                          /\ token[p].until = judged[p] + token[p].life

InUse(p) ==
  at[p] = "using" => /\ Arrived(token[p])
                     /\ token[p].life > Skew => judged[p] + Skew < token[p].until

Known == \A p \in Callers : InFlight(p) /\ InUse(p) /\ judged[p] <= now

TokenInv == TokenTypeOK /\ Known

-----------------------------------------------------------------------------
LEMMA NoTokenType == NoToken \in Tokens /\ Arrived(NoToken)
BY DEF NoToken, Tokens, Arrived

LEMMA TokenInitInductive == TokenInit => TokenInv
BY NoTokenType, MaxTimeAssumption
   DEF TokenInit, TokenInv, TokenTypeOK, Known, InFlight, InUse, Steps, Fetching

LEMMA LookInductive ==
  ASSUME TokenInv, NEW p \in Callers, Look(p) PROVE TokenInv'
BY DEF TokenInv, TokenTypeOK, Known, InFlight, InUse, Look, Step, Steps, Fetching,
       Arrived, Stale, IsValid

LEMMA HitInductive ==
  ASSUME TokenInv, NEW p \in Callers, Hit(p) PROVE TokenInv'
<1>1. TokenTypeOK'
  BY NoTokenType DEF TokenInv, TokenTypeOK, Hit, Step, Steps, Arrived
<1>2. ASSUME NEW r \in Callers PROVE (InFlight(r) /\ InUse(r) /\ judged[r] <= now)'
  BY SkewAssumption, MaxTimeAssumption
     DEF TokenInv, TokenTypeOK, Known, InFlight, InUse, Hit, Step, Fetching, Arrived,
         Stale, IsValid, Tokens
<1> QED
  BY <1>1, <1>2 DEF TokenInv, Known

LEMMA MissInductive ==
  ASSUME TokenInv, NEW p \in Callers, Miss(p) PROVE TokenInv'
BY DEF TokenInv, TokenTypeOK, Known, InFlight, InUse, Miss, Step, Steps, Fetching,
       Arrived, Stale, IsValid

LEMMA IssueInductive ==
  ASSUME TokenInv, NEW p \in Callers, Issue(p) PROVE TokenInv'
<1>1. PICK life \in Lifetimes :
        token' = [token EXCEPT ![p] = [born |-> now, life |-> life, until |-> 0]]
  BY DEF Issue
<1>2. [born |-> now, life |-> life, until |-> 0] \in Tokens
  BY LifetimesAssumption DEF TokenInv, TokenTypeOK, Tokens
<1>3. TokenTypeOK'
  BY <1>1, <1>2 DEF TokenInv, TokenTypeOK, Issue, Step, Steps, Arrived
<1>4. ASSUME NEW r \in Callers PROVE (InFlight(r) /\ InUse(r) /\ judged[r] <= now)'
  BY <1>1, MaxTimeAssumption
     DEF TokenInv, TokenTypeOK, Known, InFlight, InUse, Issue, Step, Fetching, Arrived,
         Stale, IsValid
<1> QED
  BY <1>3, <1>4 DEF TokenInv, Known

LEMMA LeaveInductive ==
  ASSUME TokenInv, NEW p \in Callers, Leave(p), UNCHANGED <<now, cached>>
  PROVE  TokenInv'
<1>1. TokenTypeOK'
  BY NoTokenType, MaxTimeAssumption DEF TokenInv, TokenTypeOK, Leave, Steps, Arrived
<1>2. ASSUME NEW r \in Callers PROVE (InFlight(r) /\ InUse(r) /\ judged[r] <= now)'
  BY DEF TokenInv, TokenTypeOK, Known, InFlight, InUse, Leave, Fetching, Arrived,
         Stale, IsValid
<1> QED
  BY <1>1, <1>2 DEF TokenInv, Known

LEMMA ArriveInductive ==
  ASSUME TokenInv, NEW p \in Callers, Arrive(p) PROVE TokenInv'
<1> DEFINE t == [token[p] EXCEPT !.until = now + token[p].life]
<1>1. t \in Tokens /\ t.born = token[p].born /\ t.life = token[p].life
      /\ t.until = now + t.life /\ token' = [token EXCEPT ![p] = t]
  BY DEF TokenInv, TokenTypeOK, Tokens, Arrive
<1> HIDE DEF t
<1>2. TokenTypeOK'
  BY <1>1 DEF TokenInv, TokenTypeOK, Arrive, Step, Steps, Arrived
<1>3. ASSUME NEW r \in Callers PROVE (InFlight(r) /\ InUse(r) /\ judged[r] <= now)'
  BY <1>1, MaxTimeAssumption
     DEF TokenInv, TokenTypeOK, Known, InFlight, InUse, Arrive, Step, Fetching, Arrived,
         Stale, IsValid
<1> QED
  BY <1>2, <1>3 DEF TokenInv, Known

LEMMA StoreInductive ==
  ASSUME TokenInv, NEW p \in Callers, Store(p) PROVE TokenInv'
<1>1. Arrived(token[p])
  BY DEF TokenInv, TokenTypeOK, Known, InFlight, Store, Step, Arrived, Tokens
<1>2. TokenTypeOK'
  BY <1>1, NoTokenType DEF TokenInv, TokenTypeOK, Store, Step, Steps, Arrived
<1>3. token[p].life > Skew => judged[p] + Skew < token[p].until
  BY SkewAssumption DEF TokenInv, TokenTypeOK, Known, InFlight, Store, Step, Tokens
<1>4. ASSUME NEW r \in Callers PROVE (InFlight(r) /\ InUse(r) /\ judged[r] <= now)'
  BY <1>1, <1>3
     DEF TokenInv, TokenTypeOK, Known, InFlight, InUse, Store, Step, Fetching, Arrived,
         Stale, IsValid
<1> QED
  BY <1>2, <1>4 DEF TokenInv, Known

LEMMA TimeInductive ==
  ASSUME TokenInv, TimePasses PROVE TokenInv'
<1>1. TokenTypeOK'
  BY MaxTimeAssumption DEF TokenInv, TokenTypeOK, TimePasses, Arrived
<1>2. ASSUME NEW r \in Callers PROVE (InFlight(r) /\ InUse(r) /\ judged[r] <= now)'
  BY SkewAssumption, MaxTimeAssumption
     DEF TokenInv, TokenTypeOK, Known, InFlight, InUse, TimePasses, Fetching, Arrived,
         Stale, IsValid, Tokens
<1> QED
  BY <1>1, <1>2 DEF TokenInv, Known

LEMMA TokenInductive == TokenSpec => []TokenInv
<1>1. TokenInv /\ [TokenNext]_tokenVars => TokenInv'
  <2> SUFFICES ASSUME TokenInv, [TokenNext]_tokenVars PROVE TokenInv'
    OBVIOUS
  <2>1. ASSUME NEW p \in Callers, Look(p) PROVE TokenInv'
    BY <2>1, LookInductive
  <2>2. ASSUME NEW p \in Callers, Hit(p) PROVE TokenInv'
    BY <2>2, HitInductive
  <2>3. ASSUME NEW p \in Callers, Miss(p) PROVE TokenInv'
    BY <2>3, MissInductive
  <2>4. ASSUME NEW p \in Callers, Issue(p) PROVE TokenInv'
    BY <2>4, IssueInductive
  <2>5. ASSUME NEW p \in Callers, Fail(p) PROVE TokenInv'
    BY <2>5, LeaveInductive DEF Fail
  <2>6. ASSUME NEW p \in Callers, Arrive(p) PROVE TokenInv'
    BY <2>6, ArriveInductive
  <2>7. ASSUME NEW p \in Callers, Store(p) PROVE TokenInv'
    BY <2>7, StoreInductive
  <2>8. ASSUME NEW p \in Callers, Finish(p) PROVE TokenInv'
    BY <2>8, LeaveInductive DEF Finish
  <2>9. CASE TimePasses
    BY <2>9, TimeInductive
  <2>10. CASE UNCHANGED tokenVars
    BY <2>10 DEF tokenVars, TokenInv, TokenTypeOK, Known, InFlight, InUse, Fetching, Arrived,
                 Stale, IsValid
  <2> QED
    BY <2>1, <2>2, <2>3, <2>4, <2>5, <2>6, <2>7, <2>8, <2>9, <2>10 DEF TokenNext
<1> QED
  BY <1>1, TokenInitInductive, PTL DEF TokenSpec

(***************************************************************************)
(* Every variable keeps its type, and no token is believed to end before   *)
(* the time its provider gave it is over.                                  *)
(***************************************************************************)
THEOREM TokensTypeCorrect == TokenSpec => []TokenTypeOK
<1>1. TokenInv => TokenTypeOK
  BY DEF TokenInv
<1> QED
  BY <1>1, TokenInductive, PTL

(***************************************************************************)
(* The skew covers the latency of the token request and the duration of    *)
(* the query together: within it, the token of every request is alive.     *)
(***************************************************************************)
THEOREM TokensAreAlive == TokenSpec => []AliveWithinSkew
<1>1. TokenInv => AliveWithinSkew
  BY SkewAssumption, MaxTimeAssumption
     DEF TokenInv, TokenTypeOK, Known, InUse, AliveWithinSkew, Latency, Tokens
<1> QED
  BY <1>1, TokenInductive, PTL

(***************************************************************************)
(* Whoever has seen the good token that is cached does not replace it.     *)
(***************************************************************************)
THEOREM GoodTokensAreKept == TokenSpec => NoNeedlessFetch
<1>1. TokenInv /\ [TokenNext]_tokenVars =>
        (cached' # cached /\ IsValid(cached) =>
           \E p \in Callers : at[p] = "arrived" /\ seen[p] # cached)
  <2> SUFFICES ASSUME TokenInv, [TokenNext]_tokenVars, cached' # cached, IsValid(cached)
               PROVE  \E p \in Callers : at[p] = "arrived" /\ seen[p] # cached
    OBVIOUS
  <2>1. PICK p \in Callers : Store(p)
    BY DEF TokenNext, tokenVars, Look, Hit, Miss, Issue, Fail, Arrive, Finish, TimePasses
  <2>2. at[p] = "arrived"
    BY <2>1 DEF Store, Step
  <2>3. ~ IsValid(seen[p])
    BY <2>2 DEF TokenInv, Known, InFlight, Fetching, Stale
  <2> QED
    BY <2>2, <2>3
<1> QED
  BY <1>1, TokenInductive, PTL DEF NoNeedlessFetch, TokenSpec
=============================================================================
