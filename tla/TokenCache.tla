----------------------------- MODULE TokenCache -----------------------------
(***************************************************************************)
(* The bearer tokens of the engine (mqo-auth-bridge, oidc.rs): one cache   *)
(* behind a mutex, shared by every thread that runs a query.  A call       *)
(* clones what is cached under the lock, judges it after the lock is       *)
(* released, and fetches and stores without looking again; the thread then *)
(* uses the token for as long as its query takes, retries included.        *)
(*                                                                         *)
(* A token is known to the provider by when it was issued (`born`) and for *)
(* how long (`life`); the cache knows `until`, counted from the arrival of *)
(* the answer.                                                             *)
(***************************************************************************)
EXTENDS Integers

CONSTANTS Callers,    \* the threads that run queries
          Lifetimes,  \* what a provider sends as expires_in
          Skew,       \* SKEW_SECONDS
          MaxTime     \* bound on the clock

ASSUME LifetimesAssumption == Lifetimes \subseteq Nat
ASSUME SkewAssumption == Skew \in Nat
ASSUME MaxTimeAssumption == MaxTime \in Nat

VARIABLES now,     \* seconds, the same for everyone
          cached,  \* the token in the cache
          at,      \* the step each thread is at
          seen,    \* the clone of the cache its call began with
          token,   \* the token it fetched or was handed
          judged   \* when that token was found good

tokenVars == <<now, cached, at, seen, token, judged>>

NoToken == [born |-> 0, life |-> 0, until |-> 0]

(* Faulty: tokens are used to the last second.                             *)
FaultyIsValid(t) == now < t.until
(* Token::is_valid.                                                        *)
IsValid(t) == now + Skew < t.until

TokenInit ==
  /\ now = 0
  /\ cached = NoToken
  /\ at = [p \in Callers |-> "out"]
  /\ seen = [p \in Callers |-> NoToken]
  /\ token = [p \in Callers |-> NoToken]
  /\ judged = [p \in Callers |-> 0]

Step(p, from, to) == at[p] = from /\ at' = [at EXCEPT ![p] = to]

(* The call or the query is over, and its variables with it.               *)
Leave(p) ==
  /\ at' = [at EXCEPT ![p] = "out"]
  /\ seen' = [seen EXCEPT ![p] = NoToken]
  /\ token' = [token EXCEPT ![p] = NoToken]
  /\ judged' = [judged EXCEPT ![p] = 0]

(* fetch_token: the cache is cloned under the lock.                        *)
Look(p) ==
  /\ Step(p, "out", "looked")
  /\ seen' = [seen EXCEPT ![p] = cached]
  /\ UNCHANGED <<now, cached, token, judged>>

Hit(p) ==
  /\ Step(p, "looked", "using")
  /\ IsValid(seen[p])
  /\ token' = [token EXCEPT ![p] = seen[p]]
  /\ seen' = [seen EXCEPT ![p] = NoToken]
  /\ judged' = [judged EXCEPT ![p] = now]
  /\ UNCHANGED <<now, cached>>

(* Faulty: every call asks the provider.                                   *)
FaultyMiss(p) ==
  /\ Step(p, "looked", "posting")
  /\ UNCHANGED <<now, cached, seen, token, judged>>
(* do_fetch: the secrets are read and the request is sent.                 *)
Miss(p) ==
  /\ Step(p, "looked", "posting")
  /\ ~ IsValid(seen[p])
  /\ UNCHANGED <<now, cached, seen, token, judged>>

(* The provider issues a token; nobody knows of it yet.                    *)
Issue(p) ==
  /\ Step(p, "posting", "issued")
  /\ \E life \in Lifetimes :
       token' = [token EXCEPT ![p] = [born |-> now, life |-> life, until |-> 0]]
  /\ UNCHANGED <<now, cached, seen, judged>>

(* A secret is missing, the request or the answer is lost, the provider    *)
(* refuses, or its answer cannot be read: the cache is left as it is.      *)
Fail(p) ==
  /\ at[p] \in {"posting", "issued"}
  /\ Leave(p)
  /\ UNCHANGED <<now, cached>>

(* The expiry is counted from the moment the answer is here.              *)
Arrive(p) ==
  /\ Step(p, "issued", "arrived")
  /\ token' = [token EXCEPT ![p] = [@ EXCEPT !.until = now + token[p].life]]
  /\ judged' = [judged EXCEPT ![p] = now]
  /\ UNCHANGED <<now, cached, seen>>

Store(p) ==
  /\ Step(p, "arrived", "using")
  /\ cached' = token[p]
  /\ seen' = [seen EXCEPT ![p] = NoToken]
  /\ UNCHANGED <<now, token, judged>>

(* The query that needed the token is over.                                *)
Finish(p) ==
  /\ at[p] = "using"
  /\ Leave(p)
  /\ UNCHANGED <<now, cached>>

TimePasses ==
  /\ now < MaxTime
  /\ now' = now + 1
  /\ UNCHANGED <<cached, at, seen, token, judged>>

TokenNext ==
  \/ \E p \in Callers :
       \/ Look(p) \/ Hit(p) \/ Miss(p) \/ Issue(p) \/ Fail(p)
       \/ Arrive(p) \/ Store(p) \/ Finish(p)
  \/ TimePasses

TokenSpec == TokenInit /\ [][TokenNext]_tokenVars

-----------------------------------------------------------------------------
Steps == {"out", "looked", "posting", "issued", "arrived", "using"}
Tokens == [born : Nat, life : Nat, until : Nat]
Fetching == {"posting", "issued", "arrived"}

(* What the cache believes of a token is what the provider said of it,     *)
(* counted from its arrival: later than it was issued, never earlier.      *)
Arrived(t) == t = NoToken \/ t.until >= t.born + t.life
TokenTypeOK ==
  /\ now \in 0 .. MaxTime
  /\ cached \in Tokens /\ Arrived(cached)
  /\ at \in [Callers -> Steps]
  /\ seen \in [Callers -> Tokens] /\ \A p \in Callers : Arrived(seen[p])
  /\ token \in [Callers -> Tokens]
  /\ judged \in [Callers -> 0 .. MaxTime]

(* How long the answer with the token took.                                *)
Latency(t) == t.until - (t.born + t.life)

(* A token that lives longer than the skew is still good at the provider   *)
(* while a query uses it, as long as the time the answer took and the time *)
(* since the token was found good fit into the skew: for the first request *)
(* of the query and for every retry, whoever fetched the token.            *)
AliveWithinSkew ==
  \A p \in Callers :
     /\ at[p] = "using"
     /\ token[p].life > Skew
     /\ Latency(token[p]) + (now - judged[p]) <= Skew
     => now < token[p].born + token[p].life

(* A good token in the cache is replaced only by a call that began before  *)
(* it was stored: whoever has seen it does not ask for another.            *)
NoNeedlessFetch ==
  [][cached' # cached /\ IsValid(cached) =>
       \E p \in Callers : at[p] = "arrived" /\ seen[p] # cached]_tokenVars
=============================================================================
