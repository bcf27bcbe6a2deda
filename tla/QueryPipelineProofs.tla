------------------------- MODULE QueryPipelineProofs -------------------------
(***************************************************************************)
(* Proofs about the query pipeline for any catalogs, set-ups, queries and  *)
(* engine: what the rules, the estimates and the compilers compute is left *)
(* closed, but for the parts a theorem is about.                           *)
(***************************************************************************)
EXTENDS QueryPipeline, TLAPS, FiniteSetTheorems, WellFoundedInduction

Typed ==
  /\ server \in Servers
  /\ up \in [Ports -> BOOLEAN] /\ caps \in [Ports -> BOOLEAN]
  /\ healthy \subseteq ClusterNames
  /\ report \in [known : BOOLEAN, healthy : SUBSET ClusterNames]
  /\ stage \in Stages
  /\ override \in Backends \cup {"none"}
  /\ routed \in Backends \cup {"none"} /\ backend \in Backends \cup {"none"}
  /\ flips \in 0 .. MaxFlips

\* A reply is there when the request is answered, and the client only reads
\* advice in a refusal.
Answering ==
  /\ reply.kind \in {"none", "ok", "refused", "failed"}
  /\ stage # "answered" => reply.kind = "none"
  /\ reply.code = "ParamRejected" => reply.kind = "refused"

Chained == IsFiniteSet(chain) /\ Cardinality(chain) <= MaxTries

\* The decision for a backend, from the step that takes it on.
Justified ==
  \/ override # "none" /\ backend = override
  \/ /\ override = "none" /\ backend \in {routed, "sql"}
     /\ caps[PortOf(backend)]

Decided ==
  /\ stage \in {"routed"} \cup Compiling => Justified /\ backend \in Backends
  /\ stage \in Compiling => text.by = backend

\* What the binder checked of the columns it bound.
Joinable(ms, ls) ==
  /\ ~ DateRoleClash(ms, ls)
  /\ ~ CrossFact(ms, {l \in ToSet(ls) : ~ IsDateLevel(l)})

Joined ==
  c.enriched /\ stage \in {"bound", "routed"} \cup Compiling =>
    Joinable(bound.measures, bound.dims)

IInv == Typed /\ Answering /\ Chained /\ Decided /\ Joined

-----------------------------------------------------------------------------
(***************************************************************************)
(* Every text is one for its backend.                                      *)
(***************************************************************************)
LEMMA TextBy == \A by, b, rows : Text(by, b, rows).by = by
BY DEF Text

LEMMA DaxTextBy == \A q, b, pick : DaxText(c, q, b, pick).by = "dax"
BY DEF DaxText, Text

LEMMA MdxTextBy == \A q, b : MdxText(c, q, b).by = "mdx"
BY DEF MdxText, Text

LEMMA SqlTextBy == \A q, b, pick : SqlProjection(c, q, b, pick).by = "sql"
BY DEF SqlProjection, Text

LEMMA CompiledFor ==
  ASSUME NEW be \in Backends, NEW pick,
         Compiled(be, pick) # {}, Compiled(be, pick) # {NoTextOf("sql")}
  PROVE  TheOnly(Compiled(be, pick)).by = be
<1>1. \A t : TheOnly({t}) = t
  BY DEF TheOnly
<1>2. CASE be = "dax"
  <2>1. Compiled(be, pick) = {DaxText(c, query, bound, pick)}
    BY <1>2 DEF Compiled
  <2>2. DaxText(c, query, bound, pick).by = "dax"
    BY DaxTextBy
  <2> QED
    BY <1>1, <1>2, <2>1, <2>2
<1>3. CASE be = "mdx"
  <2>1. Compiled(be, pick) = {MdxText(c, query, bound)}
    BY <1>3 DEF Compiled
  <2>2. MdxText(c, query, bound).by = "mdx"
    BY MdxTextBy
  <2> QED
    BY <1>1, <1>3, <2>1, <2>2
<1>4. CASE be = "sql"
  <2>1. Compiled(be, pick) = {SqlProjection(c, query, bound, pick)}
    BY <1>4 DEF Compiled
  <2>2. SqlProjection(c, query, bound, pick).by = "sql"
    BY SqlTextBy
  <2> QED
    BY <1>1, <1>4, <2>1, <2>2
<1> QED
  BY <1>2, <1>3, <1>4 DEF Backends

(***************************************************************************)
(* A request that is not refused a cluster is forced to a backend that the *)
(* set-up or the cluster names, or to none.                                *)
(***************************************************************************)
LEMMA LeastIndex ==
  ASSUME NEW S \in SUBSET Nat, S # {}
  PROVE  \E i \in S : \A j \in S : i <= j
<1>1. \A j, k \in Nat : j < k => <<j, k>> \in OpToRel(<, Nat)
  BY DEF OpToRel
<1>2. PICK i \in S : \A j \in S : ~ (<<j, i>> \in OpToRel(<, Nat))
  BY NatLessThanWellFounded, WFMin
<1>3. \A j \in S : ~ (j < i)
  BY <1>1, <1>2
<1> QED
  BY <1>3

LEMMA ForcedBackendType ==
  ASSUME NEW arg, server \in Servers,
         setup.clusters = << >> \/ Selectable(arg) # {}
  PROVE  ForcedBackend(arg) \in Backends \cup {"none"}
<1>1. setup.override \in Backends \cup {"none"}
  BY SetUpAssumption DEF setup
<1> SUFFICES ASSUME setup.clusters # << >>, Selected(arg).backends # << >>
             PROVE  Head(Selected(arg).backends) \in Backends
  BY <1>1 DEF ForcedBackend
<1>2. Selectable(arg) \subseteq DOMAIN setup.clusters
  BY DEF Selectable
<1>3. \E i \in Selectable(arg) : \A j \in Selectable(arg) : i <= j
  BY <1>2, LeastIndex, SetUpAssumption DEF setup
<1>4. PICK i \in Selectable(arg) : Selected(arg) = setup.clusters[i]
  BY <1>3 DEF Selected
<1>5. Selected(arg).backends \in Seq(Backends)
  BY <1>2, <1>4, SetUpAssumption DEF setup
<1> QED
  BY <1>5

(***************************************************************************)
(* The router chooses a backend; what the ports make of it is justified.   *)
(***************************************************************************)
LEMMA EffectiveType ==
  ASSUME NEW be \in Backends, Typed, Effective(be) # "none"
  PROVE  /\ Effective(be) \in Backends
         /\ override # "none" => Effective(be) = override
         /\ override = "none" => /\ Effective(be) \in {be, "sql"}
                                 /\ caps[PortOf(Effective(be))]
BY DEF Typed, Effective, Backends, PortOf

LEMMA RouteBackendType ==
  \A q, b, threshold, shaped : RouteBackend(q, b, threshold, shaped) \in Backends
BY DEF RouteBackend, Backends

(***************************************************************************)
(* The binder binds what it found joinable, if the catalog says.           *)
(***************************************************************************)
LEMMA BindingJoins ==
  ASSUME NEW q, Binding(c, q) = "bound", c.enriched
  PROVE  Joinable(BoundMeasures(c, q), BoundDims(c, q))
BY DEF Binding, Joinable

-----------------------------------------------------------------------------
LEMMA InitInv == Init => IInv
<1> SUFFICES ASSUME Init PROVE IInv
  OBVIOUS
<1>1. IsFiniteSet({}) /\ Cardinality({}) = 0
  BY FS_EmptySet
<1> QED
  BY <1>1, SetUpAssumption DEF Init, IInv, Typed, Answering, Chained, Decided,
     Joined, Stages, Compiling, Answered

\* No step changes the server, and with it what it was started with.
LEMMA ServerStays ==
  ASSUME [Next]_vars
  PROVE  /\ server' = server /\ setup' = setup /\ c' = c
         /\ ClusterNames' = ClusterNames
<1>1. server' = server
  BY DEF vars, Next, Probe, RefreshHealth, PortChanges, ClusterChanges, Submit,
     FollowAdvice, Leave, NewRequest, Admit, Check, ToolFails, Bind, Route,
     Compile, Ask, EngineFails, EngineAnswers, Deliver, Refuse, Reply, GoesOn
<1>2. setup' = setup
  BY <1>1 DEF setup
<1> QED
  BY <1>1, <1>2 DEF c, ClusterNames

\* A step that leaves the world and the probed ports alone.
LEMMA ReplyStep ==
  ASSUME IInv, NEW kind, NEW code, Reply(kind, code), UNCHANGED request,
         stage \notin {"starting", "idle"},
         kind \in {"ok", "refused", "failed"},
         code = "ParamRejected" => kind = "refused",
         ClusterNames' = ClusterNames, c' = c
  PROVE  IInv'
<1> USE DEF IInv, Reply, request, world, Answered
<1>1. Typed'
  BY DEF Typed, Stages
<1>2. Answering'
  BY DEF Answering
<1>3. Chained'
  BY DEF Chained
<1>4. Decided' /\ Joined'
  BY DEF Decided, Joined, Compiling
<1> QED
  BY <1>1, <1>2, <1>3, <1>4

\* A request that begins knows nothing yet.
LEMMA NewStep ==
  ASSUME IInv, NEW q, NewRequest(q), stage' \in {"idle", "received"}, Chained',
         ClusterNames' = ClusterNames, c' = c
  PROVE  IInv'
<1> USE DEF IInv, NewRequest, world, Answered
<1>1. Typed'
  BY DEF Typed, Stages
<1>2. Answering'
  BY DEF Answering
<1>3. Decided' /\ Joined'
  BY DEF Decided, Joined, Compiling
<1> QED
  BY <1>1, <1>2, <1>3

\* What every step of the pipeline that goes on leaves as it was.
LEMMA GoesOnStep ==
  ASSUME IInv, NEW next \in Stages \ {"answered"}, GoesOn(next),
         stage # "answered", ClusterNames' = ClusterNames,
         override' \in Backends \cup {"none"},
         routed' \in Backends \cup {"none"}, backend' \in Backends \cup {"none"}
  PROVE  Typed' /\ Answering' /\ Chained'
<1> USE DEF IInv, GoesOn, world
<1>1. Typed'
  BY DEF Typed
<1>2. Answering'
  BY DEF Answering
<1>3. Chained'
  BY DEF Chained
<1> QED
  BY <1>1, <1>2, <1>3

LEMMA StepInv == IInv /\ [Next]_vars => IInv'
<1> SUFFICES ASSUME IInv, [Next]_vars PROVE IInv'
  OBVIOUS
<1>0. /\ server' = server /\ setup' = setup /\ c' = c
      /\ ClusterNames' = ClusterNames
  BY ServerStays
<1>1. CASE Probe
  <2>1. Typed'
    <3>1. healthy \in SUBSET ClusterNames /\ {} \in SUBSET ClusterNames
      BY DEF IInv, Typed
    <3>2. \A h \in SUBSET ClusterNames, b \in BOOLEAN :
            [known |-> b, healthy |-> h] \in [known : BOOLEAN, healthy : SUBSET ClusterNames]
      OBVIOUS
    <3>3. report' \in [known : BOOLEAN, healthy : SUBSET ClusterNames]
      BY <1>1, <3>1, <3>2 DEF Probe
    <3> QED
      BY <1>0, <1>1, <3>3 DEF Probe, IInv, Typed, Stages, request, world
  <2>2. Answering' /\ Chained'
    BY <1>1 DEF Probe, IInv, Answering, Chained
  <2>3. Decided' /\ Joined'
    BY <1>1 DEF Probe, Decided, Joined, Compiling
  <2> QED
    BY <2>1, <2>2, <2>3 DEF IInv
<1>2. CASE RefreshHealth
  BY <1>0, <1>2 DEF RefreshHealth, IInv, Typed, Answering, Chained, Decided,
     Joined, Stages, Compiling, request, world
<1>3. CASE PortChanges
  BY <1>0, <1>3, SetUpAssumption DEF PortChanges, IInv, Typed, Answering,
     Chained, Decided, Joined, Justified, Stages, Compiling, request, world
<1>4. CASE ClusterChanges
  BY <1>0, <1>4, SetUpAssumption DEF ClusterChanges, IInv, Typed, Answering,
     Chained, Decided, Joined, Justified, Stages, Compiling, request, world
<1>5. CASE Submit
  <2>1. Chained'
    BY <1>5 DEF Submit, IInv, Chained
  <2> QED
    BY <1>0, <1>5, <2>1, NewStep DEF Submit
<1>6. CASE FollowAdvice
  <2>1. Chained'
    <3>1. /\ IsFiniteSet(chain) /\ Cardinality(chain) < MaxTries
          /\ chain' = chain \cup {query}
      BY <1>6 DEF FollowAdvice, IInv, Chained
    <3>2. /\ IsFiniteSet(chain \cup {query})
          /\ \/ Cardinality(chain \cup {query}) = Cardinality(chain)
             \/ Cardinality(chain \cup {query}) = Cardinality(chain) + 1
      BY <3>1, FS_AddElement
    <3>3. Cardinality(chain) \in Nat
      BY <3>1, FS_CardinalityType
    <3> QED
      BY <3>1, <3>2, <3>3, SetUpAssumption DEF Chained
  <2> QED
    BY <1>0, <1>6, <2>1, NewStep DEF FollowAdvice
<1>7. CASE Leave
  <2>1. Chained'
    BY <1>7, FS_EmptySet, SetUpAssumption DEF Leave, Chained
  <2> QED
    BY <1>0, <1>7, <2>1, NewStep DEF Leave
<1>8. CASE Admit
  <2>1. PICK arg \in ClusterArgs :
          LET code == AdmitCode(query, arg, Guard(query))
          IN \/ code # "ok" /\ Refuse(code)
             \/ /\ code = "ok" /\ override' = ForcedBackend(arg)
                /\ GoesOn("admitted")
                /\ UNCHANGED <<bound, routed, backend, text, result>>
    BY <1>8 DEF Admit
  <2>2. CASE Refuse(AdmitCode(query, arg, Guard(query)))
    BY <1>0, <1>8, <2>2, ReplyStep DEF Admit, Refuse
  <2>3. CASE AdmitCode(query, arg, Guard(query)) = "ok" /\ GoesOn("admitted")
             /\ override' = ForcedBackend(arg)
             /\ UNCHANGED <<bound, routed, backend, text, result>>
    <3>1. ForcedBackend(arg) \in Backends \cup {"none"}
      BY <2>3, ForcedBackendType DEF AdmitCode, IInv, Typed
    <3>2. Typed' /\ Answering' /\ Chained'
      BY <1>0, <1>8, <2>3, <3>1, GoesOnStep DEF Admit, IInv, Typed, Stages
    <3>3. Decided' /\ Joined'
      BY <2>3 DEF GoesOn, Decided, Joined, Compiling
    <3> QED
      BY <3>2, <3>3 DEF IInv
  <2> QED
    BY <2>1, <2>2, <2>3
<1>9. CASE Check
  <2>1. CASE Refuse(CheckCode(query))
    BY <1>0, <1>9, <2>1, ReplyStep DEF Check, Refuse
  <2>2. CASE GoesOn("checked") /\ UNCHANGED request
    <3>1. Typed' /\ Answering' /\ Chained'
      BY <1>0, <1>9, <2>2, GoesOnStep DEF Check, IInv, Typed, Stages, request
    <3>2. Decided' /\ Joined'
      BY <2>2 DEF GoesOn, Decided, Joined, Compiling
    <3> QED
      BY <3>1, <3>2 DEF IInv
  <2> QED
    BY <1>9, <2>1, <2>2 DEF Check
<1>10. CASE ToolFails
  BY <1>0, <1>10, ReplyStep DEF ToolFails, Refuse
<1>11. CASE Bind
  <2>1. CASE Refuse(BindError(Binding(c, query)))
    BY <1>0, <1>11, <2>1, ReplyStep DEF Bind, Refuse
  <2>2. CASE /\ Binding(c, query) = "bound" /\ GoesOn("bound")
             /\ bound' = [measures |-> BoundMeasures(c, query),
                          dims     |-> BoundDims(c, query)]
             /\ UNCHANGED <<query, override, routed, backend, text, result>>
    <3>1. Typed' /\ Answering' /\ Chained'
      BY <1>0, <1>11, <2>2, GoesOnStep DEF Bind, IInv, Typed, Stages
    <3>2. Decided'
      BY <2>2 DEF GoesOn, Decided, Compiling
    <3>3. Joined'
      BY <1>0, <2>2, BindingJoins DEF Joined
    <3> QED
      BY <3>1, <3>2, <3>3 DEF IInv
  <2> QED
    BY <1>11, <2>1, <2>2 DEF Bind
<1>12. CASE Route
  <2>1. CASE \E code : Refuse(code) /\ code # "ParamRejected"
    BY <1>0, <1>12, <2>1, ReplyStep DEF Route, Refuse
  <2>2. CASE \E be \in Backends :
               /\ Effective(be) # "none"
               /\ routed' = be /\ backend' = Effective(be)
               /\ GoesOn("routed")
               /\ UNCHANGED <<query, override, bound, text, result>>
    <3>1. PICK be \in Backends :
            /\ Effective(be) # "none"
            /\ routed' = be /\ backend' = Effective(be)
            /\ GoesOn("routed")
            /\ UNCHANGED <<query, override, bound, text, result>>
      BY <2>2
    <3>2. /\ Effective(be) \in Backends
          /\ override # "none" => Effective(be) = override
          /\ override = "none" => /\ Effective(be) \in {be, "sql"}
                                  /\ caps[PortOf(Effective(be))]
      BY <3>1, EffectiveType DEF IInv
    <3>3. Typed' /\ Answering' /\ Chained'
      BY <1>0, <1>12, <3>1, <3>2, GoesOnStep DEF Route, IInv, Typed, Stages
    <3>4. Decided'
      BY <3>1, <3>2 DEF GoesOn, Decided, Justified, Compiling, PortOf
    <3>5. Joined'
      BY <1>0, <1>12, <3>1 DEF Route, GoesOn, IInv, Joined
    <3> QED
      BY <3>3, <3>4, <3>5 DEF IInv
  <2> QED
    BY <1>12, <2>1, <2>2, RouteBackendType DEF Route
<1>13. CASE Compile
  <2>1. PICK pick \in Picks :
          LET texts == Compiled(backend, pick)
          IN \/ CompileCode(texts) # "ok" /\ Refuse(CompileCode(texts))
             \/ /\ CompileCode(texts) = "ok" /\ text' = TheOnly(texts)
                /\ GoesOn("compiled")
                /\ UNCHANGED <<query, override, bound, routed, backend, result>>
    BY <1>13 DEF Compile
  <2>2. CASE Refuse(CompileCode(Compiled(backend, pick)))
    BY <1>0, <1>13, <2>2, ReplyStep DEF Compile, Refuse
  <2>3. CASE /\ CompileCode(Compiled(backend, pick)) = "ok"
             /\ text' = TheOnly(Compiled(backend, pick))
             /\ GoesOn("compiled")
             /\ UNCHANGED <<query, override, bound, routed, backend, result>>
    <3>1. /\ Compiled(backend, pick) # {}
          /\ Compiled(backend, pick) # {NoTextOf("sql")}
      BY <2>3 DEF CompileCode
    <3>2. backend \in Backends /\ Justified
      BY <1>13 DEF Compile, IInv, Decided
    <3>3. text'.by = backend
      BY <2>3, <3>1, <3>2, CompiledFor
    <3>4. Typed' /\ Answering' /\ Chained'
      BY <1>0, <1>13, <2>3, GoesOnStep DEF Compile, IInv, Typed, Stages
    <3>5. Decided'
      BY <2>3, <3>2, <3>3 DEF GoesOn, Decided, Justified
    <3>6. Joined'
      BY <1>0, <1>13, <2>3 DEF Compile, GoesOn, IInv, Joined
    <3> QED
      BY <3>4, <3>5, <3>6 DEF IInv
  <2> QED
    BY <2>1, <2>2, <2>3
<1>14. CASE Ask \/ EngineAnswers
  <2>1. \E next \in {"asked", "returned"} : GoesOn(next)
    BY <1>14 DEF Ask, EngineAnswers
  <2>2. /\ UNCHANGED <<query, override, bound, routed, backend, text>>
        /\ stage \in Compiling
    BY <1>14 DEF Ask, EngineAnswers, request, Compiling
  <2>3. Typed' /\ Answering' /\ Chained'
    BY <1>0, <2>1, <2>2, GoesOnStep DEF IInv, Typed, Stages, Compiling
  <2>4. Decided' /\ Joined'
    BY <1>0, <2>1, <2>2 DEF GoesOn, IInv, Decided, Justified, Joined
  <2> QED
    BY <2>3, <2>4 DEF IInv
<1>15. CASE EngineFails
  BY <1>0, <1>15, ReplyStep DEF EngineFails
<1>16. CASE Deliver
  BY <1>0, <1>16, ReplyStep DEF Deliver
<1>17. CASE UNCHANGED vars
  BY <1>0, <1>17 DEF vars, IInv, Typed, Answering, Chained, Decided, Justified,
     Joined
<1> QED
  BY <1>1, <1>2, <1>3, <1>4, <1>5, <1>6, <1>7, <1>8, <1>9, <1>10, <1>11, <1>12,
     <1>13, <1>14, <1>15, <1>16, <1>17 DEF Next

(***************************************************************************)
(* The theorems.                                                           *)
(***************************************************************************)
LEMMA Invariance == Spec => []IInv
BY InitInv, StepInv, PTL DEF Spec

\* Every variable has its type; in particular a text that waits for the
\* engine was compiled for the backend it goes to (run, compile_step).
THEOREM TypeCorrect == Spec => []TypeOK
<1>1. IInv => TypeOK
  BY DEF IInv, Typed, Answering, Chained, Decided, TypeOK
<1> QED
  BY <1>1, Invariance, PTL

\* What reaches the engine goes to the forced backend, or to a port that
\* answered the probe: the router's choice or SQL (effective_backend).
THEOREM BackendsAreJustified == Spec => []BackendJustified
<1>1. IInv => BackendJustified
  BY DEF IInv, Decided, Justified, BackendJustified
<1> QED
  BY <1>1, Invariance, PTL

\* In an enriched catalog, columns bound with at most one date level can all
\* be joined: leaving the date levels out of the cross-fact check, as
\* bind_with_date_roles does, loses nothing then.
THEOREM BindingsJoin == Spec => []BoundJoins
<1>1. IInv => BoundJoins
  <2> SUFFICES ASSUME Joinable(bound.measures, bound.dims), OneDateLevel(bound.dims),
                      NEW m \in ToSet(bound.measures), NEW l \in ToSet(bound.dims)
               PROVE  Joins(m, l)
    BY DEF IInv, Joined, BoundJoins
  <2>1. CASE ~ IsDateLevel(l)
    BY <2>1 DEF Joinable, CrossFact
  <2>2. CASE IsDateLevel(l)
    BY <2>2 DEF Joinable, DateRoleClash, OneDateLevel
  <2> QED
    BY <2>1, <2>2
<1> QED
  BY <1>1, Invariance, PTL

-----------------------------------------------------------------------------
(***************************************************************************)
(* The handler keeps the promise of QueryGate.                             *)
(***************************************************************************)
LEMMA GateInit == Init => Gate!Init
BY DEF Init, Gate!Init, GateOf, Answered

\* A step that is not the engine's moves the gate as its stages say.
LEMMA GateStep == IInv /\ [Next]_vars => [Gate!Next]_(Gate!vars)
<1> SUFFICES ASSUME IInv, [Next]_vars PROVE [Gate!Next]_(Gate!vars)
  OBVIOUS
<1> USE DEF Gate!vars
<1>1. CASE Probe \/ RefreshHealth \/ PortChanges \/ ClusterChanges
  BY <1>1 DEF Probe, RefreshHealth, PortChanges, ClusterChanges, GateOf
<1>2. CASE Submit
  BY <1>2 DEF Submit, NewRequest, Answered, IInv, Answering, GateOf, Gate!Next, Gate!Submit
<1>3. CASE FollowAdvice
  BY <1>3 DEF FollowAdvice, NewRequest, Answered, IInv, Answering, GateOf,
     Gate!Next, Gate!Retry
<1>4. CASE Leave
  BY <1>4 DEF Leave, NewRequest, Answered, GateOf, Gate!Next, Gate!Leave
<1>5. ASSUME NEW code, Refuse(code),
             stage \in {"received", "admitted", "checked", "bound", "routed"}
      PROVE  Gate!Next
  BY <1>5 DEF Refuse, Reply, Answered, GateOf, Gate!Next, Gate!Refuse
<1>6. ASSUME NEW next \in {"admitted", "checked", "bound", "routed", "compiled"},
             GoesOn(next),
             stage \in {"received", "admitted", "checked", "bound", "routed"}
      PROVE  UNCHANGED Gate!vars
  BY <1>6 DEF GoesOn, GateOf
<1>7. CASE Admit \/ Check \/ ToolFails \/ Bind \/ Route \/ Compile
  BY <1>5, <1>6, <1>7 DEF Admit, Check, ToolFails, Bind, Route, Compile
<1>8. CASE Ask
  BY <1>8 DEF Ask, GoesOn, GateOf, Gate!Next, Gate!Ask
<1>9. CASE EngineAnswers
  BY <1>9 DEF EngineAnswers, GoesOn, GateOf
<1>10. CASE EngineFails \/ Deliver
  BY <1>10 DEF EngineFails, Deliver, Reply, Answered, GateOf, Gate!Next, Gate!Answer
<1>11. CASE UNCHANGED vars
  BY <1>11 DEF vars, GateOf
<1> QED
  BY <1>1, <1>2, <1>3, <1>4, <1>7, <1>8, <1>9, <1>10, <1>11 DEF Next

\* A request is put to the engine at most once and answered once, and is
\* refused only unasked, whatever the checks decide.
THEOREM PipelineImplementsGate == Spec => Implements
BY GateInit, GateStep, Invariance, PTL DEF Spec, Implements

-----------------------------------------------------------------------------
(***************************************************************************)
(* What the checks establish of a query is carried to the DAX compiled for *)
(* it: no step between them changes the query.                             *)
(***************************************************************************)
Named == {"bound", "routed"} \cup Compiling

Carried ==
  /\ stage \in {"checked"} \cup Named => MissingContext(c, query) = {}
  /\ stage \in Named => /\ bound.measures = BoundMeasures(c, query)
                        /\ {} \notin Candidates(c, query)
  /\ stage \in Compiling /\ backend = "dax" =>
       \E pick : text = DaxText(c, query, bound, pick)

LEMMA CarriedStep == Carried /\ [Next]_vars => Carried'
<1> SUFFICES ASSUME Carried, [Next]_vars PROVE Carried'
  OBVIOUS
<1>0. c' = c
  BY ServerStays
<1> USE DEF Compiling, Named
<1>1. CASE stage' \notin {"checked"} \cup Named
  BY <1>1 DEF Carried
<1>2. CASE stage' = stage /\ UNCHANGED request
  BY <1>0, <1>2 DEF Carried, request
<1>3. CASE Check /\ stage' = "checked"
  BY <1>0, <1>3 DEF Check, Refuse, Reply, CheckCode, request, Carried
<1>4. CASE Bind /\ stage' = "bound"
  <2>1. /\ Binding(c, query) = "bound" /\ stage = "checked" /\ query' = query
        /\ bound' = [measures |-> BoundMeasures(c, query),
                     dims     |-> BoundDims(c, query)]
    BY <1>4 DEF Bind, Refuse, Reply
  <2>2. {} \notin Candidates(c, query)
    BY <2>1 DEF Binding
  <2> QED
    BY <1>0, <1>4, <2>1, <2>2 DEF Carried
<1>5. CASE Route /\ stage' = "routed"
  <2>1. stage = "bound" /\ query' = query /\ bound' = bound
    BY <1>5 DEF Route, Refuse, Reply
  <2> QED
    BY <1>0, <1>5, <2>1 DEF Carried
<1>6. CASE Compile /\ stage' = "compiled"
  <2>1. /\ stage = "routed" /\ query' = query /\ bound' = bound
        /\ backend' = backend
        /\ \E pick : /\ Compiled(backend, pick) # {}
                     /\ text' = TheOnly(Compiled(backend, pick))
    BY <1>6 DEF Compile, Refuse, Reply, CompileCode
  <2>2. ASSUME backend = "dax"
        PROVE  \E pick : text' = DaxText(c, query, bound, pick)
    <3>1. PICK pick : /\ Compiled(backend, pick) # {}
                      /\ text' = TheOnly(Compiled(backend, pick))
      BY <2>1
    <3>2. Compiled(backend, pick) = {DaxText(c, query, bound, pick)}
      BY <2>2, <3>1 DEF Compiled
    <3> QED
      BY <3>1, <3>2 DEF TheOnly
  <2> QED
    BY <1>0, <1>6, <2>1, <2>2 DEF Carried
<1>7. CASE Ask \/ EngineAnswers
  <2>1. /\ stage \in Compiling /\ stage' \in Compiling
        /\ UNCHANGED <<query, bound, backend, text>>
    BY <1>7 DEF Ask, EngineAnswers, GoesOn, request
  <2> QED
    BY <1>0, <2>1 DEF Carried
<1>8. CASE Probe \/ RefreshHealth \/ PortChanges \/ ClusterChanges
  BY <1>0, <1>1, <1>2, <1>8 DEF Probe, RefreshHealth, PortChanges, ClusterChanges
<1>9. CASE Submit \/ FollowAdvice \/ Leave \/ ToolFails \/ EngineFails \/ Deliver
  BY <1>1, <1>9 DEF Submit, FollowAdvice, Leave, ToolFails, EngineFails, Deliver,
     Refuse, Reply
<1>10. CASE Admit
  BY <1>1, <1>10 DEF Admit, Refuse, Reply, GoesOn
<1>11. CASE UNCHANGED vars
  BY <1>2, <1>11 DEF vars, request
<1>12. Check => stage' \in {"answered", "checked"}
  BY DEF Check, Refuse, Reply, GoesOn
<1>13. Bind => stage' \in {"answered", "bound"}
  BY DEF Bind, Refuse, Reply, GoesOn
<1>14. Route => stage' \in {"answered", "routed"}
  BY DEF Route, Refuse, Reply, GoesOn
<1>15. Compile => stage' \in {"answered", "compiled"}
  BY DEF Compile, Refuse, Reply, GoesOn
<1> QED
  BY <1>1, <1>3, <1>4, <1>5, <1>6, <1>7, <1>8, <1>9, <1>10, <1>11, <1>12, <1>13,
     <1>14, <1>15 DEF Next

\* resolve_measure: a name that a measure has, or its label, is bound to a
\* measure of that name or label.
LEMMA NamedMeasure ==
  ASSUME NEW n, NamedBy(c, n) # {}, NEW m \in MeasuresFor(c, n)
  PROVE  m \in Measures(c) /\ n \in {m.name, m.label}
<1> DEFINE first  == {e \in Measures(c) : e.name = n}
           second == {e \in Measures(c) : e.label = n}
           third  == {e \in Measures(c) : n \in Aliases(e.label)}
           tiers  == <<first, second, third>>
<1>1. first # {} \/ second # {}
  BY DEF NamedBy, Measures, ToSet
<1>2. MeasuresFor(c, n) = FirstFound(tiers)
  BY DEF MeasuresFor
<1> HIDE DEF first, second, third
<1>3. \E i \in DOMAIN tiers : tiers[i] # {} /\ \A j \in 1 .. i - 1 : tiers[j] = {}
  <2>1. CASE first # {}
    BY <2>1
  <2>2. CASE first = {} /\ second # {}
    BY <2>2
  <2> QED
    BY <1>1, <2>1, <2>2
<1>4. PICK i \in DOMAIN tiers : /\ FirstFound(tiers) = tiers[i] /\ tiers[i] # {}
                                /\ \A j \in 1 .. i - 1 : tiers[j] = {}
  BY <1>3 DEF FirstFound
<1>5. i \in {1, 2}
  BY <1>1, <1>4
<1>6. m \in first \cup second
  BY <1>2, <1>4, <1>5
<1> QED
  BY <1>6 DEF first, second

\* A growth or ratio measure does not reach the engine over DAX without any
\* time intelligence or calculation group, when the query calls it by its name
\* or its label (check_calc_context, before the names are bound). Whether the
\* time intelligence gives a period to compare with, the code does not ask.
THEOREM ContextIsKept == Spec => []DaxKeepsContext
<1>1. Init => Carried
  BY DEF Init, Carried, Compiling, Named
<1>2. Typed /\ Carried => DaxKeepsContext
  <2> SUFFICES ASSUME Typed, Carried, stage \in Compiling, backend = "dax",
                      \A n \in ToSet(query.measures) : NamedBy(c, n) # {},
                      WithoutContext
               PROVE  FALSE
    BY DEF DaxKeepsContext
  <2>1. PICK pick : text = DaxText(c, query, bound, pick)
    BY DEF Carried
  <2>2. /\ text.ti = query.ti /\ text.calc = CalcMembers(query)
        /\ text.measures = [i \in DOMAIN bound.measures |-> bound.measures[i].name]
    BY <2>1 DEF DaxText, Text
  <2>3. ~ HasContext(query)
    BY <2>2 DEF WithoutContext, HasContext, CalcMembers
  <2>4. \A m \in NeedsContext(c) : {m.name, m.label} \cap ToSet(query.measures) = {}
    BY <2>3 DEF Carried, MissingContext, Named
  <2>5. PICK x \in ToSet(text.measures) : x \in ContextMeasures
    BY DEF WithoutContext
  <2>6. PICK i \in DOMAIN bound.measures : x = bound.measures[i].name
    BY <2>2, <2>5 DEF ToSet
  <2>7. PICK o \in NeedsContext(c) : x = o.name
    BY <2>5 DEF ContextMeasures
  <2> DEFINE n == query.measures[i]
             m == bound.measures[i]
  <2>8. /\ i \in DOMAIN query.measures /\ m = TheOnly(MeasuresFor(c, n))
        /\ {} \notin Candidates(c, query)
    BY <2>6 DEF Carried, Named, BoundMeasures
  <2>9. n \in ToSet(query.measures)
    BY <2>8 DEF ToSet
  <2>10. m \in MeasuresFor(c, n)
    BY <2>8, <2>9 DEF Candidates, TheOnly
  <2>11. m \in Measures(c) /\ n \in {m.name, m.label}
    BY <2>9, <2>10, NamedMeasure
  <2>12. m = o
    BY <2>6, <2>7, <2>11, SetUpAssumption DEF NeedsContext, Typed, c, setup,
       WellFormedCatalog
  <2> QED
    BY <2>4, <2>9, <2>11, <2>12
<1>3. IInv => Typed
  BY DEF IInv
<1> QED
  BY <1>1, <1>2, <1>3, CarriedStep, Invariance, PTL DEF Spec

-----------------------------------------------------------------------------
(***************************************************************************)
(* What Chosen computes, from the least prefix of which it would be wrong. *)
(***************************************************************************)
ChosenBy(f, s, K, n) ==
  f = [i \in 0 .. n |->
         IF i = 0 THEN << >>
         ELSE IF i \in K THEN Append(f[i - 1], s[i]) ELSE f[i - 1]]

LEMMA ChosenGrows ==
  ASSUME NEW s, NEW K, NEW n \in Nat, NEW f, ChosenBy(f, s, K, n)
  PROVE  \E g : ChosenBy(g, s, K, n + 1)
<1> DEFINE More(h, i) == IF i = 0 THEN << >>
                         ELSE IF i \in K THEN Append(h[i - 1], s[i]) ELSE h[i - 1]
           g == [i \in 0 .. n + 1 |-> IF i = n + 1 THEN More(f, i) ELSE f[i]]
<1>1. \A i \in 0 .. n : f[i] = More(f, i)
  BY DEF ChosenBy
<1>2. ASSUME NEW i \in 0 .. n + 1 PROVE g[i] = More(g, i)
  <2>1. CASE i = 0
    BY <1>1, <2>1
  <2>2. CASE i > 0
    <3>1. i - 1 \in 0 .. n /\ g[i - 1] = f[i - 1]
      BY <2>2
    <3>2. g[i] = More(f, i)
      BY <1>1, <2>2
    <3> QED
      BY <2>2, <3>1, <3>2
  <2> QED
    BY <2>1, <2>2
<1>3. g = [i \in 0 .. n + 1 |-> More(g, i)]
  <2> HIDE DEF More
  <2> QED
    BY <1>2
<1> QED
  BY <1>3 DEF ChosenBy

LEMMA ChosenExists ==
  ASSUME NEW s, NEW K, NEW n \in Nat
  PROVE  \E f : ChosenBy(f, s, K, n)
<1> DEFINE Bad == {m \in Nat : ~ \E f : ChosenBy(f, s, K, m)}
<1>1. SUFFICES ASSUME n \in Bad PROVE FALSE
  OBVIOUS
<1>2. PICK m \in Bad : \A j \in Bad : m <= j
  BY <1>1, LeastIndex
<1>3. m # 0
  <2> DEFINE f == [i \in 0 .. 0 |-> << >>]
  <2>1. f = [i \in 0 .. 0 |->
               IF i = 0 THEN << >>
               ELSE IF i \in K THEN Append(f[i - 1], s[i]) ELSE f[i - 1]]
    OBVIOUS
  <2>2. ChosenBy(f, s, K, 0)
    BY <2>1 DEF ChosenBy
  <2> QED
    BY <2>2
<1>4. m - 1 \in Nat /\ (m - 1) \notin Bad
  BY <1>2, <1>3
<1>5. PICK f : ChosenBy(f, s, K, m - 1)
  BY <1>4
<1>6. \E g : ChosenBy(g, s, K, (m - 1) + 1)
  BY <1>4, <1>5, ChosenGrows
<1> QED
  BY <1>2, <1>6

\* What is chosen of the first k elements.
Drawn(t, s, K, k) ==
  \E e \in [1 .. Len(t) -> K \cap 1 .. k] :
    /\ \A i, j \in 1 .. Len(t) : e[i] = e[j] => i = j
    /\ \A j \in 1 .. Len(t) : t[j] = s[e[j]]
ChosenRight(t, s, K, k) ==
  /\ t \in Seq(ToSet(s))
  /\ Drawn(t, s, K, k)
  /\ ToSet(t) = {s[i] : i \in K \cap 1 .. k}
  /\ 1 .. k \subseteq K => Len(t) = k /\ \A i \in 1 .. k : t[i] = s[i]
  /\ K \cap 1 .. k = {} => t = << >>
  /\ K \cap 1 .. k = {1} => t = <<s[1]>>

LEMMA ChosenStep ==
  ASSUME NEW s, IsSequence(s), NEW K, NEW k \in 1 .. Len(s), NEW t,
         ChosenRight(t, s, K, k - 1)
  PROVE  ChosenRight(IF k \in K THEN Append(t, s[k]) ELSE t, s, K, k)
<1>1. /\ s \in Seq(ToSet(s)) /\ k \in Nat \ {0} /\ k - 1 \in Nat /\ s[k] \in ToSet(s)
      /\ 1 .. k = 1 .. k - 1 \cup {k}
  BY DEF IsSequence, ToSet
<1>2. t \in Seq(ToSet(s))
  BY DEF ChosenRight
<1>3. CASE k \notin K
  <2>1. K \cap 1 .. k = K \cap 1 .. k - 1 /\ ~ (1 .. k \subseteq K)
    BY <1>1, <1>3
  <2>2. Drawn(t, s, K, k)
    BY <2>1 DEF ChosenRight, Drawn
  <2> QED
    BY <1>3, <2>1, <2>2 DEF ChosenRight
<1>4. CASE k \in K
  <2> DEFINE u == Append(t, s[k])
  <2>1. /\ u \in Seq(ToSet(s)) /\ Len(u) = Len(t) + 1 /\ Len(t) \in Nat
        /\ u[Len(t) + 1] = s[k] /\ \A i \in 1 .. Len(t) : u[i] = t[i]
    BY <1>1, <1>2
  <2>2. ToSet(u) = ToSet(t) \cup {s[k]}
    <3>1. DOMAIN u = 1 .. Len(t) + 1 /\ DOMAIN t = 1 .. Len(t)
      BY <1>2, <2>1
    <3> QED
      BY <2>1, <3>1 DEF ToSet
  <2>3. {s[i] : i \in K \cap 1 .. k} = {s[i] : i \in K \cap 1 .. k - 1} \cup {s[k]}
    BY <1>1, <1>4
  <2>4. ASSUME 1 .. k \subseteq K
        PROVE  Len(u) = k /\ \A i \in 1 .. k : u[i] = s[i]
    <3>1. 1 .. k - 1 \subseteq K
      BY <1>1, <2>4
    <3>2. Len(t) = k - 1 /\ \A i \in 1 .. k - 1 : t[i] = s[i]
      BY <3>1 DEF ChosenRight
    <3> QED
      BY <1>1, <2>1, <3>2
  <2>5. K \cap 1 .. k # {}
    BY <1>1, <1>4
  <2>6. ASSUME K \cap 1 .. k = {1} PROVE u = <<s[1]>>
    <3>1. k = 1 /\ K \cap 1 .. k - 1 = {}
      BY <1>1, <1>4, <2>6
    <3>2. t = << >>
      BY <3>1 DEF ChosenRight
    <3> QED
      BY <3>1, <3>2
  <2> HIDE DEF u
  <2>7. Drawn(u, s, K, k)
    <3>1. PICK e \in [1 .. Len(t) -> K \cap 1 .. k - 1] :
                 /\ \A i, j \in 1 .. Len(t) : e[i] = e[j] => i = j
                 /\ \A j \in 1 .. Len(t) : t[j] = s[e[j]]
      BY DEF ChosenRight, Drawn
    <3> DEFINE d == [j \in 1 .. Len(u) |-> IF j = Len(u) THEN k ELSE e[j]]
    <3>2. \A j \in 1 .. Len(u) : j # Len(u) => j \in 1 .. Len(t)
      BY <2>1
    <3>3. \A j \in 1 .. Len(t) : e[j] \in K \cap 1 .. k - 1 /\ e[j] \in K \cap 1 .. k /\ e[j] # k
      BY <1>1, <3>1
    <3>4. d \in [1 .. Len(u) -> K \cap 1 .. k]
      BY <1>1, <1>4, <3>2, <3>3
    <3>5. \A i, j \in 1 .. Len(u) : d[i] = d[j] => i = j
      BY <3>1, <3>2, <3>3
    <3>6. \A j \in 1 .. Len(u) : u[j] = s[d[j]]
      BY <2>1, <3>1, <3>2
    <3> HIDE DEF d
    <3> QED
      BY <3>4, <3>5, <3>6 DEF Drawn
  <2>8. ChosenRight(u, s, K, k)
    BY <2>1, <2>2, <2>3, <2>4, <2>5, <2>6, <2>7 DEF ChosenRight
  <2> QED
    BY <1>4, <2>8 DEF u
<1> QED
  BY <1>3, <1>4

LEMMA ChosenIsRight ==
  ASSUME NEW s, IsSequence(s), NEW K
  PROVE  ChosenRight(Chosen(s, K), s, K, Len(s))
<1> DEFINE n == Len(s)
           f == CHOOSE f : ChosenBy(f, s, K, n)
           Bad == {k \in 0 .. n : ~ ChosenRight(f[k], s, K, k)}
<1>1. n \in Nat
  BY DEF IsSequence
<1>2. ChosenBy(f, s, K, n)
  BY <1>1, ChosenExists
<1>3. Chosen(s, K) = f[n]
  BY DEF Chosen, ChosenBy
<1>4. \A i \in 0 .. n : f[i] = IF i = 0 THEN << >>
                               ELSE IF i \in K THEN Append(f[i - 1], s[i]) ELSE f[i - 1]
  BY <1>2 DEF ChosenBy
<1> HIDE DEF f
<1>5. SUFFICES ASSUME n \in Bad PROVE FALSE
  BY <1>1, <1>3
<1>6. PICK k \in Bad : \A j \in Bad : k <= j
  <2>1. Bad \in SUBSET Nat /\ Bad # {}
    BY <1>5
  <2> HIDE DEF Bad
  <2> QED
    BY <2>1, LeastIndex
<1>7. k # 0
  <2>1. ChosenRight(<< >>, s, K, 0)
    <3>1. 1 .. 0 = {} /\ Len(<< >>) = 0 /\ << >> \in Seq(ToSet(s)) /\ DOMAIN << >> = {}
      OBVIOUS
    <3>2. ToSet(<< >>) = {}
      BY <3>1 DEF ToSet
    <3>3. Drawn(<< >>, s, K, 0)
      <4> DEFINE e == [j \in 1 .. Len(<< >>) |-> 1]
      <4>1. e \in [1 .. Len(<< >>) -> K \cap 1 .. 0] /\ 1 .. Len(<< >>) = {}
        BY <3>1
      <4> HIDE DEF e
      <4> QED
        BY <4>1 DEF Drawn
    <3> QED
      BY <3>1, <3>2, <3>3 DEF ChosenRight
  <2> QED
    BY <1>1, <1>4, <1>6, <2>1
<1>8. k \in 1 .. n /\ k - 1 \in 0 .. n /\ (k - 1) \notin Bad
  BY <1>1, <1>6, <1>7
<1>9. ChosenRight(f[k - 1], s, K, k - 1)
  BY <1>8
<1>10. f[k] = IF k \in K THEN Append(f[k - 1], s[k]) ELSE f[k - 1]
  BY <1>4, <1>7, <1>8
<1>11. ChosenRight(f[k], s, K, k)
  BY <1>8, <1>9, <1>10, ChosenStep
<1> QED
  BY <1>6, <1>11

-----------------------------------------------------------------------------
(***************************************************************************)
(* Well-formed catalogs.                                                   *)
(***************************************************************************)
LEMMA CatalogIsWellFormed == server \in Servers => WellFormedCatalog(c) /\ setup.cap \in Nat
BY SetUpAssumption DEF c, setup

LEMMA LabelledFinite ==
  ASSUME NEW cat, WellFormedCatalog(cat), NEW label
  PROVE  IsFiniteSet(Labelled(cat, label))
<1> DEFINE n == Len(cat.levels)
           f == [i \in 1 .. n |-> cat.levels[i].key]
<1>1. n \in Nat /\ DOMAIN cat.levels = 1 .. n
  BY DEF WellFormedCatalog, IsSequence
<1>2. LevelKeys(cat) = {f[i] : i \in 1 .. n}
  BY <1>1 DEF LevelKeys, Levels, ToSet
<1>3. IsFiniteSet(LevelKeys(cat))
  <2> DEFINE T == {f[i] : i \in 1 .. n}
  <2>1. f \in Surjection(1 .. n, T)
    BY DEF Surjection
  <2>2. IsFiniteSet(T)
    BY <1>1, <2>1, FS_NatSurjection DEF ExistsSurjection
  <2> QED
    BY <1>2, <2>2
<1>4. Labelled(cat, label) \subseteq LevelKeys(cat)
  BY DEF Labelled
<1> QED
  BY <1>3, <1>4, FS_Subset

\* A label of one level means that level, whatever the compiler's map has.
LEMMA SolePick ==
  ASSUME server \in Servers, NEW pick \in Picks, NEW label,
         Cardinality(Labelled(c, label)) = 1
  PROVE  Labelled(c, label) = {pick[label]} /\ HasLabel(c, label)
<1>1. PICK k : Labelled(c, label) = {k}
  BY LabelledFinite, CatalogIsWellFormed, FS_Singleton
<1>2. label \in Captions(c)
  BY <1>1 DEF Labelled, Captions
<1> DEFINE shared == {l \in Captions(c) : Cardinality(Labelled(c, l)) > 1}
<1>3. label \notin shared
  OBVIOUS
<1>4. PICK s : pick = [l \in Captions(c) |->
                         IF l \in shared THEN s[l] ELSE TheOnly(Labelled(c, l))]
  BY DEF Picks
<1>5. pick[label] = TheOnly({k})
  BY <1>1, <1>2, <1>3, <1>4
<1>6. TheOnly({k}) = k
  BY DEF TheOnly
<1> QED
  BY <1>1, <1>5, <1>6 DEF HasLabel

-----------------------------------------------------------------------------
(***************************************************************************)
(* A leaf that is well placed keeps the same rows over every backend that  *)
(* can tell it: first what DAX makes of it.                                *)
(***************************************************************************)
IsNamed(f) == f.kind \in {"MemberLevel", "Range"}

\* A name that is placed means one level, and is grounded to it.
LEMMA NameIsGrounded ==
  ASSUME server \in Servers, NEW pick \in Picks, NEW f, IsNamed(f), Placed(f)
  PROVE  /\ Labelled(c, f.key.label) = {pick[f.key.label]}
         /\ Meant(c, f.key) = {pick[f.key.label]}
         /\ GroundKey(c, pick, f.key) = Meant(c, f.key)
         /\ f.kind = "MemberLevel" =>
              Meant(c, Key(f.hier, f.key.label)) = Meant(c, f.key)
<1>1. /\ Meant(c, f.key) # {} /\ Cardinality(Labelled(c, f.key.label)) = 1
      /\ f.kind = "MemberLevel" =>
           Meant(c, f.key) = Meant(c, Key(f.hier, f.key.label))
  BY DEF Placed, IsNamed
<1>2. Labelled(c, f.key.label) = {pick[f.key.label]} /\ HasLabel(c, f.key.label)
  BY <1>1, SolePick
<1>3. CASE f.key.hier = NoName
  BY <1>1, <1>2, <1>3 DEF Meant, GroundKey
<1>4. CASE f.key.hier # NoName
  <2>1. Meant(c, f.key) = {f.key} /\ f.key \in LevelKeys(c)
    BY <1>1, <1>4 DEF Meant
  <2>2. f.key \in Labelled(c, f.key.label)
    BY <2>1 DEF Labelled
  <2> QED
    BY <1>1, <1>2, <1>4, <2>1, <2>2 DEF GroundKey
<1> QED
  BY <1>3, <1>4

LEMMA DaxOfNamed ==
  ASSUME server \in Servers, NEW pick \in Picks, NEW f, IsNamed(f), Placed(f), NEW r
  PROVE  AskedOf(c, f, r) <=> DaxHolds(c, bound, pick, f, r)
<1> DEFINE k == pick[f.key.label]
<1>1. /\ Meant(c, f.key) = {k}
      /\ f.kind = "MemberLevel" => Meant(c, Key(f.hier, f.key.label)) = {k}
      /\ GroundKey(c, pick, f.key) = {k}
  BY NameIsGrounded
<1>2. Ground(c, bound, pick, f) = {k}
  BY <1>1 DEF Ground, IsNamed
<1> HIDE DEF k
<1>3. CASE f.kind = "MemberLevel"
  BY <1>1, <1>2, <1>3 DEF AskedOf, DaxHolds
<1>4. CASE f.kind = "Range"
  BY <1>1, <1>2, <1>4 DEF AskedOf, DaxHolds
<1> QED
  BY <1>3, <1>4 DEF IsNamed

\* The level a member is placed at is the only one that its domain names.
LEMMA MemberIsGrounded ==
  ASSUME server \in Servers, NEW f, IsFilter(f), f.kind = "Member", Placed(f)
  PROVE  \E l \in PlacedAt(f.hier, f.members) : MemberGround(c, bound, f) = {l}
<1>1. PICK l \in PlacedAt(f.hier, f.members) : f.members # << >>
  BY DEF Placed
<1> DEFINE v == Head(f.members)
<1>2. v \in ToSet(f.members)
  <2>1. /\ Len(f.members) \in Nat /\ DOMAIN f.members = 1 .. Len(f.members)
        /\ f.members # << >> => Len(f.members) # 0 /\ Head(f.members) = f.members[1]
    BY DEF IsFilter, IsSequence
  <2> QED
    BY <1>1, <2>1 DEF ToSet
<1>3. /\ l \in LevelsOf(c, f.hier) /\ ToSet(f.members) \subseteq l.domain
      /\ \A o \in LevelsOf(c, f.hier) \ {l} : v \notin o.domain
  BY <1>1, <1>2 DEF PlacedAt
<1> HIDE DEF v
<1>4. LevelsWithMember(c, f.hier, v) = {l} /\ AnyDomain(c, f.hier)
  BY <1>2, <1>3 DEF LevelsWithMember, AnyDomain
<1>5. Cardinality({l}) = 1
  BY FS_Singleton
<1>6. FirstRanked({l}) = l
  <2>1. l.rank \in Nat
    BY <1>3, CatalogIsWellFormed DEF WellFormedCatalog, LevelsOf
  <2> QED
    BY <2>1 DEF FirstRanked
<1>7. Settled(bound, {l}) = {l}
  <2>1. CASE {l} \cap ToSet(bound.dims) = {l}
    BY <1>6, <2>1 DEF Settled
  <2>2. CASE {l} \cap ToSet(bound.dims) = {}
    BY <1>5, <2>2 DEF Settled
  <2> QED
    BY <2>1, <2>2
<1>8. ScannedLevel(bound, v, {l}) = {l}
  BY <1>5, <1>7 DEF ScannedLevel
<1> QED
  BY <1>1, <1>4, <1>8 DEF MemberGround, v

\* A member that is placed at a level is looked for there alone.
LEMMA MemberIsThere ==
  ASSUME NEW f, f.kind = "Member", NEW l \in PlacedAt(f.hier, f.members), NEW r \in Rows(c)
  PROVE  AskedOf(c, f, r) <=> c.cells[r][l.key] \in ToSet(f.members)
<1>1. /\ l \in LevelsOf(c, f.hier)
      /\ \A o \in LevelsOf(c, f.hier) \ {l} : c.cells[r][o.key] \notin ToSet(f.members)
  BY DEF PlacedAt
<1> QED
  BY <1>1 DEF AskedOf

LEMMA NotExcluded ==
  ASSUME NEW x, NEW S, NEW excluded \in BOOLEAN, excluded = FALSE
  PROVE  ((x \in S) # excluded) <=> x \in S
OBVIOUS

LEMMA DaxOfLeaf ==
  ASSUME server \in Servers, NEW pick \in Picks, NEW f, IsFilter(f), ~ IsGroup(f),
         Placed(f), NEW r \in Rows(c)
  PROVE  AskedOf(c, f, r) <=> DaxHolds(c, bound, pick, f, r)
<1>1. CASE f.kind = "Member"
  <2>1. PICK l \in PlacedAt(f.hier, f.members) : MemberGround(c, bound, f) = {l}
    BY <1>1, MemberIsGrounded
  <2>2. Ground(c, bound, pick, f) = {l.key}
    BY <1>1, <2>1 DEF Ground
  <2>3. AskedOf(c, f, r) <=> c.cells[r][l.key] \in ToSet(f.members)
    BY <1>1, MemberIsThere
  <2>4. f.exclude = FALSE
    BY <1>1 DEF IsFilter
  <2>5. f.kind # "Range" /\ f.kind # "CalcGroup"
    BY <1>1
  <2>6. DaxHolds(c, bound, pick, f, r) <=> (c.cells[r][l.key] \in ToSet(f.members)) # f.exclude
    BY <2>2, <2>5 DEF DaxHolds
  <2>7. DaxHolds(c, bound, pick, f, r) <=> c.cells[r][l.key] \in ToSet(f.members)
    BY <2>4, <2>6, NotExcluded
  <2> QED
    BY <2>3, <2>7
<1>2. CASE IsNamed(f)
  BY <1>2, DaxOfNamed
<1>3. CASE f.kind = "CalcGroup"
  BY <1>3 DEF AskedOf, DaxHolds
<1> QED
  BY <1>1, <1>2, <1>3 DEF IsFilter, IsGroup, IsNamed

LEMMA DaxOfFilter ==
  ASSUME server \in Servers, NEW pick \in Picks, NEW f, WellFormedFilter(f),
         \A g \in Parts(f) : Placed(g), NEW r \in Rows(c)
  PROVE  Combined(LAMBDA g : AskedOf(c, g, r), f)
           <=> Combined(LAMBDA g : DaxHolds(c, bound, pick, g, r), f)
<1>1. \A g \in Parts(f) : ~ IsGroup(g) =>
        (AskedOf(c, g, r) <=> DaxHolds(c, bound, pick, g, r))
  BY DaxOfLeaf DEF WellFormedFilter
<1>2. f \in Parts(f) /\ (\A i \in DOMAIN f.subs : f.subs[i] \in Parts(f))
      /\ (\A i \in DOMAIN f.subs : \A j \in DOMAIN f.subs[i].subs :
            f.subs[i].subs[j] \in Parts(f) /\ ~ IsGroup(f.subs[i].subs[j]))
  BY DEF Parts, ToSet, WellFormedFilter
<1>3. ASSUME NEW g \in Parts(f), ~ IsGroup(g) PROVE g.kind # "And" /\ g.kind # "Or"
  BY <1>3 DEF IsGroup
<1> QED
  BY <1>1, <1>2, <1>3 DEF Combined, IsGroup

-----------------------------------------------------------------------------
(***************************************************************************)
(* Then what SQL makes of it, where it can tell.                           *)
(***************************************************************************)
LEMMA SqlOfLeaf ==
  ASSUME server \in Servers, NEW pick \in Picks, NEW f, IsFilter(f), ~ IsGroup(f),
         f.kind # "CalcGroup", Placed(f), SqlCanTell(f), NEW r \in Rows(c)
  PROVE  AskedOf(c, f, r) <=> SqlHolds(c, bound, pick, f, r)
<1>1. CASE f.kind = "Member"
  <2> DEFINE l == Head(BoundOn(bound, f.hier))
             v == c.cells[r][l.key]
  <2>1. /\ l \in PlacedAt(f.hier, f.members) /\ SqlColumn(bound, f) = l.key.label
        /\ Cardinality(Labelled(c, l.key.label)) = 1
    BY <1>1 DEF SqlCanTell, SqlColumn
  <2> HIDE DEF l
  <2>2. l \in Levels(c)
    BY <2>1 DEF PlacedAt, LevelsOf
  <2>3. l.key \in Labelled(c, l.key.label)
    BY <2>2 DEF Labelled, LevelKeys
  <2>4. pick[SqlColumn(bound, f)] = l.key
    BY <2>1, <2>3, SolePick
  <2>5. SqlHolds(c, bound, pick, f, r) <=> (v \in ToSet(f.members)) # f.exclude
    BY <1>1, <2>4 DEF SqlHolds
  <2>6. f.exclude \in BOOLEAN /\ f.exclude = FALSE
    BY <1>1 DEF IsFilter
  <2>7. SqlHolds(c, bound, pick, f, r) <=> v \in ToSet(f.members)
    BY <2>5, <2>6, NotExcluded
  <2>8. AskedOf(c, f, r) <=> v \in ToSet(f.members)
    BY <1>1, <2>1, MemberIsThere
  <2> QED
    BY <2>7, <2>8
<1>2. CASE IsNamed(f)
  <2> DEFINE k == pick[f.key.label]
  <2>1. /\ Meant(c, f.key) = {k}
        /\ f.kind = "MemberLevel" => Meant(c, Key(f.hier, f.key.label)) = {k}
    BY <1>2, NameIsGrounded
  <2>2. pick[SqlColumn(bound, f)] = k
    BY <1>2 DEF SqlColumn, IsNamed
  <2> HIDE DEF k
  <2>3. CASE f.kind = "MemberLevel"
    BY <2>1, <2>2, <2>3 DEF AskedOf, SqlHolds
  <2>4. CASE f.kind = "Range"
    BY <2>1, <2>2, <2>4 DEF AskedOf, SqlHolds
  <2> QED
    BY <1>2, <2>3, <2>4 DEF IsNamed
<1> QED
  BY <1>1, <1>2 DEF IsFilter, IsGroup, IsNamed

\* A list all of whose filters are kept is kept as it is.
LEMMA KeepsAll ==
  ASSUME NEW fs, IsSequence(fs), \A i \in DOMAIN fs : SqlKeeps(fs[i])
  PROVE  /\ DOMAIN SqlKept(fs) = DOMAIN fs
         /\ \A i \in DOMAIN fs : SqlKept(fs)[i] = fs[i]
<1> DEFINE K == {i \in DOMAIN fs : SqlKeeps(fs[i])}
           t == Chosen(fs, K)
<1>1. DOMAIN fs = 1 .. Len(fs) /\ Len(fs) \in Nat
  BY DEF IsSequence
<1>2. 1 .. Len(fs) \subseteq K
  BY <1>1
<1>3. /\ t \in Seq(ToSet(fs)) /\ Len(t) = Len(fs)
      /\ \A i \in 1 .. Len(fs) : t[i] = fs[i]
  BY <1>2, ChosenIsRight DEF ChosenRight
<1>4. SqlKept(fs) = t
  BY DEF SqlKept
<1> HIDE DEF t, K
<1> QED
  BY <1>1, <1>3, <1>4

LEMMA NotEmpty ==
  ASSUME NEW s, IsSequence(s), s # << >>
  PROVE  DOMAIN s # {}
<1>1. Len(s) \in Nat /\ Len(s) # 0 /\ DOMAIN s = 1 .. Len(s)
  BY DEF IsSequence
<1>2. 1 \in 1 .. Len(s)
  BY <1>1
<1> QED
  BY <1>1, <1>2

\* Clearing a filter that says something of predicates that say nothing: the
\* filter stays what it was.
LEMMA SqlInnerSame ==
  ASSUME NEW g, IsFilter(g), SqlKeeps(g),
         IsGroup(g) => \A i \in DOMAIN g.subs : SqlKeeps(g.subs[i])
  PROVE  /\ SqlInner(g).kind = g.kind
         /\ SqlKeeps(SqlInner(g))
         /\ \A pick, r : SqlHolds(c, bound, pick, SqlInner(g), r)
                           <=> SqlHolds(c, bound, pick, g, r)
         /\ IsGroup(g) => /\ DOMAIN SqlInner(g).subs = DOMAIN g.subs
                          /\ \A i \in DOMAIN g.subs : SqlInner(g).subs[i] = g.subs[i]
<1> DEFINE h == SqlInner(g)
<1>1. /\ h.kind = g.kind /\ h.hier = g.hier /\ h.key = g.key
      /\ h.members = g.members /\ h.exclude = g.exclude
      /\ h.subs = SqlKept(g.subs)
  BY DEF SqlInner, IsFilter
<1>2. IsSequence(g.subs)
  BY DEF IsFilter
<1>3. IsGroup(g) => /\ DOMAIN h.subs = DOMAIN g.subs
                    /\ \A i \in DOMAIN g.subs : h.subs[i] = g.subs[i]
  BY <1>1, <1>2, KeepsAll
<1>4. IsGroup(g) => h.subs # << >>
  <2>1. IsGroup(g) => g.subs # << >>
    BY DEF SqlKeeps, IsGroup
  <2>2. g.subs # << >> => DOMAIN g.subs # {}
    BY <1>2, NotEmpty
  <2>3. DOMAIN << >> = {}
    OBVIOUS
  <2> QED
    BY <1>3, <2>1, <2>2, <2>3
<1> HIDE DEF h
<1>5. SqlKeeps(h)
  BY <1>1, <1>4 DEF SqlKeeps, IsGroup
<1>6. SqlColumn(bound, h) = SqlColumn(bound, g)
  BY <1>1 DEF SqlColumn
<1>7. ASSUME NEW pick, NEW r
      PROVE  SqlHolds(c, bound, pick, h, r) <=> SqlHolds(c, bound, pick, g, r)
  BY <1>1, <1>6 DEF SqlHolds
<1> QED
  BY <1>1, <1>3, <1>5, <1>7 DEF h

SqlTells(f) == \A g \in Parts(f) : SqlCanTell(g) /\ (g.kind = "CalcGroup" => g = f)

\* What SQL can tell turns into a predicate, and so does all that is in it.
LEMMA SqlOuterSame ==
  ASSUME NEW f, WellFormedFilter(f), SqlTells(f), f.kind # "CalcGroup"
  PROVE  /\ SqlOuter(f).kind = f.kind
         /\ SqlKeeps(SqlOuter(f))
         /\ \A pick, r : SqlHolds(c, bound, pick, SqlOuter(f), r)
                           <=> SqlHolds(c, bound, pick, f, r)
         /\ IsGroup(f) =>
              /\ DOMAIN SqlOuter(f).subs = DOMAIN f.subs
              /\ \A i \in DOMAIN f.subs : SqlOuter(f).subs[i] = SqlInner(f.subs[i])
         /\ \A i \in DOMAIN f.subs :
              /\ IsFilter(f.subs[i]) /\ SqlKeeps(f.subs[i])
              /\ IsGroup(f.subs[i]) =>
                   \A j \in DOMAIN f.subs[i].subs : SqlKeeps(f.subs[i].subs[j])
<1>1. ASSUME NEW g \in Parts(f) PROVE SqlKeeps(g) /\ IsFilter(g)
  <2>1. IsFilter(g) /\ SqlCanTell(g)
    BY DEF WellFormedFilter, SqlTells
  <2>2. g.kind # "CalcGroup"
    BY DEF SqlTells
  <2> QED
    BY <2>1, <2>2 DEF IsFilter, SqlCanTell, SqlKeeps, IsGroup
<1>2. f \in Parts(f) /\ (\A i \in DOMAIN f.subs : f.subs[i] \in Parts(f))
      /\ (\A i \in DOMAIN f.subs : \A j \in DOMAIN f.subs[i].subs :
            f.subs[i].subs[j] \in Parts(f))
  BY DEF Parts, ToSet
<1> DEFINE inner == [i \in DOMAIN f.subs |-> SqlInner(f.subs[i])]
<1>3. ASSUME NEW i \in DOMAIN f.subs PROVE SqlKeeps(inner[i])
  BY <1>1, <1>2, SqlInnerSame
<1>4. IsSequence(inner) /\ DOMAIN inner = DOMAIN f.subs
  <2>1. DOMAIN f.subs = 1 .. Len(f.subs) /\ Len(f.subs) \in Nat
    BY <1>1, <1>2 DEF IsFilter, IsSequence
  <2> HIDE DEF SqlInner
  <2> QED
    BY <2>1 DEF IsSequence, ToSet
<1> DEFINE h == SqlOuter(f)
<1>5. /\ h.kind = f.kind /\ h.hier = f.hier /\ h.key = f.key
      /\ h.members = f.members /\ h.exclude = f.exclude
      /\ h.subs = SqlKept(inner)
  BY <1>1, <1>2 DEF SqlOuter, IsFilter
<1>6. /\ DOMAIN h.subs = DOMAIN f.subs
      /\ \A i \in DOMAIN f.subs : h.subs[i] = inner[i]
  <2> HIDE DEF inner
  <2> QED
    BY <1>3, <1>4, <1>5, KeepsAll
<1>7. IsGroup(f) => h.subs # << >>
  <2>1. IsGroup(f) => f.subs # << >>
    BY <1>1, <1>2 DEF SqlKeeps, IsGroup
  <2>2. f.subs # << >> => DOMAIN f.subs # {}
    BY <1>1, <1>2, NotEmpty DEF IsFilter
  <2>3. DOMAIN << >> = {}
    OBVIOUS
  <2> QED
    BY <1>6, <2>1, <2>2, <2>3
<1> HIDE DEF h
<1>8. SqlKeeps(h)
  BY <1>1, <1>2, <1>5, <1>7 DEF SqlKeeps, IsGroup
<1>9. SqlColumn(bound, h) = SqlColumn(bound, f)
  BY <1>5 DEF SqlColumn
<1>10. ASSUME NEW pick, NEW r
       PROVE  SqlHolds(c, bound, pick, h, r) <=> SqlHolds(c, bound, pick, f, r)
  BY <1>5, <1>9 DEF SqlHolds
<1> QED
  BY <1>1, <1>2, <1>5, <1>6, <1>8, <1>10 DEF h

LEMMA SqlOfFilter ==
  ASSUME server \in Servers, NEW pick \in Picks, NEW f, WellFormedFilter(f),
         \A g \in Parts(f) : Placed(g), SqlTells(f), f.kind # "CalcGroup",
         NEW r \in Rows(c)
  PROVE  Combined(LAMBDA g : AskedOf(c, g, r), f)
           <=> Combined(LAMBDA g : SqlHolds(c, bound, pick, g, r), SqlOuter(f))
<1>1. ASSUME NEW g \in Parts(f), ~ IsGroup(g)
      PROVE  AskedOf(c, g, r) <=> SqlHolds(c, bound, pick, g, r)
  BY <1>1, SqlOfLeaf DEF WellFormedFilter, SqlTells
<1>2. f \in Parts(f) /\ (\A i \in DOMAIN f.subs : f.subs[i] \in Parts(f))
      /\ (\A i \in DOMAIN f.subs : \A j \in DOMAIN f.subs[i].subs :
            f.subs[i].subs[j] \in Parts(f) /\ ~ IsGroup(f.subs[i].subs[j]))
  BY DEF Parts, ToSet, WellFormedFilter
<1> DEFINE h == SqlOuter(f)
<1>3. /\ h.kind = f.kind
      /\ SqlHolds(c, bound, pick, h, r) <=> SqlHolds(c, bound, pick, f, r)
      /\ IsGroup(f) => /\ DOMAIN h.subs = DOMAIN f.subs
                       /\ \A i \in DOMAIN f.subs : h.subs[i] = SqlInner(f.subs[i])
  BY SqlOuterSame
<1>4. ASSUME NEW i \in DOMAIN f.subs
      PROVE  LET g == f.subs[i]
                 k == SqlInner(g)
             IN /\ k.kind = g.kind
                /\ SqlHolds(c, bound, pick, k, r) <=> SqlHolds(c, bound, pick, g, r)
                /\ IsGroup(g) => /\ DOMAIN k.subs = DOMAIN g.subs
                                 /\ \A j \in DOMAIN g.subs : k.subs[j] = g.subs[j]
  <2>1. /\ IsFilter(f.subs[i]) /\ SqlKeeps(f.subs[i])
        /\ IsGroup(f.subs[i]) =>
             \A j \in DOMAIN f.subs[i].subs : SqlKeeps(f.subs[i].subs[j])
    BY SqlOuterSame
  <2> QED
    BY <2>1, SqlInnerSame
<1> HIDE DEF h
<1>5. CASE ~ IsGroup(f)
  BY <1>1, <1>2, <1>3, <1>5 DEF Combined, IsGroup, h
<1>6. CASE IsGroup(f)
  <2> DEFINE Told(g)  == SqlHolds(c, bound, pick, g, r)
             Asks(g) == AskedOf(c, g, r)
             Flat(Leaf(_), g) ==
               CASE g.kind = "And" -> \A i \in DOMAIN g.subs : Leaf(g.subs[i])
                 [] g.kind = "Or"  -> \E i \in DOMAIN g.subs : Leaf(g.subs[i])
                 [] OTHER          -> Leaf(g)
  <2>1. ASSUME NEW i \in DOMAIN f.subs
        PROVE  Flat(Asks, f.subs[i]) <=> Flat(Told, h.subs[i])
    BY <1>1, <1>2, <1>3, <1>4, <1>6 DEF IsGroup
  <2>2. Combined(Asks, f)
          <=> IF f.kind = "And" THEN \A i \in DOMAIN f.subs : Flat(Asks, f.subs[i])
              ELSE \E i \in DOMAIN f.subs : Flat(Asks, f.subs[i])
    BY <1>6 DEF Combined, IsGroup
  <2>3. Combined(Told, h)
          <=> IF f.kind = "And" THEN \A i \in DOMAIN f.subs : Flat(Told, h.subs[i])
              ELSE \E i \in DOMAIN f.subs : Flat(Told, h.subs[i])
    BY <1>3, <1>6 DEF Combined, IsGroup
  <2> HIDE DEF Flat
  <2>4. Combined(Asks, f) <=> Combined(Told, h)
    BY <2>1, <2>2, <2>3
  <2> QED
    BY <2>4 DEF h
<1> QED
  BY <1>5, <1>6

-----------------------------------------------------------------------------
(***************************************************************************)
(* The rows each text keeps.                                               *)
(***************************************************************************)
LEMMA DaxKeepsAsked ==
  ASSUME server \in Servers, NEW pick \in Picks, NEW q, WellFormed(q), WellPlaced(q)
  PROVE  DaxText(c, q, bound, pick).rows = Asked(c, q)
<1>1. ASSUME NEW f \in ToSet(q.filters), NEW r \in Rows(c)
      PROVE  Combined(LAMBDA g : AskedOf(c, g, r), f)
               <=> Combined(LAMBDA g : DaxHolds(c, bound, pick, g, r), f)
  BY DaxOfFilter DEF WellFormed, WellPlaced
<1>2. DaxText(c, q, bound, pick).rows =
        {r \in Rows(c) : \A f \in ToSet(q.filters) :
           Combined(LAMBDA g : DaxHolds(c, bound, pick, g, r), f)}
  BY DEF DaxText, Text
<1>3. Asked(c, q) = {r \in Rows(c) : \A f \in ToSet(q.filters) :
                       Combined(LAMBDA g : AskedOf(c, g, r), f)}
  BY DEF Asked
<1> QED
  BY <1>1, <1>2, <1>3

\* The predicates are the filters that SQL makes something of.
LEMMA SqlPredicateSet ==
  ASSUME NEW q, IsSequence(q.filters)
  PROVE  ToSet(SqlPredicates(q)) =
           {SqlOuter(f) : f \in {f \in ToSet(q.filters) : SqlKeeps(SqlOuter(f))}}
<1> DEFINE s == [i \in DOMAIN q.filters |-> SqlOuter(q.filters[i])]
           K == {i \in DOMAIN s : SqlKeeps(s[i])}
<1>1. DOMAIN s = 1 .. Len(q.filters) /\ DOMAIN q.filters = DOMAIN s
      /\ Len(q.filters) \in Nat
  BY DEF IsSequence
<1> HIDE DEF SqlOuter
<1>2. IsSequence(s) /\ Len(s) = Len(q.filters)
  BY <1>1 DEF IsSequence, ToSet
<1>3. SqlPredicates(q) = Chosen(s, K)
  BY DEF SqlPredicates, SqlKept
<1>4. ToSet(Chosen(s, K)) = {s[i] : i \in K \cap 1 .. Len(s)}
  BY <1>2, ChosenIsRight DEF ChosenRight
<1>5. ToSet(q.filters) = {q.filters[i] : i \in DOMAIN s}
  BY <1>1 DEF ToSet
<1>6. K \cap 1 .. Len(s) = K
  BY <1>1, <1>2
<1>7. \A i \in DOMAIN s : s[i] = SqlOuter(q.filters[i])
  BY <1>1
<1> DEFINE T == {SqlOuter(f) : f \in {f \in ToSet(q.filters) : SqlKeeps(SqlOuter(f))}}
<1>8. {s[i] : i \in K} \subseteq T
  BY <1>5, <1>7
<1>9. T \subseteq {s[i] : i \in K}
  BY <1>5, <1>7
<1> HIDE DEF s, K
<1> QED
  BY <1>3, <1>4, <1>6, <1>8, <1>9

LEMMA SqlKeepsAsked ==
  ASSUME server \in Servers, NEW pick \in Picks, NEW q, WellFormed(q), WellPlaced(q),
         \A f \in ToSet(q.filters) : SqlTells(f),
         ~ SqlProjection(c, q, bound, pick).unknown
  PROVE  SqlProjection(c, q, bound, pick).rows = Asked(c, q)
<1> DEFINE fs == ToSet(SqlPredicates(q))
           known == \A f \in fs : \A g \in Parts(f) :
                      IsGroup(g) \/ HasLabel(c, SqlColumn(bound, g))
           kept == {r \in Rows(c) : \A f \in fs :
                      Combined(LAMBDA g : SqlHolds(c, bound, pick, g, r), f)}
<1>1. SqlProjection(c, q, bound, pick).rows = kept
  <2>1. SqlProjection(c, q, bound, pick).unknown = ~ known
    BY DEF SqlProjection, Text
  <2>2. SqlProjection(c, q, bound, pick).rows = IF known THEN kept ELSE {}
    BY DEF SqlProjection, Text
  <2> HIDE DEF known, kept
  <2> QED
    BY <2>1, <2>2
<1>2. fs = {SqlOuter(f) : f \in {f \in ToSet(q.filters) : SqlKeeps(SqlOuter(f))}}
  BY SqlPredicateSet DEF WellFormed
<1>3. ASSUME NEW f \in ToSet(q.filters), f.kind = "CalcGroup", NEW r \in Rows(c)
      PROVE  /\ ~ SqlKeeps(SqlOuter(f))
             /\ Combined(LAMBDA g : AskedOf(c, g, r), f)
  <2>1. SqlOuter(f).kind = "CalcGroup"
    BY <1>3 DEF SqlOuter, WellFormed, WellFormedFilter, IsFilter, Parts
  <2> QED
    BY <1>3, <2>1 DEF SqlKeeps, IsGroup, Combined, AskedOf
<1>4. ASSUME NEW f \in ToSet(q.filters), f.kind # "CalcGroup", NEW r \in Rows(c)
      PROVE  /\ SqlKeeps(SqlOuter(f))
             /\ Combined(LAMBDA g : AskedOf(c, g, r), f)
                  <=> Combined(LAMBDA g : SqlHolds(c, bound, pick, g, r), SqlOuter(f))
  BY <1>4, SqlOuterSame, SqlOfFilter DEF WellFormed, WellPlaced
<1>5. Asked(c, q) = {r \in Rows(c) : \A f \in ToSet(q.filters) :
                       Combined(LAMBDA g : AskedOf(c, g, r), f)}
  BY DEF Asked
<1> HIDE DEF fs
<1>6. ASSUME NEW r \in Rows(c)
      PROVE  (\A f \in fs : Combined(LAMBDA g : SqlHolds(c, bound, pick, g, r), f))
               <=> \A f \in ToSet(q.filters) : Combined(LAMBDA g : AskedOf(c, g, r), f)
  <2> DEFINE Told(f) == Combined(LAMBDA g : SqlHolds(c, bound, pick, g, r), f)
             Asks(f) == Combined(LAMBDA g : AskedOf(c, g, r), f)
  <2>1. ASSUME NEW f \in ToSet(q.filters)
        PROVE  IF f.kind = "CalcGroup" THEN ~ SqlKeeps(SqlOuter(f)) /\ Asks(f)
               ELSE SqlKeeps(SqlOuter(f)) /\ (Asks(f) <=> Told(SqlOuter(f)))
    <3>1. f.kind = "CalcGroup" => ~ SqlKeeps(SqlOuter(f)) /\ Asks(f)
      BY <1>3
    <3>2. f.kind # "CalcGroup" =>
            SqlKeeps(SqlOuter(f)) /\ (Asks(f) <=> Told(SqlOuter(f)))
      BY <1>4
    <3> HIDE DEF Told, Asks
    <3> QED
      BY <3>1, <3>2
  <2> HIDE DEF Told, Asks
  <2>2. (\A f \in fs : Told(f)) <=> \A f \in ToSet(q.filters) : Asks(f)
    BY <1>2, <2>1
  <2> QED
    BY <2>2 DEF Told, Asks
<1> QED
  BY <1>1, <1>5, <1>6

\* A member that MDX can tell is placed at the level it is meant for.
LEMMA MdxOfLeaf ==
  ASSUME server \in Servers, NEW f, IsFilter(f), Placed(f), MdxCanTell(f), NEW r \in Rows(c)
  PROVE  AskedOf(c, f, r)
           <=> \A s \in Sliced(f) : \E l \in LevelsOf(c, s[1]) : c.cells[r][l.key] = s[2]
<1>1. CASE f.kind = "CalcGroup"
  BY <1>1 DEF AskedOf, Sliced
<1>2. CASE f.kind # "CalcGroup"
  <2>1. PICK l \in PlacedAt(f.hier, f.members) :
          f.kind = "MemberLevel" => l.key.label = f.key.label
    BY <1>2 DEF MdxCanTell
  <2>2. /\ f.kind \in {"Member", "MemberLevel"} /\ ~ f.exclude /\ f.exclude \in BOOLEAN
        /\ Len(f.members) = 1 /\ f.members \in Seq(ToSet(f.members))
    BY <1>2 DEF MdxCanTell, IsFilter, IsSequence
  <2> DEFINE v == f.members[1]
  <2>3. ToSet(f.members) = {v}
    <3>1. DOMAIN f.members = 1 .. 1
      BY <2>2
    <3> QED
      BY <3>1 DEF ToSet
  <2> HIDE DEF v
  <2>4. /\ l \in LevelsOf(c, f.hier)
        /\ \A o \in LevelsOf(c, f.hier) \ {l} : c.cells[r][o.key] # v
    BY <2>1, <2>3 DEF PlacedAt
  <2>5. Sliced(f) = {<<f.hier, v>>}
    BY <2>2, <2>3 DEF Sliced
  <2>6. (\A s \in Sliced(f) : \E o \in LevelsOf(c, s[1]) : c.cells[r][o.key] = s[2])
          <=> c.cells[r][l.key] = v
    BY <2>4, <2>5
  <2>7. CASE f.kind = "Member"
    BY <2>1, <2>3, <2>6, <2>7, MemberIsThere
  <2>8. CASE f.kind = "MemberLevel"
    <3>1. Meant(c, Key(f.hier, f.key.label)) = Meant(c, f.key)
          /\ Cardinality(Labelled(c, f.key.label)) = 1
      BY <2>8 DEF Placed
    <3>2. /\ l \in Levels(c) /\ l.key.hier = f.hier /\ l.key.label = f.key.label
          /\ l.key = Key(f.hier, f.key.label)
      BY <2>1, <2>4, <2>8, CatalogIsWellFormed DEF LevelsOf, WellFormedCatalog
    <3>3. l.key \in Labelled(c, f.key.label)
      BY <3>2 DEF Labelled, LevelKeys
    <3>4. Labelled(c, f.key.label) = {l.key}
      BY <3>1, <3>3, LabelledFinite, CatalogIsWellFormed, FS_Singleton
    <3>5. Meant(c, Key(f.hier, f.key.label)) = {l.key}
      BY <3>2, <3>3, <3>4 DEF Meant, Key, LevelKeys
    <3>6. AskedOf(c, f, r) <=> (c.cells[r][l.key] \in ToSet(f.members)) # f.exclude
      BY <2>8, <3>5 DEF AskedOf
    <3>7. AskedOf(c, f, r) <=> c.cells[r][l.key] \in ToSet(f.members)
      BY <2>2, <3>6, NotExcluded
    <3> QED
      BY <2>3, <2>6, <3>7
  <2> QED
    BY <2>2, <2>7, <2>8
<1> QED
  BY <1>1, <1>2

LEMMA MdxKeepsAsked ==
  ASSUME server \in Servers, NEW q, WellFormed(q), WellPlaced(q),
         \A f \in ToSet(q.filters) :
           \/ MdxCanTell(f)
           \/ f.kind = "And" /\ \A g \in ToSet(f.subs) : MdxCanTell(g)
  PROVE  MdxText(c, q, bound).rows = Asked(c, q)
<1> DEFINE Has(r, s) == \E l \in LevelsOf(c, s[1]) : c.cells[r][l.key] = s[2]
           Of(f) == IF IsGroup(f) THEN UNION {Sliced(g) : g \in ToSet(f.subs)}
                    ELSE Sliced(f)
<1>1. ASSUME NEW f, IsFilter(f), Placed(f), MdxCanTell(f), NEW r \in Rows(c)
      PROVE  AskedOf(c, f, r) <=> \A s \in Sliced(f) : Has(r, s)
  BY <1>1, MdxOfLeaf
<1>2. ASSUME NEW f, MdxCanTell(f)
      PROVE  f.kind \in {"CalcGroup", "Member", "MemberLevel"} /\ ~ IsGroup(f)
  BY <1>2 DEF MdxCanTell, IsGroup
<1>3. MdxText(c, q, bound).rows =
        {r \in Rows(c) : \A s \in UNION {Of(f) : f \in ToSet(q.filters)} : Has(r, s)}
  BY DEF MdxText, Slicer, Text
<1>4. Asked(c, q) = {r \in Rows(c) : \A f \in ToSet(q.filters) :
                       Combined(LAMBDA g : AskedOf(c, g, r), f)}
  BY DEF Asked
<1> HIDE DEF Has
<1>5. ASSUME NEW f \in ToSet(q.filters), NEW r \in Rows(c)
      PROVE  Combined(LAMBDA g : AskedOf(c, g, r), f) <=> \A s \in Of(f) : Has(r, s)
  <2>1. /\ f \in Parts(f) /\ \A g \in Parts(f) : IsFilter(g) /\ Placed(g)
        /\ \A g \in ToSet(f.subs) : g \in Parts(f)
    BY DEF Parts, WellFormed, WellFormedFilter, WellPlaced
  <2>2. CASE MdxCanTell(f)
    <3>1. AskedOf(c, f, r) <=> \A s \in Sliced(f) : Has(r, s)
      BY <1>1, <2>1, <2>2
    <3>2. f.kind \in {"CalcGroup", "Member", "MemberLevel"} /\ ~ IsGroup(f)
      BY <1>2, <2>2
    <3> QED
      BY <3>1, <3>2 DEF Combined
  <2>3. CASE f.kind = "And" /\ \A g \in ToSet(f.subs) : MdxCanTell(g)
    <3>1. ASSUME NEW i \in DOMAIN f.subs
          PROVE  /\ f.subs[i] \in ToSet(f.subs)
                 /\ f.subs[i].kind \in {"CalcGroup", "Member", "MemberLevel"}
      BY <1>2, <2>3 DEF ToSet
    <3>2. Combined(LAMBDA g : AskedOf(c, g, r), f)
            <=> \A i \in DOMAIN f.subs : AskedOf(c, f.subs[i], r)
      BY <2>3, <3>1 DEF Combined
    <3>3. (\A i \in DOMAIN f.subs : AskedOf(c, f.subs[i], r))
            <=> \A g \in ToSet(f.subs) : AskedOf(c, g, r)
      BY DEF ToSet
    <3>4. \A g \in ToSet(f.subs) :
            AskedOf(c, g, r) <=> \A s \in Sliced(g) : Has(r, s)
      BY <1>1, <2>1, <2>3
    <3>5. Of(f) = UNION {Sliced(g) : g \in ToSet(f.subs)}
      BY <2>3 DEF IsGroup
    <3> QED
      BY <3>2, <3>3, <3>4, <3>5
  <2> QED
    BY <2>2, <2>3
<1> HIDE DEF Of
<1>6. ASSUME NEW r
      PROVE  (\A s \in UNION {Of(f) : f \in ToSet(q.filters)} : Has(r, s))
               <=> \A f \in ToSet(q.filters) : \A s \in Of(f) : Has(r, s)
  OBVIOUS
<1> QED
  BY <1>3, <1>4, <1>5, <1>6

-----------------------------------------------------------------------------
(***************************************************************************)
(* Every query of a request is well formed: those the clients start with   *)
(* are, and no suggestion makes one that is not.                           *)
(***************************************************************************)
LEMMA InSeq ==
  ASSUME NEW S, NEW s \in Seq(S)
  PROVE  IsSequence(s)
<1>1. DOMAIN s = 1 .. Len(s) /\ Len(s) \in Nat /\ \A i \in 1 .. Len(s) : s[i] \in ToSet(s)
  BY DEF ToSet
<1> QED
  BY <1>1 DEF IsSequence

LEMMA MappedSequence ==
  ASSUME NEW s, IsSequence(s), NEW t, DOMAIN t = DOMAIN s, t = [i \in DOMAIN s |-> t[i]]
  PROVE  IsSequence(t)
<1>1. DOMAIN s = 1 .. Len(s) /\ Len(s) \in Nat
  BY DEF IsSequence
<1>2. \A i \in DOMAIN s : t[i] \in ToSet(t)
  BY DEF ToSet
<1> QED
  BY <1>1, <1>2 DEF IsSequence

LEMMA ChosenSequence ==
  ASSUME NEW s, IsSequence(s), NEW K
  PROVE  IsSequence(Chosen(s, K))
BY ChosenIsRight, InSeq DEF ChosenRight

LEMMA AppendedSequence ==
  ASSUME NEW s, IsSequence(s), NEW e
  PROVE  IsSequence(Append(s, e))
<1>1. s \in Seq(ToSet(s) \cup {e})
  BY DEF IsSequence
<1>2. Append(s, e) \in Seq(ToSet(s) \cup {e})
  BY <1>1
<1> QED
  BY <1>2, InSeq

LEMMA ConsSequence ==
  ASSUME NEW s, IsSequence(s), NEW e
  PROVE  IsSequence(Cons(e, s))
<1>1. s \in Seq(ToSet(s) \cup {e}) /\ <<e>> \in Seq(ToSet(s) \cup {e})
  BY DEF IsSequence
<1>2. <<e>> \o s \in Seq(ToSet(s) \cup {e})
  BY <1>1
<1> QED
  BY <1>2, InSeq DEF Cons

\* A query with other columns, or with other filters.
LEMMA OtherDims ==
  ASSUME NEW q, WellFormed(q), NEW p, DOMAIN p = DOMAIN q, IsSequence(p.measures),
         IsSequence(p.dims), p.filters = q.filters, p.limit = q.limit
  PROVE  WellFormed(p)
BY DEF WellFormed

LEMMA OtherFilters ==
  ASSUME NEW q, WellFormed(q), NEW p, DOMAIN p = DOMAIN q, p.dims = q.dims,
         p.measures = q.measures, p.limit = q.limit,
         p.filters = [i \in DOMAIN q.filters |-> p.filters[i]],
         \A i \in DOMAIN q.filters : WellFormedFilter(p.filters[i])
  PROVE  WellFormed(p)
<1>1. DOMAIN p.filters = DOMAIN q.filters
  OBVIOUS
<1>2. IsSequence(p.filters)
  BY <1>1, MappedSequence DEF WellFormed
<1>3. \A f \in ToSet(p.filters) : WellFormedFilter(f)
  BY <1>1 DEF ToSet
<1> QED
  BY <1>2, <1>3 DEF WellFormed

LEMMA OtherMembers ==
  ASSUME NEW f, WellFormedFilter(f), NEW S, NEW members \in Seq(S)
  PROVE  WellFormedFilter([f EXCEPT !.members = members])
<1> DEFINE h == [f EXCEPT !.members = members]
<1>1. IsFilter(f) /\ f \in Parts(f)
  BY DEF WellFormedFilter, Parts
<1>2. /\ DOMAIN h = DOMAIN f /\ h.members = members /\ h.subs = f.subs
      /\ h.kind = f.kind /\ h.exclude = f.exclude
  BY <1>1 DEF IsFilter
<1> HIDE DEF h
<1>3. IsFilter(h)
  BY <1>1, <1>2, InSeq DEF IsFilter
<1>4. Parts(h) \subseteq {h} \cup Parts(f)
  BY <1>2 DEF Parts
<1> QED
  BY <1>2, <1>3, <1>4 DEF WellFormedFilter, h

LEMMA RevisedIsWellFormed ==
  ASSUME NEW q, WellFormed(q), NEW r, NEW p \in Revisions(c, q, r)
  PROVE  WellFormed(p)
<1>1. IsSequence(q.measures) /\ IsSequence(q.dims)
      /\ "dims" \in DOMAIN q /\ "filters" \in DOMAIN q
      /\ "measures" \in DOMAIN q /\ "limit" \in DOMAIN q
  BY DEF WellFormed
<1>2. \A old, new : IsSequence(Swap(q.dims, old, new))
  BY <1>1, MappedSequence DEF Swap
<1>3. \A e : IsSequence(Without(q.dims, e))
  BY <1>1, ChosenSequence DEF Without
<1>4. \A e : IsSequence(Append(q.dims, e))
  BY <1>1, AppendedSequence
<1>5. ASSUME NEW ds, IsSequence(ds) PROVE WellFormed([q EXCEPT !.dims = ds])
  BY <1>1, <1>5, OtherDims
<1>6. ASSUME NEW ms, IsSequence(ms) PROVE WellFormed([q EXCEPT !.measures = ms])
  BY <1>1, <1>6, OtherDims
<1>7. ASSUME NEW ds, IsSequence(ds), NEW ms, IsSequence(ms)
      PROVE  /\ WellFormed([q EXCEPT !.measures = ms, !.dims = ds])
             /\ WellFormed([q EXCEPT !.dims = ds, !.measures = ms])
  BY <1>1, <1>7, OtherDims
<1>8. ASSUME NEW v
      PROVE  /\ \A f \in ToSet(q.filters) : WellFormedFilter([f EXCEPT !.members = <<v>>])
             /\ \A f \in ToSet(q.filters) : WellFormedFilter([f EXCEPT !.members = <<v, v>>])
  <2>1. <<v>> \in Seq({v}) /\ <<v, v>> \in Seq({v})
    OBVIOUS
  <2> QED
    BY <2>1, OtherMembers DEF WellFormed
<1>9. ASSUME NEW fs, fs = [i \in DOMAIN q.filters |-> fs[i]],
             \A i \in DOMAIN q.filters : WellFormedFilter(fs[i])
      PROVE  WellFormed([q EXCEPT !.filters = fs])
  BY <1>1, <1>9, OtherFilters
<1>10. CASE r.reason \in {"wrong_level", "near_twin", "truncated", "ambiguous"}
  BY <1>2, <1>5, <1>10 DEF Revisions
<1>11. CASE r.reason = "calc_misaggregation"
  BY <1>11 DEF Revisions
<1>12. CASE r.reason = "rederivation"
  <2>1. PICK m, K : p = [q EXCEPT !.measures = Cons(m.name, Chosen(q.measures, K))]
    BY <1>12 DEF Revisions
  <2>2. IsSequence(Cons(m.name, Chosen(q.measures, K)))
    BY <1>1, ChosenSequence, ConsSequence
  <2> QED
    BY <1>6, <2>1, <2>2
<1>13. \A i \in DOMAIN q.filters : WellFormedFilter(q.filters[i])
  BY DEF WellFormed, ToSet
<1>14. CASE r.reason = "member_domain"
  <2> DEFINE Changed(v) == [i \in DOMAIN q.filters |->
                              IF q.filters[i].kind = "Member" /\ q.filters[i].hier = r.at.hier
                              THEN [q.filters[i] EXCEPT !.members = <<v>>] ELSE q.filters[i]]
  <2>1. Revisions(c, q, r) = {[q EXCEPT !.filters = Changed(v)] :
                                v \in UNION {l.domain : l \in SuggestedFrom(c, q, r.at.hier)}}
    BY <1>14 DEF Revisions, OnFilters
  <2>2. PICK v : p = [q EXCEPT !.filters = Changed(v)]
    BY <2>1
  <2>3. \A i \in DOMAIN q.filters : WellFormedFilter(Changed(v)[i])
    BY <1>8, <1>13 DEF ToSet
  <2>4. Changed(v) = [i \in DOMAIN q.filters |-> Changed(v)[i]]
    OBVIOUS
  <2> HIDE DEF Changed
  <2> QED
    BY <1>9, <2>2, <2>3, <2>4
<1>15. CASE r.reason = "range_type"
  <2> DEFINE Changed(v) == [i \in DOMAIN q.filters |->
                              IF q.filters[i].kind = "Range" /\ q.filters[i].key = r.at
                              THEN [q.filters[i] EXCEPT !.members = <<v, v>>] ELSE q.filters[i]]
  <2>1. Revisions(c, q, r) = {[q EXCEPT !.filters = Changed(v)] :
                                v \in {v \in {c.cells[row][r.at] : row \in Rows(c)} :
                                         v[1] = LevelAt(c, r.at).type}}
    BY <1>15 DEF Revisions, OnFilters
  <2>2. PICK v : p = [q EXCEPT !.filters = Changed(v)]
    BY <2>1
  <2>3. \A i \in DOMAIN q.filters : WellFormedFilter(Changed(v)[i])
    BY <1>8, <1>13 DEF ToSet
  <2>4. Changed(v) = [i \in DOMAIN q.filters |-> Changed(v)[i]]
    OBVIOUS
  <2> HIDE DEF Changed
  <2> QED
    BY <1>9, <2>2, <2>3, <2>4
<1>17. CASE r.reason = "role_confusion"
  <2>1. CASE r.at.hier = NoName
    <3>1. Revisions(c, q, r) =
            {[q EXCEPT !.measures = Without(q.measures, r.at.label),
                       !.dims = Append(q.dims, k)] : k \in Labelled(c, r.at.label)}
      BY <1>1, <1>17, <2>1 DEF Revisions
    <3>2. PICK k : p = [q EXCEPT !.measures = Without(q.measures, r.at.label),
                                 !.dims = Append(q.dims, k)]
      BY <3>1
    <3> DEFINE ms == Without(q.measures, r.at.label)
    <3>3. IsSequence(ms)
      BY <1>1, ChosenSequence DEF Without
    <3> HIDE DEF ms
    <3>4. p = [q EXCEPT !.measures = ms, !.dims = Append(q.dims, k)]
      BY <3>2 DEF ms
    <3> QED
      BY <1>4, <1>7, <3>3, <3>4
  <2>2. CASE r.at.hier # NoName
    <3>1. Revisions(c, q, r) = {[q EXCEPT !.dims = Without(q.dims, r.at),
                                          !.measures = Append(q.measures, r.at.hier)]}
      BY <1>1, <1>17, <2>2 DEF Revisions
    <3> DEFINE ds == Without(q.dims, r.at)
    <3>2. IsSequence(ds)
      BY <1>3
    <3> HIDE DEF ds
    <3>3. p = [q EXCEPT !.dims = ds, !.measures = Append(q.measures, r.at.hier)]
      BY <3>1 DEF ds
    <3>4. IsSequence(Append(q.measures, r.at.hier))
      BY <1>1, AppendedSequence
    <3> QED
      BY <1>7, <3>2, <3>3, <3>4
  <2> QED
    BY <2>1, <2>2
<1>18. CASE r.reason = "synthetic_rank"
  <2>1. Revisions(c, q, r) = {[q EXCEPT !.measures = Without(q.measures, r.at.label),
                                        !.dims = Without(q.dims, r.at)]}
    BY <1>1, <1>18 DEF Revisions
  <2> DEFINE ds == Without(q.dims, r.at)
             ms == Without(q.measures, r.at.label)
  <2>2. IsSequence(ds) /\ IsSequence(ms)
    BY <1>1, <1>3, ChosenSequence DEF Without
  <2> HIDE DEF ds, ms
  <2>3. p = [q EXCEPT !.measures = ms, !.dims = ds]
    BY <2>1 DEF ds, ms
  <2> QED
    BY <1>7, <2>2, <2>3
<1>19. CASE r.reason = "co_grain"
  BY <1>3, <1>5, <1>19 DEF Revisions
<1>16. CASE r.reason \notin {"wrong_level", "near_twin", "calc_misaggregation",
             "rederivation", "member_domain", "range_type", "role_confusion",
             "synthetic_rank", "truncated", "ambiguous", "co_grain"}
  BY <1>16 DEF Revisions
<1> QED
  BY <1>10, <1>11, <1>12, <1>14, <1>15, <1>16, <1>17, <1>18, <1>19

-----------------------------------------------------------------------------
(***************************************************************************)
(* What a request carries to its answer: a well-formed query and the text  *)
(* written for it, which names no unknown column once the engine has read  *)
(* it, and a result that is not short of columns.                          *)
(***************************************************************************)
WrittenBy(pick) ==
  \/ backend = "dax" /\ text = DaxText(c, query, bound, pick)
  \/ backend = "mdx" /\ text = MdxText(c, query, bound)
  \/ backend = "sql" /\ text = SqlProjection(c, query, bound, pick)

Answerable ==
  /\ stage \in Compiling \/ reply.kind = "ok" => \E pick \in Picks : WrittenBy(pick)
  /\ stage = "returned" \/ reply.kind = "ok" => ~ text.unknown
  /\ reply.kind = "ok" /\ backend = "dax" => result.empty \/ Complete(query, result)

LEMMA QueryInit == Init => WellFormed(query)
<1>1. << >> \in Seq({}) /\ ToSet(<< >>) = {}
  BY DEF ToSet
<1>2. IsSequence(<< >>)
  BY <1>1, InSeq
<1> QED
  BY <1>1, <1>2 DEF Init, NoQuery, Query, WellFormed

LEMMA QueryStep == Typed /\ WellFormed(query) /\ [Next]_vars => WellFormed(query)'
<1> SUFFICES ASSUME Typed, WellFormed(query), [Next]_vars PROVE WellFormed(query')
  BY DEF WellFormed
<1>1. CASE query' = query
  BY <1>1
<1>2. CASE Submit
  BY <1>2, SetUpAssumption DEF Submit, NewRequest, Typed
<1>3. CASE FollowAdvice
  BY <1>3, RevisedIsWellFormed DEF FollowAdvice, NewRequest
<1>4. CASE Leave
  <2>1. << >> \in Seq({}) /\ ToSet(<< >>) = {}
    BY DEF ToSet
  <2>2. IsSequence(<< >>)
    BY <2>1, InSeq
  <2> QED
    BY <1>4, <2>1, <2>2 DEF Leave, NewRequest, NoQuery, Query, WellFormed
<1>5. CASE Admit
  <2>1. CASE query' = [query EXCEPT !.model = TheOnly(Cubes(query))]
    BY <2>1, OtherDims DEF WellFormed
  <2> QED
    BY <1>1, <1>5, <2>1 DEF Admit, Refuse, request
<1>6. Next /\ ~ (Submit \/ FollowAdvice \/ Leave \/ Admit) => query' = query
  BY DEF Next, Probe, RefreshHealth, PortChanges, ClusterChanges, Check, ToolFails,
     Bind, Route, Compile, Ask, EngineFails, EngineAnswers, Deliver, Refuse, request
<1>7. UNCHANGED vars => query' = query
  BY DEF vars
<1> QED
  BY <1>1, <1>2, <1>3, <1>4, <1>5, <1>6, <1>7

LEMMA PicksStay == c' = c => Picks' = Picks
<1> DEFINE PicksOf(cat) ==
             LET shared == {l \in Captions(cat) : Cardinality(Labelled(cat, l)) > 1}
             IN {[l \in Captions(cat) |->
                    IF l \in shared THEN s[l] ELSE TheOnly(Labelled(cat, l))] :
                   s \in {s \in [shared -> LevelKeys(cat)] :
                            \A l \in shared : s[l].label = l}}
<1>1. Picks = PicksOf(c)
  BY DEF Picks
<1>2. Picks' = PicksOf(c')
  BY DEF Picks
<1> HIDE DEF PicksOf
<1> QED
  BY <1>1, <1>2

LEMMA AnswerableStep == IInv /\ Answerable /\ [Next]_vars => Answerable'
<1> SUFFICES ASSUME IInv, Answerable, [Next]_vars PROVE Answerable'
  OBVIOUS
<1>0. c' = c /\ Picks' = Picks
  BY ServerStays, PicksStay
<1> USE DEF Compiling
<1>1. CASE stage' \notin Compiling /\ reply'.kind # "ok"
  BY <1>1 DEF Answerable
<1>2. CASE UNCHANGED <<stage, reply, request>>
  BY <1>0, <1>2 DEF Answerable, WrittenBy, Complete, request
<1>3. CASE Compile /\ stage' = "compiled"
  <2>1. PICK pick \in Picks :
          /\ Compiled(backend, pick) # {} /\ Compiled(backend, pick) # {NoTextOf("sql")}
          /\ text' = TheOnly(Compiled(backend, pick))
          /\ stage = "routed" /\ UNCHANGED <<query, bound, backend, reply>>
    BY <1>3 DEF Compile, Refuse, Reply, GoesOn, CompileCode
  <2>2. backend \in Backends
    BY <2>1 DEF IInv, Decided
  <2>3. \A t : TheOnly({t}) = t
    BY DEF TheOnly
  <2>4. WrittenBy(pick)'
    BY <1>0, <2>1, <2>2, <2>3 DEF Compiled, WrittenBy, Backends
  <2>5. reply'.kind # "ok"
    BY <2>1 DEF IInv, Answering
  <2> QED
    BY <1>0, <1>3, <2>4, <2>5 DEF Answerable
<1>4. CASE Ask
  <2>1. /\ stage = "compiled" /\ stage' = "asked" /\ UNCHANGED <<reply, request>>
        /\ reply.kind = "none"
    BY <1>4 DEF Ask, GoesOn, IInv, Answering
  <2> QED
    BY <1>0, <2>1 DEF Answerable, WrittenBy, request
<1>5. CASE EngineAnswers
  <2>1. /\ stage = "asked" /\ stage' = "returned" /\ ~ text.unknown
        /\ UNCHANGED <<reply, query, bound, backend, text>> /\ reply.kind = "none"
    BY <1>5 DEF EngineAnswers, GoesOn, IInv, Answering
  <2> QED
    BY <1>0, <2>1 DEF Answerable, WrittenBy
<1>6. CASE Deliver
  <2>1. /\ stage = "returned" /\ stage' = "answered" /\ UNCHANGED request
        /\ reply'.kind = "ok" => ~ LosesColumns
    BY <1>6 DEF Deliver, Reply, Answered
  <2> QED
    BY <1>0, <2>1 DEF Answerable, WrittenBy, LosesColumns, Complete, request
<1>7. CASE Probe \/ RefreshHealth \/ Submit \/ FollowAdvice \/ Leave
  <2>1. stage' \notin Compiling /\ reply'.kind # "ok"
    BY <1>7 DEF Probe, RefreshHealth, Submit, FollowAdvice, Leave, NewRequest, Answered,
       IInv, Answering
  <2> QED
    BY <1>1, <2>1
<1>8. ASSUME NEW code, Refuse(code) PROVE Answerable'
  BY <1>1, <1>8 DEF Refuse, Reply, Answered
<1>9. ASSUME NEW next \in {"admitted", "checked", "bound", "routed"}, GoesOn(next),
             stage # "answered"
      PROVE  Answerable'
  BY <1>1, <1>9 DEF GoesOn, IInv, Answering
<1>10. CASE Admit \/ Check \/ ToolFails \/ Bind \/ Route
  BY <1>8, <1>9, <1>10 DEF Admit, Check, ToolFails, Bind, Route
<1>11. CASE Compile
  BY <1>3, <1>8, <1>11 DEF Compile, GoesOn
<1>12. CASE EngineFails
  BY <1>1, <1>12 DEF EngineFails, Reply, Answered
<1>13. CASE PortChanges \/ ClusterChanges \/ UNCHANGED vars
  BY <1>2, <1>13 DEF PortChanges, ClusterChanges, request, vars
<1> QED
  BY <1>4, <1>5, <1>6, <1>7, <1>10, <1>11, <1>12, <1>13 DEF Next

\* An answer to a well-placed query is the answer to that query over every
\* backend: DaxText, MdxText and SqlProjection keep the rows its filters ask
\* for, whichever level the compiler's hash map yields for a shared label
\* (canonical_level_key), and verify_returned_columns lets no DAX row pass that
\* is short of a column.
THEOREM AnswersAreRight == Spec => []AnswersWhatWasAsked
<1>1. Init => Answerable
  BY DEF Init, Answerable, Compiling, Answered
<1>2. IInv /\ WellFormed(query) /\ Answerable => AnswersWhatWasAsked
  <2> SUFFICES ASSUME IInv, WellFormed(query), Answerable,
                      reply.kind = "ok", WellPlaced(query), CanTell(query)
               PROVE  /\ text.rows = Asked(c, query)
                      /\ backend = "dax" => result.empty \/ Complete(query, result)
    BY DEF AnswersWhatWasAsked
  <2>1. PICK pick \in Picks : WrittenBy(pick)
    BY DEF Answerable
  <2>2. server \in Servers
    BY DEF IInv, Typed
  <2>3. CASE backend = "dax"
    <3>1. text = DaxText(c, query, bound, pick)
      BY <2>1, <2>3 DEF WrittenBy
    <3> QED
      BY <2>2, <2>3, <3>1, DaxKeepsAsked DEF Answerable
  <2>4. CASE backend = "mdx"
    <3>1. text = MdxText(c, query, bound)
      BY <2>1, <2>4 DEF WrittenBy
    <3>2. ASSUME NEW f \in ToSet(query.filters)
          PROVE  \/ MdxCanTell(f)
                 \/ f.kind = "And" /\ \A g \in ToSet(f.subs) : MdxCanTell(g)
      BY <2>4 DEF CanTell
    <3> QED
      BY <2>2, <2>4, <3>1, <3>2, MdxKeepsAsked
  <2>5. CASE backend = "sql"
    <3>1. text = SqlProjection(c, query, bound, pick) /\ ~ text.unknown
      BY <2>1, <2>5 DEF WrittenBy, Answerable
    <3>2. \A f \in ToSet(query.filters) : SqlTells(f)
      BY <2>5 DEF CanTell, SqlTells
    <3> QED
      BY <2>2, <2>5, <3>1, <3>2, SqlKeepsAsked
  <2> QED
    BY <2>1, <2>3, <2>4, <2>5 DEF WrittenBy
<1>3. IInv => Typed
  BY DEF IInv
<1> QED
  BY <1>1, <1>2, <1>3, QueryInit, QueryStep, AnswerableStep, Invariance, PTL DEF Spec

-----------------------------------------------------------------------------
(***************************************************************************)
(* A projection of one hierarchy without filters that the guard admits has *)
(* its base, the largest member count of its levels, within the cap.       *)
(***************************************************************************)
LEMMA BoundedList ==
  ASSUME NEW n \in Nat, NEW f \in [1 .. n -> Nat]
  PROVE  \E b \in Nat : \A i \in 1 .. n : f[i] <= b
<1> DEFINE Bad == {k \in 0 .. n : ~ \E b \in Nat : \A i \in 1 .. k : f[i] <= b}
<1>1. SUFFICES ASSUME n \in Bad PROVE FALSE
  OBVIOUS
<1>2. PICK k \in Bad : \A j \in Bad : k <= j
  <2>1. Bad \in SUBSET Nat
    OBVIOUS
  <2> HIDE DEF Bad
  <2> QED
    BY <1>1, <2>1, LeastIndex
<1>3. k # 0
  <2>1. \A i \in 1 .. 0 : f[i] <= 0
    OBVIOUS
  <2> QED
    BY <2>1
<1>4. k - 1 \in 0 .. n /\ (k - 1) \notin Bad /\ k \in 1 .. n
  <2>1. k \in 0 .. n
    OBVIOUS
  <2>2. k - 1 \in 0 .. n /\ k \in 1 .. n /\ ~ (k <= k - 1)
    BY <1>3, <2>1
  <2> HIDE DEF Bad
  <2> QED
    BY <1>2, <2>2
<1>5. PICK b \in Nat : \A i \in 1 .. k - 1 : f[i] <= b
  BY <1>4
<1>6. \A i \in 1 .. k : f[i] <= b + f[k]
  BY <1>4, <1>5
<1>7. b + f[k] \in Nat
  BY <1>4
<1> QED
  BY <1>2, <1>6, <1>7

LEMMA GreatestCount ==
  ASSUME NEW S \in SUBSET Nat, S # {}, NEW b \in Nat, \A x \in S : x <= b
  PROVE  Max(S) \in S /\ \A x \in S : x <= Max(S)
<1> DEFINE B == {m \in Nat : \A x \in S : x <= m}
<1>1. PICK m \in B : \A j \in B : m <= j
  <2>1. B \in SUBSET Nat /\ b \in B
    OBVIOUS
  <2> HIDE DEF B
  <2> QED
    BY <2>1, LeastIndex
<1>2. m \in S
  <2> SUFFICES ASSUME m \notin S PROVE FALSE
    OBVIOUS
  <2>1. PICK x \in S : TRUE
    OBVIOUS
  <2>2. \A y \in S : y <= m - 1
    BY <1>1
  <2>3. m - 1 \in Nat
    BY <1>1, <2>1, <2>2
  <2>4. m - 1 \in B
    BY <2>2, <2>3
  <2> QED
    BY <1>1, <2>4
<1>3. \A y \in S : m >= y
  BY <1>1
<1> QED
  BY <1>2, <1>3 DEF Max

LEMMA KnownMembersType ==
  ASSUME NEW cat, WellFormedCatalog(cat), NEW key
  PROVE  KnownMembers(cat, key) \in Nat
<1>1. CASE key \notin LevelKeys(cat)
  BY <1>1 DEF KnownMembers
<1>2. CASE key \in LevelKeys(cat)
  <2> DEFINE l == LevelAt(cat, key)
  <2>1. l \in Levels(cat)
    BY <1>2 DEF LevelAt, LevelKeys
  <2>2. l.card \in Nat /\ IsFiniteSet(l.domain)
    BY <2>1 DEF WellFormedCatalog
  <2>3. Cardinality(l.domain) \in Nat
    BY <2>2, FS_CardinalityType
  <2> HIDE DEF l
  <2>4. KnownMembers(cat, key) = IF l.card > 0 THEN l.card ELSE Cardinality(l.domain)
    BY <1>2 DEF KnownMembers, l
  <2> QED
    BY <2>2, <2>3, <2>4
<1> QED
  BY <1>1, <1>2

LEMMA BaseType ==
  ASSUME NEW cat, WellFormedCatalog(cat), NEW q, IsSequence(q.dims), NEW hier,
         ProjectedLevels(q, hier) # {}
  PROVE  Base(cat, q, hier) \in Nat
<1> DEFINE n == Len(q.dims)
           f == [i \in 1 .. n |-> KnownMembers(cat, q.dims[i])]
           S == {KnownMembers(cat, d) : d \in ProjectedLevels(q, hier)}
<1>1. n \in Nat /\ DOMAIN q.dims = 1 .. n
  BY DEF IsSequence
<1>2. f \in [1 .. n -> Nat]
  BY KnownMembersType
<1>3. PICK b \in Nat : \A i \in 1 .. n : f[i] <= b
  BY <1>1, <1>2, BoundedList
<1>4. S \in SUBSET Nat /\ S # {}
  BY KnownMembersType
<1>5. \A x \in S : x <= b
  BY <1>1, <1>3 DEF ProjectedLevels, ToSet
<1>6. Max(S) \in S
  <2> HIDE DEF S
  <2> QED
    BY <1>4, <1>5, GreatestCount
<1> QED
  BY <1>4, <1>6 DEF Base

LEMMA SoleHierarchy ==
  ASSUME NEW q, IsSequence(q.dims), q.dims # << >>, NEW hier,
         \A d \in ToSet(q.dims) : d.hier = hier
  PROVE  HierarchyOrder(q) = <<hier>>
<1> DEFINE s == [i \in DOMAIN q.dims |-> q.dims[i].hier]
           firsts == {i \in DOMAIN q.dims :
                        \A j \in 1 .. i - 1 : q.dims[j].hier # q.dims[i].hier}
<1>1. DOMAIN q.dims = 1 .. Len(q.dims) /\ Len(q.dims) \in Nat
  BY DEF IsSequence
<1>2. 1 \in DOMAIN q.dims
  BY <1>1, NotEmpty
<1>3. \A i \in DOMAIN q.dims : q.dims[i].hier = hier
  BY DEF ToSet
<1>4. firsts = {1}
  BY <1>1, <1>2, <1>3
<1>5. IsSequence(s) /\ DOMAIN s = DOMAIN q.dims /\ Len(s) = Len(q.dims) /\ s[1] = hier
  <2>1. DOMAIN s = DOMAIN q.dims /\ s = [i \in DOMAIN q.dims |-> s[i]] /\ s[1] = hier
    BY <1>2, <1>3
  <2> HIDE DEF s
  <2>2. IsSequence(s)
    BY <2>1, MappedSequence
  <2> QED
    BY <1>1, <2>1, <2>2 DEF IsSequence
<1>6. firsts \cap 1 .. Len(s) = {1}
  BY <1>1, <1>2, <1>4, <1>5
<1>7. Chosen(s, firsts) = <<s[1]>>
  <2> HIDE DEF s, firsts
  <2> QED
    BY <1>5, <1>6, ChosenIsRight DEF ChosenRight
<1> QED
  BY <1>5, <1>7 DEF HierarchyOrder

LEMMA SoleGroup ==
  ASSUME NEW cat, NEW q, NEW cap, NEW hier
  PROVE  Groups(cat, q, cap, <<hier>>) =
           NextGroup(q, cap, [ok |-> TRUE, total |-> 1, advisory |-> FALSE],
                     GroupEstimate(cat, q, hier, cap))
<1> DEFINE first == [ok |-> TRUE, total |-> 1, advisory |-> FALSE]
           Step(g, i) == IF i = 0 THEN first
                         ELSE NextGroup(q, cap, g[i - 1],
                                        GroupEstimate(cat, q, <<hier>>[i], cap))
           Is(g) == g = [i \in 0 .. 1 |-> Step(g, i)]
           end == NextGroup(q, cap, first, GroupEstimate(cat, q, hier, cap))
<1>1. Is([i \in 0 .. 1 |-> IF i = 0 THEN first ELSE end])
  <2> DEFINE g == [i \in 0 .. 1 |-> IF i = 0 THEN first ELSE end]
  <2>1. ASSUME NEW i \in 0 .. 1 PROVE g[i] = Step(g, i)
    <3>1. CASE i = 0
      BY <3>1
    <3>2. CASE i = 1
      <4>1. g[0] = first /\ g[1] = end /\ i - 1 = 0 /\ <<hier>>[1] = hier
        BY <3>2
      <4> HIDE DEF g, first
      <4> QED
        BY <3>2, <4>1
    <3> QED
      BY <3>1, <3>2
  <2> HIDE DEF Step, first, end
  <2> QED
    BY <2>1
<1>2. Is(CHOOSE g : Is(g))
  <2> HIDE DEF Is
  <2> QED
    BY <1>1
<1> DEFINE groups == CHOOSE g : Is(g)
<1>3. Groups(cat, q, cap, <<hier>>) = groups[1]
  <2>1. Len(<<hier>>) = 1
    OBVIOUS
  <2> QED
    BY <2>1 DEF Groups
<1> HIDE DEF groups
<1>4. groups = [i \in 0 .. 1 |-> Step(groups, i)]
  BY <1>2 DEF groups
<1>5. groups[0] = Step(groups, 0) /\ groups[1] = Step(groups, 1)
  <2> HIDE DEF Step
  <2> QED
    BY <1>4
<1>6. groups[0] = first /\ 1 - 1 = 0 /\ <<hier>>[1] = hier
  BY <1>5
<1> HIDE DEF first
<1>7. Step(groups, 1) = end
  BY <1>6
<1> QED
  BY <1>3, <1>5, <1>7 DEF first

LEMMA Unreduced ==
  ASSUME NEW q, q.filters = << >>, NEW n
  PROVE  Reduced(q, n) = n
<1> DEFINE lists  == [i \in DOMAIN q.filters |-> Leaves(q.filters[i])]
           leaves == FlattenSeq(lists)
           projected == {d.hier : d \in ToSet(q.dims)}
           Apply(m, f) ==
             CASE f.hier \in projected -> m
               [] f.kind = "Range" -> AtLeastOne(m \div 10)
               [] f.kind \in {"Member", "MemberLevel"} /\ ~ f.exclude ->
                    IF Len(f.members) < m THEN AtLeastOne(Len(f.members)) ELSE m
               [] OTHER -> m
           Step(g, i) == IF i = 0 THEN n ELSE Apply(g[i - 1], leaves[i])
           Is(g) == g = [i \in 0 .. Len(leaves) |-> Step(g, i)]
           reduced == CHOOSE g : Is(g)
<1>1. Len(leaves) = 0
  <2>1. lists = << >>
    OBVIOUS
  <2>2. Len(lists) = 0
    BY <2>1
  <2> HIDE DEF lists
  <2> QED
    BY <2>2 DEF FlattenSeq
<1>2. Reduced(q, n) = reduced[Len(leaves)]
  BY DEF Reduced
<1> HIDE DEF leaves, lists, Apply
<1>3. Is([i \in 0 .. 0 |-> n])
  BY <1>1
<1> HIDE DEF Is
<1>4. Is(reduced)
  BY <1>3
<1>5. reduced = [i \in 0 .. 0 |-> Step(reduced, i)]
  BY <1>1, <1>4 DEF Is
<1> HIDE DEF reduced
<1>6. reduced[0] = n
  BY <1>5
<1> QED
  BY <1>1, <1>2, <1>6

LEMMA BaseIsEstimated ==
  ASSUME NEW cat, NEW q, q.filters = << >>, NEW hier, NEW cap,
         Base(cat, q, hier) \in Nat
  PROVE  GroupEstimate(cat, q, hier, cap) =
           IF Base(cat, q, hier) = 0 THEN {} ELSE {Base(cat, q, hier)}
<1> DEFINE base == Base(cat, q, hier)
<1>1. FilterEstimates(cat, q, hier, cap) = {}
  <2>1. ToSet(q.filters) = {}
    BY DEF ToSet
  <2> QED
    BY <2>1 DEF FilterEstimates
<1>2. GroupEstimate(cat, q, hier, cap) = Least({base} \ {0})
  BY <1>1 DEF GroupEstimate
<1> HIDE DEF base
<1>3. CASE base = 0
  BY <1>2, <1>3 DEF Least, base
<1>4. CASE base # 0
  <2>1. {base} \ {0} = {base} /\ Min({base}) = base
    BY <1>4 DEF Min, base
  <2>2. Least({base}) = {AtLeastOne(base)}
    BY <2>1 DEF Least
  <2> QED
    BY <1>2, <1>4, <2>1, <2>2 DEF AtLeastOne, base
<1> QED
  BY <1>3, <1>4

LEMMA GuardBounds ==
  ASSUME NEW cat, WellFormedCatalog(cat), NEW q, WellFormed(q), q.dims # << >>,
         q.filters = << >>, NEW hier, \A d \in ToSet(q.dims) : d.hier = hier,
         NEW cap \in Nat, WithinCardinality(cat, q, cap)
  PROVE  Base(cat, q, hier) <= cap
<1> DEFINE base == Base(cat, q, hier)
           est == GroupEstimate(cat, q, hier, cap)
           first == [ok |-> TRUE, total |-> 1, advisory |-> FALSE]
           end == NextGroup(q, cap, first, est)
<1>1. base \in Nat
  <2>1. 1 \in DOMAIN q.dims
    <3>1. DOMAIN q.dims = 1 .. Len(q.dims) /\ Len(q.dims) \in Nat /\ DOMAIN q.dims # {}
      BY NotEmpty DEF WellFormed, IsSequence
    <3> QED
      BY <3>1
  <2>2. q.dims[1] \in ProjectedLevels(q, hier)
    BY <2>1 DEF ProjectedLevels, ToSet
  <2> QED
    BY <2>2, BaseType DEF WellFormed
<1>2. HierarchyOrder(q) = <<hier>>
  BY SoleHierarchy DEF WellFormed
<1>3. Within(q, cap, end)
  BY <1>2, SoleGroup DEF WithinCardinality
<1>4. est = IF base = 0 THEN {} ELSE {base}
  BY <1>1, BaseIsEstimated
<1> HIDE DEF base, est
<1>5. SUFFICES ASSUME base > cap PROVE FALSE
  BY <1>1 DEF base
<1>6. est = {base} /\ est # {} /\ Min(est) = base
  BY <1>1, <1>4, <1>5 DEF Min
<1>7. end = TakeGroup(q, cap, first, base)
  BY <1>6 DEF NextGroup
<1>8. cap > 0 /\ end.ok
  BY <1>3 DEF Within
<1>9. Reduced(q, first.total * base) = base
  BY <1>1, Unreduced
<1>10. ~ (Reduced(q, first.total * base) <= cap)
  BY <1>1, <1>5, <1>9
<1>11. end = [first EXCEPT !.ok = FALSE]
  <2> HIDE DEF first, end
  <2> QED
    BY <1>1, <1>5, <1>7, <1>8, <1>10 DEF TakeGroup
<1>12. ~ end.ok
  BY <1>11
<1> QED
  BY <1>8, <1>12

-----------------------------------------------------------------------------
(***************************************************************************)
(* The query that was admitted is the query that is sent, its model        *)
(* coordinate apart, which the guard does not look at.                     *)
(***************************************************************************)
Fits(q) ==
  IsProjection(q) /\ q.filters = << >> =>
    \/ q.limit \in 1 .. setup.cap
    \/ \A hier : (\A d \in ToSet(q.dims) : d.hier = hier) => Base(c, q, hier) <= setup.cap

Fitting ==
  stage \in {"admitted", "checked", "bound", "routed"} \cup Compiling => Fits(query)

LEMMA AdmittedFits ==
  ASSUME server \in Servers, WellFormed(query), Guard(query) = "Admit"
  PROVE  Fits(query)
<1> SUFFICES ASSUME IsProjection(query), query.filters = << >>,
                    query.limit \notin 1 .. setup.cap,
                    NEW hier, \A d \in ToSet(query.dims) : d.hier = hier
             PROVE  Base(c, query, hier) <= setup.cap
  BY DEF Fits
<1>1. WellFormedCatalog(c) /\ setup.cap \in Nat
  BY CatalogIsWellFormed
<1>2. GuardVerdict(c, query, setup.cap) = "Admit"
  BY DEF Guard, IsGuarded, IsProjection
<1>3. WithinCardinality(c, query, setup.cap)
  BY <1>1, <1>2 DEF GuardVerdict, WellFormed, NoLimit
<1> QED
  BY <1>1, <1>3, GuardBounds DEF IsProjection

LEMMA FittingStep == Typed /\ WellFormed(query) /\ Fitting /\ [Next]_vars => Fitting'
<1> SUFFICES ASSUME Typed, WellFormed(query), Fitting, [Next]_vars PROVE Fitting'
  OBVIOUS
<1>0. c' = c /\ setup' = setup /\ server \in Servers
  BY ServerStays DEF Typed
<1> DEFINE Admitted == {"admitted", "checked", "bound", "routed"} \cup Compiling
<1>1. CASE stage' \notin Admitted
  BY <1>1 DEF Fitting, Compiling
<1>2. ASSUME NEW q, Fits(q) PROVE Fits(q)'
  BY <1>0, <1>2 DEF Fits
<1>3. CASE stage \in Admitted /\ query' = query
  <2>1. Fits(query)
    BY <1>3 DEF Fitting
  <2> QED
    BY <1>0, <1>3, <2>1 DEF Fits, Fitting
<1>4. CASE Admit
  <2> DEFINE code(arg) == AdmitCode(query, arg, Guard(query))
  <2>1. PICK arg \in ClusterArgs :
          \/ Refuse(code(arg))
          \/ /\ code(arg) = "ok" /\ stage' = "admitted"
             /\ query' \in {query, [query EXCEPT !.model = TheOnly(Cubes(query))]}
    BY <1>4 DEF Admit, GoesOn
  <2>2. CASE Refuse(code(arg))
    BY <1>1, <2>2 DEF Refuse, Reply, Compiling
  <2>3. CASE /\ code(arg) = "ok" /\ stage' = "admitted"
             /\ query' \in {query, [query EXCEPT !.model = TheOnly(Cubes(query))]}
    <3>1. Guard(query) = "Admit"
      BY <2>1, <2>3 DEF AdmitCode, Guard, GuardVerdict
    <3>2. Fits(query)
      BY <1>0, <3>1, AdmittedFits
    <3>3. /\ query'.dims = query.dims /\ query'.filters = query.filters
          /\ query'.limit = query.limit /\ query'.measures = query.measures
          /\ query'.projection = query.projection
      BY <2>3 DEF WellFormed
    <3>4. \A hier : Base(c, query', hier) = Base(c, query, hier)
      BY <3>3 DEF Base, ProjectedLevels
    <3> QED
      BY <1>0, <3>2, <3>3, <3>4 DEF Fits, Fitting, IsProjection
  <2> QED
    BY <2>1, <2>2, <2>3
<1>5. CASE Probe \/ RefreshHealth \/ Submit \/ FollowAdvice \/ Leave \/ EngineFails \/ Deliver
  BY <1>1, <1>5 DEF Probe, RefreshHealth, Submit, FollowAdvice, Leave, EngineFails,
     Deliver, Reply, Compiling
<1>6. CASE PortChanges \/ ClusterChanges \/ UNCHANGED vars
  BY <1>1, <1>3, <1>6 DEF PortChanges, ClusterChanges, vars, request
<1>7. CASE Check \/ ToolFails \/ Bind \/ Route \/ Compile
  <2>1. query' = query
    BY <1>7 DEF Check, ToolFails, Bind, Route, Compile, Refuse, request
  <2>2. stage \in Admitted
    BY <1>7 DEF Check, ToolFails, Bind, Route, Compile
  <2> QED
    BY <1>3, <2>1, <2>2
<1>8. CASE Ask \/ EngineAnswers
  BY <1>3, <1>8 DEF Ask, EngineAnswers, request, Compiling
<1> QED
  BY <1>4, <1>5, <1>6, <1>7, <1>8 DEF Next

\* A projection of one hierarchy that the guard admitted returns no more rows
\* than the cap, or has a limit within it, when the member counts of the
\* catalog are true (check_projection_guard): no step after the guard changes
\* what it looked at.
THEOREM ProjectionsAreBounded == Spec => []ProjectionBounded
<1>1. Init => Fitting
  BY DEF Init, Fitting, Compiling
<1>2. Typed /\ WellFormed(query) /\ Fitting => ProjectionBounded
  <2> SUFFICES ASSUME Typed, WellFormed(query), Fitting,
                      stage \in Compiling, IsProjection(query), TrueCounts(query),
                      query.limit \notin 1 .. setup.cap
               PROVE  Cardinality(DistinctRows(c, query)) <= setup.cap
    BY DEF ProjectionBounded
  <2> DEFINE hiers == {d.hier : d \in ToSet(query.dims)}
             rows == DistinctRows(c, query)
  <2>1. WellFormedCatalog(c) /\ setup.cap \in Nat
    BY CatalogIsWellFormed DEF Typed
  <2>2. IsSequence(query.dims) /\ query.dims # << >>
    BY DEF WellFormed, IsProjection
  <2>3. PICK d \in ToSet(query.dims) : TRUE
    BY <2>2, NotEmpty DEF ToSet
  <2>4. hiers = {d.hier} /\ TheOnly(hiers) = d.hier
    <3>1. IsFiniteSet(hiers)
      <4> DEFINE n == Len(query.dims)
                 f == [i \in 1 .. n |-> query.dims[i].hier]
      <4>1. n \in Nat /\ DOMAIN query.dims = 1 .. n
        BY <2>2 DEF IsSequence
      <4>2. f \in Surjection(1 .. n, hiers)
        BY <4>1 DEF Surjection, ToSet
      <4> HIDE DEF f, hiers
      <4> QED
        BY <4>1, <4>2, FS_NatSurjection DEF ExistsSurjection
    <3>2. Cardinality(hiers) = 1
      BY DEF TrueCounts
    <3>3. PICK h : hiers = {h}
      <4> HIDE DEF hiers
      <4> QED
        BY <3>1, <3>2, FS_Singleton
    <3>4. d.hier \in hiers
      OBVIOUS
    <3> HIDE DEF hiers
    <3> QED
      BY <3>3, <3>4 DEF TheOnly
  <2>5. Base(c, query, d.hier) <= setup.cap
    <3>1. Fits(query) /\ query.filters = << >>
      BY DEF Fitting, TrueCounts
    <3>2. \A e \in ToSet(query.dims) : e.hier = d.hier
      BY <2>4
    <3> QED
      BY <3>1, <3>2 DEF Fits
  <2>6. Cardinality(rows) <= Base(c, query, d.hier)
    BY <2>4 DEF TrueCounts
  <2>7. Base(c, query, d.hier) \in Nat
    BY <2>1, <2>2, <2>3, BaseType DEF ProjectedLevels
  <2>8. IsFiniteSet(rows)
    <3> DEFINE Values(r) == [k \in ToSet(query.dims) |-> c.cells[r][k]]
               f == [r \in Asked(c, query) |-> Values(r)]
    <3>1. IsFiniteSet(Asked(c, query))
      <4>1. DOMAIN c.cells = 1 .. Len(c.cells) /\ Len(c.cells) \in Nat
        BY <2>1 DEF WellFormedCatalog, IsSequence
      <4>2. IsFiniteSet(Rows(c))
        BY <4>1, FS_Interval DEF Rows
      <4>3. Asked(c, query) \subseteq Rows(c)
        BY DEF Asked
      <4> QED
        BY <4>2, <4>3, FS_Subset
    <3>2. rows = {Values(r) : r \in Asked(c, query)}
      BY DEF DistinctRows
    <3> HIDE DEF Values
    <3>3. f \in Surjection(Asked(c, query), rows)
      BY <3>2 DEF Surjection
    <3> HIDE DEF f, rows
    <3> QED
      BY <3>1, <3>3, FS_Surjection
  <2>9. Cardinality(rows) \in Nat
    BY <2>8, FS_CardinalityType
  <2> HIDE DEF rows
  <2>10. Cardinality(rows) <= setup.cap
    BY <2>1, <2>5, <2>6, <2>7, <2>9
  <2> QED
    BY <2>10 DEF rows
<1>3. IInv => Typed
  BY DEF IInv
<1> QED
  BY <1>1, <1>2, <1>3, QueryInit, QueryStep, FittingStep, Invariance, PTL DEF Spec

-----------------------------------------------------------------------------
(***************************************************************************)
(* Sums of weights up to 7, as the number of units under a graph; the      *)
(* units of Bar(k) stand for a weight that is added.                       *)
(***************************************************************************)
Units(n, w) == {u \in (1 .. n) \X (1 .. 7) : u[2] <= w[u[1]]}
Size(n, w) == Cardinality(Units(n, w))
Weights(n) == [1 .. n -> 0 .. 7]

Bar(k) == {0} \X (1 .. k)

LEMMA UnitsFinite ==
  \A n \in Nat : \A w : IsFiniteSet(Units(n, w)) /\ Size(n, w) \in Nat
<1> SUFFICES ASSUME NEW n \in Nat, NEW w
             PROVE  IsFiniteSet(Units(n, w)) /\ Size(n, w) \in Nat
  OBVIOUS
<1>1. IsFiniteSet((1 .. n) \X (1 .. 7))
  <2>1. IsFiniteSet(1 .. n) /\ IsFiniteSet(1 .. 7)
    <3>1. 1 \in Int /\ n \in Int /\ 7 \in Int
      OBVIOUS
    <3> QED
      BY <3>1, FS_Interval
  <2> QED
    BY <2>1, FS_Product
<1>2. IsFiniteSet(Units(n, w))
  BY <1>1, FS_Subset DEF Units
<1> QED
  BY <1>2, FS_CardinalityType DEF Size

LEMMA BarSize == \A k \in Nat : IsFiniteSet(Bar(k)) /\ Cardinality(Bar(k)) = k
<1> SUFFICES ASSUME NEW k \in Nat
             PROVE  IsFiniteSet(Bar(k)) /\ Cardinality(Bar(k)) = k
  OBVIOUS
<1> DEFINE f == [i \in 1 .. k |-> <<0, i>>]
<1>1. f \in Bijection(1 .. k, Bar(k))
  <2>1. \A i \in 1 .. k : f[i] \in Bar(k)
    BY DEF Bar
  <2>2. \A b \in Bar(k) : b[2] \in 1 .. k /\ f[b[2]] = b
    BY DEF Bar
  <2> QED
    BY <2>1, <2>2 DEF Bijection, Injection, Surjection, IsInjective
<1>2. IsFiniteSet(1 .. k) /\ Cardinality(1 .. k) = k
  BY FS_Interval
<1> HIDE DEF f
<1>3. ExistsBijection(1 .. k, Bar(k))
  BY <1>1 DEF ExistsBijection
<1> QED
  BY <1>2, <1>3, FS_Bijection

LEMMA UnitsAndBar ==
  ASSUME NEW n \in Nat, NEW w, NEW k \in Nat
  PROVE  /\ IsFiniteSet(Units(n, w) \cup Bar(k))
         /\ Cardinality(Units(n, w) \cup Bar(k)) = Size(n, w) + k
<1>1. Units(n, w) \cap Bar(k) = {}
  BY DEF Units, Bar
<1>2. Cardinality(Units(n, w) \cap Bar(k)) = 0
  BY <1>1, FS_EmptySet
<1>3. /\ IsFiniteSet(Units(n, w) \cup Bar(k))
      /\ Cardinality(Units(n, w) \cup Bar(k)) =
           Cardinality(Units(n, w)) + Cardinality(Bar(k))
             - Cardinality(Units(n, w) \cap Bar(k))
  BY UnitsFinite, BarSize, FS_Union
<1> QED
  BY <1>2, <1>3, UnitsFinite, BarSize DEF Size

LEMMA Outweighs ==
  ASSUME NEW n \in Nat, NEW m \in Nat, NEW w, NEW v, NEW a \in Nat, NEW b \in Nat,
         NEW f \in Injection(Units(m, v) \cup Bar(a), Units(n, w) \cup Bar(b))
  PROVE  /\ Size(m, v) + a <= Size(n, w) + b
         /\ f \notin Surjection(Units(m, v) \cup Bar(a), Units(n, w) \cup Bar(b)) =>
              Size(m, v) + a < Size(n, w) + b
<1> DEFINE S == Units(m, v) \cup Bar(a)
           T == Units(n, w) \cup Bar(b)
<1>1. /\ IsFiniteSet(S) /\ IsFiniteSet(T)
      /\ Cardinality(S) = Size(m, v) + a /\ Cardinality(T) = Size(n, w) + b
  BY UnitsAndBar
<1>2. f \in Injection(S, T)
  OBVIOUS
<1> HIDE DEF S, T
<1>3. /\ Cardinality(S) <= Cardinality(T)
      /\ Cardinality(S) = Cardinality(T) <=> f \in Surjection(S, T)
  BY <1>1, <1>2, FS_Injection
<1>4. Size(m, v) \in Nat /\ Size(n, w) \in Nat
  BY UnitsFinite
<1> QED
  BY <1>1, <1>3, <1>4 DEF S, T

\* Elements that keep their places, some of them lighter.
LEMMA SizeFalls ==
  ASSUME NEW n \in Nat, NEW w \in Weights(n), NEW v \in Weights(n),
         \A j \in 1 .. n : v[j] <= w[j]
  PROVE  /\ Size(n, v) <= Size(n, w)
         /\ \A i \in 1 .. n : v[i] < w[i] => Size(n, v) < Size(n, w)
<1>1. Units(n, v) \subseteq Units(n, w)
  <2> SUFFICES ASSUME NEW u \in (1 .. n) \X (1 .. 7), u[2] <= v[u[1]]
               PROVE  u[2] <= w[u[1]]
    BY DEF Units
  <2>1. u[1] \in 1 .. n /\ u[2] \in 1 .. 7
    OBVIOUS
  <2>2. v[u[1]] \in 0 .. 7 /\ w[u[1]] \in 0 .. 7 /\ v[u[1]] <= w[u[1]]
    BY <2>1 DEF Weights
  <2> QED
    BY <2>1, <2>2
<1>2. IsFiniteSet(Units(n, w)) /\ Size(n, w) \in Nat /\ Size(n, v) \in Nat
  BY UnitsFinite
<1>3. Size(n, v) <= Size(n, w) /\ (Size(n, v) = Size(n, w) => Units(n, v) = Units(n, w))
  BY <1>1, <1>2, FS_Subset DEF Size
<1>4. ASSUME NEW i \in 1 .. n, v[i] < w[i] PROVE Units(n, v) # Units(n, w)
  <2>1. w[i] \in 1 .. 7 /\ v[i] \in 0 .. 7
    BY <1>4 DEF Weights
  <2>2. <<i, w[i]>> \in Units(n, w) /\ <<i, w[i]>> \notin Units(n, v)
    BY <1>4, <2>1 DEF Units
  <2> QED
    BY <2>2
<1> QED
  BY <1>2, <1>3, <1>4

\* Some of the elements, each with its weight, without the one at i.
LEMMA SizeDrops ==
  ASSUME NEW n \in Nat, NEW m \in Nat, NEW w \in Weights(n), NEW v \in Weights(m),
         NEW e \in [1 .. m -> 1 .. n], \A j, k \in 1 .. m : e[j] = e[k] => j = k,
         \A j \in 1 .. m : v[j] = w[e[j]]
  PROVE  /\ Size(m, v) <= Size(n, w)
         /\ \A i \in 1 .. n :
              (\A j \in 1 .. m : e[j] # i) => Size(m, v) + w[i] <= Size(n, w)
<1>1. ASSUME NEW i, NEW a \in Nat,
             a # 0 => i \in 1 .. n /\ a = w[i] /\ \A j \in 1 .. m : e[j] # i
      PROVE  Size(m, v) + a <= Size(n, w) + 0
  <2> DEFINE S == Units(m, v) \cup Bar(a)
             T == Units(n, w) \cup Bar(0)
             f == [u \in S |-> <<IF u[1] = 0 THEN i ELSE e[u[1]], u[2]>>]
  <2>1. \A u \in S : \/ u[1] = 0 /\ u[2] \in 1 .. a /\ u = <<0, u[2]>> /\ a # 0
                     \/ /\ u[1] \in 1 .. m /\ u[2] \in 1 .. 7 /\ u[2] <= v[u[1]]
                        /\ u = <<u[1], u[2]>>
    BY DEF Units, Bar
  <2>2. ASSUME NEW u \in S PROVE f[u] \in T
    <3>1. CASE u[1] = 0
      <4>1. f[u] = <<i, u[2]>> /\ i \in 1 .. n /\ u[2] \in 1 .. w[i] /\ w[i] \in 0 .. 7
        BY <1>1, <2>1, <3>1 DEF Weights
      <4>2. <<i, u[2]>> \in Units(n, w)
        BY <4>1 DEF Units
      <4> QED
        BY <4>1, <4>2
    <3>2. CASE u[1] # 0
      <4>1. /\ f[u] = <<e[u[1]], u[2]>> /\ e[u[1]] \in 1 .. n /\ u[2] \in 1 .. 7
            /\ u[2] <= w[e[u[1]]]
        BY <2>1, <3>2
      <4> QED
        BY <4>1 DEF Units
    <3> QED
      BY <3>1, <3>2
  <2>3. ASSUME NEW t \in S, NEW u \in S, f[t] = f[u] PROVE t = u
    <3>1. /\ t[2] = u[2]
          /\ (IF t[1] = 0 THEN i ELSE e[t[1]]) = (IF u[1] = 0 THEN i ELSE e[u[1]])
      BY <2>3
    <3>2. t[1] = u[1]
      BY <1>1, <2>1, <3>1
    <3>3. t = <<t[1], t[2]>> /\ u = <<u[1], u[2]>>
      BY <2>1
    <3> QED
      BY <3>1, <3>2, <3>3
  <2> HIDE DEF S, T
  <2>4. f \in Injection(S, T)
    BY <2>2, <2>3 DEF Injection, IsInjective
  <2> HIDE DEF f
  <2> USE DEF S, T
  <2> QED
    BY <2>4, Outweighs
<1>2. Size(m, v) <= Size(n, w)
  BY <1>1, UnitsFinite
<1>3. ASSUME NEW i \in 1 .. n, \A j \in 1 .. m : e[j] # i
      PROVE  Size(m, v) + w[i] <= Size(n, w)
  <2>1. w[i] \in Nat
    BY DEF Weights
  <2> QED
    <3>1. w[i] # 0 => i \in 1 .. n /\ w[i] = w[i] /\ \A j \in 1 .. m : e[j] # i
      BY <1>3
    <3>2. Size(m, v) + w[i] <= Size(n, w) + 0
      BY <1>1, <2>1, <3>1
    <3> QED
      BY <3>2, UnitsFinite
<1> QED
  BY <1>2, <1>3

\* One element more, at place i, the others in the places that e says.
LEMMA SizeGrows ==
  ASSUME NEW n \in Nat, NEW m \in Nat, NEW w \in Weights(n), NEW v \in Weights(m),
         NEW i \in 1 .. m, NEW e \in [1 .. m -> Int],
         \A j \in (1 .. m) \ {i} : e[j] \in 1 .. n /\ v[j] = w[e[j]],
         \A j, k \in (1 .. m) \ {i} : e[j] = e[k] => j = k
  PROVE  Size(m, v) <= Size(n, w) + v[i]
<1> DEFINE S == Units(m, v) \cup Bar(0)
           T == Units(n, w) \cup Bar(v[i])
           f == [u \in S |-> IF u[1] = i THEN <<0, u[2]>> ELSE <<e[u[1]], u[2]>>]
<1>1. \A u \in S : /\ u[1] \in 1 .. m /\ u[2] \in 1 .. 7 /\ u[2] <= v[u[1]]
                  /\ u = <<u[1], u[2]>>
  BY DEF Units, Bar
<1>2. v[i] \in 0 .. 7 /\ v[i] \in Nat
  BY DEF Weights
<1>3. ASSUME NEW u \in S PROVE f[u] \in T
  <2>1. CASE u[1] = i
    <3>1. f[u] = <<0, u[2]>>
      BY <2>1
    <3>2. u[2] \in 1 .. v[i]
      BY <1>1, <1>2, <2>1
    <3> QED
      BY <3>1, <3>2 DEF Bar
  <2>2. CASE u[1] # i
    <3>1. /\ f[u] = <<e[u[1]], u[2]>> /\ e[u[1]] \in 1 .. n /\ u[2] \in 1 .. 7
          /\ u[2] <= w[e[u[1]]]
      BY <1>1, <2>2
    <3> QED
      BY <3>1 DEF Units
  <2> QED
    BY <2>1, <2>2
<1>4. ASSUME NEW t \in S, NEW u \in S, f[t] = f[u] PROVE t = u
  <2>1. t[2] = u[2] /\ t[1] = u[1]
    BY <1>1, <1>4
  <2> QED
    BY <1>1, <2>1
<1> HIDE DEF S, T
<1>5. f \in Injection(S, T)
  BY <1>3, <1>4 DEF Injection, IsInjective
<1> HIDE DEF f
<1> USE DEF S, T
<1>6. Size(m, v) + 0 <= Size(n, w) + v[i]
  BY <1>2, <1>5, Outweighs
<1> QED
  BY <1>6, UnitsFinite

\* Lists: some of the elements, one more at the end, one more at the front.
LEMMA ChosenWeighs ==
  ASSUME NEW s, IsSequence(s), NEW K, NEW t, t = Chosen(s, K),
         NEW w \in Weights(Len(s)), NEW v \in Weights(Len(t)),
         \A i \in 1 .. Len(s), j \in 1 .. Len(t) : t[j] = s[i] => v[j] = w[i]
  PROVE  /\ Size(Len(t), v) <= Size(Len(s), w)
         /\ \A i \in 1 .. Len(s) :
              i \notin K => Size(Len(t), v) + w[i] <= Size(Len(s), w)
<1>1. ChosenRight(t, s, K, Len(s)) /\ Len(s) \in Nat
  BY ChosenIsRight DEF IsSequence
<1>2. Len(t) \in Nat
  BY <1>1 DEF ChosenRight
<1>3. PICK e \in [1 .. Len(t) -> K \cap 1 .. Len(s)] :
             /\ \A i, j \in 1 .. Len(t) : e[i] = e[j] => i = j
             /\ \A j \in 1 .. Len(t) : t[j] = s[e[j]]
  BY <1>1 DEF ChosenRight, Drawn
<1>4. /\ e \in [1 .. Len(t) -> 1 .. Len(s)]
      /\ \A j \in 1 .. Len(t) : e[j] \in K /\ v[j] = w[e[j]]
  BY <1>3
<1> DEFINE n == Len(s)
           m == Len(t)
<1>5. n \in Nat /\ m \in Nat /\ w \in Weights(n) /\ v \in Weights(m)
  BY <1>1, <1>2
<1>6. e \in [1 .. m -> 1 .. n]
  BY <1>4
<1>7. \A j, k \in 1 .. m : e[j] = e[k] => j = k
  BY <1>3
<1>8. \A j \in 1 .. m : v[j] = w[e[j]]
  BY <1>4
<1> HIDE DEF n, m
<1>9. /\ Size(m, v) <= Size(n, w)
      /\ \A i \in 1 .. n :
           (\A j \in 1 .. m : e[j] # i) => Size(m, v) + w[i] <= Size(n, w)
  BY <1>5, <1>6, <1>7, <1>8, SizeDrops
<1> USE DEF n, m
<1>10. /\ Size(Len(t), v) <= Size(Len(s), w)
      /\ \A i \in 1 .. Len(s) :
           (\A j \in 1 .. Len(t) : e[j] # i) =>
             Size(Len(t), v) + w[i] <= Size(Len(s), w)
  BY <1>9
<1> QED
  BY <1>4, <1>10

LEMMA OneMoreWeighs ==
  ASSUME NEW n \in Nat, NEW w \in Weights(n), NEW v \in Weights(n + 1)
  PROVE  /\ (\A i \in 1 .. n : v[i] = w[i]) => Size(n + 1, v) <= Size(n, w) + v[n + 1]
         /\ (\A i \in 1 .. n : v[i + 1] = w[i]) => Size(n + 1, v) <= Size(n, w) + v[1]
<1>1. n + 1 \in Nat /\ 1 \in 1 .. n + 1 /\ n + 1 \in 1 .. n + 1
  OBVIOUS
<1>2. ASSUME \A i \in 1 .. n : v[i] = w[i] PROVE Size(n + 1, v) <= Size(n, w) + v[n + 1]
  <2> DEFINE e == [j \in 1 .. n + 1 |-> j]
  <2>1. e \in [1 .. n + 1 -> Int]
    OBVIOUS
  <2>2. \A j \in (1 .. n + 1) \ {n + 1} : e[j] \in 1 .. n /\ v[j] = w[e[j]]
    BY <1>2
  <2>3. \A j, k \in (1 .. n + 1) \ {n + 1} : e[j] = e[k] => j = k
    OBVIOUS
  <2> HIDE DEF e
  <2> QED
    BY <1>1, <2>1, <2>2, <2>3, SizeGrows
<1>3. ASSUME \A i \in 1 .. n : v[i + 1] = w[i] PROVE Size(n + 1, v) <= Size(n, w) + v[1]
  <2> DEFINE e == [j \in 1 .. n + 1 |-> j - 1]
  <2>1. e \in [1 .. n + 1 -> Int]
    OBVIOUS
  <2>2. \A j \in (1 .. n + 1) \ {1} : e[j] \in 1 .. n /\ v[j] = w[e[j]]
    <3>1. \A j \in (1 .. n + 1) \ {1} : j - 1 \in 1 .. n /\ j = (j - 1) + 1
      OBVIOUS
    <3> QED
      BY <1>3, <3>1
  <2>3. \A j, k \in (1 .. n + 1) \ {1} : e[j] = e[k] => j = k
    OBVIOUS
  <2> HIDE DEF e
  <2> QED
    BY <1>1, <2>1, <2>2, <2>3, SizeGrows
<1> QED
  BY <1>2, <1>3

-----------------------------------------------------------------------------
(***************************************************************************)
(* What a query weighs.  A level: 6 if the catalog has none so called, 5   *)
(* if only another hierarchy has it, 4 if a twin outshines it, else 3.  A  *)
(* name in the slot of measures: 7 if it is but a level's, so that moving  *)
(* it to the other slot, where it weighs 6 at most, is no loss; 2 if it is *)
(* the base of a packaged calc, else 1, so that a level may give way to a  *)
(* name and a base to its calc.  A filter: 1 if a value in it is not one   *)
(* of its level's.                                                         *)
(***************************************************************************)
LevelWeight(cat, d) ==
  IF Labelled(cat, d.label) = {} THEN 6
  ELSE IF d \notin LevelKeys(cat) THEN 5
  ELSE IF IsOutshone(cat, d, TwinsOf(cat, d)) THEN 4 ELSE 3
IsBase(cat, name) ==
  \E calc \in Measures(cat) : HasCalcPattern(calc.label) /\ IsBaseOf(name, calc)
NameWeight(cat, name) ==
  IF NamedBy(cat, name) = {} /\ Labelled(cat, name) # {} THEN 7
  ELSE IF IsBase(cat, name) THEN 2 ELSE 1
IsOff(cat, f) ==
  \/ f.kind = "Member" /\ Astray(cat, f) # {}
  \/ f.kind = "Range" /\ Mistyped(cat, f)
FilterWeight(cat, f) == IF IsOff(cat, f) THEN 1 ELSE 0

LevelWeights(cat, ds) == [i \in 1 .. Len(ds) |-> LevelWeight(cat, ds[i])]
NameWeights(cat, ns) == [i \in 1 .. Len(ns) |-> NameWeight(cat, ns[i])]
FilterWeights(cat, fs) == [i \in 1 .. Len(fs) |-> FilterWeight(cat, fs[i])]

LevelSize(cat, ds) == Size(Len(ds), LevelWeights(cat, ds))
NameSize(cat, ns) == Size(Len(ns), NameWeights(cat, ns))
FilterSize(cat, fs) == Size(Len(fs), FilterWeights(cat, fs))
ListSize(cat, q) == LevelSize(cat, q.dims) + NameSize(cat, q.measures)
Rank(cat, q) == ListSize(cat, q) + FilterSize(cat, q.filters)

LEMMA AllWeights ==
  ASSUME NEW cat, NEW s, IsSequence(s)
  PROVE  /\ Len(s) \in Nat /\ DOMAIN s = 1 .. Len(s)
         /\ LevelWeights(cat, s) \in Weights(Len(s)) /\ LevelSize(cat, s) \in Nat
         /\ NameWeights(cat, s) \in Weights(Len(s)) /\ NameSize(cat, s) \in Nat
         /\ FilterWeights(cat, s) \in Weights(Len(s)) /\ FilterSize(cat, s) \in Nat
<1>1. Len(s) \in Nat /\ DOMAIN s = 1 .. Len(s)
  BY DEF IsSequence
<1>2. /\ \A d : LevelWeight(cat, d) \in 0 .. 7
      /\ \A d : NameWeight(cat, d) \in 0 .. 7
      /\ \A d : FilterWeight(cat, d) \in 0 .. 7
  BY DEF LevelWeight, NameWeight, FilterWeight
<1> QED
  BY <1>1, <1>2, UnitsFinite
     DEF Weights, LevelWeights, NameWeights, FilterWeights,
         LevelSize, NameSize, FilterSize

\* Levels: one exchanged for a lighter one, one left out, one more.
LEMMA LevelsSwapped ==
  ASSUME NEW cat, NEW s, IsSequence(s), NEW old \in ToSet(s),
         NEW new, LevelWeight(cat, new) < LevelWeight(cat, old)
  PROVE  LevelSize(cat, Swap(s, old, new)) < LevelSize(cat, s)
<1> DEFINE t == Swap(s, old, new)
<1>1. /\ Len(s) \in Nat /\ DOMAIN s = 1 .. Len(s)
      /\ LevelWeights(cat, s) \in Weights(Len(s))
  BY AllWeights
<1>2. DOMAIN t = DOMAIN s /\ Len(t) = Len(s) /\ IsSequence(t)
  <2>1. DOMAIN t = DOMAIN s /\ t = [i \in DOMAIN s |-> t[i]]
    BY DEF Swap
  <2> HIDE DEF t
  <2>2. IsSequence(t)
    BY <2>1, MappedSequence
  <2> QED
    BY <1>1, <2>1, <2>2 DEF IsSequence
<1>3. \A i \in 1 .. Len(s) : t[i] = IF s[i] = old THEN new ELSE s[i]
  BY <1>1 DEF Swap
<1> HIDE DEF t
<1>4. LevelWeights(cat, t) \in Weights(Len(s))
  BY <1>2, AllWeights
<1>5. \A i \in 1 .. Len(s) : /\ LevelWeight(cat, new) <= LevelWeight(cat, old)
                             /\ LevelWeights(cat, t)[i] = LevelWeight(cat, t[i])
                             /\ LevelWeights(cat, s)[i] = LevelWeight(cat, s[i])
                             /\ LevelWeight(cat, s[i]) \in 0 .. 7
  BY <1>2 DEF LevelWeights, LevelWeight
<1>6. \A i \in 1 .. Len(s) : LevelWeights(cat, t)[i] <= LevelWeights(cat, s)[i]
  BY <1>3, <1>5
<1>7. PICK i \in 1 .. Len(s) : s[i] = old
  BY <1>1 DEF ToSet
<1>8. LevelWeights(cat, t)[i] < LevelWeights(cat, s)[i]
  BY <1>3, <1>5, <1>7
<1>9. Size(Len(s), LevelWeights(cat, t)) < Size(Len(s), LevelWeights(cat, s))
  BY <1>1, <1>4, <1>6, <1>8, SizeFalls
<1> QED
  BY <1>2, <1>9 DEF LevelSize, t

LEMMA LevelsWithout ==
  ASSUME NEW cat, NEW s, IsSequence(s), NEW e
  PROVE  /\ LevelSize(cat, Without(s, e)) <= LevelSize(cat, s)
         /\ e \in ToSet(s) =>
              LevelSize(cat, Without(s, e)) + LevelWeight(cat, e) <= LevelSize(cat, s)
<1> DEFINE K == {i \in DOMAIN s : s[i] # e}
           t == Chosen(s, K)
<1>1. IsSequence(t)
  BY ChosenSequence
<1>2. t = Without(s, e)
  BY DEF Without
<1>3. \A i \in 1 .. Len(s) : s[i] = e => i \notin K
  OBVIOUS
<1> HIDE DEF K
<1>4. t = Chosen(s, K)
  OBVIOUS
<1> HIDE DEF t
<1>5. /\ LevelWeights(cat, s) \in Weights(Len(s))
      /\ LevelWeights(cat, t) \in Weights(Len(t))
      /\ DOMAIN s = 1 .. Len(s)
  BY <1>1, AllWeights
<1>6. \A i \in 1 .. Len(s), j \in 1 .. Len(t) :
        t[j] = s[i] => LevelWeights(cat, t)[j] = LevelWeights(cat, s)[i]
  BY DEF LevelWeights
<1>7. /\ Size(Len(t), LevelWeights(cat, t)) <= Size(Len(s), LevelWeights(cat, s))
      /\ \A i \in 1 .. Len(s) :
           i \notin K => Size(Len(t), LevelWeights(cat, t)) + LevelWeights(cat, s)[i] <=
                         Size(Len(s), LevelWeights(cat, s))
  BY <1>4, <1>5, <1>6, ChosenWeighs
<1>8. ASSUME e \in ToSet(s)
      PROVE  LevelSize(cat, t) + LevelWeight(cat, e) <= LevelSize(cat, s)
  <2>1. PICK i \in 1 .. Len(s) : s[i] = e
    BY <1>5, <1>8 DEF ToSet
  <2>2. LevelWeights(cat, s)[i] = LevelWeight(cat, e) /\ i \notin K
    BY <1>3, <2>1 DEF LevelWeights
  <2> QED
    BY <1>7, <2>1, <2>2 DEF LevelSize
<1> QED
  BY <1>2, <1>7, <1>8 DEF LevelSize

LEMMA LevelsAppended ==
  ASSUME NEW cat, NEW s, IsSequence(s), NEW e
  PROVE  LevelSize(cat, Append(s, e)) <= LevelSize(cat, s) + LevelWeight(cat, e)
<1> DEFINE t == Append(s, e)
<1>1. s \in Seq(ToSet(s) \cup {e}) /\ Len(s) \in Nat
  BY DEF IsSequence
<1>2. /\ Len(t) = Len(s) + 1 /\ t[Len(s) + 1] = e
      /\ \A i \in 1 .. Len(s) : t[i] = s[i] /\ i \in 1 .. Len(s) + 1
  BY <1>1
<1>3. IsSequence(t)
  BY AppendedSequence
<1> HIDE DEF t
<1>4. /\ LevelWeights(cat, s) \in Weights(Len(s))
      /\ LevelWeights(cat, t) \in Weights(Len(s) + 1)
  BY <1>2, <1>3, AllWeights
<1>5. /\ \A i \in 1 .. Len(s) : LevelWeights(cat, t)[i] = LevelWeights(cat, s)[i]
      /\ LevelWeights(cat, t)[Len(s) + 1] = LevelWeight(cat, e)
  BY <1>1, <1>2 DEF LevelWeights
<1>6. Size(Len(s) + 1, LevelWeights(cat, t)) <=
        Size(Len(s), LevelWeights(cat, s)) + LevelWeights(cat, t)[Len(s) + 1]
  BY <1>1, <1>4, <1>5, OneMoreWeighs
<1> QED
  BY <1>2, <1>5, <1>6 DEF LevelSize, t

\* Names: some left out, one more at the end, one more at the front.
LEMMA NamesChosen ==
  ASSUME NEW cat, NEW s, IsSequence(s), NEW K
  PROVE  /\ NameSize(cat, Chosen(s, K)) <= NameSize(cat, s)
         /\ \A i \in 1 .. Len(s) :
              i \notin K =>
             NameSize(cat, Chosen(s, K)) + NameWeight(cat, s[i]) <= NameSize(cat, s)
<1> DEFINE t == Chosen(s, K)
<1>1. IsSequence(t) /\ t = Chosen(s, K)
  BY ChosenSequence
<1> HIDE DEF t
<1>2. NameWeights(cat, s) \in Weights(Len(s)) /\ NameWeights(cat, t) \in Weights(Len(t))
  BY <1>1, AllWeights
<1>3. \A i \in 1 .. Len(s), j \in 1 .. Len(t) :
        t[j] = s[i] => NameWeights(cat, t)[j] = NameWeights(cat, s)[i]
  BY DEF NameWeights
<1>4. \A i \in 1 .. Len(s) : NameWeights(cat, s)[i] = NameWeight(cat, s[i])
  BY DEF NameWeights
<1>5. /\ Size(Len(t), NameWeights(cat, t)) <= Size(Len(s), NameWeights(cat, s))
      /\ \A i \in 1 .. Len(s) :
           i \notin K => Size(Len(t), NameWeights(cat, t)) + NameWeights(cat, s)[i] <=
                         Size(Len(s), NameWeights(cat, s))
  BY <1>1, <1>2, <1>3, ChosenWeighs
<1> QED
  BY <1>4, <1>5 DEF NameSize, t

LEMMA NamesWithout ==
  ASSUME NEW cat, NEW s, IsSequence(s), NEW e
  PROVE  /\ NameSize(cat, Without(s, e)) <= NameSize(cat, s)
         /\ e \in ToSet(s) =>
              NameSize(cat, Without(s, e)) + NameWeight(cat, e) <= NameSize(cat, s)
<1> DEFINE K == {i \in DOMAIN s : s[i] # e}
<1>1. /\ NameSize(cat, Chosen(s, K)) <= NameSize(cat, s)
      /\ \A i \in 1 .. Len(s) :
           i \notin K =>
             NameSize(cat, Chosen(s, K)) + NameWeight(cat, s[i]) <= NameSize(cat, s)
  BY NamesChosen
<1>2. Without(s, e) = Chosen(s, K)
  BY DEF Without
<1>3. ASSUME e \in ToSet(s) PROVE \E i \in 1 .. Len(s) : i \notin K /\ s[i] = e
  BY <1>3, AllWeights DEF ToSet
<1> HIDE DEF K
<1> QED
  BY <1>1, <1>2, <1>3

LEMMA NamesAppended ==
  ASSUME NEW cat, NEW s, IsSequence(s), NEW e
  PROVE  NameSize(cat, Append(s, e)) <= NameSize(cat, s) + NameWeight(cat, e)
<1> DEFINE t == Append(s, e)
<1>1. s \in Seq(ToSet(s) \cup {e}) /\ Len(s) \in Nat
  BY DEF IsSequence
<1>2. /\ Len(t) = Len(s) + 1 /\ t[Len(s) + 1] = e
      /\ \A i \in 1 .. Len(s) : t[i] = s[i] /\ i \in 1 .. Len(s) + 1
  BY <1>1
<1>3. IsSequence(t)
  BY AppendedSequence
<1> HIDE DEF t
<1>4. NameWeights(cat, s) \in Weights(Len(s)) /\ NameWeights(cat, t) \in Weights(Len(s) + 1)
  BY <1>2, <1>3, AllWeights
<1>5. /\ \A i \in 1 .. Len(s) : NameWeights(cat, t)[i] = NameWeights(cat, s)[i]
      /\ NameWeights(cat, t)[Len(s) + 1] = NameWeight(cat, e)
  BY <1>1, <1>2 DEF NameWeights
<1>6. Size(Len(s) + 1, NameWeights(cat, t)) <=
        Size(Len(s), NameWeights(cat, s)) + NameWeights(cat, t)[Len(s) + 1]
  BY <1>1, <1>4, <1>5, OneMoreWeighs
<1> QED
  BY <1>2, <1>5, <1>6 DEF NameSize, t

LEMMA NamesPreceded ==
  ASSUME NEW cat, NEW s, IsSequence(s), NEW e
  PROVE  NameSize(cat, Cons(e, s)) <= NameSize(cat, s) + NameWeight(cat, e)
<1> DEFINE t == Cons(e, s)
<1>1. s \in Seq(ToSet(s) \cup {e}) /\ Len(s) \in Nat /\ <<e>> \in Seq(ToSet(s) \cup {e})
  BY DEF IsSequence
<1>2. /\ Len(t) = Len(s) + 1 /\ t[1] = e
      /\ \A i \in 1 .. Len(s) : t[i + 1] = s[i] /\ i + 1 \in 1 .. Len(s) + 1
  BY <1>1 DEF Cons
<1>3. IsSequence(t)
  BY ConsSequence
<1> HIDE DEF t
<1>4. NameWeights(cat, s) \in Weights(Len(s)) /\ NameWeights(cat, t) \in Weights(Len(s) + 1)
  BY <1>2, <1>3, AllWeights
<1>5. /\ \A i \in 1 .. Len(s) : NameWeights(cat, t)[i + 1] = NameWeights(cat, s)[i]
      /\ NameWeights(cat, t)[1] = NameWeight(cat, e)
  BY <1>1, <1>2 DEF NameWeights
<1>6. Size(Len(s) + 1, NameWeights(cat, t)) <=
        Size(Len(s), NameWeights(cat, s)) + NameWeights(cat, t)[1]
  BY <1>1, <1>4, <1>5, OneMoreWeighs
<1> QED
  BY <1>2, <1>5, <1>6 DEF NameSize, t

\* Filters: none heavier, one lighter.
LEMMA FiltersRighted ==
  ASSUME NEW cat, NEW s, IsSequence(s), NEW t, DOMAIN t = DOMAIN s,
         t = [i \in DOMAIN s |-> t[i]],
         \A i \in DOMAIN s : FilterWeight(cat, t[i]) <= FilterWeight(cat, s[i]),
         NEW i \in DOMAIN s, FilterWeight(cat, t[i]) < FilterWeight(cat, s[i])
  PROVE  FilterSize(cat, t) < FilterSize(cat, s)
<1>1. /\ Len(s) \in Nat /\ DOMAIN s = 1 .. Len(s)
      /\ FilterWeights(cat, s) \in Weights(Len(s))
  BY AllWeights
<1>2. IsSequence(t) /\ Len(t) = Len(s)
  <2>1. IsSequence(t)
    BY MappedSequence
  <2> QED
    BY <1>1, <2>1 DEF IsSequence
<1>3. FilterWeights(cat, t) \in Weights(Len(s))
  BY <1>2, AllWeights
<1>4. \A j \in 1 .. Len(s) : /\ FilterWeights(cat, t)[j] = FilterWeight(cat, t[j])
                             /\ FilterWeights(cat, s)[j] = FilterWeight(cat, s[j])
  BY <1>2 DEF FilterWeights
<1>5. /\ \A j \in 1 .. Len(s) : FilterWeights(cat, t)[j] <= FilterWeights(cat, s)[j]
      /\ i \in 1 .. Len(s) /\ FilterWeights(cat, t)[i] < FilterWeights(cat, s)[i]
  BY <1>1, <1>4
<1>6. Size(Len(s), FilterWeights(cat, t)) < Size(Len(s), FilterWeights(cat, s))
  BY <1>1, <1>3, <1>5, SizeFalls
<1> QED
  BY <1>2, <1>6 DEF FilterSize

\* A query with other parts.
LEMMA PartsOf ==
  ASSUME NEW cat, NEW q, WellFormed(q)
  PROVE  /\ IsSequence(q.dims) /\ IsSequence(q.measures) /\ IsSequence(q.filters)
         /\ LevelSize(cat, q.dims) \in Nat /\ NameSize(cat, q.measures) \in Nat
         /\ FilterSize(cat, q.filters) \in Nat
         /\ {"dims", "measures", "filters"} \subseteq DOMAIN q
<1>1. /\ IsSequence(q.dims) /\ IsSequence(q.measures) /\ IsSequence(q.filters)
      /\ {"dims", "measures", "filters"} \subseteq DOMAIN q
  BY DEF WellFormed
<1> QED
  BY <1>1, AllWeights

LEMMA Lowered ==
  ASSUME NEW cat, NEW q, WellFormed(q), NEW p,
         IsSequence(p.dims), IsSequence(p.measures), IsSequence(p.filters),
         \/ /\ ListSize(cat, p) < ListSize(cat, q)
            /\ p.filters = q.filters
         \/ /\ p.dims = q.dims /\ p.measures = q.measures
            /\ FilterSize(cat, p.filters) < FilterSize(cat, q.filters)
  PROVE  Rank(cat, p) < Rank(cat, q)
<1>1. /\ LevelSize(cat, p.dims) \in Nat /\ NameSize(cat, p.measures) \in Nat
      /\ FilterSize(cat, p.filters) \in Nat
  BY AllWeights
<1>2. /\ LevelSize(cat, q.dims) \in Nat /\ NameSize(cat, q.measures) \in Nat
      /\ FilterSize(cat, q.filters) \in Nat
  BY PartsOf
<1> QED
  BY <1>1, <1>2 DEF Rank, ListSize

LEMMA KeyWeight ==
  ASSUME NEW cat, WellFormedCatalog(cat)
  PROVE  /\ \A k \in LevelKeys(cat) : k = Key(k.hier, k.label) /\ LevelWeight(cat, k) <= 4
         /\ \A d : /\ LevelWeight(cat, d) \in Nat /\ LevelWeight(cat, d) >= 3
                   /\ d \notin LevelKeys(cat) => LevelWeight(cat, d) >= 5
<1>1. ASSUME NEW k \in LevelKeys(cat)
      PROVE  k = Key(k.hier, k.label) /\ k \in Labelled(cat, k.label)
  BY DEF LevelKeys, WellFormedCatalog, Key, Labelled
<1> QED
  BY <1>1 DEF LevelWeight

LEMMA NameWeightType ==
  ASSUME NEW cat, NEW n
  PROVE  /\ NameWeight(cat, n) \in Nat /\ NameWeight(cat, n) >= 1
         /\ NamedBy(cat, n) # {} => NameWeight(cat, n) <= 2
BY DEF NameWeight

LEMMA SwapLowers ==
  ASSUME NEW cat, NEW q, WellFormed(q), NEW d \in ToSet(q.dims),
         NEW new, LevelWeight(cat, new) < LevelWeight(cat, d)
  PROVE  Rank(cat, [q EXCEPT !.dims = Swap(@, d, new)]) < Rank(cat, q)
<1> DEFINE ds == Swap(q.dims, d, new)
           p == [q EXCEPT !.dims = ds]
<1>1. LevelSize(cat, ds) < LevelSize(cat, q.dims)
  BY PartsOf, LevelsSwapped
<1>2. IsSequence(ds)
  BY PartsOf, MappedSequence DEF Swap
<1>3. LevelSize(cat, ds) \in Nat
  BY <1>2, AllWeights
<1> HIDE DEF ds
<1>4. p.dims = ds /\ p.measures = q.measures /\ p.filters = q.filters
  BY PartsOf
<1> HIDE DEF p
<1>5. /\ IsSequence(q.measures) /\ IsSequence(q.filters)
      /\ LevelSize(cat, q.dims) \in Nat /\ NameSize(cat, q.measures) \in Nat
  BY PartsOf
<1>6. ListSize(cat, p) < ListSize(cat, q)
  BY <1>1, <1>3, <1>4, <1>5 DEF ListSize
<1>7. Rank(cat, p) < Rank(cat, q)
  BY <1>2, <1>4, <1>5, <1>6, Lowered
<1> QED
  BY <1>7 DEF p, ds

\* The canonical twin is not outshone.
LEMMA TwinWeight ==
  ASSUME NEW cat, NEW d, IsOutshone(cat, d, TwinsOf(cat, d)), WellFormedCatalog(cat)
  PROVE  LevelWeight(cat, FirstOf(cat, Canonicals(TwinsOf(cat, d)))) < LevelWeight(cat, d)
<1> DEFINE T == TwinsOf(cat, d)
           C == Canonicals(T)
           I == {i \in DOMAIN cat.levels : cat.levels[i].key \in C}
           f == FirstOf(cat, C)
<1>1. d \in T /\ C # {} /\ T \subseteq LevelKeys(cat) /\ C \subseteq T
  BY DEF IsOutshone, Outshone, TwinsOf, Canonicals, Preferred
<1>2. f \in C
  <2>1. \A k \in LevelKeys(cat) : \E i \in DOMAIN cat.levels : cat.levels[i].key = k
    BY DEF LevelKeys, Levels, ToSet
  <2>2. DOMAIN cat.levels \subseteq Nat
    BY DEF WellFormedCatalog, IsSequence
  <2>3. I \in SUBSET Nat /\ I # {}
    BY <1>1, <2>1, <2>2
  <2>4. f = cat.levels[Min(I)].key
    BY DEF FirstOf
  <2>5. \A i \in I : cat.levels[i].key \in C
    OBVIOUS
  <2> HIDE DEF I
  <2>6. Min(I) \in I
    <3>1. \E i \in I : \A j \in I : i <= j
      BY <2>3, LeastIndex
    <3> QED
      BY <3>1 DEF Min
  <2> HIDE DEF f, C
  <2> QED
    BY <2>4, <2>5, <2>6
<1>3. TwinCore(f.label) = TwinCore(d.label)
  BY <1>1, <1>2 DEF TwinsOf
<1>4. TwinsOf(cat, f) = T
  BY <1>3 DEF TwinsOf
<1>5. ~ IsOutshone(cat, f, TwinsOf(cat, f))
  BY <1>4 DEF IsOutshone, Outshone
<1>6. f \in LevelKeys(cat) /\ d \in LevelKeys(cat)
  BY <1>1, <1>2
<1>7. Labelled(cat, f.label) # {} /\ Labelled(cat, d.label) # {}
  BY <1>6 DEF Labelled
<1> QED
  BY <1>5, <1>6, <1>7 DEF LevelWeight

-----------------------------------------------------------------------------
(***************************************************************************)
(* Each rule's suggestion makes the query lighter, whatever other rules    *)
(* the new query offends.                                                  *)
(***************************************************************************)
LEMMA RefusedFor ==
  ASSUME NEW cat, NEW q, NEW r \in Rejections(cat, q)
  PROVE  \/ r.reason = "wrong_level" /\ r.at \in WrongLevel(cat, q)
         \/ r.reason = "near_twin" /\ r.at \in NearTwin(cat, q)
         \/ r.reason = "calc_misaggregation" /\ r.at \in CalcMisaggregation(cat, q)
         \/ r.reason = "rederivation" /\ r.at \in Rederivation(cat, q)
         \/ r.reason = "member_domain" /\ r.at \in MemberDomain(cat, q)
         \/ r.reason = "range_type" /\ r.at \in RangeType(cat, q)
         \/ r.reason = "role_confusion" /\ r.at \in RoleConfusion(cat, q)
         \/ r.reason = "synthetic_rank" /\ r.at \in SyntheticRank(cat, q)
         \/ r.reason = "truncated" /\ r.at \in Truncated(cat, q)
         \/ r.reason = "ambiguous" /\ r.at \in Ambiguous(cat, q)
         \/ r.reason = "co_grain" /\ r.at \in CoGrain(cat, q)
BY DEF Rejections, Refused

\* Another level in the place of one.
LEMMA LevelAdviceLowers ==
  ASSUME NEW cat, WellFormedCatalog(cat), NEW q, WellFormed(q), Advisable(cat, q), NEW r,
         \/ r.reason = "wrong_level" /\ r.at \in WrongLevel(cat, q)
         \/ r.reason = "near_twin" /\ r.at \in NearTwin(cat, q)
         \/ r.reason = "truncated" /\ r.at \in Truncated(cat, q)
         \/ r.reason = "ambiguous" /\ r.at \in Ambiguous(cat, q),
         NEW p \in Revisions(cat, q, r)
  PROVE  Rank(cat, p) < Rank(cat, q)
<1> SUFFICES \E new : /\ p = [q EXCEPT !.dims = Swap(@, r.at, new)]
                      /\ r.at \in ToSet(q.dims)
                      /\ LevelWeight(cat, new) < LevelWeight(cat, r.at)
  BY SwapLowers
<1>1. CASE r.reason = "wrong_level" /\ r.at \in WrongLevel(cat, q)
  <2>1. PICK l \in LevelsOf(cat, r.at.hier) : p = [q EXCEPT !.dims = Swap(@, r.at, l.key)]
    BY <1>1 DEF Revisions
  <2>2. r.at \in ToSet(q.dims) /\ r.at \notin LevelKeys(cat)
    BY <1>1 DEF WrongLevel
  <2>3. l.key \in LevelKeys(cat)
    BY <2>1 DEF LevelsOf, LevelKeys
  <2>4. LevelWeight(cat, l.key) < LevelWeight(cat, r.at)
    BY <2>2, <2>3, KeyWeight
  <2> QED
    BY <2>1, <2>2, <2>4
<1>2. CASE r.reason = "near_twin" /\ r.at \in NearTwin(cat, q)
  <2>1. p = [q EXCEPT !.dims = Swap(@, r.at, FirstOf(cat, Canonicals(TwinsOf(cat, r.at))))]
    BY <1>2 DEF Revisions
  <2>2. r.at \in ToSet(q.dims) /\ IsOutshone(cat, r.at, TwinsOf(cat, r.at))
    BY <1>2 DEF NearTwin, ToSet
  <2>3. LevelWeight(cat, FirstOf(cat, Canonicals(TwinsOf(cat, r.at)))) <
          LevelWeight(cat, r.at)
    BY <2>2, TwinWeight
  <2> QED
    BY <2>1, <2>2, <2>3
<1>3. CASE r.reason = "truncated" /\ r.at \in Truncated(cat, q)
  <2>1. PICK k \in EndingIn(cat, r.at.label) :
          p = [q EXCEPT !.dims = Swap(@, r.at, Key(r.at.hier, k.label))]
    BY <1>3 DEF Revisions
  <2>2. r.at \in ToSet(q.dims) /\ Labelled(cat, r.at.label) = {}
    BY <1>3 DEF Truncated
  <2>3. Labelled(cat, Key(r.at.hier, k.label).label) # {}
    BY <2>1 DEF EndingIn, Labelled, Key
  <2>4. LevelWeight(cat, Key(r.at.hier, k.label)) < LevelWeight(cat, r.at)
    BY <2>2, <2>3 DEF LevelWeight
  <2> QED
    BY <2>1, <2>2, <2>4
<1>4. CASE r.reason = "ambiguous" /\ r.at \in Ambiguous(cat, q)
  <2>1. PICK k \in EndingHere(cat, r.at) :
          p = [q EXCEPT !.dims = Swap(@, r.at, Key(r.at.hier, k.label))]
    BY <1>4 DEF Revisions
  <2>2. r.at \in ToSet(q.dims) /\ r.at \notin LevelKeys(cat)
    BY <1>4 DEF Ambiguous, Advisable
  <2>3. Key(r.at.hier, k.label) \in LevelKeys(cat)
    BY <2>1 DEF EndingHere
  <2>4. LevelWeight(cat, Key(r.at.hier, k.label)) < LevelWeight(cat, r.at)
    BY <2>2, <2>3, KeyWeight
  <2> QED
    BY <2>1, <2>2, <2>4
<1> QED
  BY <1>1, <1>2, <1>3, <1>4

\* A level left out, and a name perhaps with it.
LEMMA OmissionLowers ==
  ASSUME NEW cat, WellFormedCatalog(cat), NEW q, WellFormed(q), NEW r,
         \/ r.reason = "synthetic_rank" /\ r.at \in SyntheticRank(cat, q)
         \/ r.reason = "co_grain" /\ r.at \in CoGrain(cat, q),
         NEW p \in Revisions(cat, q, r)
  PROVE  Rank(cat, p) < Rank(cat, q)
<1>1. IsSequence(q.dims) /\ IsSequence(q.measures) /\ IsSequence(q.filters)
  BY PartsOf
<1> DEFINE ds == Without(q.dims, r.at)
           ms == Without(q.measures, r.at.label)
<1>2. IsSequence(ds) /\ IsSequence(ms)
  BY <1>1, ChosenSequence DEF Without
<1>3. /\ LevelSize(cat, ds) <= LevelSize(cat, q.dims)
      /\ r.at \in ToSet(q.dims) =>
           LevelSize(cat, ds) + LevelWeight(cat, r.at) <= LevelSize(cat, q.dims)
      /\ NameSize(cat, ms) <= NameSize(cat, q.measures)
      /\ r.at.label \in ToSet(q.measures) =>
           NameSize(cat, ms) + NameWeight(cat, r.at.label) <= NameSize(cat, q.measures)
  BY <1>1, LevelsWithout, NamesWithout
<1>4. /\ LevelSize(cat, ds) \in Nat /\ NameSize(cat, ms) \in Nat
      /\ LevelSize(cat, q.dims) \in Nat /\ NameSize(cat, q.measures) \in Nat
  BY <1>2, AllWeights, PartsOf
<1>5. /\ LevelWeight(cat, r.at) \in Nat /\ LevelWeight(cat, r.at) >= 1
      /\ NameWeight(cat, r.at.label) \in Nat /\ NameWeight(cat, r.at.label) >= 1
  BY KeyWeight, NameWeightType
<1>6. CASE r.reason = "synthetic_rank" /\ r.at \in SyntheticRank(cat, q)
  <2>1. p = [q EXCEPT !.measures = ms, !.dims = ds]
    BY <1>6 DEF Revisions
  <2>2. r.at \in ToSet(q.dims) \/ r.at.label \in ToSet(q.measures)
    BY <1>6 DEF SyntheticRank, Bare, Key
  <2> HIDE DEF ds, ms
  <2>3. p.dims = ds /\ p.measures = ms /\ p.filters = q.filters
    BY <2>1, PartsOf
  <2>4. ListSize(cat, p) < ListSize(cat, q)
    BY <1>3, <1>4, <1>5, <2>2, <2>3 DEF ListSize
  <2> QED
    BY <1>1, <1>2, <2>3, <2>4, Lowered
<1>7. CASE r.reason = "co_grain" /\ r.at \in CoGrain(cat, q)
  <2>1. p = [q EXCEPT !.dims = ds]
    BY <1>7 DEF Revisions
  <2>2. r.at \in ToSet(q.dims)
    BY <1>7 DEF CoGrain, ToSet
  <2> HIDE DEF ds, ms
  <2>3. p.dims = ds /\ p.measures = q.measures /\ p.filters = q.filters
    BY <2>1, PartsOf
  <2>4. ListSize(cat, p) < ListSize(cat, q)
    BY <1>3, <1>4, <1>5, <2>2, <2>3 DEF ListSize
  <2> QED
    BY <1>1, <1>2, <2>3, <2>4, Lowered
<1> QED
  BY <1>6, <1>7

\* A name moved to the slot it belongs in.
LEMMA RoleAdviceLowers ==
  ASSUME NEW cat, WellFormedCatalog(cat), Readable(cat), NEW q, WellFormed(q), NEW r,
         r.reason = "role_confusion", r.at \in RoleConfusion(cat, q),
         NEW p \in Revisions(cat, q, r)
  PROVE  Rank(cat, p) < Rank(cat, q)
<1>1. IsSequence(q.dims) /\ IsSequence(q.measures) /\ IsSequence(q.filters)
  BY PartsOf
<1>2. CASE r.at.hier = NoName
  <2>1. PICK n \in ToSet(q.measures) :
          /\ r.at = Bare(n) /\ NamedBy(cat, n) = {}
          /\ n \in {k.label : k \in LevelKeys(cat)}
    <3>1. ~ (NamedBy(cat, r.at.hier) # {})
      BY <1>2 DEF Readable
    <3> QED
      BY <3>1 DEF RoleConfusion
  <2>2. r.at.label = n /\ NameWeight(cat, n) = 7
    BY <2>1 DEF Bare, Key, NameWeight, Labelled
  <2>3. PICK k \in Labelled(cat, n) :
          p = [q EXCEPT !.measures = Without(@, n), !.dims = Append(@, k)]
    BY <1>2, <2>2 DEF Revisions
  <2> DEFINE ds == Append(q.dims, k)
             ms == Without(q.measures, n)
  <2>4. IsSequence(ds) /\ IsSequence(ms)
    BY <1>1, AppendedSequence, ChosenSequence DEF Without
  <2>5. LevelSize(cat, ds) <= LevelSize(cat, q.dims) + LevelWeight(cat, k)
    BY <1>1, LevelsAppended
  <2>6. NameSize(cat, ms) + 7 <= NameSize(cat, q.measures)
    BY <1>1, <2>1, <2>2, NamesWithout
  <2>7. LevelWeight(cat, k) <= 4 /\ LevelWeight(cat, k) \in Nat
    BY <2>3, KeyWeight DEF Labelled
  <2>8. LevelSize(cat, ds) \in Nat /\ NameSize(cat, ms) \in Nat
    BY <2>4, AllWeights
  <2> HIDE DEF ds, ms
  <2>9. p.dims = ds /\ p.measures = ms /\ p.filters = q.filters
    BY <2>3, PartsOf DEF ds, ms
  <2>10. ListSize(cat, p) < ListSize(cat, q)
    BY <2>5, <2>6, <2>7, <2>8, <2>9, PartsOf DEF ListSize
  <2> QED
    BY <1>1, <2>4, <2>9, <2>10, Lowered
<1>3. CASE r.at.hier # NoName
  <2>1. r.at \in ToSet(q.dims) /\ NamedBy(cat, r.at.hier) # {}
    BY <1>3 DEF RoleConfusion, Bare, Key
  <2>2. p = [q EXCEPT !.dims = Without(@, r.at), !.measures = Append(@, r.at.hier)]
    BY <1>3 DEF Revisions
  <2> DEFINE ds == Without(q.dims, r.at)
             ms == Append(q.measures, r.at.hier)
  <2>3. IsSequence(ds) /\ IsSequence(ms)
    BY <1>1, AppendedSequence, ChosenSequence DEF Without
  <2>4. LevelSize(cat, ds) + LevelWeight(cat, r.at) <= LevelSize(cat, q.dims)
    BY <1>1, <2>1, LevelsWithout
  <2>5. NameSize(cat, ms) <= NameSize(cat, q.measures) + NameWeight(cat, r.at.hier)
    BY <1>1, NamesAppended
  <2>6. /\ LevelWeight(cat, r.at) \in Nat /\ LevelWeight(cat, r.at) >= 3
        /\ NameWeight(cat, r.at.hier) \in Nat /\ NameWeight(cat, r.at.hier) <= 2
    BY <2>1, KeyWeight, NameWeightType
  <2>7. LevelSize(cat, ds) \in Nat /\ NameSize(cat, ms) \in Nat
    BY <2>3, AllWeights
  <2> HIDE DEF ds, ms
  <2>8. p.dims = ds /\ p.measures = ms /\ p.filters = q.filters
    BY <2>2, PartsOf DEF ds, ms
  <2>9. ListSize(cat, p) < ListSize(cat, q)
    BY <2>4, <2>5, <2>6, <2>7, <2>8, PartsOf DEF ListSize
  <2> QED
    BY <1>1, <2>3, <2>8, <2>9, Lowered
<1> QED
  BY <1>2, <1>3

\* The packaged calc in the place of what it is derived from.
LEMMA CalcAdviceLowers ==
  ASSUME NEW cat, Readable(cat), NEW q, WellFormed(q), NEW r,
         r.reason = "rederivation", NEW p \in Revisions(cat, q, r)
  PROVE  Rank(cat, p) < Rank(cat, q)
<1>1. IsSequence(q.dims) /\ IsSequence(q.measures) /\ IsSequence(q.filters)
  BY PartsOf
<1>2. PICK m \in Rederived(cat, q) :
        p = [q EXCEPT !.measures = Cons(m.name, Chosen(@, DOMAIN @ \ BaseRefs(q, m)))]
  BY DEF Revisions
<1>3. m \in Measures(cat) /\ HasCalcPattern(m.label) /\ BaseRefs(q, m) # {}
  BY <1>2 DEF Rederived
<1> DEFINE K == DOMAIN q.measures \ BaseRefs(q, m)
           few == Chosen(q.measures, K)
           ms == Cons(m.name, few)
<1>4. IsSequence(few) /\ IsSequence(ms)
  BY <1>1, ChosenSequence, ConsSequence
<1>5. PICK i \in BaseRefs(q, m) : TRUE
  BY <1>3
<1>6. i \in 1 .. Len(q.measures) /\ i \notin K /\ IsBaseOf(q.measures[i], m)
  BY <1>1, <1>5, AllWeights DEF BaseRefs
<1>7. NameWeight(cat, q.measures[i]) \in Nat /\ NameWeight(cat, q.measures[i]) >= 2
  BY <1>3, <1>6 DEF NameWeight, IsBase
<1>8. NameWeight(cat, m.name) = 1
  <2>1. NamedBy(cat, m.name) # {}
    BY <1>3 DEF NamedBy, Measures, ToSet
  <2>2. ~ IsBase(cat, m.name)
    BY <1>3 DEF Readable, IsBase
  <2> QED
    BY <2>1, <2>2 DEF NameWeight
<1> HIDE DEF K
<1>9. NameSize(cat, few) + NameWeight(cat, q.measures[i]) <= NameSize(cat, q.measures)
  BY <1>1, <1>6, NamesChosen
<1>10. NameSize(cat, ms) <= NameSize(cat, few) + NameWeight(cat, m.name)
  BY <1>4, NamesPreceded
<1>11. NameSize(cat, few) \in Nat /\ NameSize(cat, ms) \in Nat
  BY <1>4, AllWeights
<1> HIDE DEF few
<1>12. p = [q EXCEPT !.measures = ms]
  BY <1>2 DEF K, few
<1> HIDE DEF ms
<1>13. p.dims = q.dims /\ p.measures = ms /\ p.filters = q.filters
  BY <1>12, PartsOf
<1>14. ListSize(cat, p) < ListSize(cat, q)
  BY <1>7, <1>8, <1>9, <1>10, <1>11, <1>13, PartsOf DEF ListSize
<1> QED
  BY <1>1, <1>4, <1>13, <1>14, Lowered

\* A value that is one of the level's in the place of one that is not.
LEMMA FilterAdviceLowers ==
  ASSUME NEW cat, Readable(cat), NEW q, WellFormed(q), NEW r,
         \/ r.reason = "member_domain" /\ r.at \in MemberDomain(cat, q)
         \/ r.reason = "range_type" /\ r.at \in RangeType(cat, q),
         NEW p \in Revisions(cat, q, r)
  PROVE  Rank(cat, p) < Rank(cat, q)
<1>1. IsSequence(q.dims) /\ IsSequence(q.measures) /\ IsSequence(q.filters)
  BY PartsOf
<1>2. \A i \in DOMAIN q.filters : WellFormedFilter(q.filters[i])
  BY DEF WellFormed, ToSet
<1>3. \A f : WellFormedFilter(f) => {"kind", "hier", "key", "members"} \subseteq DOMAIN f
  BY DEF WellFormedFilter, Parts, IsFilter
<1> SUFFICES ASSUME NEW fs, fs = [i \in DOMAIN q.filters |-> fs[i]],
                    p = [q EXCEPT !.filters = fs],
                    \A i \in DOMAIN q.filters :
                      fs[i] = q.filters[i] \/ FilterWeight(cat, fs[i]) = 0,
                    NEW i \in DOMAIN q.filters,
                    IsOff(cat, q.filters[i]), FilterWeight(cat, fs[i]) = 0
             PROVE  Rank(cat, p) < Rank(cat, q)
  <2>1. CASE r.reason = "member_domain" /\ r.at \in MemberDomain(cat, q)
    <3> DEFINE Changed(v) == [i \in DOMAIN q.filters |->
                                IF q.filters[i].kind = "Member" /\ q.filters[i].hier = r.at.hier
                                THEN [q.filters[i] EXCEPT !.members = <<v>>] ELSE q.filters[i]]
    <3>1. PICK l, v : /\ l \in SuggestedFrom(cat, q, r.at.hier) /\ v \in l.domain
                      /\ p = [q EXCEPT !.filters = Changed(v)]
      <4>1. Revisions(cat, q, r) = {[q EXCEPT !.filters = Changed(v)] :
                                    v \in UNION {l.domain : l \in SuggestedFrom(cat, q, r.at.hier)}}
        BY <2>1 DEF Revisions, OnFilters
      <4> HIDE DEF Changed
      <4> QED
        BY <4>1
    <3>2. /\ l \in Levels(cat) /\ l.key.hier = r.at.hier /\ l.type = v[1] /\ l.domain # {}
      <4>1. PICK x : l \in Comparable(cat, r.at.hier, x)
        BY <3>1 DEF SuggestedFrom
      <4> QED
        BY <3>1, <4>1 DEF Comparable, LevelsOf, Readable
    <3>3. l \in Comparable(cat, r.at.hier, v)
      BY <3>2 DEF Comparable, LevelsOf
    <3> DEFINE fs == Changed(v)
    <3>4. p = [q EXCEPT !.filters = fs]
      BY <3>1
    <3>5. ASSUME NEW i \in DOMAIN q.filters, q.filters[i].kind = "Member",
                 q.filters[i].hier = r.at.hier
          PROVE  FilterWeight(cat, fs[i]) = 0
      <4> DEFINE g == [q.filters[i] EXCEPT !.members = <<v>>]
      <4>1. fs[i] = g /\ g.kind = "Member" /\ g.hier = r.at.hier /\ g.members = <<v>>
        BY <1>2, <1>3, <3>5
      <4> HIDE DEF g, fs
      <4>2. ToSet(g.members) = {v}
        BY <4>1 DEF ToSet
      <4>3. ~ OutOfDomain(cat, g.hier, v)
        BY <3>1, <3>3, <4>1 DEF OutOfDomain
      <4> QED
        BY <4>1, <4>2, <4>3 DEF FilterWeight, IsOff, Astray
    <3>6. PICK i \in DOMAIN q.filters :
            /\ q.filters[i].kind = "Member" /\ q.filters[i].hier = r.at.hier
            /\ Astray(cat, q.filters[i]) # {}
      BY <2>1 DEF MemberDomain, SeenFilters, ToSet, Key
    <3>7. IsOff(cat, q.filters[i])
      BY <3>6 DEF IsOff
    <3>8. \A j \in DOMAIN q.filters : fs[j] = q.filters[j] \/ FilterWeight(cat, fs[j]) = 0
      BY <3>5
    <3>9. fs = [j \in DOMAIN q.filters |-> fs[j]]
      OBVIOUS
    <3> QED
      BY <3>4, <3>5, <3>6, <3>7, <3>8, <3>9
  <2>2. CASE r.reason = "range_type" /\ r.at \in RangeType(cat, q)
    <3> DEFINE Changed(v) == [i \in DOMAIN q.filters |->
                                IF q.filters[i].kind = "Range" /\ q.filters[i].key = r.at
                                THEN [q.filters[i] EXCEPT !.members = <<v, v>>] ELSE q.filters[i]]
    <3>1. PICK v : /\ v[1] = LevelAt(cat, r.at).type
                   /\ p = [q EXCEPT !.filters = Changed(v)]
      <4>1. Revisions(cat, q, r) =
              {[q EXCEPT !.filters = Changed(v)] :
                 v \in {v \in {cat.cells[row][r.at] : row \in Rows(cat)} :
                          v[1] = LevelAt(cat, r.at).type}}
        BY <2>2 DEF Revisions, OnFilters
      <4> HIDE DEF Changed
      <4> QED
        BY <4>1
    <3> DEFINE fs == Changed(v)
    <3>2. p = [q EXCEPT !.filters = fs]
      BY <3>1
    <3>3. ASSUME NEW i \in DOMAIN q.filters, q.filters[i].kind = "Range",
                 q.filters[i].key = r.at
          PROVE  FilterWeight(cat, fs[i]) = 0
      <4> DEFINE g == [q.filters[i] EXCEPT !.members = <<v, v>>]
      <4>1. fs[i] = g /\ g.kind = "Range" /\ g.key = r.at /\ g.members = <<v, v>>
        BY <1>2, <1>3, <3>3
      <4> HIDE DEF g, fs
      <4>2. ToSet(g.members) = {v}
        BY <4>1 DEF ToSet
      <4>3. ~ Mistyped(cat, g)
        BY <3>1, <4>1, <4>2 DEF Mistyped
      <4> QED
        BY <4>1, <4>3 DEF FilterWeight, IsOff
    <3>4. PICK i \in DOMAIN q.filters :
            /\ q.filters[i].kind = "Range" /\ q.filters[i].key = r.at
            /\ Mistyped(cat, q.filters[i])
      BY <2>2 DEF RangeType, SeenFilters, ToSet
    <3>5. IsOff(cat, q.filters[i])
      BY <3>4 DEF IsOff
    <3>6. \A j \in DOMAIN q.filters : fs[j] = q.filters[j] \/ FilterWeight(cat, fs[j]) = 0
      BY <3>3
    <3>7. fs = [j \in DOMAIN q.filters |-> fs[j]]
      OBVIOUS
    <3> QED
      BY <3>2, <3>3, <3>4, <3>5, <3>6, <3>7
  <2> QED
    BY <2>1, <2>2
<1>4. DOMAIN fs = DOMAIN q.filters
  OBVIOUS
<1>5. IsSequence(fs)
  BY <1>1, <1>4, MappedSequence
<1>6. /\ \A j \in DOMAIN q.filters :
           FilterWeight(cat, fs[j]) <= FilterWeight(cat, q.filters[j])
      /\ FilterWeight(cat, fs[i]) < FilterWeight(cat, q.filters[i])
  BY DEF FilterWeight
<1>7. FilterSize(cat, fs) < FilterSize(cat, q.filters)
  BY <1>1, <1>4, <1>6, FiltersRighted
<1>8. p.dims = q.dims /\ p.measures = q.measures /\ p.filters = fs
  BY PartsOf
<1> QED
  BY <1>1, <1>5, <1>7, <1>8, Lowered

-----------------------------------------------------------------------------
\* Following advice lowers the rank.
LEMMA AdviceLowers ==
  ASSUME NEW cat, WellFormedCatalog(cat), Readable(cat), NEW q, WellFormed(q),
         Advisable(cat, q), NEW r \in Rejections(cat, q), NEW p \in Revisions(cat, q, r)
  PROVE  Rank(cat, p) < Rank(cat, q)
<1>1. r.reason = "calc_misaggregation" => r.at \notin CalcMisaggregation(cat, q)
  BY DEF Advisable
<1> QED
  BY <1>1, RefusedFor, LevelAdviceLowers, OmissionLowers, RoleAdviceLowers, CalcAdviceLowers,
     FilterAdviceLowers

\* The queries a client was advised away from weigh more than the one it came
\* to, as long as each was one that advice leads on from.
Descending ==
  /\ stage \in {"starting", "idle"} => chain = {}
  /\ \A p \in chain : WellFormed(p)
  /\ Readable(c) /\ (\A p \in chain : Advisable(c, p)) =>
       \A p \in chain : Rank(c, query) < Rank(c, p)

LEMMA RankType ==
  ASSUME NEW cat, NEW q, WellFormed(q)
  PROVE  Rank(cat, q) \in Nat
<1>1. /\ LevelSize(cat, q.dims) \in Nat /\ NameSize(cat, q.measures) \in Nat
      /\ FilterSize(cat, q.filters) \in Nat
  BY PartsOf
<1> QED
  BY <1>1 DEF Rank, ListSize

LEMMA DescendingStep ==
  Typed /\ WellFormed(query) /\ Descending /\ [Next]_vars => Descending'
<1> SUFFICES ASSUME Typed, WellFormed(query), Descending, [Next]_vars PROVE Descending'
  OBVIOUS
<1>1. c' = c /\ WellFormedCatalog(c)
  BY ServerStays, CatalogIsWellFormed DEF Typed
<1>2. CASE chain' = {}
  BY <1>2 DEF Descending
<1>3. ASSUME chain' = chain, stage' \in {"starting", "idle"} => stage \in {"starting", "idle"},
             Rank(c, query') = Rank(c, query)
      PROVE  Descending'
  BY <1>1, <1>3 DEF Descending
<1>4. CASE FollowAdvice
  <2>1. PICK r \in Rejections(c, query) : query' \in Revisions(c, query, r)
    BY <1>4 DEF FollowAdvice, NewRequest
  <2>2. chain' = chain \cup {query} /\ stage' = "received"
    BY <1>4 DEF FollowAdvice
  <2>3. \A p \in chain' : WellFormed(p)
    BY <2>2 DEF Descending
  <2>4. ASSUME Readable(c), \A p \in chain' : Advisable(c, p), NEW p \in chain'
        PROVE  Rank(c, query') < Rank(c, p)
    <3>1. Rank(c, query') < Rank(c, query)
      BY <1>1, <2>1, <2>2, <2>4, AdviceLowers
    <3>2. p # query => Rank(c, query) < Rank(c, p)
      BY <2>2, <2>4 DEF Descending
    <3>3. Rank(c, query') \in Nat /\ Rank(c, query) \in Nat /\ Rank(c, p) \in Nat
      BY <2>1, <2>3, <2>4, RevisedIsWellFormed, RankType
    <3> QED
      BY <3>1, <3>2, <3>3
  <2> QED
    BY <1>1, <2>2, <2>3, <2>4 DEF Descending
<1>5. CASE Submit \/ Leave
  BY <1>2, <1>5 DEF Submit, Leave, Descending
<1>6. CASE Admit
  <2>1. chain' = chain /\ stage' \notin {"starting", "idle"}
    BY <1>6 DEF Admit, Refuse, Reply, GoesOn
  <2>2. query' \in {query, [query EXCEPT !.model = TheOnly(Cubes(query))]}
    BY <1>6 DEF Admit, Refuse, request
  <2>3. query'.dims = query.dims /\ query'.measures = query.measures /\ query'.filters = query.filters
    BY <2>2 DEF WellFormed
  <2>4. Rank(c, query') = Rank(c, query)
    BY <2>3 DEF Rank, ListSize
  <2> QED
    BY <1>3, <2>1, <2>4
<1>7. CASE Probe \/ RefreshHealth \/ PortChanges \/ ClusterChanges \/ UNCHANGED vars
  BY <1>3, <1>7 DEF Probe, RefreshHealth, PortChanges, ClusterChanges, vars, request
<1>8. CASE Check \/ ToolFails \/ Bind \/ Route \/ Compile \/ Ask \/ EngineFails
           \/ EngineAnswers \/ Deliver
  <2>1. chain' = chain /\ query' = query /\ stage' \notin {"starting", "idle"}
    BY <1>8 DEF Check, ToolFails, Bind, Route, Compile, Ask, EngineFails, EngineAnswers,
       Deliver, Refuse, Reply, GoesOn, request
  <2> QED
    BY <1>3, <2>1
<1> QED
  BY <1>4, <1>5, <1>6, <1>7, <1>8 DEF Next

\* A client that follows the suggestions of mqo-param-validator never comes
\* back to a query that was refused: each suggestion repairs more than it may
\* break, whatever other rules the query it leads to offends.
THEOREM AdviceLeadsOn == Spec => []AdviceNeverCircles
<1>1. Init => Descending
  BY DEF Init, Descending
<1>2. WellFormed(query) /\ Descending => AdviceNeverCircles
  <2> SUFFICES ASSUME WellFormed(query), Descending, Readable(c),
                      \A q \in chain : Advisable(c, q), query \in chain
               PROVE  FALSE
    BY DEF AdviceNeverCircles
  <2>1. Rank(c, query) < Rank(c, query)
    BY DEF Descending
  <2>2. Rank(c, query) \in Nat
    BY RankType
  <2> QED
    BY <2>1, <2>2
<1>3. IInv => Typed
  BY DEF IInv
<1> QED
  BY <1>1, <1>2, <1>3, QueryInit, QueryStep, DescendingStep, Invariance, PTL DEF Spec
=============================================================================
