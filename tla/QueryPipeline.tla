---------------------------- MODULE QueryPipeline ----------------------------
(***************************************************************************)
(* query_multidimensional, from the arguments a client sends to the answer *)
(* it gets: the front of the handler (mcp.rs), the pipeline behind it      *)
(* (pipeline.rs) with the tools it runs one after the other, the engine    *)
(* that is asked in the end, and a client that submits queries and may     *)
(* follow the suggestion of a refusal.                                     *)
(*                                                                         *)
(* The server answers one request at a time.  What changes beside it are   *)
(* the ports of the engine and the clusters: the server learns of them     *)
(* once, when it starts (and of the clusters again when a client asks).    *)
(***************************************************************************)
EXTENDS ParamValidator, CatalogBinder, ProjectionGuard, DaxCompiler, MdxCompiler

CONSTANTS Servers,     \* servers, each with its set-up
          SetUp,       \* what a server is started with, and its catalog
          Queries,     \* the queries clients of a server start with
          ClusterArgs, \* the `cluster` argument; "auto" for none
          MaxFlips,    \* how often ports and clusters change
          MaxTries     \* how often a client follows a suggestion

VARIABLES server,   \* the running server
          up,       \* which ports of the engine answer
          caps,     \* which did when the server probed them
          healthy,  \* the clusters that are healthy
          report,   \* the health report in the cache
          stage,    \* the step the request is at
          query,    \* the query of the request
          override, \* the backend it is forced to
          bound,    \* the columns its names were bound to
          routed,   \* the router's decision
          backend,  \* the backend it goes to
          text,     \* the text compiled for it
          result,   \* what the engine returned
          reply,    \* what the client was told
          chain,    \* the queries refused before it, each advised by the last
          flips

request == <<query, override, bound, routed, backend, text, result>>
world == <<up, healthy, flips>>
vars == <<server, up, caps, healthy, report, stage, query, override, bound,
          routed, backend, text, result, reply, chain, flips>>

setup == SetUp[server]
c == setup.catalog
Backends == {"dax", "mdx", "sql"}
ASSUME SetUpAssumption ==
  /\ MaxFlips \in Nat /\ MaxTries \in Nat
  /\ \A s \in Servers :
       /\ SetUp[s].override \in Backends \cup {"none"}
       /\ DOMAIN SetUp[s].clusters \subseteq Nat
       /\ \A i \in DOMAIN SetUp[s].clusters :
            SetUp[s].clusters[i].backends \in Seq(Backends)
       /\ SetUp[s].cap \in Nat
       /\ WellFormedCatalog(SetUp[s].catalog)
       /\ \A q \in Queries[s] : WellFormed(q)
PortOf(be) == IF be = "sql" THEN "sql" ELSE "xmla"
Ports == {"xmla", "sql"}

NoQuery == Query(<< >>, << >>, << >>)
NoBound == [measures |-> << >>, dims |-> << >>]
NoTextOf(be) == [Text(be, NoBound, {}) EXCEPT !.unknown = TRUE]
NoResult == [measures |-> 0, dims |-> 0, empty |-> TRUE]

ClusterNames == {setup.clusters[i].name : i \in DOMAIN setup.clusters}
Answered(kind, code) == [kind |-> kind, code |-> code]

Init ==
  /\ server \in Servers
  /\ up \in [Ports -> BOOLEAN]
  /\ healthy \in SUBSET ClusterNames
  /\ caps = [p \in Ports |-> FALSE]
  /\ report = [known |-> FALSE, healthy |-> {}]
  /\ stage = "starting"
  /\ query = NoQuery /\ override = "none" /\ bound = NoBound
  /\ routed = "none" /\ backend = "none" /\ text = NoTextOf("none")
  /\ result = NoResult
  /\ reply = Answered("none", "none")
  /\ chain = {}
  /\ flips = 0

(***************************************************************************)
(* The server starts: the ports are probed, or with --no-probe taken to be *)
(* live, and with --health-check the clusters are looked at.  (No cluster  *)
(* is marked required, so that what the check finds never ends the server.)*)
(***************************************************************************)
Probe ==
  /\ stage = "starting"
  /\ caps' \in {up, [p \in Ports |-> TRUE]}
  /\ report' \in {[known |-> TRUE, healthy |-> healthy],
                  [known |-> FALSE, healthy |-> {}]}
  /\ stage' = "idle"
  /\ UNCHANGED <<server, world, request, reply, chain>>

(* The cluster-health tool looks again and replaces the report.            *)
RefreshHealth ==
  /\ stage = "idle" /\ setup.clusters # << >>
  /\ report' = [known |-> TRUE, healthy |-> healthy]
  /\ UNCHANGED <<server, world, caps, stage, request, reply, chain>>

PortChanges ==
  /\ flips < MaxFlips
  /\ \E p \in Ports : up' = [up EXCEPT ![p] = ~ @]
  /\ flips' = flips + 1
  /\ UNCHANGED <<server, caps, healthy, report, stage, request, reply, chain>>

ClusterChanges ==
  /\ flips < MaxFlips
  /\ \E n \in ClusterNames :
       healthy' = IF n \in healthy THEN healthy \ {n} ELSE healthy \cup {n}
  /\ flips' = flips + 1
  /\ UNCHANGED <<server, up, caps, report, stage, request, reply, chain>>

(***************************************************************************)
(* The client.                                                             *)
(***************************************************************************)
NewRequest(q) ==
  /\ query' = q
  /\ override' = "none" /\ bound' = NoBound /\ routed' = "none"
  /\ backend' = "none" /\ text' = NoTextOf("none") /\ result' = NoResult
  /\ reply' = Answered("none", "none")
  /\ UNCHANGED <<server, world, caps, report>>

Submit ==
  /\ stage = "idle"
  /\ stage' = "received"
  /\ \E q \in Queries[server] : NewRequest(q)
  /\ UNCHANGED chain

FollowAdvice ==
  /\ stage = "answered" /\ reply.code = "ParamRejected"
  /\ Cardinality(chain) < MaxTries
  /\ stage' = "received"
  /\ chain' = chain \cup {query}
  /\ \E r \in Rejections(c, query) :
       \E q \in Revisions(c, query, r) : NewRequest(q)

(* The client takes the answer and is done with it.                        *)
Leave ==
  /\ stage = "answered"
  /\ stage' = "idle"
  /\ chain' = {}
  /\ NewRequest(NoQuery)

(***************************************************************************)
(* How a request ends.                                                     *)
(***************************************************************************)
Reply(kind, code) ==
  /\ stage' = "answered"
  /\ reply' = Answered(kind, code)
  /\ UNCHANGED <<server, world, caps, report, chain>>

Refuse(code) == Reply("refused", code) /\ UNCHANGED request

GoesOn(next) ==
  /\ stage' = next
  /\ UNCHANGED <<server, world, caps, report, reply, chain>>

(***************************************************************************)
(* Admit: the cluster, the projection guard, the model coordinate.         *)
(***************************************************************************)
(* select_cluster: a named cluster whether healthy or not, else the first  *)
(* by priority that the report calls healthy.                              *)
Selectable(arg) ==
  {i \in DOMAIN setup.clusters :
     IF arg # "auto" THEN setup.clusters[i].name = arg
     ELSE report.known => setup.clusters[i].name \in report.healthy}
Selected(arg) ==
  setup.clusters[CHOOSE i \in Selectable(arg) :
                    \A j \in Selectable(arg) : i <= j]

ForcedBackend(arg) ==
  IF setup.override # "none" \/ arg = "auto" \/ setup.clusters = << >>
     \/ Selected(arg).backends = << >>
  THEN setup.override ELSE Head(Selected(arg).backends)

IsGuarded(q) == q.measures = << >> /\ q.projection

(* Coordinates are checked where the server knows any cube: once stripped   *)
(* of its path, one names a cube as it is listed, or the only cube whose   *)
(* listed name differs in case alone.                                      *)
Cubes(q) == {m \in setup.cubes : m.cube = q.model.cube}

Guard(q) == IF IsGuarded(q) THEN GuardVerdict(c, q, setup.cap) ELSE "Admit"

AdmitCode(q, arg, guard) ==
  IF setup.clusters # << >> /\ Selectable(arg) = {} THEN "routing_error"
  ELSE IF guard # "Admit" THEN guard
  ELSE IF setup.cubes # {} /\ q.model \notin setup.cubes /\ Cardinality(Cubes(q)) # 1
  THEN "model_path" ELSE "ok"

Admit ==
  /\ stage = "received"
  /\ \E arg \in ClusterArgs : \E code \in {AdmitCode(query, arg, Guard(query))} :
       \/ code # "ok" /\ Refuse(code)
       \/ /\ code = "ok"
          /\ override' = ForcedBackend(arg)
          /\ query' = IF setup.cubes = {} \/ query.model \in setup.cubes
                      THEN query
                      ELSE [query EXCEPT !.model = TheOnly(Cubes(query))]
          /\ GoesOn("admitted")
          /\ UNCHANGED <<bound, routed, backend, text, result>>

(***************************************************************************)
(* The pipeline.                                                           *)
(***************************************************************************)
CheckCode(q) ==
  IF ~ Valid(q) THEN "Invalid"
  ELSE IF Rejections(c, q) # {} THEN "ParamRejected"
  ELSE IF MissingContext(c, q) # {} THEN "MissingContext" ELSE "ok"

Check ==
  /\ stage = "admitted"
  /\ \E code \in {CheckCode(query)} :
       \/ code # "ok" /\ Refuse(code)
       \/ code = "ok" /\ GoesOn("checked") /\ UNCHANGED request

(* A tool that cannot be started, exits badly or writes no JSON.           *)
ToolFails ==
  /\ stage \in {"checked", "bound", "routed"}
  /\ stage = "routed" => backend # "sql"
  /\ Refuse("Subprocess")

Bind ==
  /\ stage = "checked"
  /\ \E outcome \in {Binding(c, query)} :
       \/ outcome # "bound" /\ Refuse(BindError(outcome))
       \/ /\ outcome = "bound"
          /\ bound' = [measures |-> BoundMeasures(c, query),
                       dims     |-> BoundDims(c, query)]
          /\ GoesOn("bound")
          /\ UNCHANGED <<query, override, routed, backend, text, result>>

(* The threshold is 0 when SQL is forced; a forced backend is respected;   *)
(* one that did not answer the probe is replaced by SQL if SQL did.        *)
Threshold == IF override = "sql" THEN 0 ELSE setup.threshold
(* Faulty: the ports are not looked at.                                    *)
FaultyEffective(be) == IF override # "none" THEN override ELSE be
Effective(be) ==
  IF override # "none" THEN override
  ELSE IF caps[PortOf(be)] THEN be
  ELSE IF caps["sql"] THEN "sql" ELSE "none"

Route ==
  /\ stage = "bound"
  /\ LET be == RouteBackend(query, bound, Threshold, setup.shaped)
     IN \/ RouteRefuses(query) /\ Refuse("Subprocess")
        \/ /\ ~ RouteRefuses(query)
           /\ Effective(be) = "none"
           /\ Refuse("NoBackendAvailable")
        \/ /\ ~ RouteRefuses(query)
           /\ Effective(be) # "none"
           /\ routed' = be
           /\ backend' = Effective(be)
           /\ GoesOn("routed")
           /\ UNCHANGED <<query, override, bound, text, result>>

(* The hash maps of a compiler run: some level for every shared label.     *)
Picks ==
  LET shared == {l \in Captions(c) : Cardinality(Labelled(c, l)) > 1}
  IN {[l \in Captions(c) |-> IF l \in shared THEN s[l] ELSE TheOnly(Labelled(c, l))] :
        s \in {s \in [shared -> LevelKeys(c)] : \A l \in shared : s[l].label = l}}

(* compile_step; the SQL text is the router's, which writes one only when  *)
(* it decides for SQL.                                                     *)
Compiled(be, pick) ==
  IF be = "dax" THEN IF DaxDeclines(c, query, bound, pick) THEN {}
                     ELSE {DaxText(c, query, bound, pick)}
  ELSE IF be = "mdx" THEN IF MdxDeclines(bound) THEN {} ELSE {MdxText(c, query, bound)}
  ELSE IF routed = "sql" THEN {SqlProjection(c, query, bound, pick)}
  ELSE {NoTextOf("sql")}

(* DAX and MDX address the cube by its coordinate, SQL by its bare name.   *)
CompileCode(texts) ==
  IF texts = {} THEN "Subprocess"
  ELSE IF texts = {NoTextOf("sql")} THEN "SqlRejected"
  ELSE IF backend # "sql" /\ query.model \notin setup.cubes
  THEN "XmlaCoordsNotFound" ELSE "ok"

Compile ==
  /\ stage = "routed"
  /\ \E pick \in Picks :
       \E texts \in {Compiled(backend, pick)} :
         \/ CompileCode(texts) # "ok" /\ Refuse(CompileCode(texts))
         \/ /\ CompileCode(texts) = "ok"
            /\ text' = TheOnly(texts)
            /\ GoesOn("compiled")
            /\ UNCHANGED <<query, override, bound, routed, backend, result>>

(***************************************************************************)
(* The engine.  It fails when its port is down or the text names a column  *)
(* it does not have, and may fail otherwise; it may leave out columns that *)
(* it cannot materialize, and it returns no row when none is kept.         *)
(***************************************************************************)
Ask ==
  /\ stage = "compiled"
  /\ GoesOn("asked")
  /\ UNCHANGED request

EngineFails == stage = "asked" /\ Reply("failed", "Engine") /\ UNCHANGED request

EngineAnswers ==
  /\ stage = "asked"
  /\ up[PortOf(backend)] /\ ~ text.unknown
  /\ \E m \in 0 .. Len(text.measures), d \in 0 .. Len(text.dims),
        none \in BOOLEAN :
       /\ text.rows = {} => none
       /\ result' = [measures |-> m, dims |-> d, empty |-> none]
  /\ GoesOn("returned")
  /\ UNCHANGED <<query, override, bound, routed, backend, text>>

(* The completeness guards look at the first row of a DAX result.          *)
Complete(q, res) == res.measures >= Len(q.measures) /\ res.dims >= Len(q.dims)
LosesColumns == backend = "dax" /\ ~ result.empty /\ ~ Complete(query, result)

(* Faulty: a result that lost columns is reported as a refusal.            *)
FaultyDeliver ==
  /\ stage = "returned"
  /\ UNCHANGED request
  /\ IF LosesColumns THEN Reply("refused", "CrossFactIncompatible")
     ELSE Reply("ok", "ok")
Deliver ==
  /\ stage = "returned"
  /\ UNCHANGED request
  /\ IF LosesColumns
     THEN Reply("failed", IF result.measures < Len(query.measures)
                          THEN "CrossFactIncompatible"
                          ELSE "DimensionNotMaterialized")
     ELSE Reply("ok", "ok")

Next ==
  \/ Probe \/ RefreshHealth \/ PortChanges \/ ClusterChanges
  \/ Submit \/ FollowAdvice \/ Leave
  \/ Admit \/ Check \/ ToolFails \/ Bind \/ Route \/ Compile
  \/ Ask \/ EngineFails \/ EngineAnswers \/ Deliver

Spec == Init /\ [][Next]_vars

-----------------------------------------------------------------------------
Stages == {"starting", "idle", "received", "admitted", "checked", "bound",
           "routed", "compiled", "asked", "returned", "answered"}
Compiling == {"compiled", "asked", "returned"}

(* Every variable has its type: in particular a forced backend is one the  *)
(* set-up or a cluster names, and a request never carries a text for a     *)
(* backend it does not go to.                                              *)
TypeOK ==
  /\ server \in Servers
  /\ up \in [Ports -> BOOLEAN] /\ caps \in [Ports -> BOOLEAN]
  /\ healthy \subseteq ClusterNames
  /\ report \in [known : BOOLEAN, healthy : SUBSET ClusterNames]
  /\ stage \in Stages
  /\ override \in Backends \cup {"none"}
  /\ routed \in Backends \cup {"none"} /\ backend \in Backends \cup {"none"}
  /\ stage \in Compiling => text.by = backend
  /\ reply.kind \in {"none", "ok", "refused", "failed"}
  /\ Cardinality(chain) <= MaxTries
  /\ flips \in 0 .. MaxFlips

(* What reaches the engine goes to the forced backend, or to a port that   *)
(* was found live at the start: the router's choice or, in its place, SQL. *)
BackendJustified ==
  stage \in Compiling =>
    \/ override # "none" /\ backend = override
    \/ /\ override = "none" /\ backend \in {routed, "sql"}
       /\ caps[PortOf(backend)]

(* A filter says without doubt which level it is about: the listed members *)
(* are known at one level of the hierarchy and occur at no other, a name   *)
(* names a level whose label no other has, and repeats the hierarchy.      *)
PlacedAt(hier, members) ==
  {l \in LevelsOf(c, hier) :
     /\ ToSet(members) \subseteq l.domain
     /\ \A o \in LevelsOf(c, hier) \ {l} :
          ToSet(members) \cap (o.domain \cup {c.cells[r][o.key] : r \in Rows(c)}) = {}}
Placed(f) ==
  CASE f.kind = "Member" -> f.members # << >> /\ PlacedAt(f.hier, f.members) # {}
    [] f.kind \in {"MemberLevel", "Range"} ->
         /\ Meant(c, f.key) # {} /\ Cardinality(Labelled(c, f.key.label)) = 1
         /\ f.kind = "MemberLevel" =>
              Meant(c, f.key) = Meant(c, Key(f.hier, f.key.label))
    [] OTHER -> TRUE
WellPlaced(q) == \A f \in ToSet(q.filters) : \A g \in Parts(f) : Placed(g)

(* What SQL can tell apart: filters that list something, without members   *)
(* of calculation groups inside a group, and whose `Member` filters are    *)
(* about the first projected level of their hierarchy.                     *)
SqlCanTell(f) ==
  /\ IsGroup(f) => f.subs # << >>
  /\ f.kind \in {"Member", "MemberLevel"} => f.members # << >>
  /\ f.kind = "Member" =>
       /\ BoundOn(bound, f.hier) # << >>
       /\ Head(BoundOn(bound, f.hier)) \in PlacedAt(f.hier, f.members)
       /\ Cardinality(Labelled(c, SqlColumn(bound, f))) = 1
(* What an MDX slicer can: one member of a hierarchy.                      *)
MdxCanTell(f) ==
  f.kind = "CalcGroup" \/
  /\ f.kind \in {"Member", "MemberLevel"} /\ ~ f.exclude
  /\ Len(f.members) = 1
  /\ \E l \in PlacedAt(f.hier, f.members) :
       f.kind = "MemberLevel" => l.key.label = f.key.label
CanTell(q) ==
  \A f \in ToSet(q.filters) :
    /\ backend = "sql" =>
         \A g \in Parts(f) : SqlCanTell(g) /\ (g.kind = "CalcGroup" => g = f)
    /\ backend = "mdx" =>
         \/ MdxCanTell(f)
         \/ /\ f.kind = "And"
            /\ \A g \in ToSet(f.subs) : MdxCanTell(g)

(* An answer to a well-placed query is the answer to that query, whichever *)
(* backend it went to: the engine was told to keep the rows its filters    *)
(* ask for, and over DAX the rows it returned have all the columns.        *)
AnswersWhatWasAsked ==
  reply.kind = "ok" /\ WellPlaced(query) /\ CanTell(query) =>
    /\ text.rows = Asked(c, query)
    /\ backend = "dax" => result.empty \/ Complete(query, result)

(* A growth or ratio measure is not sent over DAX without any time         *)
(* intelligence or calculation group, when the query calls it by its name  *)
(* or its label.  Like check_calc_context, which asks for no more, it lets *)
(* a share or a rank pass for time intelligence, though no period to       *)
(* compare with comes of either.                                           *)
ContextMeasures == {m.name : m \in NeedsContext(c)}
WithoutContext == /\ ToSet(text.measures) \cap ContextMeasures # {}
                  /\ text.ti = << >> /\ text.calc = {}
DaxKeepsContext ==
  /\ stage \in Compiling /\ backend = "dax"
  /\ \A n \in ToSet(query.measures) : NamedBy(c, n) # {}
  => ~ WithoutContext

(* An admitted projection of one hierarchy whose member counts are true    *)
(* and cover its level combinations returns no more rows than the cap.     *)
TrueCounts(q) ==
  LET hiers == {d.hier : d \in ToSet(q.dims)}
  IN /\ Cardinality(hiers) = 1 /\ q.filters = << >>
     /\ ToSet(q.dims) \subseteq LevelKeys(c)
     /\ Cardinality(DistinctRows(c, q)) <= Base(c, q, TheOnly(hiers))
ProjectionBounded ==
  stage \in Compiling /\ IsProjection(query) /\ TrueCounts(query) =>
    \/ Cardinality(DistinctRows(c, query)) <= setup.cap
    \/ query.limit \in 1 .. setup.cap

(* What is bound can be joined, in an enriched catalog: with at most one   *)
(* date level, every measure shares a fact with every level.               *)
OneDateLevel(ls) ==
  \A k, l \in ToSet(ls) : IsDateLevel(k) /\ IsDateLevel(l) => k = l
BoundJoins ==
  c.enriched /\ stage \in {"bound", "routed"} \cup Compiling /\ OneDateLevel(bound.dims) =>
    \A m \in ToSet(bound.measures), l \in ToSet(bound.dims) : Joins(m, l)

(* A client that follows the suggestions does not come back to a query     *)
(* that was refused, as long as each was one that advice leads on from.    *)
AdviceNeverCircles ==
  Readable(c) /\ (\A q \in chain : Advisable(c, q)) => query \notin chain

(* The promise of the handler: asked at most once, answered once, and      *)
(* refused only unasked.                                                   *)
GateOf(s) ==
  IF s \in {"starting", "idle"} THEN "idle"
  ELSE IF s \in {"asked", "returned"} THEN "asked"
  ELSE IF s = "answered" THEN "answered" ELSE "open"
Gate == INSTANCE QueryGate WITH gate <- GateOf(stage), answer <- reply.kind
Implements == Gate!Init /\ [][Gate!Next]_(Gate!vars)

(***************************************************************************)
(* What the documentation says, and the code does not do.                  *)
(***************************************************************************)
(* A query the router planned for an engine port that is down is           *)
(* downgraded to SQL and answered there (pipeline.rs:661, probe.rs:130):   *)
(* it is not rejected for having no SQL text.                              *)
DowngradeAnswers == ~ (reply.code = "SqlRejected" /\ override = "none")
=============================================================================
