# TLA+ models of mqo-mcp

The repository is a Rust workspace of about fifty crates. Together they let a language model
query a semantic layer through MCP servers: a structured query (an MQO) is checked and bound
against a catalog, compiled to DAX, MDX or SQL, executed by a live engine, and its result kept on
the server as a *dataset handle* that further tools derive from. Beside the servers,
command-line programs run investigations over the same engine and keep findings and traces in
append-only files.

Two kinds of behaviour are hard here, and both are modelled, checked with TLC on small
instances, and in their main results proved with TLAPS for every value of the constants:

- **state that lives across calls**: two handle stores with different eviction rules, paging
  over a store other threads use, a token cache, retries under a deadline, a catalog cached
  across restarts, files that several processes append to;
- **chains of functions that must agree with one another**: the rules, binder, guards, router and
  three compilers a query passes one after the other, and the kernels that are applied to each
  other's results.

Paths in this file are relative to the repository's root.

## 1. Inventory

| Component | State | Operations | What is hard | What makes it correct |
|---|---|---|---|---|
| query pipeline and routing (`mqo-mcp-server`: `pipeline.rs`, `probe.rs`, `routing.rs`, `projection_guard.rs`, the query tool of `mcp.rs`; `mqo-spec`, `mqo-param-validator`, `mqo-catalog-binder`, `mqo-backend-router`, `mqo-dax-compiler`, `mqo-mdx-compiler`) | what the server learned at its start: live ports, a health report | `query_multidimensional` | a query is judged by name before it is bound; three compilers ground the same filters differently; ports and clusters change after they were probed | what is executed is what was asked, on a backend there was reason to choose, and joins; a refusal costs no query and its advice leads on |
| `dh-store` (`store.rs`) | entries, LRU queue, tombstones, lineage map, byte counter | `put`, `derive`, `get`, `lineage_chain`, `evict_expired`, `stats` | two eviction passes, a sweep whose clock is read before the lock, parents that must survive their children | the counter is exact, the cap holds, eviction follows the LRU order and stops when it can, parents stay, no early expiry, dead stays dead |
| handle session (`handle_ops.rs`, `mcp.rs`) | the store, per process | `query_multidimensional` and the `dataset_*` tools | touches that reorder the queue, lineage walks, operations that fail after they changed the store | drill finds the nearest larger ancestor, a success leaves something usable |
| kernels (`dh-ops`, the statistics of `dh-summary`, `period_over_period`) | none; datasets derived from datasets | `aggregate`, `filter`, `sort`, `top_n`, `pivot`, `compare`, `drill`, `describe` | numbers shown as sort keys, nulls, NaN, columns declared one thing and stored as another | the ways to one answer agree, a group drills to its rows |
| `mqo-duckdb-handle-store` `MemStore` | entries with caller-supplied times | `put`, `get_rows`, `metadata`, `evict_expired` | callers' clocks disagree | the oldest expires first, nothing early |
| cursor paging (`cursor.rs`) | a `MemStore` behind a mutex | `put_and_first_page`, `next_page` | three critical sections in one call, a clock read before them | rows in order and complete, no early eviction, no stale page, reads end |
| `mqo-auth-bridge` executor and retry | none across calls | `execute`, `execute_with_deadline` | timers, retries, backoff, row budget | bounded duration, honest errors, no silent clamp, calls return |
| `mqo-auth-bridge` token cache (`oidc.rs`) | the cached token | `fetch_token` | judged and fetched outside the lock, expiry counted from the answer's arrival | a token in use is alive at the provider, a good one is kept |
| `mcp-finding-store` | `findings.jsonl` | `record`, `set_status`, `get` | load, decide and append without a lock, death between two writes | counts never too high, what was recorded is found, one active finding per query |
| `mcp-investigation-orchestrator` with `mcp-query-budget-governor` | the ledger and the verdicts of one pass | a loop over probes, one `record` | a probe fails in mid-run, a budget that halts | the budget holds, what is recorded is what was found |
| `mcp-trace-store` | active file and `path.1`, `path.2`, … | `append` with rotation, `scan` | renames that are interrupted or interleaved, torn writes | nothing acknowledged is overwritten, order, a tear costs one record |
| catalog cache (`catalog_cache.rs`, `catalog_ingest.rs`, the start of `main.rs`) | one file and its temporary sibling | load, validate against the cluster, ingest, save | every question to the cluster may fail by itself, the cluster changes between two of them, all servers write one sibling | nothing served is older than the TTL, a new version of the model is noticed, the file is replaced at once |
| `dh-mcp-server` | a `dh-store` | the same kernels, a sweep before each request | handles die under a session | not modelled beyond the store's sweep |
| all others: SQL import, guards, profilers, charts, graphs, ontology, benches | none across calls | pure functions, one-shot programs | — | not modelled |

`PROJECT.json` lists every crate with its status, and under `hazards` what could go wrong in
each, at its line, with the properties that would show it.

### How the parts interact

```
 client ── mqo-mcp-server ──┬── pipeline: validator, binder, guards, router, compilers
             │              │      └── auth-bridge executor ── engine (XMLA port, SQL port)
             │              │             └── token cache ── identity provider
             │              ├── dh-store ── kernels   (query results and what is derived from them)
             │              └── CursorStore ── MemStore   (results longer than a page)
 mqo-mcp-server, at its start ── catalog cache (a file, many servers) ── cluster (Discovers)
 orchestrator ── probes, budget ledger, finding store, trace store  (files, many processes)
```

- The pipeline runs its tools as child processes, one after the other, and each sees the output
  of the one before as JSON. Checks made on the names a client spelled and checks made on the
  columns they were bound to are different checks.
- A query result goes into *both* stores: `put` of `dh-store` gives the handle the `dataset_*`
  tools take, and, if the result is longer than a page, `put_and_first_page` gives the cursor
  `next_page` takes. The two evict independently.
- Both servers read requests from standard input one at a time. The stores are nevertheless
  written, and documented, to be shared between threads (`Arc`, `Mutex`), so DhStore,
  CursorStore and TokenCache are modelled with concurrent callers, and QueryPipeline and
  HandleSession, which are the server's loop, with one.
- The finding store, the trace store and the catalog cache are shared by processes through the
  file system alone.

## 2. Modules

| Module | Models | Role |
|---|---|---|
| `Mqo` | `mqo-spec/src/lib.rs`, the catalog | vocabulary: queries, filters, what a query asks for |
| `ParamValidator` | `mqo-param-validator/src/lib.rs`, `param_validate` and the calculation-context check of `pipeline.rs` | operators |
| `CatalogBinder` | `mqo-catalog-binder/src/binder.rs` | operators |
| `ProjectionGuard` | `mqo-mcp-server/src/projection_guard.rs` | operators |
| `BackendRouter` | `mqo-backend-router/src/lib.rs`, its SQL included | operators |
| `DaxCompiler`, `MdxCompiler` | `mqo-dax-compiler/src`, `mqo-mdx-compiler/src` | operators |
| `QueryGate` | — | abstract: asked at most once, answered once, refused unasked |
| `QueryPipeline` | `pipeline.rs`, `probe.rs`, `routing.rs`, the query tool of `mcp.rs` | composes the seven above, implements `QueryGate` |
| `HandleLife` | — | abstract: minted, live, then expired or forgotten for good |
| `DhStore` | `dh-store/src/store.rs` | implements `HandleLife` |
| `HandleSession` | `handle_ops.rs`, the query tool of `mcp.rs`, the store's use by `dh-ops/src/lib.rs` | extends `DhStore` |
| `DhOps` | the kernels of `dh-ops/src/lib.rs`, `stats_*` of `dh-summary/src/lib.rs`, the rows-to-dataset conversion and `period_over_period` of `handle_ops.rs` | datasets by their contents |
| `MemStore` | `mqo-duckdb-handle-store/src/mem_store.rs` | |
| `PagedRead` | — | abstract: rows delivered in order, all or fail |
| `CursorStore` | `mqo-mcp-server/src/cursor.rs` | composes `MemStore`, implements `PagedRead` |
| `QueryExec` | `mqo-auth-bridge/src/executor.rs`, `retry.rs` | |
| `TokenCache` | `mqo-auth-bridge/src/oidc.rs` | |
| `FindingTable` | — | abstract: an atomic table of findings |
| `FindingStore` | `mcp-finding-store/src/lib.rs`, its use by the orchestrator | implements `FindingTable` for one process at a time |
| `Investigation` | `mcp-investigation-orchestrator/src/main.rs`, `mcp-query-budget-governor/src/lib.rs` | extends `FindingStore` |
| `TraceStore` | `mcp-trace-store/src/lib.rs` | |
| `CatalogCache` | `catalog_cache.rs`, `catalog_ingest.rs`, the start of a server in `main.rs` | |
| `MC…` | — | instances for TLC; `MCInvestigation` says which processes run when |
| `…Proofs` | — | the theorems about the module they are named for; `AuthBridgeProofs` holds those about `QueryExec` and `TokenCache` |

Definitions whose comment begins with "Faulty" (`HasMoreOneShort`, `IsHighestEarly`,
`FaultyEffective`, …) are plausible slips in the code they stand beside. The specifications do
not use them; with one of them in the place of the definition that follows it, a property of the
module fails, which shows that the property depends on that code.

### The query pipeline

One request at a time goes through the stages of `stage`; each action is a step of the code with
all its early exits, and `reply` is what the client is told.

| Action | Code |
|---|---|
| `Probe` | start of the server: ports probed or assumed, health report read or not |
| `Submit`, `FollowAdvice`, `Leave` | a client; one that was refused may submit a query the refusal suggests |
| `Admit` | the front of `query_multidimensional`: cluster selection, projection guard, model coordinate |
| `Check` | `validate`, the parameter rules, the calculation-context check |
| `Bind` | `mqo-bind`, and the binder's joins, date roles and near twins |
| `Route` | `mqo-route` and `apply_capability_downgrade` |
| `Compile` | `mqo-dax`, `mqo-mdx` or the SQL the router wrote |
| `Ask`, `EngineAnswers`, `EngineFails`, `Deliver` | the executor, the engine, and the completeness guards on the result |
| `ToolFails` | a child process that does not start, fails, or writes no JSON |
| `PortChanges`, `ClusterChanges`, `RefreshHealth` | the world, which the server does not watch |

A *name* is the sequence of its words, because every rule about names compares words. A
*catalog* is a record of levels, measures and calculation groups, together with the cube's cells,
so that a filter *means* a set of rows. What a compiler writes is modelled by what it tells the
engine: the columns, the rows its filters keep, the calculations, order and limit, and whether
it names a column that does not exist. This is what lets `AnswersWhatWasAsked` compare three
backends with the meaning the doc comments of `mqo-spec` give a query, without a string in
sight. A lookup in a hash map that holds two levels under one label takes either (`Picks`).

### DhStore

`entries`, `expiredIds`, `lineage` and `totalBytes` are the fields of `StoreInner`. The LRU
`VecDeque` is the relation `lru`, with `<<a, b>>` when `a` is at or ahead of `b` in the queue,
which keeps what eviction needs, the order, without positions. Handles are numbered in the order
they are minted (the code draws UUIDs). A dataset is its byte estimate: the store looks at
nothing else.

| Action | Code |
|---|---|
| `Put`, `Derive` | `put`, `derive`: insert at the back of the queue, record the lineage, then `evict_to_cap` with both its passes, in one critical section |
| `Get` | `get_cloned`: touch, or one of two errors |
| `SweepRead`, `SweepApply` | `evict_expired`: `Utc::now()` first, the lock afterwards |
| `Tick` | the wall clock |

`lineage_chain` and `stats` only read; they are the operators the properties are written with.

### HandleSession and DhOps

The two look at the same tools from two sides. `HandleSession` knows a dataset by its row count
and byte estimate (a "shape") and models what the tools do to the *store*. One action per kind of
tool: `Query`, `Kernel` (aggregate, filter, slice, sort, top_n, pivot and describe), `Compare`,
`Drill`, `PeriodOverPeriod`, `Read` (chart, export), and the ways to fail: `FailedOp` and
`FailedCompare` (the kernel rejects its arguments *after* the handles were touched),
`DrillUnsupported`, `DeadHandle`. The retry of `run_dh_op` with a corrected column name touches
the same handles again in the same order, so it leaves the queue of a single try, and is not a
step of its own. The variable `reply` records what the client is told, because the
properties relate the reply to the store it leaves. The server never calls `evict_expired`, so
there are no sweepers and the clock may stand still.

`DhOps` knows a dataset by its columns and rows, on a store that never evicts, and models what the
tools *compute*. A cell is its type and its place in the order of that type, a rank (not 0 for NaN and the infinities
alone) and a number: numbers, texts by their place in the order of
texts, null, and the sort keys that `as_sort_key` makes of numbers. Floats have two zeros, which are equal as
numbers (`Same`) and different as keys (`FloatDigits`): `compare` makes -0.0 of a change of nothing from a negative base
(`Percent`). A column
has a declared type and the type of its data, because `aggregate` lets the two differ. Every
action derives a dataset from any earlier one with parameters a client could send.

### MemStore and CursorStore

`MemStore` takes its times from its callers, who may be behind one another, so each operation
picks any time.

`CursorStore` gives every client a program counter because both calls consist of several
critical sections: `BeginPut` (clock read), `FinishPut` (evict, put, first rows), `BeginNext`
(clock read), `Evict`, `Expired` or `Metadata`, `GetRows`. A client sends back the token it was
given, or starts over without one (`BeginRestart`, token 0). Rows are their numbers, so that a
page says which rows it holds.

### QueryExec and TokenCache

One call from `Call` to `Return`. `pc` names what the call waits for: the token, an attempt
(PGWire), a backoff sleep, or the send, body and refusal text of an XMLA request. Timers fire on
time (`Timer`, with `Tick` stopping at the next one); token endpoint and engine answer at any
time or, the engine, never. The backoff has the code's shift, cap and jitter, with its own
arithmetic. Row budget and caller's limit follow `execute`: fetch `budget + 1`, cut, flag.

`TokenCache` is the step that `QueryExec` waits for, with the threads that share the cache: the
clone under the lock (`Look`), the judgement after it (`Hit`, `Miss`), the request, its issue at the
provider, its arrival, and the unconditional store. A token is known to the provider by when it
was issued and to the cache by when it arrived; `judged` is when its user last looked.

### FindingStore and Investigation

The file is a sequence of lines, each the sequence of the records written into it; a line with
two records is one that no longer parses. `BeginRecord`/`BeginSetStatus`, the load with its
decision, `WriteText`, `WriteNewline` and the orchestrator's `ReadBack` are separate steps,
because `writeln!` on an unbuffered `File` makes two writes and no lock spans load and append. A
process may die between any two. Reading a file that only grows counts as one step, taken when
the reader meets its end.

`Investigation` adds what a pass does before it opens the store: hypotheses come (`Start`), each is
probed by a child process (`Probe`, `ProbeFails`) as long as the ledger allows (`Halt`), and the verdicts
decide the status that `Record` writes.

### TraceStore

`file[n]` is the file that `path.n` names (0: the active path) and `content` what each file ever
created holds, so a writer that has a file open keeps it through renames. One step per system
call: `Exists`, `Metadata`, `Probe`, `Shift`, `ShiftActive`, `Open`, `Write`. A rename replaces
what has the new name. A process may die between any two steps and, if `MayTear`, in the middle
of a write. Sizes are counted in records. `Kept` are the records written to any file, `Stored` those a reader can
make out (a torn half spoils the line it shares), `Scanned` those `scan` reaches.

### CatalogCache

What happens to the cache file when a server starts. `name` maps the cache's name and its
sibling's to the file each stands for, and `content` says what each file ever made holds, as in
TraceStore. A catalog is, for each level, its number of members and when those members were
read; `model` is the version its levels were read at.

| Action | Code |
|---|---|
| `Start`, `Load` | the clock, then `load_cache`: a cache, or nothing (`--refresh-catalog`, a file that does not parse) |
| `Unreachable`, `Validate` | the first question fails and the cache is served as it is; or `validate_cache` with its three verdicts |
| `ReadLevels`, `FetchMembers` | the ingestion: levels, the caps, the members of several levels in any order, each read or not |
| `Save`, `Write`, `Rename` | `save_cache`, by system call, with the failures that leave, cut or remove the sibling |
| `Stop` | a server ends, or dies anywhere on its way |
| `DataLoad`, `Republish`, `Tick` | the cluster, which changes between any two questions, and time |

## 3. Runs

Every run explores all behaviours within its bounds. `CHECK_DEADLOCK FALSE` is set where
the bounds on handles, operations and requests end every behaviour, and a server with no request
to serve really is idle. `token_cache` has no such end and checks for deadlock.

| Run | Instance | Checks | Shows |
|---|---|---|---|
| `query_pipeline` | four servers: an enriched catalog, one that routes by shape to MDX, one forced to SQL, one with two clusters and two spellings of a cube; some seventy queries; one change of ports or clusters, two suggestions followed | `BackendJustified`, `AnswersWhatWasAsked`, `DaxKeepsContext`, `ProjectionBounded`, `BoundJoins`, `AdviceNeverCircles`, `Implements` | where three backends agree on what a query means, what the checks before binding really guarantee after it, and that a refusal is given before the engine is asked |
| `dh_store` | cap 4, sizes 1, 3, 5, TTLs 0, 1, one sweeper, four handles, clock to 1 | `BytesBounded`, `NoEarlyExpiry`, `EvictsInTurn`, `ParentsOutlast`, `Implements` | whatever the order of puts, derives, gets and late sweeps, the counter is exact, eviction takes the least recently used unprotected entries and no more than needed, parents survive, and a handle's fate is final |
| `handle_session` | cap 4, shapes of 1 row/1 byte, 2/1 and 3/3, inline up to 1 row, page of 2, four handles | `DrillNearest`, `ReplyUsable` | drill never skips to an older ancestor because a nearer one was evicted; which replies may name a dead handle |
| `dh_ops` | two results of 4 and 3 rows with negative numbers, nulls, an empty text, a column of years that come as Floats, a base of zero and both zeros of Floats; two queries, three datasets, then a drill of the newest | `TypeOK`, `RanksAgree`, `KernelsAgree`, `DrillFindsGroup` | which compositions of kernels give the same answer whatever way one goes |
| `cursor_store` | two clients, results of 3 and 4 rows in pages of 2, TTL 1, two cursors, time to 2, one restart each | `PagesExact`, `TtlKept`, `ReadEnds`, `ReadsPaged` | interleaved critical sections lose, repeat and reorder no row; a read ends |
| `query_exec` | deadline 6 (overrides 3, 9; maximum 8), two retries, budget 3, limits 0, 2, 5, results of 0, 3, 4, 6 rows, token after up to 7 | `OverrunBounded`, `OutcomeIsTrue`, `CallReturns` | every outcome at every instant: how late a call may end, what its error says, what its answer hides |
| `token_cache` | two threads, lifetimes 1 and 3, skew 1, time to 6 | `AliveWithinSkew`, `NoNeedlessFetch` | how much delay the skew pays for, and that racing fetches replace only what their callers had not seen |
| `investigation` | either passes one after the other (two queries, budgets 0 and 2, none or three hypotheses, three operations, a closing status set in between) or two processes that overlap (one query, four operations); one death | `NeverOvercounted`, `ReadBackFinds`, `OneActiveAlone`, `BudgetHonoured`, `RecordsWhatWasFound`, `ImplementsAlone` | without overlap, failing probes and deaths included, the file implements the table; what a pass records is what it found; and what survives the stale loads of passes that overlap |
| `trace_store` | one writer, rotation at three records, eight slots, twelve records, four deaths, torn writes | `NothingLost`, `FilesKept`, `OneLostPerTear`, `RotationClosesGap` | interrupted rotations, one after another, overwrite and reorder nothing, and a torn write costs one record |
| `catalog_cache` | two servers, three starts, one stop, one level of 1 or 3 members (cap 2), TTL 1, time to 2, one change of the cluster | `StaleWithinTtl`, `RepublishNoticed`, `ReplacedAtOnce` | what the TTL and the version of the model bound although every question may fail and every server may die, and that one temporary name for all does no harm to servers that save one after the other |
| `query_downgrade` | as `query_pipeline` | `DowngradeAnswers` is violated | see section 6 |
| `catalog_cache_diff` | one server that starts twice, one change of the cluster | `CardinalityDiffed` is violated | see section 6 |

The properties that say more than their names:

- `AnswersWhatWasAsked` has two conditions, each a limit found in the code. `WellPlaced`: every
  filter says without doubt which level it is about, and a full name is a level of the catalog. `CanTell`: the
  backend has a way to say it (SQL filters the first projected level of a hierarchy only, and no members of a
  calculation group; an MDX slicer is one tuple of listed members). Within
  them, what is executed keeps exactly the rows the query asks for. Section 6 lists what happens outside.
- `DaxKeepsContext` relates a rule that reads the names a client spelled to the measures that
  were bound: it holds for queries that use names or labels, and not for the binder's aliases. It says that a growth
  or ratio measure is never sent over DAX without any time intelligence or calculation group, and no more: a share or
  a rank counts, as it does for `check_calc_context`, and the run sends a rank by such a measure with no period to
  compare with.
- `AdviceNeverCircles` is about clients that take the suggestion of one refusal after another, whichever rule refused. It leaves out
  queries refused for a ratio measure and exact levels refused as ambiguous (`Advisable`), whose suggestions may lead
  back (section 6), and asks three things of the catalog (`Readable`): the values of a domain have the type of
  its level, no name is empty, and no calculated measure has a name that reads as the base of another.
- `RanksAgree` asks of the column that it has no NaN and no infinity and not both zeros of Floats. `top_n` takes -0.0 and 0.0
  for a tie, `sort` puts -0.0 first, and a column that `compare` made may hold both (section 6).
- `KernelsAgree` is four statements: an aggregate of an aggregate is the coarser aggregate; a pivot
  is the two-column aggregate laid out; periods add up to the whole; a comparison the other way
  round finds the same pairs with the opposite change. Each leaves out just what the kernels document
  or decide differently (counts of distinct values, infinities, duplicate keys). Values are compared as numbers, but
  for those of the periods, which agree to the sign of a zero.
- `DrillFindsGroup` is what the documentation of `drill` promises, where it is true: for group columns of
  texts, in which null and the empty text do not meet and of which none hides another of the same name, and an aggregate
  smaller than what it was made of.
- `OneLostPerTear`: acknowledged records that no reader can find are no more than the deaths so far.
- `StaleWithinTtl` excepts the server whose first question to the cluster fails: that one serves the cache whatever its
  age. `RepublishNoticed` excepts the version that is published while the cache is being made: section 6 says why.

### Why the bounds are enough

- **Pipeline.** The instance has a hierarchy and its near twin, a label two hierarchies share, a level
  without captured members, a member that occurs at two levels, dates of two roles, measures of every kind
  (plain, calculated, ratio, comparison, semi-additive), every kind of filter inside and outside
  groups, and thresholds that the estimates meet from both sides. Two suggestions
  followed is one more than the shortest circle needs. `EstimateWidth` stands for 2^64.
- **dh-store.** One entry fits, two or three fill the cap, and one size exceeds it alone. Four
  handles allow a grandparent, a parent, an unrelated entry and the insertion that evicts; the
  clock's two values let an entry expire between the two steps of a sweep.
- **Session.** Row counts below and above both thresholds; four handles give a chain of two
  derivations with an unrelated query that evicts, or a chain of three.
- **Kernels.** Every pair of kernels is composed on every choice of columns; the rows have every kind of cell
  and, in each column, a repeated value. `Width` is wide enough for every sum. A sum starts with -0, as
  it does in the compiler's present library, and of two zeros a minimum or maximum takes the last; the theorems leave both open.
- **Cursor.** A result that ends in the middle of a page and one that fills its last page; two
  clients are enough for any interleaving of one client's sections with evictions and
  insertions by another. Time 2 exceeds the TTL once in mid-read.
- **Query.** Budget minus, at, just above and well above; overrides below and above the maximum;
  enough retries for a first, a middle and a last; a token slower than the deadline.
- **Tokens.** A lifetime no longer than the skew and one longer; time for a token to be fetched, to expire in use and
  to be fetched again by both threads.
- **Finding store, investigation.** Two processes interleave all pairs of load and append; they have nothing to probe, since
  what a probe does concerns its own pass. Alone, three operations (`MaxAlone`) let a
  finding be recorded, closed and recorded anew; three hypotheses exceed the budget of two by one.
- **Catalog cache.** Three starts let one server save, a second judge that cache while a third replaces it or dies
  in doing so. Time 2 exceeds the TTL once; a data load moves the level across the cap, in either direction. Levels do not
  interact but through `MaxLevels`, so there is one.
- **Trace store.** Four deaths put several interrupted rotations in a row; eight slots are never used up by
  twelve records; a file of three records holds a tear, the record it spoils and a good one.

The bounds are constants named `Max…`; they are guards of the actions they bound. The
theorems do not depend on their values.

### Fairness

- `CursorStore`: each client's steps of an ongoing read (`Reading`) are weakly fair: a thread
  holds the mutex for a bounded time, and a client that has more to read asks for it. Nothing
  is assumed of the clock or of clients that start new reads.
- `QueryExec`: time passes, the timers of tokio fire, a sleep ends, and the token endpoint answers.
  The engine is not assumed to answer. That the token endpoint must is a limit of the code: the HTTP client of
  `mqo-auth-bridge/src/oidc.rs:149` has no timeout, and without this assumption
  `CallReturns` is false.

All other properties are safety properties and assume nothing.

## 4. Refinement

- `QueryPipeline` implements `QueryGate`: the eleven stages are four states of a request. Checked, and
  proved (`PipelineImplementsGate`).
- `DhStore` implements `HandleLife`: the abstract status of a handle is what a lookup answers
  for it (live, expired, not found). This includes that no operation revives a handle or forgets
  a tombstone. Checked, and proved (`Refinement`).
- `CursorStore` implements `PagedRead` for each client, with `state` read off the client's program
  counter and `delivered` the number of rows it has. Checked, and proved (`ReadsArePaged`).
- `FindingStore`, with one process at a time (`ImplementsAlone`), implements `FindingTable` with the findings that a
  load of the file would find: an append that dies before or after its text either did not
  happen or happened wholly. Checked as part of `Investigation`, whose passes are the only writers of the
  repository, and proved (`StoreImplementsTable`). It is a true statement only without reopening (`set_status`
  to an active status on a closed finding), which the run leaves out; section 6 says why.

## 5. Proofs

| Module | Theorem | Establishes |
|---|---|---|
| `QueryPipelineProofs` | `TypeCorrect`, `BackendsAreJustified` | types; no query is compiled for a backend that was neither forced nor found live |
| | `BindingsJoin` | in an enriched catalog every bound measure shares a fact with every bound level |
| | `ContextIsKept` | a growth or ratio measure called by name or label never reaches DAX without any time intelligence or calculation group, for any catalog |
| | `AnswersAreRight` | within the two conditions of section 3, what DAX, SQL or MDX is sent keeps exactly the rows the query asks for |
| | `ProjectionsAreBounded` | a projection of one hierarchy that passed the guard returns no more rows than the cap, or than its limit, if the member counts are true |
| | `AdviceLeadsOn` | within the conditions of section 3, following suggestions never leads back to a query that was refused, for any catalog and any number of refusals |
| | `PipelineImplementsGate` | `QueryGate` is implemented |
| `DhStoreProofs` | `TypeCorrect`, `AccountingHolds`, `CapHolds`, `BytesAreBounded` | types; the byte counter is the sum of the live entries; the cap |
| | `LruHolds`, `TombstonesHold`, `LineageHolds` | the queue lists the live entries exactly; tombstones are dead; lineage points back |
| | `ParentsNeverSizeEvicted`, `FreshIsEvictedLast`, `ParentsLast` | no entry that was derived from is evicted for space; a new entry dies at once only when only parents remain |
| | `NoEarlyTombstone`, `DeadHandlesStayDead`, `Refinement` | no early expiry; fates are final; `HandleLife` is implemented |
| | `EvictionIsInTurn` | eviction follows the queue and stops as soon as the cap is met |
| | `SessionTypeCorrect`, `ParentsNeverLost`, `DrillFindsNearest`, `RepliesUsable` | in a session every ancestor of a handle is alive, so drill finds the nearest larger one; what a success leaves |
| `DhOpsProofs` | `Inductive`, `TypeCorrect` | every dataset is what its kernel made of its parent, each cell of the type of its column, for all results of queries and any chain of kernels |
| | `TopMatchesSort` | `top_n` keeps the rows `sort` puts first, in a column of finite numbers that has not both zeros |
| | `KernelsCorrect` | aggregates of aggregates, crosstabs, periods and comparisons agree with the direct way, but for the sign of a zero |
| | `DrillCorrect` | drill gives the rows that a group stands for, under the conditions of section 3 |
| `CursorProofs` | `TypeCorrect`, `RowsArriveInOrder`, `CompleteHoldsAll`, `PagesAreExact`, `NoCursorEvictedEarly`, `NoPageServedStale`, `TtlIsKept` | paging, for any number of clients |
| | `ReadsArePaged` | `PagedRead` is implemented for every client |
| `AuthBridgeProofs` | `TypeCorrect`, `CallsEndInTime`, `ExhaustionIsReal`, `BudgetIsSignalled`, `OutcomesAreTrue` | duration, errors and budget, for all retries, deadlines and limits |
| | `TokensTypeCorrect`, `TokensAreAlive`, `GoodTokensAreKept` | tokens, for any number of threads, lifetimes and skew |
| `InvestigationProofs` | `BudgetsHold`, `FindingsAreJustified` | budgets and verdicts, for any number of passes at the same time |
| | `NothingIsOvercounted`, `WhatIsRecordedIsFound` | the file never shows more recurrences than were recorded, nor forgets a finding, whatever overlaps or dies |
| | `OneFindingIsActive`, `StoreImplementsTable` | of processes that do not overlap: one active finding for a query, and `FindingTable` is implemented |
| `TraceStoreProofs` | `RotationLosesNothing`, `RotationKeepsOrder`, `RotationLeavesOneGap`, `RotationKeepsFiles`, `RotationRestoresScan` | rotation with any number of deaths and torn writes, for one writer |
| | `OneRecordPerTear` | every acknowledged record no reader finds is paid for by a death of its own |
| `CatalogCacheProofs` | `TypeCorrect`, `StaleOnlyWithinTtl`, `RepublishIsNoticed`, `CacheIsReplacedAtOnce` | age and version of what a server serves, and the replacement of the cache, for any catalog |

### Arguments

**QueryPipeline.** What a theorem is not about (rules, compilers, the order of stages) stays closed in its proof, so the
result holds whatever these do. `Decided` carries the reason for a
backend from `Route` on; `Joinable` what the binder checked of the columns it bound, which no later step
changes. `ContextIsKept` rests on a lemma about measures: a name that the context check recognises
is bound by the first two tiers of the binder, to measures of that name or label. The refinement
has one step per action, and the stages say which abstract step it is.

`AnswersAreRight` opens the three compilers. The invariants are that the query stays well formed through every
rewriting (`WellFormed`, `QueryStep`), and `Answerable`: the text that goes to the engine was compiled from the
query as it now stands, for the backend that was decided, and names no unknown column once the engine has
answered. For each backend one lemma says what a leaf becomes (`DaxOfFilter`, `SqlOfLeaf`, `MdxOfLeaf`) and one
carries it over groups (`DaxKeepsAsked`, `SqlKeepsAsked`, `MdxKeepsAsked`). `ProjectionsAreBounded` rests on
`Fitting`: a query that passed the guard keeps to the cap, and no later stage changes what the guard looked at.
The guard walks the hierarchies with a running product, cut down filter by filter; the lemmas (`SoleHierarchy`,
`Unreduced`, `GuardBounds`) follow it for the projections the property is about, of one hierarchy and without
filters.

`AdviceLeadsOn` gives each query a `Rank`, the sum of the weights of its levels, names and filters, and shows that every
suggestion lowers it (`AdviceLowers`; one lemma for each way of changing a query). A level weighs the more the further it is from being
accepted: its label unknown, known in another hierarchy only, outshone by a twin, none of these. A name in the slot
of measures that is but a level's weighs more than any level, since the role rule moves it to the other slot, and less moves
back. A base weighs more than the calculation that takes its place, a filter with a value off its domain more than one without.
So a client may be sent through several rules, each of which may break what another asks for, and still not
in a circle. The invariant is `Descending`: every query a client was advised away from ranks above the one it came to. Sums are counts
of units under a graph (`Units`), so that a sum falls when one set of units is injected into another.
The proof needs what the source says of two suggestions: one for a member comes from the levels it could be compared with
(`SuggestedFrom`), one for a range has the type of its level.

**DhStore.** `IInv` joins `TypeOK` and `BytesBounded` with what they need: the queue lists
exactly the live entries (or eviction could not reach one), tombstones are dead, lineage goes
back, and a sweep's clock is never ahead (hence `NoEarlyExpiry`). Sums of sizes are treated as
cardinalities of sets of numbered bytes, since the provers have no induction for sums. The heart is
`evict_to_cap`: its first pass may evict every unprotected entry, the new one too, and what it
cannot evict was within the cap before the insertion; so the cap is met when the first pass ends,
and the second, forced pass, which would evict parents, never evicts anything. From this follows
`ParentsOutlast`. `EvictionIsInTurn` describes the first pass by the handles it removes, which are the unprotected ones up
to a place in the queue, and shows that the bytes left before the last of them were above the cap.

**HandleSession.** `SInv` adds `ParentsLive`: without sweeps, and with parents never evicted, every
handle that a lineage record names as a parent is live. Hence the walk of drill finds every ancestor.

**DhOps.** The properties relate a dataset to those it was made of, which a state does not show; `IInv` says it of each
dataset (`SetOK`). It is well formed (`DatasetOK`): the data of a column are of one kind, and its texts of one kind too, so that
keys can be compared and tell cells apart. Parents come before their children. There is room below `Half` for
the rows and columns that kernels may add (`Roomy`), or a count would leave the numbers. And it is what its kernel makes of its
parent (`Faithful`). Each kernel has a lemma that says what it makes by positions instead of by the `CHOOSE` that arranges
keys (`AggregateIs`, `PivotIs`, `CompareIs`, …); all rest on one fact, that where a finite set is in a total order exactly one element
has `i - 1` before it (`Positions`). `IInv` was checked with TLC before it was proved.

`TopMatchesSort` follows from the order of keys being that of numbers (`RanksAsKeys`), with null the lowest of either and
one of the zeros missing.
`KernelsCorrect` needs that sums do not depend on how rows are grouped: addition of Floats commutes and associates
with NaN, infinities and both zeros included (`PlusAssociates`; rounding is left out). Its zero is -0, so a sum is -0 plus the numbers
(`Sum`), plus the zero the build starts with, which may be added again without effect (`StartAbsorbed`). A table of numbers has one sum by rows and by columns
(`SumTransposed`), so groups that share out the rows add up to the whole (`SumGrouped`, `TotalsAddUp`). The least and the greatest
of groups are those of the whole likewise (`LeastOfLeast`), but for the sign of a zero, because of two zeros `f64::min` may
take either. A group of groups is a group because the key of a shown key
tells which key it was (`KeysRoll`), and the cell of a pivot and the row of the aggregate by both columns are of the same
group (`CombinationIs`, `PivotNames`). For `DrillCorrect`, the walk from the aggregate stops at the dataset it was made of
(`DetailIs`), and the texts shown with a row ask for the rows of its group (`GroupAsked`).

**CursorStore.** `ClientOK` ties a client's token to the rows it holds and the row count it read to the
immutable entry it reads from; `WasFresh` says that between its first critical section and its last the
cursor, if present, was within its TTL when the call began. The refinement has one step per action: of a client's
critical sections only the one that ends a call maps to a step of `PagedRead`, and by `ClientOK` it delivers the next rows.

**QueryExec.** `Timely` bounds the clock by the current attempt's start in every waiting state;
`LastStart` is `deadline_end` or, if later, the arrival of the credentials.

**TokenCache.** A thread that is fetching has seen a token that is no longer good, and stays so, since time does not go back
(`InFlight`); a token in use was more than the skew from its end when it was judged (`InUse`).

**Investigation.** What a pass knows depends on that pass alone: the invariant is stated for each
(`PassOK`), and one lemma (`OneByOne`) disposes of the steps of all others.

**FindingStore.** The file is read with folds: lines joined to records, records applied to a table one by one. What the
proofs need of them, that a file with one record more gives the table with that record applied (`OneRecordMore`), is
proved from the least length at which it would fail. `StoreOK` says of any number of processes that each record of the
file is well formed, that a record which a process is about to write is of a finding that it loaded or minted, and that a process
that reads back finds what it wrote; files grow, and neither findings nor recurrences are ever taken back. `AloneOK` adds, for processes
that do not overlap, that what a process loaded is what the file still says (`Justified`), so its decision is
still right when it appends. Both were checked as invariants with TLC before they were proved.

**TraceStore.** `TargetFree` says that the slot above the one renamed next is the only gap, so no
rename replaces a file; `Searched` is how the probe establishes it; `Older` and
`OneNamePerFile` carry the order over renames. A torn write adds no record (`TornKeeps`).
`OneRecordPerTear` counts (`TearsPaid`): the deaths so far are at least the records lost, and one more while the active file
ends in half a line (`Owed`), for the next record will be lost to the death that left it.

**CatalogCache.** What a server holds between two steps of its start depends on it alone (`ServerOK`), and what the file holds was
made by a server that asked the cluster in the order of the code: version after levels, and both after the time it stamps.
As long as no two servers have been saving at the same time, `Alone` says that the one that saves has the sibling to itself,
empty or whole when it renames. The invariant was checked with TLC before it was proved.

### Assumptions

The named assumptions in the modules give the constants their types (`…ConstantsOK`, `…Assumption`). `AloneConstantsOK`
says that the process that runs alone is one of the processes.
`QueryPipeline` assumes (`SetUpAssumption`) that queries and catalogs have the types of the source: filters, groups nested at most
twice, limits and members; columns with natural counts; and that a catalog lists no measure name twice, as the ingestion does. `AdviceNeverCircles` states `Readable` itself. `QueryExec`
assumes `ShiftsOK`, that powers of two are natural numbers, because the provers have no theory
of `^`. `OpsConstantsOK` does the same for `Half`, and says that there are fewer datasets than numbers and that sums start with
one of the two zeros; `TablesOK`,
that the rows of a query's result have a cell for each column, which is null, a text, an integer of the width or a Float that is
neither NaN nor infinite (JSON has none), and are fewer than the numbers. The theorems about `TraceStore` assume `OneWriter` in their statements: without it,
`NothingLost` is false (section 6).

### Model-checked only

Every invariant that a run checks is proved. What remains:

- `MemStore` by itself; its use by `CursorStore` is proved.
- The liveness properties `ReadEnds` and `CallReturns`: the provers handle neither fairness nor `ENABLED`.

The provers have no induction over data that takes the claim as a parameter. Where a proof needs one (folds over
a file, sums of sizes or of columns, cardinalities) it takes the least counterexample of a set of numbers, which exists by `WFMin`.

## 6. Where documents and code disagree

Two disagreements have a run that shows them:

- **`query_downgrade`.** `mqo-mcp-server/src/pipeline.rs:663` says "If downgraded to SQL → log and return
  `"sql"`", and `probe.rs:133` promises a downgrade when SQL is live and the planned port is not. The
  compile step then takes the SQL the router wrote (`pipeline.rs:1306`), which the router writes only
  when it decides for SQL itself. The text is empty and the query is rejected (`pipeline.rs:502`): a
  server whose XMLA port is down answers nothing, though its SQL port is up. A query forced
  to SQL on a server that routes by shape ends the same way.
- **`catalog_cache_diff`.** `main.rs:334-336` says that a restart validates the cache by `LAST_SCHEMA_UPDATE` and the
  difference of the levels' cardinalities. `main.rs:591` gives the comparison the whole catalog, an object, where
  `catalog_ingest.rs:492` expects the array of columns; it finds none, so no level ever counts as changed and the
  verdict `PartialInvalid` is never reached. A server that is told of another number of members
  serves the old ones until the TTL ends.

Others were met while modelling. They are in the models as the code has them; where a property
has a condition, it is one of these.

*What a query means*
- A SQL `Member` filter uses the first projected level or hierarchy-named column, where `mqo-spec` (191-193) and
  the DAX compiler look at the members of every level. SQL drops empty OR groups and empty member lists.
- SQL resolves a full level name that the catalog does not have by its last segment
  (`mqo-backend-router/src/lib.rs:400-440`): a Range or MemberLevel filter that names a level under the wrong hierarchy
  then filters the level of another one.
- SQL leaves the members of a calculation group out of an OR (about 467), which narrows the group to its other
  filters, where DAX declines the query.
- The MDX slicer is a tuple: groups are flattened to a conjunction, ranges and exclusions dropped.
- The order of a query is lost when DAX also limits it, and a Rank hides the limit.
- A calculation context is satisfied by a Share or Rank, though the comment beside the check
  (`pipeline.rs:414-419`) asks for a period to compare with, and dropped on SQL and MDX.
- Rules that read the names a client spelled do not see through the binder's aliases: an alias
  escapes the context rule and the ratio rule.
- The rule for semi-additive measures never fires (`pipeline.rs`, about 785: its input is never filled), and the guard on
  near-twin intent does not look at MemberLevel filters or groups.
- A bare label that two levels share grounds to either of them, whatever hierarchy the filter names, and a Member filter is
  grounded by its first member only. With two date roles, one compatible level hides an incompatible one.
- The projection guard's estimate, whose header calls it an upper bound, is too low for Member filters on
  coarse levels and for OR groups; the router's product of cardinalities wraps around at 2^64.
- A range with its bounds swapped is refused at the top of a query and accepted inside a group.

*Advice that does not help*
- The refusal of a ratio calculation suggests the query that was refused (`mqo-param-validator/src/lib.rs:1752-1756`).
- The rule for qualified levels refuses the exact level "X" in favour of "P X" when another hierarchy has
  a "Q X" (2991-3104), and the rule for labels suggests a label of another hierarchy without the hierarchy.
  The first can lead in a circle: where the customer hierarchy has a "Postal Code" and a "Billing Postal Code" and another
  has a "Shipping Postal Code", a query on the exact level "Postal Code" is refused as ambiguous in favour of
  "Billing Postal Code", which the rule for near twins refuses in favour of "Postal Code".
  `AdviceNeverCircles` says where following the advice does end.

*Investigations and findings*
- A budget of 0 means no limit. `CheckIn`, a "soft limit — pause and ask a human" in the README of
  `mcp-query-budget-governor`, never pauses the orchestrator (`main.rs:88`).
- The orchestrator passes no execution mode to the probes it starts, so those run by the repository's own
  `mcp-probe-executor` are always inconclusive. When one probe fails, the results of the earlier ones are lost.
- `mcp-finding-store/README.md:78` says that every operation appends exactly one line. `lib.rs:120` writes text and line end
  separately; after a death between them the next record shares the line, and every later operation
  fails with `corrupt line`.
- Overlapping runs can create two active findings for a query (`lib.rs:222`, against
  `README.md:7`) and put `last_seen` back (`lib.rs:176`). `set_status` can reopen a
  closed finding beside an active one; a recurrence keeps the status it finds.

*Execution and tokens*
- `mqo-auth-bridge/src/retry.rs:180-182` says that `deadline_end` bounds the total time. `retry.rs:208` compares
  only the end of the backoff with it; the attempt that follows has a whole deadline of its own
  (`executor.rs:906`). `OverrunBounded` states what holds: at most one deadline more.
- The row budget is looked at before the caller's limit (`executor.rs:939`): of a result above the
  budget, a caller with a smaller limit gets the whole budget, flagged as cut, where
  `engine.rs:69` promises at most `limit` rows.
- An XMLA body that times out is an HTTP error, not a deadline error (`executor.rs:470`, against 388-390).
- A token that is to live no longer than the skew of 30 s is never good: every call fetches one. The executor
  never clears the cache when the engine refuses a token.

*Handle store and session*
- `put` and `derive` may return a handle that is already dead (`store.rs:158`); a comment of a test
  says the last inserted handle must survive (`store.rs:517`).
- `live_parent_ids` protects the parents of dead children too (`store.rs:97-99`), and a failed
  operation whose child died leaves such a record.
- `ARCHITECTURE.md:126` and `README.md:118-119` describe handles that expire. The MQO server never
  calls `evict_expired` (only `dh-mcp-server/src/mcp.rs:116` does), and its TTL is fixed at
  3600 s (`handle_ops.rs:63`) whatever `--cursor-ttl-secs` says. Once parents fill the cap,
  every later handle is dead on arrival until a restart.
- A query or period_over_period replies success without reading its handle back; for more rows
  than the inline threshold and no more than a page there is no cursor either, and the note in the reply refers to a
  handle that may be dead.
- `ARCHITECTURE.md:121` lets handle operations accept a `cursor_id`; `dh-store` knows none.
- A result cut to the row budget is flagged in its own reply only, not in what is derived from it (`mcp.rs:3103`).
- A page size of 0 is accepted: every page is then empty and says that there are more (`mcp.rs:2852`).
- `MemStore` evicts in the order of insertion, not of use: reads leave `last_accessed` alone.

*Kernels (`dh-ops/src/lib.rs`)*
- `drill` documents that it expands "a grouped row back to its constituent detail rows". For group columns of
  numbers, a group's value is the padded sort key (359, against the comment at 351), which finds no row; null and the empty
  text share a group; and the walk to a larger ancestor passes over the rows that were grouped when a
  `top_n` comes after the aggregate, or when grouping leaves as many rows as there were.
- `compare` documents that it records both parents (884) and records one (1016-1024). Rows only in the second dataset are
  dropped, of its duplicate keys the last wins, and integer keys never meet float keys.
- A percentage over zero is NaN, and `top_n` compares NaN as equal to all.
- -0.0 and 0.0 are two keys for `as_sort_key` (150-154) and one number for `top_n` (724) and for filters. `compare` makes
  -0.0 of a zero change from a negative base (999-1000), so by `pct_change` `sort` may put a row first that `top_n` leaves
  out, and `aggregate` and `pivot` show two groups of zero, which `count_distinct` counts twice.
- An integer literal in a filter never equals a Float; a filter on a missing column matches
  nothing without a word; `slice` ignores a filter without a column and takes an unknown operator for equality.
- `pivot`'s count_distinct counts all values (825), and its minimum of only NaN is infinity where `aggregate` gives NaN.
- `aggregate` keeps a numeric type on a group column of sort keys, in which `describe` then finds 0 distinct values.
- `period_over_period` takes for "prior" the last bucket that has rows; its weeks are days; the quarter of
  a month "00" underflows. A column of numbers and texts loses its texts on the way into a dataset.
- Of several columns with one name, the rows that a client reads hold the last (`handle_ops.rs:843-854`), while the kernels take
  the first (`col_idx`): a cell that was shown may be looked for in another column.

*Catalog cache (`mqo-mcp-server/src`)*
- With the call of `main.rs:591` repaired (`ColumnsGiven == Levels`), `CardinalityDiffed` holds and `StaleWithinTtl` does not:
  a partial re-ingestion stamps the whole catalog with the time of the new start, together with the members of a level it
  failed to read again. The repair needs a second one.
- `catalog_ingest.rs:448` says that the caller degrades to a full ingestion when the question for the cardinalities fails.
  The empty map it returns compares as "nothing changed".
- Whatever an ingestion learned is saved with its full age (`main.rs:683`): one that failed, for a cluster that was down
  for a moment, replaces a good cache and is served as validated for a whole TTL.
- The version of the model is read after the levels (`main.rs:686`), so a version published in between is recorded for
  levels that are older, and is then never noticed: the exception in `RepublishNoticed`.
- With the cluster out of reach the cache is served at any age (`main.rs:576`), and only the log says so. The
  cube is recorded in the cache and never compared.
- The sibling the cache is written to has one name for all servers (`catalog_cache.rs:116`): of servers that save at the same
  time, one may rename what another has half written, or written over. Such a file does not parse and costs an ingestion.

*Traces*
- The doc of `append` speaks of concurrent writers and says that prior records are never
  affected (`mcp-trace-store/src/lib.rs:232-235`). Two rotations that overlap both rename the active
  path to `path.1`, the second over the first (`lib.rs:294`): with two members in `Procs`, `NothingLost` fails.
- After an interrupted rotation `scan` stops at the gap (`mcp-trace-store/src/lib.rs:310`) until the next
  rotation closes it (`RotationClosesGap`); a torn half record swallows the next acknowledged one.

## 7. Not modelled, and why

- Text in, text out: `mqo-from-sql`, the guards, charts, captions, ontologies, and the wording the compilers give a query.
  What their output means is decided outside the repository, and their unit tests enumerate more than a model would.
- The optional DuckDB store, which no crate enables; configuration; programs that map a file to a file.
- The validator's rules whose inputs the pipeline never fills, and the rule that rewords another refusal.
- Inside what is modelled: the rounding of Floats and the sign of a NaN that arithmetic makes, means, columns of Booleans, Decimals and dates, the predicates `in` and `contains`, a measure named
  `period_bucket` in period_over_period, the
  eviction of `MemStore` for a row cap (no program sets one), lock poisoning, the `u64::MAX` deadline, the XMLA Discover calls,
  sizes in bytes of trace records, and read errors of the operating system.

`PROJECT.json` gives the reason for each component.

## 8. What the plan has left

1. `dh-mcp-server`: HandleSession with a sweep at the head of every request
   (`dh-mcp-server/src/mcp.rs:116`), where `DrillNearest` no longer holds as it stands.
2. `mcp-hypothesis-engine` as the source of the probes of Investigation.
3. A theorem about `MemStore` by itself.
