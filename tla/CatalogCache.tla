---------------------------- MODULE CatalogCache -----------------------------
(***************************************************************************)
(* The enriched-catalog cache of mqo-mcp-server: what main.rs does with it *)
(* when a server starts, catalog_cache.rs, and the ingestion of            *)
(* catalog_ingest.rs that fills it.  Servers share the cache file and the  *)
(* cluster; a data load or a new version of the model may come between any *)
(* two questions to the cluster, and every question may fail.              *)
(*                                                                         *)
(* Of a level, the catalog holds how many members it has and when its      *)
(* members were read.  Measures are left out: what the ingestion adds to   *)
(* them plays no part in any decision here.                                *)
(***************************************************************************)
EXTENDS Integers, FiniteSets, FiniteSetsExt, Functions

CONSTANTS
  Servers,
  NumLevels,      \* levels of the catalog, in its order
  Cardinalities,  \* numbers of members a level may have; 0 is not reported
  DomainCap,      \* --catalog-domain-cap
  MaxLevels,      \* --catalog-max-levels
  Ttl,            \* --catalog-cache-ttl
  MaxTime,        \* bound on the clock
  MaxStarts,      \* bound on the starts of servers
  MaxStops,       \* bound on their stops and deaths
  MaxChanges      \* bound on data loads and new versions of the model

ASSUME CacheConstantsOK ==
  /\ {NumLevels, DomainCap, MaxLevels, Ttl, MaxTime, MaxStarts, MaxStops, MaxChanges}
       \subseteq Nat
  /\ Cardinalities \subseteq Nat

VARIABLES
  clock, starts, changes,
  cardinality,   \* LEVEL_CARDINALITY of each level, on the cluster
  published,     \* LAST_SCHEMA_UPDATE: the version of the model there
  name,          \* the file each name stands for: 0 is none
  content,       \* what each file holds
  pc,            \* where the start of each server is
  now,           \* the time it read first
  found,         \* the cache it loaded
  told,          \* what the cluster told it to judge the cache by
  columns,       \* its catalog
  todo,          \* levels whose members it has yet to ask for
  fd,            \* the file it writes to
  record,        \* what it writes
  overlapped     \* whether two servers were ever saving at the same time

world == <<clock, starts, changes, cardinality, published>>
files == <<name, content>>
vars == <<world, files, pc, now, found, told, columns, todo, fd, record, overlapped>>

Levels == 1..NumLevels
Names  == {"cache", "tmp"}
Files  == 1..MaxStarts

NoStamp  == 0
NoCache  == [stamp |-> NoStamp, at |-> -1, model |-> 0, columns |-> << >>]
Empty    == NoCache
Garbage  == [NoCache EXCEPT !.at = -2]
Snapshot == [l \in Levels |-> [card |-> 0, read |-> -1]]
Untold   == [stamp |-> NoStamp, cards |-> [l \in Levels |-> 0]]

\* Everything but a whole cache fails to parse.
IsCache(c) == c.at >= 0
Readable(f) == f # 0 /\ IsCache(content[f])

-----------------------------------------------------------------------------
\* cardinality_map: the levels of the cache whose number of members is known.
CardinalityMap(cols) == {l \in Levels : cols[l].card # 0}

\* The clock of a server that began before another saved is behind.
Expired(cache, time) == Max({time - cache.at, 0}) > Ttl

\* Faulty: only what the cluster supplies counts, not what it said before.
FaultyRepublished(cache, stamp) == stamp = NoStamp /\ cache.stamp # NoStamp

Republished(cache, stamp) ==
  stamp # NoStamp /\ cache.stamp # NoStamp /\ stamp # cache.stamp

\* fresh_cardinality_map joins the levels the cluster reports with the array
\* of columns it is given.  main.rs gives it the catalog, which is an object:
\* as_array finds no column in it.
ColumnsGiven == {}
FreshCardinalities(cards) == {l \in ColumnsGiven : cards[l] # 0}

ChangedLevels(cache, cards) ==
  {l \in FreshCardinalities(cards) :
     l \notin CardinalityMap(cache.columns) \/ cache.columns[l].card # cards[l]}

\* validate_cache.
Verdict(cache, stamp, cards, time) ==
  IF Expired(cache, time) \/ Republished(cache, stamp) THEN "full"
  ELSE IF ChangedLevels(cache, cards) # {} THEN "partial" ELSE "valid"

\* The first levels of the catalog that are small enough.
ToFetch(cards) ==
  LET eligible == {l \in Levels : cards[l] # 0 /\ cards[l] <= DomainCap}
  IN  {l \in eligible : Cardinality({k \in eligible : k < l}) < MaxLevels}

-----------------------------------------------------------------------------
Init ==
  /\ clock = 0 /\ starts = 0 /\ changes = 0 /\ published = 1
  /\ cardinality \in [Levels -> Cardinalities]
  /\ name = [n \in Names |-> 0]
  /\ content = [f \in Files |-> Empty]
  /\ pc = [s \in Servers |-> "off"]
  /\ now = [s \in Servers |-> 0]
  /\ found = [s \in Servers |-> NoCache]
  /\ told = [s \in Servers |-> Untold]
  /\ columns = [s \in Servers |-> Snapshot]
  /\ todo = [s \in Servers |-> {}]
  /\ fd = [s \in Servers |-> 0]
  /\ record = [s \in Servers |-> NoCache]
  /\ overlapped = FALSE

Goto(s, step) == pc' = [pc EXCEPT ![s] = step]

\* The process starts with the catalog file, and reads the clock.
Start(s) ==
  /\ pc[s] = "off" /\ starts < MaxStarts
  /\ starts' = starts + 1
  /\ now' = [now EXCEPT ![s] = clock]
  /\ Goto(s, "load")
  /\ UNCHANGED <<clock, changes, cardinality, published, files, found, told, columns, todo,
                 fd, record, overlapped>>

\* load_cache, unless --refresh-catalog.
Load(s) ==
  /\ pc[s] = "load"
  /\ \/ /\ Readable(name["cache"])
        /\ found' = [found EXCEPT ![s] = content[name["cache"]]]
        /\ Goto(s, "validate")
     \/ /\ found' = [found EXCEPT ![s] = NoCache]
        /\ Goto(s, "levels")
  /\ UNCHANGED <<world, files, now, told, columns, todo, fd, record, overlapped>>

\* apply_cached_columns.
ServeCached(s, next) ==
  /\ columns' = [columns EXCEPT ![s] = found[s].columns]
  /\ Goto(s, next)

\* The first question to the cluster fails: the cache is served as it is.
Unreachable(s) ==
  /\ pc[s] = "validate"
  /\ ServeCached(s, "unvalidated")
  /\ found' = [found EXCEPT ![s] = NoCache]
  /\ UNCHANGED <<world, files, now, told, todo, fd, record, overlapped>>

\* The version of the model (none when the cluster has none or does not
\* answer) and the numbers of members are read, then the verdict is made.
\* It is one step, since only the version tells when it was read.
Validate(s) ==
  /\ pc[s] = "validate"
  /\ \E stamp \in {published, NoStamp}, cards \in {cardinality, Untold.cards} :
       LET verdict == Verdict(found[s], stamp, cards, now[s])
       IN  /\ told' = [told EXCEPT ![s] = [stamp |-> stamp, cards |-> cards]]
           /\ \/ verdict = "valid" /\ ServeCached(s, "validated")
              \/ verdict = "partial" /\ ServeCached(s, "levels")
              \/ verdict = "full" /\ Goto(s, "levels") /\ UNCHANGED columns
  /\ UNCHANGED <<world, files, now, found, todo, fd, record, overlapped>>

\* ingest_live_metadata: MDSCHEMA_LEVELS, ...
ReadLevels(s) ==
  /\ pc[s] = "levels"
  /\ \E cards \in {cardinality, Untold.cards} :
       /\ columns' = [columns EXCEPT ![s] =
            [l \in Levels |->
               IF cards[l] = 0 THEN @[l] ELSE [@[l] EXCEPT !.card = cards[l]]]]
       /\ todo' = [todo EXCEPT ![s] = ToFetch(cards)]
       /\ record' = [record EXCEPT ![s].model = published]
  /\ found' = [found EXCEPT ![s] = NoCache]
  /\ told' = [told EXCEPT ![s] = Untold]
  /\ Goto(s, "members")
  /\ UNCHANGED <<world, files, now, fd, overlapped>>

\* ... and MDSCHEMA_MEMBERS, for several levels at a time, in any order.
FetchMembers(s, l) ==
  /\ pc[s] = "members" /\ l \in todo[s]
  /\ todo' = [todo EXCEPT ![s] = @ \ {l}]
  /\ \/ columns' = [columns EXCEPT ![s][l].read = clock]
     \/ UNCHANGED columns
  /\ UNCHANGED <<world, files, pc, now, found, told, fd, record, overlapped>>

\* Faulty: the cache is stamped with the time it is written.
FaultyCapturedAt(s) == clock

CapturedAt(s) == now[s]

Saving(s) == pc[s] \in {"write", "rename"}

\* Faulty: the cache is written in its place.
FaultyTarget == "cache"

\* save_cache writes to a sibling of the cache that is the same for everyone.
Target == "tmp"

\* Whatever was ingested is to be saved.  The version of the model is read
\* again; then fs::write makes the file, or cuts it to nothing, ...
Save(s) ==
  /\ pc[s] = "members" /\ todo[s] = {}
  /\ \E stamp \in {published, NoStamp} :
       record' = [record EXCEPT ![s] =
         [stamp |-> stamp, at |-> CapturedAt(s), model |-> @.model, columns |-> columns[s]]]
  /\ LET old  == name[Target]
         file == IF old # 0 THEN old
                 ELSE CHOOSE f \in Files : f \notin Range(name) \cup Range(fd)
     IN  /\ name' = [name EXCEPT ![Target] = file]
         /\ content' = [content EXCEPT ![file] = Empty]
         /\ fd' = [fd EXCEPT ![s] = file]
  /\ overlapped' = (overlapped \/ \E t \in Servers : Saving(t))
  /\ Goto(s, "write")
  /\ UNCHANGED <<world, now, found, told, columns, todo>>

\* The server is done with the file, or gone.
Saved(s) ==
  /\ fd' = [fd EXCEPT ![s] = 0]
  /\ record' = [record EXCEPT ![s] = NoCache]

\* ... and writes; over what another server wrote, or as far as the disk goes.
Write(s) ==
  /\ pc[s] = "write"
  /\ \/ /\ \/ content' = [content EXCEPT ![fd[s]] = record[s]]
           \/ content[fd[s]] # Empty /\ content' = [content EXCEPT ![fd[s]] = Garbage]
        /\ Goto(s, "rename")
        /\ UNCHANGED <<fd, record>>
     \/ /\ content' = [content EXCEPT ![fd[s]] = Garbage]
        /\ Goto(s, "ingested")
        /\ Saved(s)
  /\ UNCHANGED <<world, name, now, found, told, columns, todo, overlapped>>

\* The name moves to whatever the sibling is by now; or that is removed.
Rename(s) ==
  /\ pc[s] = "rename"
  /\ \/ name' = [name EXCEPT !["cache"] = IF name["tmp"] = 0 THEN @ ELSE name["tmp"],
                             !["tmp"] = 0]
     \/ name' = [name EXCEPT !["tmp"] = 0]
  /\ Goto(s, "ingested")
  /\ Saved(s)
  /\ content' = [f \in Files |->
       IF f \in Range(name') \cup Range(fd') THEN content[f] ELSE Empty]
  /\ UNCHANGED <<world, now, found, told, columns, todo, overlapped>>

Stops == starts - Cardinality({s \in Servers : pc[s] # "off"})

\* A server is stopped, or dies on its way.
Stop(s) ==
  /\ pc[s] # "off" /\ Stops < MaxStops
  /\ Goto(s, "off")
  /\ now' = [now EXCEPT ![s] = 0]
  /\ found' = [found EXCEPT ![s] = NoCache]
  /\ told' = [told EXCEPT ![s] = Untold]
  /\ columns' = [columns EXCEPT ![s] = Snapshot]
  /\ todo' = [todo EXCEPT ![s] = {}]
  /\ Saved(s)
  /\ UNCHANGED <<world, files, overlapped>>

DataLoad ==
  /\ changes < MaxChanges
  /\ changes' = changes + 1
  /\ \E l \in Levels, n \in Cardinalities :
       n # cardinality[l] /\ cardinality' = [cardinality EXCEPT ![l] = n]
  /\ UNCHANGED <<clock, starts, published, files, pc, now, found, told, columns, todo, fd,
                 record, overlapped>>

Republish ==
  /\ changes < MaxChanges
  /\ changes' = changes + 1
  /\ published' = published + 1
  /\ UNCHANGED <<clock, starts, cardinality, files, pc, now, found, told, columns, todo, fd,
                 record, overlapped>>

Tick ==
  /\ clock < MaxTime
  /\ clock' = clock + 1
  /\ UNCHANGED <<starts, changes, cardinality, published, files, pc, now, found, told,
                 columns, todo, fd, record, overlapped>>

Next ==
  \/ \E s \in Servers :
       \/ Start(s) \/ Load(s) \/ Unreachable(s) \/ Validate(s)
       \/ ReadLevels(s) \/ \E l \in Levels : FetchMembers(s, l)
       \/ Save(s) \/ Write(s) \/ Rename(s) \/ Stop(s)
  \/ DataLoad \/ Republish \/ Tick

Spec == Init /\ [][Next]_vars

-----------------------------------------------------------------------------
(***************************************************************************)
(* "When the cache is older than this value a full re-ingest is forced":   *)
(* a server that reached the cluster serves no members that were read more *)
(* than Ttl before it started, whatever failed, changed or was saved by    *)
(* others when the cache was made.                                         *)
(***************************************************************************)
StaleWithinTtl ==
  \A s \in Servers, l \in Levels :
    pc[s] \in {"validated", "ingested"} /\ columns[s][l].read # -1 =>
      columns[s][l].read >= now[s] - Ttl

(***************************************************************************)
(* A server that was told the version of the model, and of which version   *)
(* its cache is, never serves levels of an earlier one, unless the new one *)
(* came while the cache was being made.                                    *)
(***************************************************************************)
RepublishNoticed ==
  \A s \in Servers :
    pc[s] = "validated" /\ NoStamp \notin {told[s].stamp, found[s].stamp} =>
      found[s].model = told[s].stamp \/ found[s].model < found[s].stamp

(***************************************************************************)
(* The cache is replaced at once: as long as servers save one after the    *)
(* other, it stays readable once it was, wherever they die.                *)
(***************************************************************************)
ReplacedAtOnce ==
  [][Readable(name["cache"]) /\ ~overlapped' => Readable(name["cache"])']_vars

(***************************************************************************)
(* The cache "is validated cheaply on restart via LAST_SCHEMA_UPDATE +     *)
(* per-level cardinality diff - no per-level member fetches unless         *)
(* something actually changed": what is served unfetched agrees with the   *)
(* numbers of members the cluster reported.                                *)
(***************************************************************************)
CardinalityDiffed ==
  \A s \in Servers, l \in Levels :
    pc[s] = "validated" /\ told[s].cards[l] # 0 =>
      columns[s][l].card = told[s].cards[l]
=============================================================================
