---------------------------- MODULE FleetRegistry ----------------------------
(* The fleet as a registry of ids: the jobs of POST /chargers/bulk           *)
(* (handleBulkAdd in internal/app/handlers_fleet.go), which add chargers one *)
(* by one in a goroutine of their own, and the paged GET /chargers           *)
(* (handleListChargersV1) that a client walks through with a cursor, while   *)
(* other clients create, delete, connect and disconnect chargers.            *)
(*                                                                           *)
(* Every action is one critical section of internal/fleet/store.go with the  *)
(* local computation up to the next.  Ids are numbered in the order in which *)
(* ListChargers sorts them.  Of a charger the registry keeps what the list   *)
(* filters by.                                                               *)
EXTENDS FiniteSetsExt, Integers

CONSTANTS
  NumChargers,    \* ids in use
  Versions,       \* OCPP versions
  States,         \* connection states
  Jobs,           \* bulk jobs
  MaxCount,       \* bound: chargers of one job
  Templates,      \* what idTemplate may expand to: an id for each index
  Distributions,  \* ocppVersionDistribution: counts by version
  Filters,        \* the query of a listing, with "any" for a missing part
  Limits,         \* page sizes
  NoEntry         \* no charger has this id

ChargerIds == 1..NumChargers
Entries == [version : Versions, state : States]

ASSUME RegistryAssumption ==
  /\ NumChargers \in Nat /\ MaxCount \in Nat \ {0}
  /\ "OCPP16J" \in Versions /\ "DISCONNECTED" \in States
  /\ IsFiniteSet(Versions)
  /\ Templates \subseteq [0..(MaxCount - 1) -> ChargerIds]
  /\ Distributions \subseteq [Versions -> Nat]
  /\ Filters \subseteq [version : Versions \cup {"any"}, state : States \cup {"any"}]
  /\ Limits \subseteq Nat \ {0}
  /\ NoEntry \notin Entries

VARIABLES
  registry,  \* Store.chargers
  jobs,      \* Store.jobs
  adder,     \* the goroutine of each job: its payload and where it is
  list,      \* a client's listing: its query, its cursor and what it has seen
  owed,      \* history: ids of a job that nobody deleted since it was accepted
  due        \* history: ids not listed yet that matched ever since the listing began

vars == <<registry, jobs, adder, list, owed, due>>

NoJob == [status |-> "NONE", total |-> 0, completed |-> 0]
NoAdder == [at |-> "end", i |-> 0, ids |-> <<>>, shares |-> <<>>]
NoList == [at |-> "idle", filter |-> [version |-> "any", state |-> "any"],
           limit |-> 1, cursor |-> 0, seen |-> {}, again |-> FALSE, lost |-> FALSE]

Init ==
  /\ registry = [c \in ChargerIds |-> NoEntry]
  /\ jobs = [j \in Jobs |-> NoJob]
  /\ adder = [j \in Jobs |-> NoAdder]
  /\ list = NoList
  /\ owed = [j \in Jobs |-> {}]
  /\ due = {}

Present(c) == registry[c] # NoEntry

Matches(entry, filter) ==
  /\ entry # NoEntry
  /\ filter.version \in {"any", entry.version}
  /\ filter.state \in {"any", entry.state}

(* The registry becomes new; a charger that no longer matches is not due.    *)
Store(new) ==
  /\ registry' = new
  /\ due' = {c \in due : Matches(new[c], list.filter)}

(* A charger stored without a connection state gets applyDefaults's.         *)
AddCharger(c, version) ==
  /\ ~Present(c)
  /\ Store([registry EXCEPT ![c] = [version |-> version, state |-> "DISCONNECTED"]])
-----------------------------------------------------------------------------
(* The versions of a job.                                                    *)

(* Mutant: buckets count from 0.                                             *)
BucketFromZero(idx, total) == idx % total

Bucket(idx, total) == (idx % total) + 1

(* Go ranges over the map in an order of its own at each call; the version   *)
(* is the first that brings the running sum to the bucket.                   *)
PickVersion(dist, idx) ==
  LET Sum(versions) == MapThenSumSet(LAMBDA v : dist[v], versions)
      Reached(sum) == Bucket(idx, Sum(Versions)) <= sum
  IN IF Sum(Versions) = 0 THEN {"OCPP16J"}
     ELSE {v \in Versions :
             \E before \in SUBSET (Versions \ {v}) :
               /\ before = {} \/ ~Reached(Sum(before))
               /\ Reached(Sum(before) + dist[v])}
-----------------------------------------------------------------------------
(* Bulk jobs.                                                                *)
StartJob(j) ==
  /\ jobs[j] = NoJob
  /\ \E count \in 1..MaxCount, ids \in Templates, shares \in Distributions :
       /\ jobs' = [jobs EXCEPT ![j] = [status |-> "STARTED", total |-> count,
                                      completed |-> 0]]
       /\ adder' = [adder EXCEPT ![j] = [at |-> "add", i |-> 0, ids |-> ids,
                                        shares |-> shares]]
       /\ owed' = [owed EXCEPT ![j] = {ids[i] : i \in 0..(count - 1)}]
  /\ UNCHANGED <<registry, list, due>>

(* Mutant: the first id that exists already ends the job.                    *)
AddNextOrGiveUp(j) ==
  LET id == adder[j].ids[adder[j].i] IN
  /\ adder[j].at = "add"
  /\ \/ /\ \E version \in PickVersion(adder[j].shares, adder[j].i) :
             AddCharger(id, version)
        /\ adder' = [adder EXCEPT ![j].at = "count"]
     \/ /\ Present(id)
        /\ adder' = [adder EXCEPT ![j] = NoAdder]
        /\ UNCHANGED <<registry, due>>
  /\ UNCHANGED <<jobs, list, owed>>

(* The outcome of AddCharger is ignored.                                     *)
AddNext(j) ==
  LET id == adder[j].ids[adder[j].i] IN
  /\ adder[j].at = "add"
  /\ \/ \E version \in PickVersion(adder[j].shares, adder[j].i) :
          AddCharger(id, version)
     \/ Present(id) /\ UNCHANGED <<registry, due>>
  /\ adder' = [adder EXCEPT ![j].at = "count"]
  /\ UNCHANGED <<jobs, list, owed>>

(* Mutant: the job is over when the last charger begins.                     *)
IsCompletedEarly(completed, total) == completed >= total - 1

IsCompleted(completed, total) == completed >= total

(* Mutant: the loop runs once too often.                                     *)
HasNextInclusive(i, count) == i <= count

HasNext(i, count) == i < count

(* UpdateJob, and the next turn of the loop.                                 *)
CountNext(j) ==
  LET done == jobs[j].completed + 1
      next == adder[j].i + 1
  IN
  /\ adder[j].at = "count"
  /\ jobs' = [jobs EXCEPT ![j].completed = done,
                         ![j].status = IF IsCompleted(done, jobs[j].total)
                                       THEN "COMPLETED" ELSE @]
  /\ adder' = [adder EXCEPT ![j] = IF HasNext(next, jobs[j].total)
                                  THEN [@ EXCEPT !.at = "add", !.i = next]
                                  ELSE NoAdder]
  /\ UNCHANGED <<registry, list, owed, due>>
-----------------------------------------------------------------------------
(* What other clients do: create, delete, connect, disconnect and set.       *)
Create(c) ==
  /\ \E version \in Versions : AddCharger(c, version)
  /\ UNCHANGED <<jobs, adder, list, owed>>

RemoveCharger(c) ==
  /\ Present(c)
  /\ Store([registry EXCEPT ![c] = NoEntry])
  /\ owed' = [j \in Jobs |-> owed[j] \ {c}]
  /\ UNCHANGED <<jobs, adder, list>>

UpdateConnectionState(c) ==
  /\ Present(c)
  /\ \E state \in States \ {registry[c].state} :
       Store([registry EXCEPT ![c].state = state])
  /\ UNCHANGED <<jobs, adder, list, owed>>

(* The write-back of a copy that a connect, status or fault request has read *)
(* earlier, of a charger of that id deleted and created again since: all but *)
(* the connection state is the copy's.                                       *)
UpdateCharger(c) ==
  /\ Present(c)
  /\ \E version \in Versions \ {registry[c].version} :
       Store([registry EXCEPT ![c].version = version])
  /\ UNCHANGED <<jobs, adder, list, owed>>
-----------------------------------------------------------------------------
(* The paged list.                                                           *)
BeginList ==
  /\ list.at # "page"
  /\ \E filter \in Filters, limit \in Limits :
       /\ list' = [NoList EXCEPT !.at = "page", !.filter = filter, !.limit = limit]
       /\ due' = {c \in ChargerIds : Matches(registry[c], filter)}
  /\ UNCHANGED <<registry, jobs, adder, owed>>

(* Mutant: the cursor is looked for among the chargers that match.           *)
AfterMatching(cursor) ==
  IF \E c \in ChargerIds : c = cursor /\ Matches(registry[c], list.filter)
  THEN (cursor + 1)..NumChargers ELSE ChargerIds

(* The chargers after the cursor, all of them if it is not there (any more). *)
After(cursor) ==
  IF \E c \in ChargerIds : c = cursor /\ Present(c)
  THEN (cursor + 1)..NumChargers ELSE ChargerIds

(* Mutant: the cursor names the first charger of the next page.              *)
NextCursorAhead(page, limit) ==
  IF Cardinality(page) = limit /\ Max(page) < NumChargers THEN Max(page) + 1 ELSE 0

(* 0 (null) ends the listing: this page was not full.                        *)
NextCursor(page, limit) == IF Cardinality(page) = limit THEN Max(page) ELSE 0

(* One request for a page: everything but ListChargers is local.  A client   *)
(* that got the last page forgets its query.                                 *)
ListPage ==
  LET rest == {c \in After(list.cursor) : Matches(registry[c], list.filter)}
      page == {c \in rest : Cardinality({d \in rest : d <= c}) <= list.limit}
      next == NextCursor(page, list.limit)
      again == list.again \/ list.seen \cap page # {}
      lost == list.lost \/ (list.cursor # 0 /\ ~Present(list.cursor))
  IN
  /\ list.at = "page"
  /\ list' = IF next = 0
             THEN [NoList EXCEPT !.at = "done", !.again = again, !.lost = lost]
             ELSE [list EXCEPT !.cursor = next, !.seen = @ \cup page,
                               !.again = again, !.lost = lost]
  /\ due' = due \ page
  /\ UNCHANGED <<registry, jobs, adder, owed>>
-----------------------------------------------------------------------------
Goroutine(j) == AddNext(j) \/ CountNext(j)

Next ==
  \/ \E j \in Jobs : StartJob(j) \/ Goroutine(j)
  \/ \E c \in ChargerIds :
       \/ Create(c) \/ RemoveCharger(c)
       \/ UpdateConnectionState(c) \/ UpdateCharger(c)
  \/ BeginList \/ ListPage

Spec == Init /\ [][Next]_vars

(* The goroutine of a job is scheduled; it waits for nothing but the mutex.  *)
FairSpec == Spec /\ \A j \in Jobs : WF_vars(Goroutine(j))
-----------------------------------------------------------------------------
TypeOK ==
  /\ registry \in [ChargerIds -> Entries \cup {NoEntry}]
  /\ jobs \in [Jobs -> {NoJob} \cup [status : {"STARTED", "COMPLETED"},
                                     total : 1..MaxCount, completed : 0..MaxCount]]
  /\ adder \in [Jobs -> {NoAdder} \cup [at : {"add", "count"}, i : 0..(MaxCount - 1),
                                        ids : Templates, shares : Distributions]]
  /\ \A j \in Jobs : adder[j].at # "end" =>
       adder[j].i = jobs[j].completed /\ adder[j].i < jobs[j].total
  /\ list \in [at : {"idle", "page", "done"}, filter : Filters \cup {NoList.filter},
              limit : Limits \cup {1}, cursor : 0..NumChargers,
              seen : SUBSET ChargerIds, again : BOOLEAN, lost : BOOLEAN]
  /\ owed \in [Jobs -> SUBSET ChargerIds]
  /\ due \subseteq ChargerIds

(* When a job is COMPLETED, every id that its template expands to is there,  *)
(* unless someone deleted it since the job was accepted, although the job    *)
(* counts the chargers that it failed to add (handlers_fleet.go:862-868).    *)
CompletedJobCreated ==
  \A j \in Jobs : jobs[j].status = "COMPLETED" => \A c \in owed[j] : Present(c)

(* Whatever order the map of the distribution is walked in, a job gives no   *)
(* charger a version of which none was asked for                             *)
(* (handlers_fleet.go:1097-1104).                                            *)
VersionShares ==
  [][\A j \in Jobs, c \in ChargerIds :
       AddNext(j) /\ registry'[c] # registry[c] =>
         \/ adder[j].shares[registry'[c].version] > 0
         \/ \A v \in Versions : adder[j].shares[v] = 0]_vars

(* A client that follows the cursor to the end has seen every charger that   *)
(* matched its query all the time, although chargers around it, the cursor's *)
(* included, came, went and changed between the pages                        *)
(* (handlers_fleet.go:216-254).                                              *)
ListingComplete == list.at = "done" => due = {}

(* No charger is listed twice, unless the charger of a cursor was deleted    *)
(* before the next page, which then starts over (handlers_fleet.go:219-226). *)
ListingOnce == list.again => list.lost

(* Why a completed job left nothing out: an id that is not there yet, and    *)
(* was not deleted, is still to be added by the job's goroutine, which ends  *)
(* no earlier than the job completes.                                        *)
StillToAdd ==
  \A j \in Jobs :
    /\ jobs[j].status = "COMPLETED" => adder[j].at = "end"
    /\ \A c \in owed[j] : Present(c) \/
         /\ adder[j].at # "end"
         /\ \E i \in adder[j].i..(jobs[j].total - 1) :
              /\ adder[j].ids[i] = c
              /\ adder[j].at = "count" => i # adder[j].i

(* Why a listing misses nothing, and repeats nothing but after a restart:    *)
(* what is due is ahead of the cursor, what was seen is not.                 *)
CursorDivides ==
  /\ list.at = "done" => due = {}
  /\ list.at = "page" =>
       /\ list.limit \in Limits
       /\ \A c \in due : c > list.cursor /\ Matches(registry[c], list.filter)
       /\ ~list.lost => \A c \in list.seen : c <= list.cursor

(* Every job accepted becomes COMPLETED, whatever ids exist already or are   *)
(* created and deleted meanwhile (handlers_fleet.go:848-871).                *)
JobsComplete ==
  \A j \in Jobs : jobs[j].status = "STARTED" ~> jobs[j].status = "COMPLETED"
=============================================================================
