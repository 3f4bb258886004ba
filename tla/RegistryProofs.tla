---------------------------- MODULE RegistryProofs ----------------------------
(* Proofs about the fleet as a registry of ids, FleetRegistry.tla.           *)
EXTENDS FleetRegistry, FiniteSetTheorems, WellFoundedInduction, TLAPS

-----------------------------------------------------------------------------
(* Least and greatest ids, and what a page holds.                            *)

(* The naturals are well founded.                                            *)
LEMMA LessOnNat ==
  \E R : IsWellFoundedOn(R, Nat) /\ \A x, y \in Nat : <<y, x>> \in R <=> y < x
<1>1. IsWellFoundedOn(OpToRel(<, Nat), Nat)
  BY NatLessThanWellFounded
<1>2. \A x, y \in Nat : <<y, x>> \in OpToRel(<, Nat) <=> y < x
  BY DEF OpToRel
<1> QED BY <1>1, <1>2

(* So a set of naturals has a least element.                                 *)
LEMMA LeastExists ==
  ASSUME NEW S \in SUBSET Nat, S # {}
  PROVE  \E x \in S : \A y \in S : x <= y
<1>1. PICK R : /\ IsWellFoundedOn(R, Nat)
               /\ \A x, y \in Nat : <<y, x>> \in R <=> y < x
  BY LessOnNat
<1>2. PICK x \in S : \A y \in S : ~(<<y, x>> \in R)
  BY <1>1, WFMin
<1>3. \A y \in S : ~(y < x)
  BY <1>1, <1>2
<1> QED BY <1>3

(* What Max finds.                                                           *)
LEMMA GreatestFound ==
  ASSUME NEW S \in SUBSET ChargerIds, S # {}
  PROVE  /\ Max(S) \in S
         /\ \A c \in S : c <= Max(S)
<1>n. NumChargers \in Nat
  BY RegistryAssumption
<1> DEFINE T == {n \in Nat : \E c \in S : n = NumChargers - c}
<1>s. \A c \in S : c \in Int /\ NumChargers - c \in Nat
  BY <1>n DEF ChargerIds
<1>1. T # {} /\ \A c \in S : NumChargers - c \in T
  BY <1>s
<1>2. PICK n \in T : \A m \in T : n <= m
  BY <1>1, LeastExists
<1>3. PICK c \in S : n = NumChargers - c
  BY <1>2
<1>4. \A d \in S : d <= c
  <2> SUFFICES ASSUME NEW d \in S PROVE d <= c
    OBVIOUS
  <2>1. NumChargers - c <= NumChargers - d
    BY <1>1, <1>2, <1>3
  <2> QED BY <1>n, <1>s, <2>1
<1>5. \A d \in S : c >= d
  BY <1>4, <1>n DEF ChargerIds
<1>6. Max(S) \in S /\ \A d \in S : Max(S) >= d
  BY <1>5 DEF Max
<1> QED BY <1>6, <1>n DEF ChargerIds

(* Sets of ids are finite.                                                   *)
LEMMA IdsFinite ==
  ASSUME NEW S \in SUBSET ChargerIds
  PROVE  IsFiniteSet(S) /\ Cardinality(S) \in Nat
<1>1. IsFiniteSet(ChargerIds)
  BY RegistryAssumption, FS_Interval DEF ChargerIds
<1>2. IsFiniteSet(S)
  BY <1>1, FS_Subset
<1> QED BY <1>2, FS_CardinalityType

(* The ids of a page: the first ones of rest, limit of them at most.         *)
Page(rest, limit) ==
  {c \in rest : Cardinality({d \in rest : d <= c}) <= limit}

(* A page that leaves something out is full, and everything that it leaves   *)
(* out comes after it.                                                       *)
LEMMA PageFacts ==
  ASSUME NEW rest \in SUBSET ChargerIds, NEW limit \in Nat,
         NEW c \in rest \ Page(rest, limit)
  PROVE  /\ Cardinality(Page(rest, limit)) = limit
         /\ \A m \in Page(rest, limit) : m < c
<1> DEFINE UpTo(x) == {d \in rest : d <= x}
           page == Page(rest, limit)
<1>n. \A x \in rest : x \in Nat /\ x \in ChargerIds
  BY DEF ChargerIds
<1>u. \A x \in rest : /\ UpTo(x) \in SUBSET ChargerIds /\ IsFiniteSet(UpTo(x))
                      /\ Cardinality(UpTo(x)) \in Nat
  BY IdsFinite
<1>p. /\ page \subseteq rest /\ IsFiniteSet(page) /\ Cardinality(page) \in Nat
      /\ \A x \in rest : x \in page <=> Cardinality(UpTo(x)) <= limit
  <2>1. page \in SUBSET ChargerIds /\ page \subseteq rest
    BY DEF Page
  <2>2. \A x \in rest : x \in page <=> Cardinality(UpTo(x)) <= limit
    BY DEF Page
  <2> QED BY <2>1, <2>2, IdsFinite
<1> HIDE DEF page
<1>m. ASSUME NEW x \in rest \ page, NEW m \in page PROVE m < x
  <2>1. SUFFICES ASSUME ~(m < x) PROVE FALSE
    OBVIOUS
  <2>2. m \in rest /\ x <= m
    BY <1>n, <1>p, <2>1
  <2>3. UpTo(x) \subseteq UpTo(m)
    BY <1>n, <2>2
  <2>4. Cardinality(UpTo(x)) <= Cardinality(UpTo(m))
    BY <1>u, <2>2, <2>3, FS_Subset
  <2>5. Cardinality(UpTo(m)) <= limit /\ ~(Cardinality(UpTo(x)) <= limit)
    BY <1>p, <2>2
  <2> HIDE DEF UpTo
  <2> QED BY <1>u, <2>2, <2>4, <2>5
<1>1. Cardinality(page) <= limit
  <2>1. CASE page = {}
    BY <2>1, FS_EmptySet
  <2>2. CASE page # {}
    <3> DEFINE m == Max(page)
    <3>1. m \in page /\ \A x \in page : x <= m
      BY <1>p, <2>2, GreatestFound
    <3> HIDE DEF m
    <3>2. page \subseteq UpTo(m) /\ m \in rest
      BY <1>p, <3>1
    <3>3. Cardinality(page) <= Cardinality(UpTo(m))
      <4>1. IsFiniteSet(UpTo(m)) /\ page \in SUBSET UpTo(m)
        BY <1>u, <3>2
      <4> HIDE DEF UpTo
      <4> QED BY <4>1, FS_Subset
    <3>4. Cardinality(UpTo(m)) <= limit
      BY <1>p, <3>1, <3>2
    <3> HIDE DEF UpTo
    <3> QED BY <1>p, <1>u, <3>2, <3>3, <3>4
  <2> QED BY <2>1, <2>2
<1>2. limit <= Cardinality(page)
  <2>1. PICK x \in rest \ page : \A y \in rest \ page : x <= y
    <3>1. rest \ page \in SUBSET Nat /\ rest \ page # {}
      BY <1>n DEF page
    <3> QED BY <3>1, LeastExists
  <2>2. UpTo(x) = page \cup {x}
    <3>1. \A d \in UpTo(x) : d \in page \cup {x}
      <4>1. ASSUME NEW d \in UpTo(x), d \notin page PROVE d = x
        <5>1. d \in rest \ page /\ d <= x /\ x <= d
          BY <2>1, <4>1
        <5> QED BY <1>n, <2>1, <5>1
      <4> QED BY <4>1
    <3>2. \A d \in page : d \in UpTo(x)
      BY <1>m, <1>n, <1>p, <2>1
    <3>3. x \in UpTo(x)
      BY <1>n, <2>1
    <3> QED BY <3>1, <3>2, <3>3
  <2>3. Cardinality(UpTo(x)) = Cardinality(page) + 1
    BY <1>p, <2>1, <2>2, FS_AddElement
  <2>4. ~(Cardinality(UpTo(x)) <= limit)
    BY <1>p, <2>1
  <2> QED BY <1>p, <2>3, <2>4
<1>3. Cardinality(page) = limit
  BY <1>p, <1>1, <1>2
<1> QED BY <1>m, <1>3 DEF page

-----------------------------------------------------------------------------
(* Type correctness.                                                         *)

RegistryType == [ChargerIds -> Entries \cup {NoEntry}]

JobType ==
  {NoJob} \cup [status : {"STARTED", "COMPLETED"}, total : 1..MaxCount,
                completed : 0..MaxCount]

AdderType ==
  {NoAdder} \cup [at : {"add", "count"}, i : 0..(MaxCount - 1),
                  ids : Templates, shares : Distributions]

ListType ==
  [at : {"idle", "page", "done"}, filter : Filters \cup {NoList.filter},
   limit : Limits \cup {1}, cursor : 0..NumChargers,
   seen : SUBSET ChargerIds, again : BOOLEAN, lost : BOOLEAN]

(* The goroutine of a job and the counters of the job agree.                 *)
Agree(j) ==
  adder[j].at # "end" =>
    adder[j].i = jobs[j].completed /\ adder[j].i < jobs[j].total

(* The versions that a job may pick exist.                                   *)
LEMMA PickedVersions ==
  ASSUME NEW dist, NEW idx
  PROVE  PickVersion(dist, idx) \subseteq Versions
BY RegistryAssumption DEF PickVersion

(* A job's goroutine is at one of the indexes of its payload.                *)
LEMMA AdderFacts ==
  ASSUME TypeOK, NEW j \in Jobs, adder[j].at # "end"
  PROVE  /\ adder[j] \in [at : {"add", "count"}, i : 0..(MaxCount - 1),
                          ids : Templates, shares : Distributions]
         /\ jobs[j] \in [status : {"STARTED", "COMPLETED"}, total : 1..MaxCount,
                         completed : 0..MaxCount]
         /\ adder[j].i \in Nat /\ adder[j].i < jobs[j].total
         /\ jobs[j].total \in 1..MaxCount /\ adder[j].i = jobs[j].completed
         /\ \A i \in 0..(jobs[j].total - 1) : adder[j].ids[i] \in ChargerIds
<1>1. adder[j] \in [at : {"add", "count"}, i : 0..(MaxCount - 1),
                    ids : Templates, shares : Distributions]
  BY DEF TypeOK, NoAdder
<1>2. adder[j].i = jobs[j].completed /\ adder[j].i < jobs[j].total
  BY DEF TypeOK
<1>3. adder[j].i \in 0..(MaxCount - 1)
  BY <1>1
<1>4. jobs[j] # NoJob
  BY <1>2, <1>3 DEF NoJob
<1>5. jobs[j] \in [status : {"STARTED", "COMPLETED"}, total : 1..MaxCount,
                   completed : 0..MaxCount]
  BY <1>4 DEF TypeOK
<1>6. jobs[j].total \in 1..MaxCount
  BY <1>5
<1>7. \A i \in 0..(jobs[j].total - 1) : i \in 0..(MaxCount - 1)
  BY <1>6, RegistryAssumption
<1>8. adder[j].ids \in [0..(MaxCount - 1) -> ChargerIds]
  BY <1>1, RegistryAssumption
<1>9. \A i \in 0..(jobs[j].total - 1) : adder[j].ids[i] \in ChargerIds
  BY <1>7, <1>8
<1>10. adder[j].i \in Nat
  BY <1>3
<1> QED BY <1>1, <1>2, <1>5, <1>6, <1>9, <1>10

(* Adding a charger.                                                         *)
LEMMA AddTypes ==
  ASSUME registry \in RegistryType, NEW c \in ChargerIds,
         NEW version \in Versions, AddCharger(c, version)
  PROVE  /\ registry' \in RegistryType /\ due' \subseteq due
         /\ Present(c)' /\ \A d \in ChargerIds : Present(d) => Present(d)'
         /\ \A d \in ChargerIds : d # c => registry'[d] = registry[d]
         /\ \A d \in due' : Matches(registry'[d], list.filter)
<1>1. [version |-> version, state |-> "DISCONNECTED"] \in Entries
  BY RegistryAssumption DEF Entries
<1>2. registry' = [registry EXCEPT
                     ![c] = [version |-> version, state |-> "DISCONNECTED"]]
  BY DEF AddCharger, Store
<1>3. due' = {d \in due : Matches(registry'[d], list.filter)}
  BY <1>2 DEF AddCharger, Store
<1> QED BY <1>1, <1>2, <1>3, RegistryAssumption DEF RegistryType, Present

(* Initially there is nothing.                                               *)
LEMMA RegistryTypeInit == Init => TypeOK
<1> SUFFICES ASSUME Init PROVE TypeOK
  OBVIOUS
<1>1. registry \in RegistryType /\ owed \in [Jobs -> SUBSET ChargerIds]
      /\ due \subseteq ChargerIds
  BY DEF Init, RegistryType
<1>2. /\ jobs \in [Jobs -> JobType] /\ adder \in [Jobs -> AdderType]
      /\ \A j \in Jobs : Agree(j)
  BY DEF Init, JobType, AdderType, Agree, NoAdder
<1>3. list \in ListType
  BY RegistryAssumption DEF Init, ListType, NoList
<1> QED BY <1>1, <1>2, <1>3
        DEF TypeOK, RegistryType, JobType, AdderType, ListType, Agree

(* A job is accepted.                                                        *)
LEMMA TypeStartJob ==
  ASSUME TypeOK, NEW j \in Jobs, StartJob(j)
  PROVE  TypeOK'
<1>1. PICK count \in 1..MaxCount, ids \in Templates, shares \in Distributions :
        /\ jobs' = [jobs EXCEPT ![j] = [status |-> "STARTED", total |-> count,
                                        completed |-> 0]]
        /\ adder' = [adder EXCEPT ![j] = [at |-> "add", i |-> 0, ids |-> ids,
                                          shares |-> shares]]
        /\ owed' = [owed EXCEPT ![j] = {ids[i] : i \in 0..(count - 1)}]
  BY DEF StartJob
<1>m. MaxCount \in Nat \ {0} /\ count \in Nat \ {0} /\ 0 < count
  BY RegistryAssumption
<1>2. [status |-> "STARTED", total |-> count, completed |-> 0] \in JobType
  BY <1>m DEF JobType
<1>3. [at |-> "add", i |-> 0, ids |-> ids, shares |-> shares] \in AdderType
  BY <1>m DEF AdderType
<1>4. {ids[i] : i \in 0..(count - 1)} \subseteq ChargerIds
  <2>1. ids \in [0..(MaxCount - 1) -> ChargerIds]
    BY RegistryAssumption
  <2>2. 0..(count - 1) \subseteq 0..(MaxCount - 1)
    BY <1>m
  <2> QED BY <2>1, <2>2
<1>5. jobs' \in [Jobs -> JobType] /\ adder' \in [Jobs -> AdderType]
  BY <1>1, <1>2, <1>3 DEF TypeOK, JobType, AdderType
<1>6. \A k \in Jobs : Agree(k)'
  BY <1>1, <1>m DEF Agree, TypeOK
<1>7. owed' \in [Jobs -> SUBSET ChargerIds]
  BY <1>1, <1>4 DEF TypeOK
<1> QED BY <1>5, <1>6, <1>7 DEF TypeOK, StartJob, JobType, AdderType, Agree

(* A job's goroutine adds a charger.                                         *)
LEMMA TypeAddNext ==
  ASSUME TypeOK, NEW j \in Jobs, AddNext(j)
  PROVE  TypeOK'
<1>1. adder[j].at # "end"
  BY DEF AddNext
<1>2. adder[j].ids[adder[j].i] \in ChargerIds
  BY <1>1, AdderFacts
<1>3. registry' \in RegistryType /\ due' \subseteq due
  BY <1>2, AddTypes, PickedVersions DEF AddNext, TypeOK, RegistryType
<1>4. adder' = [adder EXCEPT ![j] = [adder[j] EXCEPT !.at = "count"]]
  BY DEF AddNext
<1>5. [adder[j] EXCEPT !.at = "count"] \in AdderType
  BY <1>1, AdderFacts DEF AdderType
<1>6. adder' \in [Jobs -> AdderType]
  BY <1>4, <1>5 DEF TypeOK, AdderType
<1>7. \A k \in Jobs : Agree(k)'
  <2>1. [adder[j] EXCEPT !.at = "count"].i = adder[j].i
    BY <1>1, AdderFacts
  <2> QED BY <1>1, <1>4, <2>1 DEF Agree, TypeOK, AddNext
<1> QED BY <1>3, <1>6, <1>7 DEF TypeOK, AddNext, RegistryType, AdderType, Agree

(* The counters of a job after a turn of its loop.                           *)
LEMMA CountFacts ==
  ASSUME TypeOK, NEW j \in Jobs, CountNext(j)
  PROVE  /\ adder[j].at = "count"
         /\ jobs'[j].completed = adder[j].i + 1
         /\ jobs'[j].total = jobs[j].total
         /\ jobs'[j].status = IF adder[j].i + 1 >= jobs[j].total
                              THEN "COMPLETED" ELSE jobs[j].status
         /\ IF adder[j].i + 1 < jobs[j].total
            THEN adder'[j] = [adder[j] EXCEPT !.at = "add", !.i = adder[j].i + 1]
            ELSE adder'[j] = NoAdder
         /\ jobs' \in [Jobs -> JobType] /\ adder' \in [Jobs -> AdderType]
         /\ \A k \in Jobs : k # j => jobs'[k] = jobs[k] /\ adder'[k] = adder[k]
<1> DEFINE next == adder[j].i + 1
           status == IF next >= jobs[j].total THEN "COMPLETED" ELSE jobs[j].status
           job == [jobs[j] EXCEPT !.completed = next, !.status = status]
           turn == IF next < jobs[j].total
                   THEN [adder[j] EXCEPT !.at = "add", !.i = next] ELSE NoAdder
<1>1. /\ adder[j].at = "count" /\ adder[j].at # "end"
      /\ adder' = [adder EXCEPT ![j] = turn]
  BY DEF CountNext, HasNext
<1>2. /\ adder[j].i \in Nat /\ adder[j].i < jobs[j].total
      /\ jobs[j].total \in 1..MaxCount /\ adder[j].i = jobs[j].completed
      /\ jobs[j] \in [status : {"STARTED", "COMPLETED"}, total : 1..MaxCount,
                      completed : 0..MaxCount]
      /\ adder[j] \in [at : {"add", "count"}, i : 0..(MaxCount - 1),
                       ids : Templates, shares : Distributions]
  BY <1>1, AdderFacts
<1>3. jobs' = [jobs EXCEPT ![j] = job]
  BY <1>2 DEF CountNext, IsCompleted
<1>4. next \in 1..MaxCount /\ (next < jobs[j].total => next \in 0..(MaxCount - 1))
  BY <1>2, RegistryAssumption
<1>5. status \in {"STARTED", "COMPLETED"}
  BY <1>2
<1> HIDE DEF next, status
<1>6. /\ job \in JobType /\ job.completed = next /\ job.status = status
      /\ job.total = jobs[j].total
  <2>1. next \in 0..MaxCount
    BY <1>4, RegistryAssumption
  <2> QED BY <1>2, <1>5, <2>1 DEF JobType
<1>7. turn \in AdderType
  BY <1>2, <1>4 DEF AdderType
<1> HIDE DEF job
<1>8. /\ jobs' \in [Jobs -> JobType] /\ jobs'[j] = job
      /\ \A k \in Jobs : k # j => jobs'[k] = jobs[k]
  BY <1>3, <1>6 DEF TypeOK, JobType
<1>9. /\ adder' \in [Jobs -> AdderType] /\ adder'[j] = turn
      /\ \A k \in Jobs : k # j => adder'[k] = adder[k]
  BY <1>1, <1>7 DEF TypeOK, AdderType
<1> QED BY <1>1, <1>6, <1>8, <1>9 DEF next, status

(* A job's goroutine counts it.                                              *)
LEMMA TypeCountNext ==
  ASSUME TypeOK, NEW j \in Jobs, CountNext(j)
  PROVE  TypeOK'
<1> DEFINE next == adder[j].i + 1
           turn == [adder[j] EXCEPT !.at = "add", !.i = next]
<1>1. /\ jobs'[j].completed = next /\ jobs'[j].total = jobs[j].total
      /\ IF next < jobs[j].total THEN adder'[j] = turn ELSE adder'[j] = NoAdder
      /\ \A k \in Jobs : k # j => jobs'[k] = jobs[k] /\ adder'[k] = adder[k]
  BY CountFacts
<1>2. turn.i = next
  <2>1. adder[j].at # "end"
    BY DEF CountNext
  <2>2. adder[j] \in [at : {"add", "count"}, i : 0..(MaxCount - 1),
                      ids : Templates, shares : Distributions]
    BY <2>1, AdderFacts
  <2> QED BY <2>2
<1>3. NoAdder.at = "end"
  BY DEF NoAdder
<1>4. \A k \in Jobs : Agree(k)
  BY DEF TypeOK, Agree
<1> HIDE DEF turn, next
<1>5. \A k \in Jobs : Agree(k)'
  BY <1>1, <1>2, <1>3, <1>4 DEF Agree
<1>6. jobs' \in [Jobs -> JobType] /\ adder' \in [Jobs -> AdderType]
  BY CountFacts
<1> QED BY <1>5, <1>6 DEF TypeOK, CountNext, JobType, AdderType, Agree

(* What other clients do.                                                    *)
LEMMA TypeClients ==
  ASSUME TypeOK, NEW c \in ChargerIds,
         \/ Create(c) \/ RemoveCharger(c)
         \/ UpdateConnectionState(c) \/ UpdateCharger(c)
  PROVE  /\ TypeOK' /\ due' \subseteq due /\ list' = list
         /\ \A d \in due' : Matches(registry'[d], list.filter)
<1>1. CASE Create(c)
  BY <1>1, AddTypes DEF Create, TypeOK, RegistryType
<1>2. CASE RemoveCharger(c)
  BY <1>2 DEF RemoveCharger, Store, TypeOK
<1>3. CASE UpdateConnectionState(c)
  <2>1. PICK state \in States : Store([registry EXCEPT ![c].state = state])
    BY <1>3 DEF UpdateConnectionState
  <2>2. registry[c] \in Entries
    BY <1>3 DEF UpdateConnectionState, Present, TypeOK
  <2>3. [registry[c] EXCEPT !.state = state] \in Entries
    BY <2>2 DEF Entries
  <2>4. /\ registry' = [registry EXCEPT ![c] = [registry[c] EXCEPT !.state = state]]
        /\ due' = {d \in due : Matches(registry'[d], list.filter)}
    BY <2>1 DEF Store
  <2>5. registry' \in RegistryType
    BY <2>3, <2>4 DEF TypeOK, RegistryType
  <2> QED BY <1>3, <2>4, <2>5 DEF UpdateConnectionState, TypeOK, RegistryType
<1>4. CASE UpdateCharger(c)
  <2>1. PICK version \in Versions : Store([registry EXCEPT ![c].version = version])
    BY <1>4 DEF UpdateCharger
  <2>2. registry[c] \in Entries
    BY <1>4 DEF UpdateCharger, Present, TypeOK
  <2>3. [registry[c] EXCEPT !.version = version] \in Entries
    BY <2>2 DEF Entries
  <2>4. /\ registry' = [registry EXCEPT ![c] = [registry[c] EXCEPT !.version = version]]
        /\ due' = {d \in due : Matches(registry'[d], list.filter)}
    BY <2>1 DEF Store
  <2>5. registry' \in RegistryType
    BY <2>3, <2>4 DEF TypeOK, RegistryType
  <2> QED BY <1>4, <2>4, <2>5 DEF UpdateCharger, TypeOK, RegistryType
<1> QED BY <1>1, <1>2, <1>3, <1>4

(* A listing begins.                                                         *)
LEMMA TypeBeginList ==
  ASSUME TypeOK, BeginList
  PROVE  TypeOK'
<1>1. PICK filter \in Filters, limit \in Limits :
        /\ list' = [NoList EXCEPT !.at = "page", !.filter = filter, !.limit = limit]
        /\ due' = {c \in ChargerIds : Matches(registry[c], filter)}
  BY DEF BeginList
<1>2. list' \in ListType
  <2>1. list' = [at |-> "page", filter |-> filter, limit |-> limit, cursor |-> 0,
                 seen |-> {}, again |-> FALSE, lost |-> FALSE]
    BY <1>1 DEF NoList
  <2>2. 0 \in 0..NumChargers
    BY RegistryAssumption
  <2> QED BY <2>1, <2>2 DEF ListType
<1>3. due' \subseteq ChargerIds
  BY <1>1
<1> QED BY <1>2, <1>3 DEF TypeOK, BeginList, ListType

(* What ListPage computes.                                                   *)
Rest == {c \in After(list.cursor) : Matches(registry[c], list.filter)}
NextPage == Page(Rest, list.limit)

(* What a request for a page does.                                           *)
LEMMA ListPageFacts ==
  ASSUME TypeOK, ListPage
  PROVE  /\ Rest \in SUBSET ChargerIds /\ NextPage \in SUBSET ChargerIds
         /\ NextPage \subseteq Rest /\ list.limit \in Nat \ {0}
         /\ due' = due \ NextPage
         /\ IF NextCursor(NextPage, list.limit) = 0
            THEN /\ list'.at = "done" /\ list'.cursor = 0
                 /\ list'.limit = 1 /\ list'.seen = {}
                 /\ list'.filter = NoList.filter
            ELSE /\ list'.at = "page" /\ list'.limit = list.limit
                 /\ list'.cursor = NextCursor(NextPage, list.limit)
                 /\ list'.seen = list.seen \cup NextPage
                 /\ list'.filter = list.filter
         /\ list'.again = (list.again \/ list.seen \cap NextPage # {})
         /\ list'.lost = (list.lost \/ (list.cursor # 0 /\ ~Present(list.cursor)))
         /\ list' \in ListType
<1>1. Rest \in SUBSET ChargerIds /\ NextPage \subseteq Rest
  BY RegistryAssumption DEF Rest, NextPage, Page, After, ChargerIds, TypeOK
<1>2. list.limit \in Nat \ {0} /\ list \in ListType
  <2>1. list \in ListType
    BY DEF TypeOK, ListType
  <2>2. list.limit \in Limits \cup {1}
    BY <2>1 DEF ListType
  <2>3. \A n \in Limits \cup {1} : n \in Nat \ {0}
    BY RegistryAssumption
  <2> QED BY <2>1, <2>2, <2>3
<1> DEFINE next == NextCursor(NextPage, list.limit)
           again == (list.again \/ list.seen \cap NextPage # {})
           lost == (list.lost \/ (list.cursor # 0 /\ ~Present(list.cursor)))
<1>3. /\ list' = IF next = 0
                 THEN [NoList EXCEPT !.at = "done", !.again = again, !.lost = lost]
                 ELSE [list EXCEPT !.cursor = next, !.seen = @ \cup NextPage,
                                   !.again = again, !.lost = lost]
      /\ due' = due \ NextPage /\ list.at = "page"
  BY DEF ListPage, NextPage, Rest, Page
<1>4. next \in 0..NumChargers
  <2>1. CASE Cardinality(NextPage) = list.limit
    <3>1. NextPage # {}
      BY <1>2, <2>1, FS_EmptySet
    <3>2. Max(NextPage) \in ChargerIds
      BY <1>1, <3>1, GreatestFound
    <3> QED BY <2>1, <3>2, RegistryAssumption DEF NextCursor, ChargerIds
  <2>2. CASE Cardinality(NextPage) # list.limit
    BY <2>2, RegistryAssumption DEF NextCursor
  <2> QED BY <2>1, <2>2
<1>5. again \in BOOLEAN /\ lost \in BOOLEAN
  OBVIOUS
<1> HIDE DEF next, again, lost
<1>6. CASE next = 0
  <2>1. list' = [at |-> "done", filter |-> NoList.filter, limit |-> 1, cursor |-> 0,
                 seen |-> {}, again |-> again, lost |-> lost]
    BY <1>3, <1>6 DEF NoList
  <2>2. list' \in ListType
    <3>1. 0 \in 0..NumChargers
      BY RegistryAssumption
    <3> QED BY <1>5, <2>1, <3>1 DEF ListType
  <2>3. /\ list'.at = "done" /\ list'.cursor = 0 /\ list'.limit = 1
        /\ list'.seen = {} /\ list'.filter = NoList.filter
        /\ list'.again = again /\ list'.lost = lost
    BY <2>1
  <2> QED BY <1>1, <1>2, <1>3, <1>6, <2>2, <2>3 DEF next, again, lost
<1>7. CASE next # 0
  BY <1>1, <1>2, <1>3, <1>4, <1>5, <1>7 DEF ListType, next, again, lost
<1> QED BY <1>6, <1>7

(* TypeOK is inductive.                                                      *)
LEMMA RegistryTypeNext == TypeOK /\ [Next]_vars => TypeOK'
<1> SUFFICES ASSUME TypeOK, [Next]_vars PROVE TypeOK'
  OBVIOUS
<1>1. ASSUME NEW j \in Jobs, StartJob(j) \/ AddNext(j) \/ CountNext(j)
      PROVE  TypeOK'
  BY <1>1, TypeStartJob, TypeAddNext, TypeCountNext
<1>2. ASSUME NEW c \in ChargerIds,
             \/ Create(c) \/ RemoveCharger(c)
             \/ UpdateConnectionState(c) \/ UpdateCharger(c)
      PROVE  TypeOK'
  BY <1>2, TypeClients
<1>3. CASE BeginList
  BY <1>3, TypeBeginList
<1>4. CASE ListPage
  <2>1. list' \in ListType /\ due' \subseteq due
    BY <1>4, ListPageFacts
  <2> QED BY <1>4, <2>1 DEF TypeOK, ListPage, ListType
<1>5. CASE UNCHANGED vars
  BY <1>5 DEF TypeOK, vars
<1> QED BY <1>1, <1>2, <1>3, <1>4, <1>5 DEF Next, Goroutine

(* Type correctness, and the agreement of a job's counter with its           *)
(* goroutine.                                                                *)
THEOREM RegistryTypeOK == Spec => []TypeOK
<1> QED BY RegistryTypeInit, RegistryTypeNext, PTL DEF Spec

-----------------------------------------------------------------------------
(* Jobs.                                                                     *)

(* The goroutine of j has yet to add the charger c.                          *)
Coming(j, c) ==
  /\ adder[j].at # "end"
  /\ \E i \in adder[j].i..(jobs[j].total - 1) :
       /\ adder[j].ids[i] = c
       /\ adder[j].at = "count" => i # adder[j].i

JobKept(j) ==
  /\ jobs[j].status = "COMPLETED" => adder[j].at = "end"
  /\ \A c \in owed[j] : Present(c) \/ Coming(j, c)

(* A job whose goroutine did not move, while no charger that it owes went.   *)
LEMMA JobUntouched ==
  ASSUME TypeOK, NEW j \in Jobs, JobKept(j),
         jobs'[j] = jobs[j], adder'[j] = adder[j], owed'[j] \subseteq owed[j],
         \A c \in owed'[j] : Present(c) => Present(c)'
  PROVE  JobKept(j)'
<1>1. \A c \in owed'[j] : Coming(j, c) => Coming(j, c)'
  BY DEF Coming
<1> QED BY <1>1 DEF JobKept

(* What a job owes when it is accepted is all still to be added.             *)
LEMMA JobAfterStart ==
  ASSUME TypeOK, NEW j \in Jobs, StartJob(j)
  PROVE  JobKept(j)'
<1>1. PICK count \in 1..MaxCount, ids \in Templates, shares \in Distributions :
        /\ jobs' = [jobs EXCEPT ![j] = [status |-> "STARTED", total |-> count,
                                        completed |-> 0]]
        /\ adder' = [adder EXCEPT ![j] = [at |-> "add", i |-> 0, ids |-> ids,
                                          shares |-> shares]]
        /\ owed' = [owed EXCEPT ![j] = {ids[i] : i \in 0..(count - 1)}]
  BY DEF StartJob
<1>2. /\ jobs'[j].status = "STARTED" /\ jobs'[j].total = count
      /\ adder'[j].at = "add" /\ adder'[j].i = 0 /\ adder'[j].ids = ids
      /\ owed'[j] = {ids[i] : i \in 0..(count - 1)}
  BY <1>1 DEF TypeOK
<1>3. \A c \in owed'[j] : Coming(j, c)'
  BY <1>2 DEF Coming
<1> QED BY <1>2, <1>3 DEF JobKept

(* The charger at hand is there now, whether added or found.                 *)
LEMMA JobAfterAdd ==
  ASSUME TypeOK, NEW j \in Jobs, AddNext(j), JobKept(j)
  PROVE  /\ JobKept(j)'
         /\ \A c \in ChargerIds : Present(c) => Present(c)'
<1> DEFINE turn == [adder[j] EXCEPT !.at = "count"]
<1>1. /\ adder[j].at = "add" /\ adder[j].at # "end"
      /\ UNCHANGED <<jobs, owed>> /\ adder' = [adder EXCEPT ![j] = turn]
  BY DEF AddNext
<1>2. adder[j].ids[adder[j].i] \in ChargerIds
      /\ adder[j].i \in Nat /\ jobs[j].total \in Nat
  BY <1>1, AdderFacts
<1>3. /\ turn.at = "count" /\ turn.i = adder[j].i /\ turn.ids = adder[j].ids
  BY <1>1, AdderFacts
<1>4. adder'[j] = turn
  BY <1>1 DEF TypeOK
<1> HIDE DEF turn
<1>id. PICK id \in ChargerIds : id = adder[j].ids[adder[j].i]
  BY <1>2
<1>a. (\E version \in PickVersion(adder[j].shares, adder[j].i) :
         AddCharger(id, version))
      \/ (Present(id) /\ UNCHANGED <<registry, due>>)
  BY <1>id DEF AddNext
<1>5. Present(id)' /\ \A d \in ChargerIds : Present(d) => Present(d)'
  <2>1. CASE \E version \in PickVersion(adder[j].shares, adder[j].i) :
               AddCharger(id, version)
    <3>1. PICK version \in PickVersion(adder[j].shares, adder[j].i) :
            AddCharger(id, version)
      BY <2>1
    <3>2. version \in Versions
      BY PickedVersions
    <3> QED BY <3>1, <3>2, AddTypes DEF TypeOK, RegistryType
  <2>2. CASE Present(id) /\ UNCHANGED <<registry, due>>
    BY <2>2 DEF Present
  <2> QED BY <1>a, <2>1, <2>2
<1>6. ASSUME NEW c \in owed[j], Coming(j, c) PROVE Present(c)' \/ Coming(j, c)'
  <2>1. PICK i \in adder[j].i..(jobs[j].total - 1) : adder[j].ids[i] = c
    BY <1>6 DEF Coming
  <2>2. CASE i = adder[j].i
    <3>1. c = id
      BY <1>id, <2>1, <2>2
    <3> QED BY <1>5, <3>1
  <2>3. CASE i # adder[j].i
    BY <1>1, <1>3, <1>4, <2>1, <2>3 DEF Coming
  <2> QED BY <2>2, <2>3
<1>7. owed[j] \subseteq ChargerIds
  BY DEF TypeOK
<1>8. ~(jobs'[j].status = "COMPLETED")
  BY <1>1 DEF JobKept
<1> QED BY <1>1, <1>5, <1>6, <1>7, <1>8 DEF JobKept

(* The goroutine goes on to the next index, or all indexes are done.         *)
LEMMA JobAfterCount ==
  ASSUME TypeOK, NEW j \in Jobs, CountNext(j), JobKept(j)
  PROVE  JobKept(j)'
<1> DEFINE next == adder[j].i + 1
           turn == [adder[j] EXCEPT !.at = "add", !.i = next]
<1>1. /\ adder[j].at = "count" /\ adder[j].at # "end"
      /\ jobs'[j].total = jobs[j].total
      /\ jobs'[j].status = IF next >= jobs[j].total THEN "COMPLETED"
                                                    ELSE jobs[j].status
      /\ IF next < jobs[j].total THEN adder'[j] = turn ELSE adder'[j] = NoAdder
      /\ UNCHANGED <<registry, owed>>
  BY CountFacts DEF CountNext
<1>2. adder[j].i \in Nat /\ jobs[j].total \in Nat /\ next \in Nat
  BY <1>1, AdderFacts
<1>3. turn.at = "add" /\ turn.i = next /\ turn.ids = adder[j].ids
  BY <1>1, AdderFacts
<1>4. NoAdder.at = "end"
  BY DEF NoAdder
<1> HIDE DEF turn
<1>5. ASSUME jobs'[j].status = "COMPLETED" PROVE adder'[j].at = "end"
  <2>1. next >= jobs[j].total
    BY <1>1, <1>5 DEF JobKept
  <2>2. ~(next < jobs[j].total)
    BY <1>2, <2>1
  <2> QED BY <1>1, <1>4, <2>2
<1>6. ASSUME NEW c \in owed[j], Coming(j, c) PROVE Coming(j, c)'
  <2>1. PICK i \in adder[j].i..(jobs[j].total - 1) :
          adder[j].ids[i] = c /\ i # adder[j].i
    BY <1>1, <1>6 DEF Coming
  <2>2. i \in next..(jobs[j].total - 1) /\ next < jobs[j].total
    BY <1>2, <2>1
  <2>3. adder'[j] = turn
    BY <1>1, <2>2
  <2> QED BY <1>1, <1>3, <2>1, <2>2, <2>3 DEF Coming
<1> QED BY <1>1, <1>5, <1>6 DEF JobKept, Present

(* StillToAdd is inductive.                                                  *)
LEMMA JobsNext ==
  ASSUME TypeOK, \A j \in Jobs : JobKept(j), [Next]_vars
  PROVE  \A j \in Jobs : JobKept(j)'
<1>o. \A j \in Jobs : owed[j] \subseteq ChargerIds
  BY DEF TypeOK
<1>k. ASSUME UNCHANGED <<registry, jobs, adder, owed>>
      PROVE  \A j \in Jobs : JobKept(j)'
  BY <1>k, JobUntouched DEF Present
<1>1. ASSUME NEW j \in Jobs, StartJob(j) PROVE \A k \in Jobs : JobKept(k)'
  <2>1. \A k \in Jobs : k # j =>
          jobs'[k] = jobs[k] /\ adder'[k] = adder[k] /\ owed'[k] = owed[k]
    BY <1>1 DEF StartJob, TypeOK
  <2>2. registry' = registry
    BY <1>1 DEF StartJob
  <2>3. \A k \in Jobs : k # j => JobKept(k)'
    BY <2>1, <2>2, JobUntouched DEF Present
  <2> QED BY <1>1, <2>3, JobAfterStart
<1>2. ASSUME NEW j \in Jobs, AddNext(j) PROVE \A k \in Jobs : JobKept(k)'
  <2>1. JobKept(j)' /\ \A c \in ChargerIds : Present(c) => Present(c)'
    BY <1>2, JobAfterAdd
  <2>2. \A k \in Jobs : k # j =>
          jobs'[k] = jobs[k] /\ adder'[k] = adder[k] /\ owed'[k] = owed[k]
    BY <1>2 DEF AddNext, TypeOK
  <2>3. \A k \in Jobs : k # j => JobKept(k)'
    BY <1>o, <2>1, <2>2, JobUntouched
  <2> QED BY <2>1, <2>3
<1>3. ASSUME NEW j \in Jobs, CountNext(j) PROVE \A k \in Jobs : JobKept(k)'
  <2>1. \A k \in Jobs : k # j => jobs'[k] = jobs[k] /\ adder'[k] = adder[k]
    BY <1>3, CountFacts
  <2>2. UNCHANGED <<registry, owed>>
    BY <1>3 DEF CountNext
  <2>3. \A k \in Jobs : k # j => JobKept(k)'
    BY <2>1, <2>2, JobUntouched DEF Present
  <2> QED BY <1>3, <2>3, JobAfterCount
<1>4. ASSUME NEW c \in ChargerIds, Create(c) PROVE \A k \in Jobs : JobKept(k)'
  <2>1. UNCHANGED <<jobs, adder, owed>> /\
        \A d \in ChargerIds : Present(d) => Present(d)'
    BY <1>4, AddTypes DEF Create, TypeOK, RegistryType
  <2> QED BY <1>o, <2>1, JobUntouched
<1>5. ASSUME NEW c \in ChargerIds, RemoveCharger(c)
      PROVE  \A k \in Jobs : JobKept(k)'
  <2>1. /\ UNCHANGED <<jobs, adder>>
        /\ \A k \in Jobs : owed'[k] = owed[k] \ {c}
        /\ \A d \in ChargerIds \ {c} : Present(d) => Present(d)'
    BY <1>5 DEF RemoveCharger, Store, Present, TypeOK
  <2> QED BY <1>o, <2>1, JobUntouched
<1>6. ASSUME NEW c \in ChargerIds, UpdateConnectionState(c)
      PROVE  \A k \in Jobs : JobKept(k)'
  <2>1. UNCHANGED <<jobs, adder, owed>> /\ registry[c] \in Entries
    BY <1>6 DEF UpdateConnectionState, Present, TypeOK
  <2>2. \A d \in ChargerIds : Present(d) => Present(d)'
    <3>1. PICK state \in States : registry' = [registry EXCEPT ![c].state = state]
      BY <1>6 DEF UpdateConnectionState, Store
    <3>2. [registry[c] EXCEPT !.state = state] \in Entries
      BY <2>1 DEF Entries
    <3> QED BY <3>1, <3>2, RegistryAssumption DEF Present, TypeOK
  <2> QED BY <1>o, <2>1, <2>2, JobUntouched
<1>7. ASSUME NEW c \in ChargerIds, UpdateCharger(c)
      PROVE  \A k \in Jobs : JobKept(k)'
  <2>1. UNCHANGED <<jobs, adder, owed>> /\ registry[c] \in Entries
    BY <1>7 DEF UpdateCharger, Present, TypeOK
  <2>2. \A d \in ChargerIds : Present(d) => Present(d)'
    <3>1. PICK version \in Versions :
            registry' = [registry EXCEPT ![c].version = version]
      BY <1>7 DEF UpdateCharger, Store
    <3>2. [registry[c] EXCEPT !.version = version] \in Entries
      BY <2>1 DEF Entries
    <3> QED BY <3>1, <3>2, RegistryAssumption DEF Present, TypeOK
  <2> QED BY <1>o, <2>1, <2>2, JobUntouched
<1> QED BY <1>k, <1>1, <1>2, <1>3, <1>4, <1>5, <1>6, <1>7
        DEF Next, Goroutine, BeginList, ListPage, vars

(* What a job still owes is still to be added.                               *)
THEOREM RegistryStillToAdd == Spec => []StillToAdd
<1>1. StillToAdd <=> \A j \in Jobs : JobKept(j)
  BY DEF StillToAdd, JobKept, Coming
<1>2. Init => StillToAdd
  BY DEF Init, StillToAdd, NoJob
<1>3. TypeOK /\ StillToAdd /\ [Next]_vars => StillToAdd'
  <2> SUFFICES ASSUME TypeOK, StillToAdd, [Next]_vars PROVE StillToAdd'
    OBVIOUS
  <2>1. \A j \in Jobs : JobKept(j)'
    BY <1>1, JobsNext
  <2> QED BY <2>1 DEF StillToAdd, JobKept, Coming
<1> QED BY <1>2, <1>3, RegistryTypeOK, PTL DEF Spec

(* A completed job has left nothing out that nobody deleted.                 *)
THEOREM RegistryCompletedJob == Spec => []CompletedJobCreated
<1>1. StillToAdd => CompletedJobCreated
  BY DEF StillToAdd, CompletedJobCreated
<1> QED BY <1>1, RegistryStillToAdd, PTL

-----------------------------------------------------------------------------
(* Listings.                                                                 *)

(* The due chargers are among those that the next page is taken from.        *)
LEMMA DueInRest ==
  ASSUME TypeOK, CursorDivides, ListPage
  PROVE  due \subseteq Rest
<1> SUFFICES ASSUME NEW c \in due PROVE c \in Rest
  OBVIOUS
<1>1. c \in ChargerIds /\ c > list.cursor /\ Matches(registry[c], list.filter)
  BY DEF TypeOK, CursorDivides, ListPage
<1>2. list.cursor \in 0..NumChargers
  BY DEF TypeOK
<1>3. c \in (list.cursor + 1)..NumChargers
  BY <1>1, <1>2, RegistryAssumption DEF ChargerIds
<1>4. c \in After(list.cursor)
  BY <1>1, <1>3 DEF After
<1> QED BY <1>1, <1>4 DEF Rest

(* While the charger of every cursor was there, a page is past the cursor,   *)
(* and past all that was seen.                                               *)
LEMMA PageIsNew ==
  ASSUME TypeOK, CursorDivides, ListPage, ~list'.lost,
         NEW c \in NextPage, NEW d \in list.seen
  PROVE  d < c
<1>1. /\ list.at = "page" /\ ~list.lost
      /\ list.cursor = 0 \/ Present(list.cursor)
  BY ListPageFacts DEF ListPage
<1>2. list.cursor \in 0..NumChargers /\ d \in ChargerIds /\ c \in ChargerIds
  BY ListPageFacts DEF TypeOK
<1>3. d <= list.cursor
  BY <1>1 DEF CursorDivides
<1>4. list.cursor # 0 /\ list.cursor \in ChargerIds
  BY <1>2, <1>3, RegistryAssumption DEF ChargerIds
<1>5. After(list.cursor) = (list.cursor + 1)..NumChargers
  BY <1>1, <1>4 DEF After
<1>6. c \in (list.cursor + 1)..NumChargers
  BY <1>5, ListPageFacts DEF Rest
<1> QED BY <1>2, <1>3, <1>6, RegistryAssumption DEF ChargerIds

(* A full page leads to its greatest id; a page that leaves something out is *)
(* full.                                                                     *)
LEMMA NextCursorFacts ==
  ASSUME TypeOK, ListPage
  PROVE  /\ NextCursor(NextPage, list.limit) # 0 =>
              /\ NextCursor(NextPage, list.limit) \in NextPage
              /\ \A c \in NextPage : c <= NextCursor(NextPage, list.limit)
         /\ Rest # NextPage => NextCursor(NextPage, list.limit) # 0
<1>1. /\ Rest \in SUBSET ChargerIds /\ NextPage \in SUBSET ChargerIds
      /\ NextPage \subseteq Rest /\ list.limit \in Nat \ {0}
  BY ListPageFacts
<1>2. ASSUME Cardinality(NextPage) = list.limit
      PROVE  /\ NextCursor(NextPage, list.limit) = Max(NextPage)
             /\ Max(NextPage) \in NextPage /\ Max(NextPage) # 0
             /\ \A c \in NextPage : c <= Max(NextPage)
  <2>1. NextPage # {}
    BY <1>1, <1>2, FS_EmptySet
  <2>2. Max(NextPage) \in NextPage /\ \A c \in NextPage : c <= Max(NextPage)
    BY <1>1, <2>1, GreatestFound
  <2>3. \A c \in ChargerIds : c # 0
    BY RegistryAssumption DEF ChargerIds
  <2>4. Max(NextPage) # 0
    BY <1>1, <2>2, <2>3
  <2> QED BY <1>2, <2>2, <2>4 DEF NextCursor
<1>3. ASSUME Cardinality(NextPage) # list.limit
      PROVE  NextCursor(NextPage, list.limit) = 0
  BY <1>3 DEF NextCursor
<1>4. ASSUME Rest # NextPage PROVE Cardinality(NextPage) = list.limit
  <2>1. PICK c \in Rest \ NextPage : TRUE
    BY <1>1, <1>4
  <2>2. c \in Rest \ Page(Rest, list.limit)
    BY <2>1 DEF NextPage
  <2>3. Cardinality(Page(Rest, list.limit)) = list.limit
    BY <1>1, <2>2, PageFacts
  <2> QED BY <2>3 DEF NextPage
<1> QED BY <1>2, <1>3, <1>4

(* After a page the cursor divides what is due from what was seen.           *)
LEMMA CursorAfterPage ==
  ASSUME TypeOK, CursorDivides, ListPage
  PROVE  CursorDivides'
<1> DEFINE next == NextCursor(NextPage, list.limit)
<1>1. /\ Rest \in SUBSET ChargerIds /\ NextPage \in SUBSET ChargerIds
      /\ NextPage \subseteq Rest /\ list.limit \in Nat \ {0}
      /\ due' = due \ NextPage /\ due \subseteq Rest /\ registry' = registry
      /\ list.at = "page" /\ list.limit \in Limits
      /\ \A c \in due : Matches(registry[c], list.filter)
  BY ListPageFacts, DueInRest DEF ListPage, CursorDivides
<1>2. next # 0 => next \in NextPage /\ \A c \in NextPage : c <= next
  BY NextCursorFacts
<1>3. Rest # NextPage => next # 0
  BY NextCursorFacts
<1>4. IF next = 0
      THEN list'.at = "done"
      ELSE /\ list'.at = "page" /\ list'.limit = list.limit
           /\ list'.cursor = next /\ list'.filter = list.filter
           /\ list'.seen = list.seen \cup NextPage
  BY ListPageFacts
<1> HIDE DEF next
<1>5. CASE next = 0
  <2>1. due' = {}
    BY <1>1, <1>3, <1>5
  <2> QED BY <1>4, <1>5, <2>1 DEF CursorDivides
<1>6. CASE next # 0
  <2>1. next \in NextPage /\ next \in ChargerIds
    BY <1>1, <1>2, <1>6
  <2>2. ASSUME NEW c \in due' PROVE c > next /\ Matches(registry'[c], list'.filter)
    <3>1. c \in due /\ c \in Rest \ Page(Rest, list.limit)
      BY <1>1 DEF NextPage
    <3>2. \A m \in Page(Rest, list.limit) : m < c
      BY <1>1, <3>1, PageFacts
    <3>3. next < c
      BY <2>1, <3>2 DEF NextPage
    <3>4. c \in Nat /\ next \in Nat
      BY <1>1, <2>1, <3>1 DEF ChargerIds
    <3> QED BY <1>1, <1>4, <1>6, <3>1, <3>3, <3>4
  <2>3. ASSUME ~list'.lost, NEW c \in list'.seen PROVE c <= next
    <3>1. CASE c \in NextPage
      BY <1>2, <1>6, <3>1
    <3>2. CASE c \in list.seen
      <4>1. c < next
        BY <2>1, <2>3, <3>2, PageIsNew
      <4>2. c \in ChargerIds
        BY <3>2 DEF TypeOK
      <4> QED BY <2>1, <4>1, <4>2, RegistryAssumption DEF ChargerIds
    <3> QED BY <1>4, <1>6, <2>3, <3>1, <3>2
  <2> QED BY <1>1, <1>4, <1>6, <2>2, <2>3 DEF CursorDivides
<1> QED BY <1>5, <1>6

(* A step that leaves the listing alone, and nothing due that does not match.*)
LEMMA CursorKept ==
  ASSUME CursorDivides, list' = list, due' \subseteq due,
         \A d \in due' : Matches(registry'[d], list.filter)
  PROVE  CursorDivides'
<1>1. list.at = "done" => due' = {}
  BY DEF CursorDivides
<1>2. list.at = "page" =>
        /\ list.limit \in Limits
        /\ \A c \in due' : c > list.cursor
        /\ ~list.lost => \A c \in list.seen : c <= list.cursor
  BY DEF CursorDivides
<1> QED BY <1>1, <1>2 DEF CursorDivides

(* Every other step leaves the listing alone; due shrinks to what matches,   *)
(* or neither due nor the registry changes.                                  *)
LEMMA OtherSteps ==
  ASSUME TypeOK, Next, ~BeginList, ~ListPage
  PROVE  /\ list' = list
         /\ \/ UNCHANGED <<registry, due>>
            \/ due' \subseteq due
               /\ \A d \in due' : Matches(registry'[d], list.filter)
<1>1. ASSUME NEW j \in Jobs, StartJob(j) \/ CountNext(j)
      PROVE  list' = list /\ UNCHANGED <<registry, due>>
  BY <1>1 DEF StartJob, CountNext
<1>2. ASSUME NEW j \in Jobs, AddNext(j)
      PROVE  /\ list' = list
             /\ \/ UNCHANGED <<registry, due>>
                \/ due' \subseteq due
                   /\ \A d \in due' : Matches(registry'[d], list.filter)
  <2>1. PICK id \in ChargerIds : id = adder[j].ids[adder[j].i]
    <3>1. adder[j].at # "end"
      BY <1>2 DEF AddNext
    <3> QED BY <3>1, AdderFacts
  <2>2. \/ \E version \in PickVersion(adder[j].shares, adder[j].i) :
             AddCharger(id, version)
        \/ UNCHANGED <<registry, due>>
    BY <1>2, <2>1 DEF AddNext
  <2>3. ASSUME NEW version \in PickVersion(adder[j].shares, adder[j].i),
               AddCharger(id, version)
        PROVE  due' \subseteq due
               /\ \A d \in due' : Matches(registry'[d], list.filter)
    <3>1. version \in Versions
      BY PickedVersions
    <3> QED BY <2>3, <3>1, AddTypes DEF TypeOK, RegistryType
  <2>4. list' = list
    BY <1>2 DEF AddNext
  <2> QED BY <2>2, <2>3, <2>4
<1>3. ASSUME NEW c \in ChargerIds,
             \/ Create(c) \/ RemoveCharger(c)
             \/ UpdateConnectionState(c) \/ UpdateCharger(c)
      PROVE  /\ list' = list /\ due' \subseteq due
             /\ \A d \in due' : Matches(registry'[d], list.filter)
  BY <1>3, TypeClients
<1> QED BY <1>1, <1>2, <1>3 DEF Next, Goroutine

(* CursorDivides is inductive.                                               *)
LEMMA CursorNext == TypeOK /\ CursorDivides /\ [Next]_vars => CursorDivides'
<1> SUFFICES ASSUME TypeOK, CursorDivides, [Next]_vars PROVE CursorDivides'
  OBVIOUS
<1>1. CASE BeginList
  <2>1. PICK filter \in Filters, limit \in Limits :
          /\ list' = [NoList EXCEPT !.at = "page", !.filter = filter,
                                    !.limit = limit]
          /\ due' = {c \in ChargerIds : Matches(registry[c], filter)}
    BY <1>1 DEF BeginList
  <2>2. /\ list'.at = "page" /\ list'.filter = filter /\ list'.limit = limit
        /\ list'.cursor = 0 /\ list'.seen = {}
    BY <2>1 DEF NoList
  <2>3. \A c \in ChargerIds : c > 0
    BY RegistryAssumption DEF ChargerIds
  <2>4. registry' = registry
    BY <1>1 DEF BeginList
  <2> QED BY <2>1, <2>2, <2>3, <2>4 DEF CursorDivides
<1>2. CASE ListPage
  BY <1>2, CursorAfterPage
<1>3. CASE Next /\ ~BeginList /\ ~ListPage
  <2>1. CASE UNCHANGED <<list, registry, due>>
    BY <2>1 DEF CursorDivides
  <2>2. CASE /\ list' = list /\ due' \subseteq due
             /\ \A d \in due' : Matches(registry'[d], list.filter)
    BY <2>2, CursorKept
  <2> QED BY <1>3, <2>1, <2>2, OtherSteps
<1>4. CASE UNCHANGED vars
  BY <1>4 DEF CursorDivides, vars
<1> QED BY <1>1, <1>2, <1>3, <1>4

(* What is due is ahead of the cursor and what was seen is not               *)
(* (handlers_fleet.go:216-254).                                              *)
THEOREM RegistryCursor == Spec => []CursorDivides
<1>1. Init => CursorDivides
  BY DEF Init, CursorDivides, NoList
<1> QED BY <1>1, CursorNext, RegistryTypeOK, PTL DEF Spec

(* A client that follows the cursor to the end has seen every charger that   *)
(* matched its query all the time, whatever came and went meanwhile.         *)
THEOREM RegistryListingComplete == Spec => []ListingComplete
<1>1. CursorDivides => ListingComplete
  BY DEF CursorDivides, ListingComplete
<1> QED BY <1>1, RegistryCursor, PTL

(* No charger is listed twice, unless the charger of a cursor was deleted    *)
(* before the next page.                                                     *)
THEOREM RegistryListingOnce == Spec => []ListingOnce
<1>1. Init => ListingOnce
  BY DEF Init, ListingOnce, NoList
<1>2. TypeOK /\ CursorDivides /\ ListingOnce /\ [Next]_vars => ListingOnce'
  <2> SUFFICES ASSUME TypeOK, CursorDivides, ListingOnce, [Next]_vars
               PROVE  ListingOnce'
    OBVIOUS
  <2>1. CASE BeginList
    BY <2>1 DEF BeginList, ListingOnce, NoList
  <2>2. CASE ListPage
    <3> SUFFICES ASSUME ~list'.lost PROVE ~list'.again
      BY DEF ListingOnce
    <3>1. /\ list'.again = (list.again \/ list.seen \cap NextPage # {})
          /\ ~list.lost
      BY <2>2, ListPageFacts
    <3>2. ~list.again
      BY <3>1 DEF ListingOnce
    <3>3. ASSUME NEW c \in NextPage, c \in list.seen PROVE FALSE
      <4>1. c < c
        BY <2>2, <3>3, PageIsNew
      <4>2. c \in ChargerIds
        BY <3>3 DEF TypeOK
      <4> QED BY <4>1, <4>2, RegistryAssumption DEF ChargerIds
    <3> QED BY <3>1, <3>2, <3>3
  <2>3. CASE Next /\ ~BeginList /\ ~ListPage
    BY <2>3, OtherSteps DEF ListingOnce
  <2>4. CASE UNCHANGED vars
    BY <2>4 DEF ListingOnce, vars
  <2> QED BY <2>1, <2>2, <2>3, <2>4
<1> QED BY <1>1, <1>2, RegistryTypeOK, RegistryCursor, PTL DEF Spec

-----------------------------------------------------------------------------
(* The versions of a job.                                                    *)

Sum(dist, versions) == MapThenSumSet(LAMBDA v : dist[v], versions)

(* The version that the sum of a set adds to the sum of the rest.            *)
Pick(versions) == CHOOSE v \in versions : TRUE

Step(dist, sum, versions) ==
  IF versions = {} THEN 0
  ELSE dist[Pick(versions)] + sum[versions \ {Pick(versions)}]

(* What a step takes out of a set of versions leaves a smaller one.          *)
LEMMA PickFacts ==
  ASSUME NEW s \in SUBSET Versions
  PROVE  /\ IsFiniteSet(s) /\ Cardinality(s) \in Nat
         /\ s # {} => /\ Pick(s) \in s
                      /\ s \ {Pick(s)} \in SUBSET Versions
                      /\ Cardinality(s) \in Nat \ {0}
                      /\ Cardinality(s \ {Pick(s)}) = Cardinality(s) - 1
<1>1. IsFiniteSet(s) /\ Cardinality(s) \in Nat
  BY RegistryAssumption, FS_Subset, FS_CardinalityType
<1>2. ASSUME s # {} PROVE Pick(s) \in s
  BY <1>2 DEF Pick
<1>3. ASSUME s # {}
      PROVE  /\ Cardinality(s) # 0
             /\ Cardinality(s \ {Pick(s)}) = Cardinality(s) - 1
  BY <1>1, <1>2, <1>3, FS_EmptySet, FS_RemoveElement
<1> QED BY <1>1, <1>2, <1>3

(* The sums of all subsets of a set of versions, small ones first.           *)
LEMMA SumsExist ==
  ASSUME NEW dist \in [Versions -> Nat], NEW S \in SUBSET Versions
  PROVE  \E f \in [SUBSET S -> Nat] :
           \A s \in SUBSET S : f[s] = Step(dist, f, s)
<1> DEFINE UpTo(n) == {s \in SUBSET S : Cardinality(s) <= n}
           Defined(n) == \E f \in [UpTo(n) -> Nat] :
                           \A s \in UpTo(n) : f[s] = Step(dist, f, s)
<1>1. Defined(0)
  <2> DEFINE f == [s \in UpTo(0) |-> 0]
  <2>1. \A s \in UpTo(0) : s = {}
    <3> SUFFICES ASSUME NEW s \in UpTo(0), s # {} PROVE FALSE
      OBVIOUS
    <3>1. Cardinality(s) \in Nat \ {0} /\ Cardinality(s) <= 0
      BY PickFacts
    <3> QED BY <3>1
  <2>2. f \in [UpTo(0) -> Nat] /\ \A s \in UpTo(0) : f[s] = Step(dist, f, s)
    BY <2>1 DEF Step
  <2> QED BY <2>2
<1>2. ASSUME NEW n \in Nat \ {0}, Defined(n - 1) PROVE Defined(n)
  <2>1. PICK f \in [UpTo(n - 1) -> Nat] :
          \A s \in UpTo(n - 1) : f[s] = Step(dist, f, s)
    BY <1>2
  <2> DEFINE g == [s \in UpTo(n) |-> Step(dist, f, s)]
  <2>2. ASSUME NEW s \in UpTo(n), s # {}
        PROVE  /\ s \ {Pick(s)} \in UpTo(n - 1) /\ s \ {Pick(s)} \in UpTo(n)
               /\ dist[Pick(s)] \in Nat
    <3>1. /\ s \in SUBSET S /\ s \in SUBSET Versions /\ Cardinality(s) <= n
          /\ Pick(s) \in s /\ Cardinality(s) \in Nat
          /\ Cardinality(s \ {Pick(s)}) = Cardinality(s) - 1
      BY <2>2, PickFacts
    <3>2. Cardinality(s \ {Pick(s)}) <= n - 1 /\ Cardinality(s \ {Pick(s)}) <= n
      BY <3>1
    <3> QED BY <3>1, <3>2
  <2>3. \A s \in UpTo(n) : Step(dist, f, s) \in Nat
    BY <2>2 DEF Step
  <2>4. \A s \in UpTo(n - 1) : s \in UpTo(n)
    <3> SUFFICES ASSUME NEW s \in UpTo(n - 1) PROVE Cardinality(s) <= n
      OBVIOUS
    <3>1. Cardinality(s) \in Nat /\ Cardinality(s) <= n - 1
      BY PickFacts
    <3> QED BY <3>1
  <2> HIDE DEF UpTo
  <2>5. g \in [UpTo(n) -> Nat]
    BY <2>3
  <2>6. \A s \in UpTo(n - 1) : g[s] = f[s]
    BY <2>1, <2>4
  <2>7. \A s \in UpTo(n) : g[s] = Step(dist, f, s)
    OBVIOUS
  <2> HIDE DEF g
  <2>8. ASSUME NEW s \in UpTo(n) PROVE Step(dist, g, s) = Step(dist, f, s)
    BY <2>2, <2>6 DEF Step
  <2> QED BY <2>5, <2>7, <2>8
<1>3. \A n \in Nat : Defined(n)
  <2> DEFINE Bad == {n \in Nat : ~Defined(n)}
  <2> SUFFICES ASSUME Bad # {} PROVE FALSE
    OBVIOUS
  <2>1. PICK n \in Bad : \A m \in Bad : n <= m
    BY LeastExists
  <2> HIDE DEF Defined
  <2>2. n \in Nat \ {0} /\ ~Defined(n)
    BY <1>1
  <2>3. n - 1 \in Nat /\ ~(n <= n - 1)
    BY <2>2
  <2>4. Defined(n - 1)
    BY <2>1, <2>3
  <2> QED BY <1>2, <2>2, <2>4
<1>4. Cardinality(S) \in Nat /\ UpTo(Cardinality(S)) = SUBSET S
  <2>1. IsFiniteSet(S) /\ Cardinality(S) \in Nat
    BY PickFacts
  <2>2. \A s \in SUBSET S : Cardinality(s) <= Cardinality(S)
    BY <2>1, FS_Subset
  <2> QED BY <2>1, <2>2
<1> HIDE DEF UpTo
<1>5. Defined(Cardinality(S))
  BY <1>3, <1>4
<1> QED BY <1>4, <1>5

(* A sum over a set of versions is one of these.                             *)
LEMMA SumUnfolds ==
  ASSUME NEW dist \in [Versions -> Nat], NEW S \in SUBSET Versions
  PROVE  \E f \in [SUBSET S -> Nat] :
           /\ \A s \in SUBSET S : f[s] = Step(dist, f, s)
           /\ Sum(dist, S) = f[S]
<1>1. PICK f \in [SUBSET S -> Nat] : \A s \in SUBSET S : f[s] = Step(dist, f, s)
  BY SumsExist
<1> DEFINE iter == CHOOSE g : g = [s \in SUBSET S |-> Step(dist, g, s)]
<1>2. Sum(dist, S) = iter[S]
  BY DEF Sum, MapThenSumSet, MapThenFoldSet, Step, Pick
<1>3. iter = [s \in SUBSET S |-> Step(dist, iter, s)]
  <2>1. f = [s \in SUBSET S |-> Step(dist, f, s)]
    BY <1>1
  <2> QED BY <2>1
<1> HIDE DEF iter
<1>4. \A s \in SUBSET S : iter[s] = Step(dist, iter, s)
  BY <1>3
<1> DEFINE Bad == {n \in Nat : \E s \in SUBSET S : Cardinality(s) = n
                                                   /\ iter[s] # f[s]}
<1>5. ASSUME NEW n \in Bad, \A m \in Bad : n <= m PROVE FALSE
  <2>1. PICK s \in SUBSET S : Cardinality(s) = n /\ iter[s] # f[s]
    BY <1>5
  <2>2. s # {}
    BY <1>1, <1>4, <2>1 DEF Step
  <2>3. /\ n \in Nat \ {0} /\ s \ {Pick(s)} \in SUBSET S
        /\ Cardinality(s \ {Pick(s)}) = n - 1
    BY <2>1, <2>2, PickFacts
  <2>4. n - 1 \in Nat /\ ~(n <= n - 1)
    BY <2>3
  <2>5. iter[s \ {Pick(s)}] = f[s \ {Pick(s)}]
    BY <1>5, <2>3, <2>4
  <2> QED BY <1>1, <1>4, <2>1, <2>5 DEF Step
<1>6. Bad = {}
  <2>1. Bad \in SUBSET Nat
    OBVIOUS
  <2> HIDE DEF Bad
  <2> QED BY <1>5, <2>1, LeastExists
<1>7. iter[S] = f[S]
  <2>1. Cardinality(S) \in Nat /\ S \in SUBSET S
    BY PickFacts
  <2> QED BY <1>6, <2>1
<1> QED BY <1>1, <1>2, <1>7

(* A sum is a number; it is 0 only if every part of it is.                   *)
LEMMA SumFacts ==
  ASSUME NEW dist \in [Versions -> Nat], NEW S \in SUBSET Versions
  PROVE  /\ Sum(dist, S) \in Nat
         /\ S = {} => Sum(dist, S) = 0
         /\ Sum(dist, S) = 0 => \A v \in S : dist[v] = 0
<1>1. PICK f \in [SUBSET S -> Nat] :
        (\A s \in SUBSET S : f[s] = Step(dist, f, s)) /\ Sum(dist, S) = f[S]
  BY SumUnfolds
<1>2. Sum(dist, S) \in Nat /\ (S = {} => Sum(dist, S) = 0)
  BY <1>1 DEF Step
<1> DEFINE Bad == {n \in Nat : \E s \in SUBSET S : /\ Cardinality(s) = n /\ f[s] = 0
                                                   /\ \E v \in s : dist[v] # 0}
<1>3. ASSUME NEW n \in Bad, \A m \in Bad : n <= m PROVE FALSE
  <2>1. PICK s \in SUBSET S : /\ Cardinality(s) = n /\ f[s] = 0
                              /\ \E v \in s : dist[v] # 0
    BY <1>3
  <2>2. PICK v \in s : dist[v] # 0
    BY <2>1
  <2>3. PICK rest \in SUBSET S : rest = s \ {Pick(s)}
    OBVIOUS
  <2>4. /\ n \in Nat \ {0} /\ Cardinality(rest) = n - 1
        /\ Pick(s) \in s /\ dist[Pick(s)] \in Nat /\ f[rest] \in Nat
    BY <2>1, <2>2, <2>3, PickFacts
  <2>5. 0 = dist[Pick(s)] + f[rest]
    BY <1>1, <2>1, <2>2, <2>3 DEF Step
  <2>6. dist[Pick(s)] = 0 /\ f[rest] = 0
    BY <2>4, <2>5
  <2>7. v \in rest
    BY <2>2, <2>3, <2>6
  <2>8. n - 1 \in Nat /\ ~(n <= n - 1)
    BY <2>4
  <2>9. n - 1 \in Bad
    BY <2>2, <2>4, <2>6, <2>7, <2>8
  <2> QED BY <1>3, <2>8, <2>9
<1>4. Bad = {}
  <2>1. Bad \in SUBSET Nat
    OBVIOUS
  <2> HIDE DEF Bad
  <2> QED BY <1>3, <2>1, LeastExists
<1>5. Sum(dist, S) = 0 => \A v \in S : dist[v] = 0
  <2>1. Cardinality(S) \in Nat /\ S \in SUBSET S
    BY PickFacts
  <2> QED BY <1>1, <1>4, <2>1
<1> QED BY <1>2, <1>5

(* Whatever the order, the version picked has a share, if any version has.   *)
LEMMA PickedShare ==
  ASSUME NEW dist \in [Versions -> Nat], NEW idx \in Nat,
         NEW v \in PickVersion(dist, idx)
  PROVE  v \in Versions /\ (dist[v] > 0 \/ \A w \in Versions : dist[w] = 0)
<1>1. v \in Versions
  BY PickedVersions
<1>2. CASE Sum(dist, Versions) = 0
  BY <1>1, <1>2, SumFacts
<1>3. CASE Sum(dist, Versions) # 0
  <2> DEFINE bucket == Bucket(idx, Sum(dist, Versions))
  <2>1. PICK before \in SUBSET (Versions \ {v}) :
          /\ before = {} \/ ~(bucket <= Sum(dist, before))
          /\ bucket <= Sum(dist, before) + dist[v]
    BY <1>3 DEF PickVersion, Sum
  <2>2. PICK total \in Nat \ {0} : total = Sum(dist, Versions)
    BY <1>3, SumFacts
  <2>3. bucket \in Nat \ {0}
    <3>1. idx % total \in Nat
      BY <2>2
    <3> QED BY <2>2, <3>1 DEF Bucket
  <2> HIDE DEF bucket
  <2>4. Sum(dist, before) \in Nat /\ (before = {} => Sum(dist, before) = 0)
    BY SumFacts
  <2>5. dist[v] # 0
    BY <2>1, <2>3, <2>4
  <2> QED BY <1>1, <2>5
<1> QED BY <1>2, <1>3

(* No job gives a charger a version of which none was asked for.             *)
THEOREM RegistryVersionShares == Spec => VersionShares
<1>1. ASSUME TypeOK, NEW j \in Jobs, NEW c \in ChargerIds, AddNext(j),
             registry'[c] # registry[c]
      PROVE  \/ adder[j].shares[registry'[c].version] > 0
             \/ \A v \in Versions : adder[j].shares[v] = 0
  <2>1. adder[j].at # "end"
    BY <1>1 DEF AddNext
  <2>2. /\ adder[j].shares \in [Versions -> Nat] /\ adder[j].i \in Nat
        /\ adder[j].ids[adder[j].i] \in ChargerIds
    <3>1. adder[j].shares \in Distributions
      BY <1>1, <2>1, AdderFacts
    <3> QED BY <1>1, <2>1, <3>1, AdderFacts, RegistryAssumption
  <2>3. PICK id \in ChargerIds : id = adder[j].ids[adder[j].i]
    BY <2>2
  <2>4. PICK version \in PickVersion(adder[j].shares, adder[j].i) :
          AddCharger(id, version)
    BY <1>1, <2>3 DEF AddNext
  <2>5. /\ version \in Versions
        /\ \/ adder[j].shares[version] > 0
           \/ \A v \in Versions : adder[j].shares[v] = 0
    BY <2>2, PickedShare
  <2>6. registry' = [registry EXCEPT ![id] = [version |-> version,
                                              state |-> "DISCONNECTED"]]
    BY <2>4 DEF AddCharger, Store
  <2>7. registry'[c].version = version
    BY <1>1, <2>6 DEF TypeOK
  <2> QED BY <2>5, <2>7
<1>2. TypeOK /\ [Next]_vars =>
        [\A j \in Jobs, c \in ChargerIds :
           AddNext(j) /\ registry'[c] # registry[c] =>
             \/ adder[j].shares[registry'[c].version] > 0
             \/ \A v \in Versions : adder[j].shares[v] = 0]_vars
  BY <1>1
<1> QED BY <1>2, RegistryTypeOK, PTL DEF Spec, VersionShares
=============================================================================
