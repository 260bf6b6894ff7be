-------------------------- MODULE DashboardProofs --------------------------
(***************************************************************************)
(* When the cached summary may be wrong, for any deals, organizations,      *)
(* branches, scopes, threads and times.                                     *)
(***************************************************************************)
EXTENDS Dashboard, FiniteSetTheorems, TLAPS

-----------------------------------------------------------------------------
(* Summaries *)

\* A summary of one organization does not depend on the deals of another.
LEMMA SameCounts ==
  ASSUME NEW scope, \A d \in Deals : OrgOf[d] = scope[1] => row'[d] = row[d]
  PROVE  DealCounts(scope)' = DealCounts(scope) /\ TaskCounts(scope)' = TaskCounts(scope)
<1>1. Rows(scope)' = Rows(scope)
  BY DEF Rows
<1>2. \A d \in Rows(scope) : row'[d] = row[d]
  BY DEF Rows
<1>3. \A s : WithStatus(scope, s)' = WithStatus(scope, s)
  <2> SUFFICES ASSUME NEW s PROVE WithStatus(scope, s)' = WithStatus(scope, s)
    OBVIOUS
  <2>1. {d \in Rows(scope) : row'[d].status = s} = {d \in Rows(scope) : row[d].status = s}
    BY <1>2
  <2> QED BY <1>1, <2>1 DEF WithStatus
<1>4. \A r : WithTask(scope, r)' = WithTask(scope, r)
  <2> SUFFICES ASSUME NEW r PROVE WithTask(scope, r)' = WithTask(scope, r)
    OBVIOUS
  <2>1. {d \in Rows(scope) : r \in row'[d].tasks} = {d \in Rows(scope) : r \in row[d].tasks}
    BY <1>2
  <2> QED BY <1>1, <2>1 DEF WithTask
<1> QED BY <1>1, <1>3, <1>4 DEF DealCounts, TaskCounts

\* What an entry and a computation look like.
Entry(deals, tasks, age) == [deals |-> deals, tasks |-> tasks, age |-> age]

IsEntry(e) ==
  e \in {None, Expired} \/ \E deals, tasks, age : age \in Nat /\ e = Entry(deals, tasks, age)

Popping(org, keys) == [at |-> "pop", org |-> org, keys |-> keys]

CacheInv ==
  /\ DOMAIN row = Deals /\ DOMAIN cache = Keys /\ DOMAIN fill = Threads
  /\ \A k \in Keys : IsEntry(cache[k])
  /\ \A t \in Threads : fill[t].at # "idle" => fill[t].scope \in Scopes
  /\ \/ evict = NotEvicting
     \/ evict.at = "list"
     \/ \E org : \E keys \in SUBSET Keys : evict = Popping(org, keys)

\* A computation that nothing passed by has counted what is there.
FillRight(t) ==
  t \notin passed =>
    /\ fill[t].at \in {"tasks", "set"} => fill[t].deals = DealCounts(fill[t].scope)
    /\ fill[t].at = "set" => fill[t].tasks = TaskCounts(fill[t].scope)

EntryRight(k) ==
  Live(cache[k]) /\ ~ BeingEvicted(k) /\ k \notin passed =>
    cache[k].deals = DealCounts(k) /\ cache[k].tasks = TaskCounts(k)

RightInv == (\A t \in Threads : FillRight(t)) /\ (\A k \in Keys : EntryRight(k))

\* Time makes no entry live that was not, and changes none that stays so.
LEMMA Ageing ==
  ASSUME NEW e, IsEntry(e), Live(Older(e))
  PROVE  Live(e) /\ Older(e).deals = e.deals /\ Older(e).tasks = e.tasks
<1>1. TTL \in Nat
  BY TimesAssumption
<1>2. e # None /\ e # Expired
  BY <1>1 DEF Live, Older, Expired
<1>3. PICK deals, tasks, age : age \in Nat /\ e = [deals |-> deals, tasks |-> tasks, age |-> age]
  BY <1>2 DEF IsEntry, Entry
<1>4. Older(e) # Expired
  BY <1>1 DEF Live, Expired
<1>5. e.age + 1 < TTL /\ Older(e) = [e EXCEPT !.age = @ + 1]
  BY <1>2, <1>4 DEF Older
<1> QED BY <1>1, <1>2, <1>3, <1>5 DEF Live

LEMMA AgedEntry ==
  ASSUME NEW e, IsEntry(e)
  PROVE  IsEntry(Older(e))
<1>1. CASE e \in {None, Expired}
  BY <1>1 DEF Older, IsEntry
<1>2. ASSUME NEW deals, NEW tasks, NEW age \in Nat, e = Entry(deals, tasks, age),
             e \notin {None, Expired}
      PROVE  IsEntry(Older(e))
  <2>1. Older(e) = Expired \/ Older(e) = Entry(deals, tasks, age + 1)
    BY <1>2 DEF Older, Entry
  <2> QED BY <2>1 DEF IsEntry
<1> QED BY <1>1, <1>2 DEF IsEntry

-----------------------------------------------------------------------------
(* Steps *)

LEMMA KeysAreScopes == Keys = Scopes
BY DEF Keys, _cache_key

LEMMA AtFirst == Init => CacheInv /\ RightInv
<1> SUFFICES ASSUME Init PROVE CacheInv /\ RightInv
  OBVIOUS
<1>1. DOMAIN row = Deals
  BY RowsAssumption DEF Init
<1>2. CacheInv
  BY <1>1 DEF Init, CacheInv, IsEntry, Idle
<1>3. RightInv
  BY DEF Init, RightInv, FillRight, EntryRight, Live, Idle
<1> QED BY <1>2, <1>3

\* A change to the deals of an organization leaves right what it has not
\* passed by and what is not yet to be evicted.
LEMMA RowsChange ==
  ASSUME CacheInv, RightInv, NEW org,
         \A d \in Deals : OrgOf[d] # org => row'[d] = row[d],
         UNCHANGED <<cache, fill>>,
         passed \cup Computing(org) \subseteq passed',
         \A k \in Keys : Live(cache[k]) /\ ~ BeingEvicted(k)' /\ k \notin passed' =>
                          k[1] # org /\ ~ BeingEvicted(k)
  PROVE  RightInv'
<1>1. \A t \in Threads : FillRight(t)'
  <2> SUFFICES ASSUME NEW t \in Threads, t \notin passed' PROVE FillRight(t)'
    BY DEF FillRight
  <2>1. FillRight(t) /\ t \notin passed /\ t \notin Computing(org)
    BY DEF RightInv
  <2>2. CASE fill[t].at \in {"tasks", "set"}
    <3>1. fill[t].scope[1] # org
      BY <2>1, <2>2 DEF Computing
    <3>2. PICK s : s = fill[t].scope
      OBVIOUS
    <3>3. DealCounts(s)' = DealCounts(s) /\ TaskCounts(s)' = TaskCounts(s)
      BY <3>1, <3>2, SameCounts
    <3>4. fill' = fill
      OBVIOUS
    <3> QED BY <2>1, <2>2, <3>2, <3>3, <3>4 DEF FillRight
  <2>3. CASE fill[t].at \notin {"tasks", "set"}
    BY <2>3 DEF FillRight
  <2> QED BY <2>2, <2>3
<1>2. \A k \in Keys : EntryRight(k)'
  <2> SUFFICES ASSUME NEW k \in Keys,
                      Live(cache[k]), ~ BeingEvicted(k)', k \notin passed'
               PROVE  cache[k].deals = DealCounts(k)' /\ cache[k].tasks = TaskCounts(k)'
    BY DEF EntryRight
  <2>1. k[1] # org /\ ~ BeingEvicted(k) /\ k \notin passed
    OBVIOUS
  <2>2. DealCounts(k)' = DealCounts(k) /\ TaskCounts(k)' = TaskCounts(k)
    BY <2>1, SameCounts
  <2>3. EntryRight(k)
    BY DEF RightInv
  <2> QED BY <2>1, <2>2, <2>3 DEF EntryRight
<1> QED BY <1>1, <1>2 DEF RightInv

\* A commit of the event loop.
LEMMA Commits ==
  ASSUME CacheInv, RightInv, NEW d \in Deals, NEW new, CommitAndEvict(d, new)
  PROVE  CacheInv' /\ RightInv'
<1>1. UNCHANGED <<cache, fill>> /\ passed' = passed \cup Computing(OrgOf[d])
  BY DEF CommitAndEvict, Change
<1>2. row' = [row EXCEPT ![d] = new] /\ evict = NotEvicting
      /\ evict' = [at |-> "list", org |-> OrgOf[d], size |-> Size]
  BY DEF CommitAndEvict, Change
<1>3. \A e \in Deals : OrgOf[e] # OrgOf[d] => row'[e] = row[e]
  BY <1>2 DEF CacheInv
<1>4. \A k \in Keys : ~ BeingEvicted(k)' => k[1] # OrgOf[d] /\ ~ BeingEvicted(k)
  BY <1>2 DEF BeingEvicted, NotEvicting
<1>5. RightInv'
  BY <1>1, <1>3, <1>4, RowsChange
<1>6. CacheInv'
  BY <1>1, <1>2 DEF CacheInv, IsEntry
<1> QED BY <1>5, <1>6

\* A restoration, which evicts nothing.
LEMMA PassesBy ==
  ASSUME CacheInv, RightInv, NEW d \in Deals, restore_deal(d)
  PROVE  CacheInv' /\ RightInv'
<1> DEFINE org == OrgOf[d]
<1>1. UNCHANGED <<cache, fill, evict>> /\ passed' = passed \cup Computing(org) \cup LiveOf(org)
  BY DEF restore_deal, Change, PassBy
<1>2. row' = [row EXCEPT ![d].is_deleted = FALSE]
  BY DEF restore_deal, Change
<1>3. \A e \in Deals : OrgOf[e] # org => row'[e] = row[e]
  BY <1>2 DEF CacheInv
<1>4. \A k \in Keys : BeingEvicted(k)' = BeingEvicted(k)
  BY <1>1 DEF BeingEvicted
<1>5. \A k \in Keys : Live(cache[k]) /\ k \notin passed' => k[1] # org
  BY <1>1 DEF LiveOf
<1>6. RightInv'
  BY <1>1, <1>3, <1>4, <1>5, RowsChange
<1>7. CacheInv'
  BY <1>1, <1>2 DEF CacheInv, IsEntry
<1> QED BY <1>6, <1>7

\* Nothing else changes a deal, so no summary changes meanwhile.
LEMMA StillCounts ==
  ASSUME UNCHANGED row
  PROVE  \A s : DealCounts(s)' = DealCounts(s) /\ TaskCounts(s)' = TaskCounts(s)
BY SameCounts

LEMMA Computes ==
  ASSUME CacheInv, RightInv, NEW t \in Threads,
         Compute(t) \/ \E s \in Scopes : Miss(t, s)
  PROVE  CacheInv' /\ RightInv'
<1>1. UNCHANGED <<row, evict>>
  BY DEF Compute, Miss, CountDeals, CountTasks, _cache_set
<1>2. \A c : DealCounts(c)' = DealCounts(c) /\ TaskCounts(c)' = TaskCounts(c)
  BY <1>1, StillCounts
<1>3. \A k \in Keys : BeingEvicted(k)' = BeingEvicted(k)
  BY <1>1 DEF BeingEvicted
<1>4. Threads \cap Keys = {}
  BY KeysAreScopes, NoneAssumption
<1>5. ASSUME NEW u \in Threads, fill'[u] = fill[u], u \in passed => u \in passed'
      PROVE  FillRight(u)'
  <2>1. PICK c : c = fill[u].scope
    OBVIOUS
  <2>2. DealCounts(c)' = DealCounts(c) /\ TaskCounts(c)' = TaskCounts(c)
    BY <1>2
  <2> QED BY <1>5, <2>1, <2>2 DEF RightInv, FillRight
<1>6. ASSUME NEW s \in Scopes, Miss(t, s) PROVE CacheInv' /\ RightInv'
  <2>1. UNCHANGED <<cache, passed>> /\ fill' = [fill EXCEPT ![t] = [at |-> "deals", scope |-> s]]
    BY <1>6 DEF Miss, Fill
  <2>2. CacheInv'
    BY <1>1, <2>1 DEF CacheInv, IsEntry
  <2>3. FillRight(t)'
    BY <2>1 DEF CacheInv, FillRight
  <2>4. \A u \in Threads : FillRight(u)'
    BY <1>5, <2>1, <2>3 DEF CacheInv
  <2>5. \A k \in Keys : EntryRight(k)'
    BY <1>2, <1>3, <2>1 DEF RightInv, EntryRight
  <2> QED BY <2>2, <2>4, <2>5 DEF RightInv
<1>7. CASE CountDeals(t)
  <2>1. /\ fill[t].at = "deals" /\ UNCHANGED cache /\ passed' = passed \ {t}
        /\ fill' = [fill EXCEPT ![t] = [at |-> "tasks", scope |-> fill[t].scope,
                                       deals |-> DealCounts(fill[t].scope)]]
    BY <1>7 DEF CountDeals, Fill
  <2>2. CacheInv'
    BY <1>1, <2>1 DEF CacheInv, IsEntry
  <2>3. FillRight(t)'
    <3>1. PICK c : c = fill[t].scope
      OBVIOUS
    <3>2. fill'[t] = [at |-> "tasks", scope |-> c, deals |-> DealCounts(c)]
      BY <2>1, <3>1 DEF CacheInv
    <3> QED BY <1>2, <3>2 DEF FillRight
  <2>4. \A u \in Threads : FillRight(u)'
    BY <1>5, <2>1, <2>3 DEF CacheInv
  <2>5. \A k \in Keys : EntryRight(k)'
    BY <1>2, <1>3, <1>4, <2>1 DEF RightInv, EntryRight
  <2> QED BY <2>2, <2>4, <2>5 DEF RightInv
<1>8. CASE CountTasks(t)
  <2>1. /\ fill[t].at = "tasks" /\ UNCHANGED <<cache, passed>>
        /\ fill' = [fill EXCEPT ![t] = [at |-> "set", scope |-> fill[t].scope,
                     deals |-> fill[t].deals, tasks |-> TaskCounts(fill[t].scope)]]
    BY <1>8 DEF CountTasks, Fill
  <2>2. CacheInv'
    BY <1>1, <2>1 DEF CacheInv, IsEntry
  <2>3. FillRight(t)'
    <3>1. PICK c : c = fill[t].scope
      OBVIOUS
    <3>2. fill'[t] = [at |-> "set", scope |-> c, deals |-> fill[t].deals, tasks |-> TaskCounts(c)]
      BY <2>1, <3>1 DEF CacheInv
    <3>3. t \notin passed => fill[t].deals = DealCounts(c)
      BY <2>1, <3>1 DEF RightInv, FillRight
    <3> QED BY <1>2, <2>1, <3>2, <3>3 DEF FillRight
  <2>4. \A u \in Threads : FillRight(u)'
    BY <1>5, <2>1, <2>3 DEF CacheInv
  <2>5. \A k \in Keys : EntryRight(k)'
    BY <1>2, <1>3, <2>1 DEF RightInv, EntryRight
  <2> QED BY <2>2, <2>4, <2>5 DEF RightInv
<1>9. CASE _cache_set(t)
  <2>1. fill[t].at = "set" /\ fill[t].scope \in Keys
    BY <1>9, KeysAreScopes DEF _cache_set, CacheInv
  <2>2. PICK c \in Keys : c = fill[t].scope
    BY <2>1
  <2>3. /\ cache' = [cache EXCEPT ![c] = Entry(fill[t].deals, fill[t].tasks, 0)]
        /\ passed' = (IF t \in passed THEN passed \cup {c} ELSE passed \ {c}) \ {t}
        /\ fill' = [fill EXCEPT ![t] = Idle]
    BY <1>9, <2>2 DEF _cache_set, _cache_key, Fill, Entry
  <2>4. CacheInv'
    <3>1. \A k \in Keys : IsEntry(cache'[k])
      BY <2>3 DEF CacheInv, IsEntry
    <3> QED BY <1>1, <2>3, <3>1 DEF CacheInv, Idle, IsEntry
  <2>5. FillRight(t)'
    BY <2>3 DEF CacheInv, FillRight, Idle
  <2>6. \A u \in Threads : FillRight(u)'
    BY <1>4, <1>5, <2>3, <2>5 DEF CacheInv
  <2>7. EntryRight(c)'
    <3>1. cache'[c].deals = fill[t].deals /\ cache'[c].tasks = fill[t].tasks
      BY <2>3 DEF CacheInv, Entry
    <3>2. c \notin passed' => t \notin passed
      BY <1>4, <2>3
    <3>3. t \notin passed => fill[t].deals = DealCounts(c) /\ fill[t].tasks = TaskCounts(c)
      BY <2>1, <2>2 DEF RightInv, FillRight
    <3> QED BY <1>2, <3>1, <3>2, <3>3 DEF EntryRight
  <2>8. ASSUME NEW k \in Keys \ {c} PROVE EntryRight(k)'
    <3>1. cache'[k] = cache[k] /\ (k \notin passed' => k \notin passed)
      BY <1>4, <2>3 DEF CacheInv
    <3> QED BY <1>2, <1>3, <3>1 DEF RightInv, EntryRight
  <2> QED BY <2>4, <2>6, <2>7, <2>8 DEF RightInv
<1> QED BY <1>6, <1>7, <1>8, <1>9 DEF Compute

\* The eviction of keys, and the passing of time.
LEMMA EvictsOrAges ==
  ASSUME CacheInv, RightInv, Evict \/ Tick
  PROVE  CacheInv' /\ RightInv'
<1>1. UNCHANGED <<row, fill>>
  BY DEF Evict, ListKeys, ListFails, Pop, Evicted, Tick
<1>2. \A c : DealCounts(c)' = DealCounts(c) /\ TaskCounts(c)' = TaskCounts(c)
  BY <1>1, StillCounts
<1>3. Threads \cap Keys = {}
  BY KeysAreScopes, NoneAssumption
<1>4. \A t \in Threads : t \in passed => t \in passed'
  <2>1. Pop => \E k \in Keys : passed' = passed \ {k}
    BY DEF Pop, CacheInv, NotEvicting, Popping
  <2> QED BY <1>3, <2>1 DEF Evict, ListKeys, ListFails, Evicted, Tick
<1>5. \A t \in Threads : FillRight(t)'
  <2> SUFFICES ASSUME NEW t \in Threads PROVE FillRight(t)'
    OBVIOUS
  <2>1. PICK c : c = fill[t].scope
    OBVIOUS
  <2>2. DealCounts(c)' = DealCounts(c) /\ TaskCounts(c)' = TaskCounts(c)
    BY <1>2
  <2> QED BY <1>1, <1>4, <2>1, <2>2 DEF RightInv, FillRight
<1>6. CASE ListKeys
  <2>1. evict.at = "list" /\ UNCHANGED <<cache, passed>>
        /\ evict' = Popping(evict.org, EntriesOf(evict.org))
    BY <1>6 DEF ListKeys, KeysToEvict, Popping
  <2>2. CacheInv'
    BY <1>1, <2>1 DEF CacheInv, IsEntry, EntriesOf
  <2>3. ASSUME NEW k \in Keys, Live(cache[k]), ~ BeingEvicted(k)' PROVE ~ BeingEvicted(k)
    BY <2>1, <2>3 DEF BeingEvicted, Popping, EntriesOf, Live
  <2>4. \A k \in Keys : EntryRight(k)'
    BY <1>2, <2>1, <2>3 DEF RightInv, EntryRight
  <2> QED BY <1>5, <2>2, <2>4 DEF RightInv
<1>7. CASE ListFails
  <2>1. evict.at = "list" /\ UNCHANGED cache /\ evict' = NotEvicting
        /\ passed' = passed \cup LiveOf(evict.org)
    BY <1>7 DEF ListFails
  <2>2. CacheInv'
    BY <1>1, <2>1 DEF CacheInv, IsEntry
  <2>3. ASSUME NEW k \in Keys, Live(cache[k]), k \notin passed' PROVE ~ BeingEvicted(k)
    BY <2>1, <2>3 DEF BeingEvicted, LiveOf
  <2>4. \A k \in Keys : EntryRight(k)'
    BY <1>2, <2>1, <2>3 DEF RightInv, EntryRight
  <2> QED BY <1>5, <2>2, <2>4 DEF RightInv
<1>8. CASE Pop
  <2>1. PICK org : \E ks \in SUBSET Keys : evict = Popping(org, ks)
    BY <1>8 DEF Pop, CacheInv, NotEvicting
  <2> PICK keys \in SUBSET Keys : evict = Popping(org, keys)
    BY <2>1
  <2>2. PICK c \in keys : /\ cache' = [cache EXCEPT ![c] = None]
                          /\ evict' = Popping(org, keys \ {c})
                          /\ passed' = passed \ {c}
    BY <1>8 DEF Pop, Popping
  <2>3. CacheInv'
    BY <1>1, <2>2 DEF CacheInv, IsEntry
  <2>4. ~ Live(cache'[c])
    BY <2>2 DEF CacheInv, Live
  <2>5. ASSUME NEW k \in Keys \ {c} PROVE EntryRight(k)'
    <3>1. cache'[k] = cache[k] /\ (k \notin passed' => k \notin passed)
      BY <2>2 DEF CacheInv
    <3>2. BeingEvicted(k)' = BeingEvicted(k)
      BY <2>2 DEF BeingEvicted, Popping
    <3> QED BY <1>2, <3>1, <3>2 DEF RightInv, EntryRight
  <2> QED BY <1>5, <2>3, <2>4, <2>5 DEF RightInv, EntryRight
<1>9. CASE Evicted
  <2>1. UNCHANGED <<cache, passed>> /\ evict' = NotEvicting /\ evict.at = "pop" /\ evict.keys = {}
    BY <1>9 DEF Evicted
  <2>2. CacheInv'
    BY <1>1, <2>1 DEF CacheInv, IsEntry
  <2>3. \A k : ~ BeingEvicted(k)
    BY <2>1 DEF BeingEvicted
  <2>4. \A k \in Keys : EntryRight(k)'
    BY <1>2, <2>1, <2>3 DEF RightInv, EntryRight
  <2> QED BY <1>5, <2>2, <2>4 DEF RightInv
<1>10. CASE Tick
  <2>1. /\ cache' = [k \in Keys |-> Older(cache[k])] /\ UNCHANGED evict
        /\ passed' = passed \ {k \in Keys : ~ Live(cache'[k])}
    BY <1>10 DEF Tick
  <2>2. CacheInv'
    <3>1. \A k \in Keys : IsEntry(cache'[k])
      BY <2>1, AgedEntry DEF CacheInv
    <3> QED BY <1>1, <2>1, <3>1 DEF CacheInv, IsEntry
  <2>3. ASSUME NEW k \in Keys, Live(cache'[k]), k \notin passed', ~ BeingEvicted(k)'
        PROVE  cache'[k].deals = DealCounts(k)' /\ cache'[k].tasks = TaskCounts(k)'
    <3>1. k \notin passed /\ ~ BeingEvicted(k)
      BY <2>1, <2>3 DEF BeingEvicted
    <3>2. cache'[k] = Older(cache[k]) /\ IsEntry(cache[k])
      BY <2>1 DEF CacheInv
    <3>3. Live(cache[k]) /\ cache'[k].deals = cache[k].deals /\ cache'[k].tasks = cache[k].tasks
      BY <2>3, <3>2, Ageing
    <3> QED BY <1>2, <3>1, <3>3 DEF RightInv, EntryRight
  <2> QED BY <1>5, <2>2, <2>3 DEF RightInv, EntryRight
<1> QED BY <1>6, <1>7, <1>8, <1>9, <1>10 DEF Evict

-----------------------------------------------------------------------------

LEMMA StepsKeepRight == CacheInv /\ RightInv /\ [Next]_vars => CacheInv' /\ RightInv'
<1> SUFFICES ASSUME CacheInv, RightInv, [Next]_vars
             PROVE  CacheInv' /\ RightInv'
  OBVIOUS
<1>1. ASSUME NEW t \in Threads, Compute(t) \/ \E s \in Scopes : Miss(t, s)
      PROVE  CacheInv' /\ RightInv'
  BY <1>1, Computes
<1>2. ASSUME NEW d \in Deals,
             \/ create_deal(d) \/ escalate(d) \/ approve_gm(d) \/ approve_director(d)
             \/ reject_deal(d) \/ soft_delete_deal(d)
      PROVE  CacheInv' /\ RightInv'
  <2>1. \E new : CommitAndEvict(d, new)
    BY <1>2 DEF create_deal, escalate, approve_gm, approve_director, reject_deal, soft_delete_deal
  <2> QED BY <2>1, Commits
<1>3. ASSUME NEW d \in Deals, restore_deal(d) PROVE CacheInv' /\ RightInv'
  BY <1>3, PassesBy
<1>4. CASE Evict \/ Tick
  BY <1>4, EvictsOrAges
<1>5. CASE UNCHANGED vars
  <2>1. UNCHANGED <<row, cache, fill, evict, passed>>
    BY <1>5 DEF vars
  <2>2. \A c : DealCounts(c)' = DealCounts(c) /\ TaskCounts(c)' = TaskCounts(c)
    BY <2>1, StillCounts
  <2>3. CacheInv'
    BY <2>1 DEF CacheInv, IsEntry
  <2>4. \A k \in Keys : EntryRight(k)'
    BY <2>1, <2>2 DEF RightInv, EntryRight, BeingEvicted
  <2>5. ASSUME NEW t \in Threads PROVE FillRight(t)'
    <3>1. PICK c : c = fill[t].scope
      OBVIOUS
    <3> QED BY <2>1, <2>2, <3>1 DEF RightInv, FillRight
  <2> QED BY <2>3, <2>4, <2>5 DEF RightInv
<1> QED BY <1>1, <1>2, <1>3, <1>4, <1>5 DEF Next

\* dashboard.py:50: in every reachable state, an entry that would be served and
\* that nothing passed by or is about to evict is the summary of the database
\* as it is: the commit of every handler that evicts, however the threads that
\* compute and store summaries run beside it, leaves no stale entry behind.
THEOREM ServedIsRight == Spec => []StaleExplained
<1>1. CacheInv /\ RightInv => StaleExplained
  BY KeysAreScopes DEF RightInv, EntryRight, StaleExplained, _cache_key
<1> QED BY <1>1, AtFirst, StepsKeepRight, PTL DEF Spec

-----------------------------------------------------------------------------
(* The types, and that a waiting deal is in one queue *)

\* What a row may be: a deal that waits has one pending task.
RowTyped(r) == r \in Row /\ (r.status = "PENDING" => \E role : r.tasks = {role})

Entries == {None, Expired} \cup [deals : DealCountsType, tasks : TaskCountsType, age : 0 .. TTL - 1]

TypeInv ==
  /\ row \in [Deals -> Row] /\ \A d \in Deals : RowTyped(row[d])
  /\ cache \in [Keys -> Entries]
  /\ \A t \in Threads :
       \/ fill[t] = Idle
       \/ fill[t].at \in {"deals", "tasks", "set"} /\ fill[t].scope \in Scopes
  /\ \A t \in Threads :
       /\ fill[t].at \in {"tasks", "set"} => fill[t].deals \in DealCountsType
       /\ fill[t].at = "set" => fill[t].tasks \in TaskCountsType
  /\ evict = NotEvicting \/ evict.org \in Orgs
  /\ changes \in 0 .. MaxChanges
  /\ passed \subseteq Keys \cup Threads

\* Summaries count subsets of the deals.
LEMMA CountsTyped ==
  \A scope : DealCounts(scope) \in DealCountsType /\ TaskCounts(scope) \in TaskCountsType
<1> TAKE scope
<1>1. \A ds \in SUBSET Deals : Cardinality(ds) \in Nat
  BY DealsAssumption, FS_Subset, FS_CardinalityType
<1>2. Rows(scope) \subseteq Deals
  BY DEF Rows
<1>3. \A s : WithStatus(scope, s) \in Nat
  BY <1>1, <1>2 DEF WithStatus
<1>4. \A r : WithTask(scope, r) \in Nat
  BY <1>1, <1>2 DEF WithTask
<1>5. Cardinality(Rows(scope)) \in Nat
  BY <1>1, <1>2
<1> QED BY <1>3, <1>4, <1>5 DEF DealCounts, TaskCounts, DealCountsType, TaskCountsType

LEMMA OlderTyped == \A e \in Entries : Older(e) \in Entries
<1> SUFFICES ASSUME NEW e \in Entries PROVE Older(e) \in Entries
  OBVIOUS
<1>1. CASE e \in {None, Expired}
  BY <1>1 DEF Older, Entries
<1>2. CASE e \in [deals : DealCountsType, tasks : TaskCountsType, age : 0 .. TTL - 1]
  <2>1. CASE e.age + 1 < TTL
    <3>1. e.age + 1 \in 0 .. TTL - 1
      BY <1>2, <2>1, TimesAssumption
    <3>2. [e EXCEPT !.age = @ + 1]
            \in [deals : DealCountsType, tasks : TaskCountsType, age : 0 .. TTL - 1]
      BY <1>2, <3>1
    <3> QED BY <3>2 DEF Older, Entries
  <2>2. CASE ~ (e.age + 1 < TTL)
    BY <2>2 DEF Older, Entries
  <2> QED BY <2>1, <2>2
<1> QED BY <1>1, <1>2 DEF Entries

LEMMA PassedTyped ==
  \A org : Computing(org) \subseteq Threads /\ LiveOf(org) \subseteq Keys
BY DEF Computing, LiveOf

LEMMA OrgsOfScopes == \A s \in Scopes : s[1] \in Orgs
BY DEF Orgs

\* Each handler gives its deal a row of the type: a waiting deal that is
\* escalated leaves the GM's queue for the director's.
LEMMA NewRow ==
  ASSUME TypeInv, NEW d \in Deals,
         \/ create_deal(d) \/ escalate(d) \/ approve_gm(d) \/ approve_director(d)
         \/ reject_deal(d) \/ soft_delete_deal(d)
  PROVE  \E new : RowTyped(new) /\ CommitAndEvict(d, new)
<1>1. RowTyped(row[d])
  BY DEF TypeInv
<1>2. CASE create_deal(d)
  <2>1. /\ RowTyped(Deal("APPROVED", {}, FALSE))
        /\ \A r \in Roles : RowTyped(Deal("PENDING", {r}, FALSE))
    BY DEF RowTyped, Deal, Row
  <2> QED BY <1>2, <2>1 DEF create_deal
<1>3. CASE escalate(d)
  <2>1. PICK role : row[d].tasks = {role}
    BY <1>1, <1>3 DEF RowTyped, escalate, Decidable
  <2>2. role \in Roles
    BY <1>1, <2>1 DEF RowTyped, Row
  <2>3. Escalated(row[d].tasks) = {"DIRECTOR"}
    BY <2>1, <2>2 DEF Escalated, Roles
  <2>4. RowTyped(Deal("PENDING", {"DIRECTOR"}, FALSE))
    BY DEF RowTyped, Deal, Row, Roles
  <2> QED BY <1>3, <2>3, <2>4 DEF escalate
<1>4. CASE approve_gm(d) \/ approve_director(d) \/ reject_deal(d)
  <2>1. row[d].tasks \subseteq Roles
    BY <1>1 DEF RowTyped, Row
  <2>2. \A ts \in SUBSET Roles, verdict \in {"APPROVED", "REJECTED"} :
          RowTyped(Deal(verdict, ts, FALSE))
    BY DEF RowTyped, Deal, Row
  <2>3. \E ts \in SUBSET Roles : \/ CommitAndEvict(d, Deal("APPROVED", ts, FALSE))
                                 \/ CommitAndEvict(d, Deal("REJECTED", ts, FALSE))
    BY <1>4, <2>1 DEF approve_gm, approve_director, reject_deal
  <2> QED BY <2>2, <2>3
<1>5. CASE soft_delete_deal(d)
  <2>1. RowTyped([row[d] EXCEPT !.is_deleted = TRUE])
    BY <1>1 DEF RowTyped, Row
  <2> QED BY <1>5, <2>1 DEF soft_delete_deal
<1> QED BY <1>2, <1>3, <1>4, <1>5

LEMMA CommitTyped ==
  ASSUME TypeInv, NEW d \in Deals, NEW new, RowTyped(new), CommitAndEvict(d, new)
  PROVE  TypeInv'
<1>1. row' = [row EXCEPT ![d] = new] /\ UNCHANGED <<cache, fill>>
      /\ evict' = [at |-> "list", org |-> OrgOf[d], size |-> Size]
      /\ passed' = passed \cup Computing(OrgOf[d]) /\ changes' = changes + 1 /\ changes < MaxChanges
  BY DEF CommitAndEvict, Change
<1>2. row' \in [Deals -> Row] /\ \A e \in Deals : RowTyped(row'[e])
  BY <1>1 DEF TypeInv, RowTyped
<1>3. evict'.org \in Orgs
  BY <1>1, DealsAssumption
<1>4. changes' \in 0 .. MaxChanges
  BY <1>1, TimesAssumption DEF TypeInv
<1> QED BY <1>1, <1>2, <1>3, <1>4, PassedTyped DEF TypeInv

LEMMA RestoreTyped ==
  ASSUME TypeInv, NEW d \in Deals, restore_deal(d)
  PROVE  TypeInv'
<1>1. /\ row' = [row EXCEPT ![d].is_deleted = FALSE] /\ UNCHANGED <<cache, fill, evict>>
      /\ passed' = passed \cup Computing(OrgOf[d]) \cup LiveOf(OrgOf[d])
      /\ changes' = changes + 1 /\ changes < MaxChanges
  BY DEF restore_deal, Change, PassBy
<1>2. \A e \in Deals : RowTyped([row[e] EXCEPT !.is_deleted = FALSE])
  BY DEF RowTyped, Row, TypeInv
<1>3. row' \in [Deals -> Row] /\ \A e \in Deals : RowTyped(row'[e])
  <2>1. \A e \in Deals : row'[e] = IF e = d THEN [row[e] EXCEPT !.is_deleted = FALSE] ELSE row[e]
    BY <1>1 DEF TypeInv
  <2>2. \A e \in Deals : RowTyped(row'[e])
    BY <1>2, <2>1 DEF TypeInv
  <2>3. DOMAIN row' = Deals /\ row' = [e \in Deals |-> row'[e]]
    BY <1>1 DEF TypeInv
  <2> QED BY <2>2, <2>3 DEF RowTyped
<1>4. changes' \in 0 .. MaxChanges
  BY <1>1, TimesAssumption DEF TypeInv
<1> QED BY <1>1, <1>3, <1>4, PassedTyped DEF TypeInv

LEMMA ComputeTyped ==
  ASSUME CacheInv, TypeInv, NEW t \in Threads, Compute(t) \/ \E s \in Scopes : Miss(t, s)
  PROVE  TypeInv'
<1>1. UNCHANGED <<row, evict, changes>>
  BY DEF Compute, Miss, CountDeals, CountTasks, _cache_set
<1>2. ASSUME NEW f, Fill(t, f), UNCHANGED cache, passed' \subseteq passed,
             f.at \in {"deals", "tasks", "set"}, f.scope \in Scopes,
             f.at \in {"tasks", "set"} => f.deals \in DealCountsType,
             f.at = "set" => f.tasks \in TaskCountsType
      PROVE  TypeInv'
  <2>1. fill' = [fill EXCEPT ![t] = f] /\ DOMAIN fill = Threads
    BY <1>2 DEF Fill, CacheInv
  <2>2. \A u \in Threads : fill'[u] = IF u = t THEN f ELSE fill[u]
    BY <2>1
  <2> QED BY <1>1, <1>2, <2>2 DEF TypeInv
<1>3. ASSUME NEW s \in Scopes, Miss(t, s) PROVE TypeInv'
  <2>1. PICK f : f = [at |-> "deals", scope |-> s]
    OBVIOUS
  <2> QED BY <1>2, <1>3, <2>1 DEF Miss
<1>4. CASE CountDeals(t)
  <2>1. PICK f : f = [at |-> "tasks", scope |-> fill[t].scope, deals |-> DealCounts(fill[t].scope)]
    OBVIOUS
  <2>2. fill[t].scope \in Scopes
    BY <1>4 DEF CountDeals, TypeInv, Idle
  <2> QED BY <1>2, <1>4, <2>1, <2>2, CountsTyped DEF CountDeals
<1>5. CASE CountTasks(t)
  <2>1. PICK f : f = [at |-> "set", scope |-> fill[t].scope, deals |-> fill[t].deals,
                      tasks |-> TaskCounts(fill[t].scope)]
    OBVIOUS
  <2>2. fill[t].scope \in Scopes /\ fill[t].deals \in DealCountsType
    BY <1>5 DEF CountTasks, TypeInv, Idle
  <2> QED BY <1>2, <1>5, <2>1, <2>2, CountsTyped DEF CountTasks
<1>6. CASE _cache_set(t)
  <2>1. /\ fill[t].scope \in Keys /\ fill[t].deals \in DealCountsType
        /\ fill[t].tasks \in TaskCountsType
    BY <1>6, KeysAreScopes DEF _cache_set, TypeInv, Idle
  <2>2. [deals |-> fill[t].deals, tasks |-> fill[t].tasks, age |-> 0] \in Entries
    BY <2>1, TimesAssumption DEF Entries
  <2>3. cache' \in [Keys -> Entries] /\ passed' \subseteq Keys \cup Threads
    BY <1>6, <2>1, <2>2 DEF _cache_set, _cache_key, TypeInv
  <2>4. \A u \in Threads : fill'[u] = Idle \/ fill'[u] = fill[u]
    BY <1>6 DEF _cache_set, Fill, CacheInv
  <2>5. Idle.at \notin {"tasks", "set"}
    BY DEF Idle
  <2> QED BY <1>1, <2>3, <2>4, <2>5 DEF TypeInv
<1> QED BY <1>3, <1>4, <1>5, <1>6 DEF Compute

LEMMA EvictTyped ==
  ASSUME CacheInv, TypeInv, Evict \/ Tick
  PROVE  TypeInv'
<1>1. UNCHANGED <<row, fill, changes>>
  BY DEF Evict, ListKeys, ListFails, Pop, Evicted, Tick
<1>2. cache' \in [Keys -> Entries]
  <2>1. CASE Pop
    <3>1. \E k : cache' = [cache EXCEPT ![k] = None]
      BY <2>1 DEF Pop
    <3>2. None \in Entries
      BY DEF Entries
    <3> QED BY <3>1, <3>2 DEF TypeInv
  <2>2. CASE Tick
    BY <2>2, OlderTyped DEF Tick, TypeInv
  <2>3. Evict => Pop \/ UNCHANGED cache
    BY DEF Evict, ListKeys, ListFails, Evicted
  <2> QED BY <2>1, <2>2, <2>3 DEF TypeInv
<1>3. passed' \subseteq Keys \cup Threads
  BY PassedTyped DEF TypeInv, Evict, ListKeys, ListFails, Pop, Evicted, Tick
<1>4. evict' = NotEvicting \/ evict'.org \in Orgs
  <2>1. CASE ListKeys
    BY <2>1 DEF ListKeys, TypeInv, NotEvicting
  <2>2. CASE Pop
    <3>1. \E org : \E ks \in SUBSET Keys : evict = Popping(org, ks)
      BY <2>2 DEF Pop, CacheInv, NotEvicting
    <3>2. evict'.org = evict.org
      BY <2>2, <3>1 DEF Pop, Popping
    <3>3. evict.org \in Orgs
      BY <2>2 DEF Pop, TypeInv, NotEvicting
    <3> QED BY <3>2, <3>3
  <2>3. CASE ListFails \/ Evicted \/ Tick
    BY <2>3 DEF ListFails, Evicted, Tick, TypeInv
  <2> QED BY <2>1, <2>2, <2>3 DEF Evict
<1> QED BY <1>1, <1>2, <1>3, <1>4 DEF TypeInv

LEMMA TypeSteps == CacheInv /\ TypeInv /\ [Next]_vars => TypeInv'
<1> SUFFICES ASSUME CacheInv, TypeInv, [Next]_vars PROVE TypeInv'
  OBVIOUS
<1>1. ASSUME NEW t \in Threads, Compute(t) \/ \E s \in Scopes : Miss(t, s) PROVE TypeInv'
  BY <1>1, ComputeTyped
<1>2. ASSUME NEW d \in Deals,
             \/ create_deal(d) \/ escalate(d) \/ approve_gm(d) \/ approve_director(d)
             \/ reject_deal(d) \/ soft_delete_deal(d)
      PROVE  TypeInv'
  BY <1>2, NewRow, CommitTyped
<1>3. ASSUME NEW d \in Deals, restore_deal(d) PROVE TypeInv'
  BY <1>3, RestoreTyped
<1>4. CASE Evict \/ Tick
  BY <1>4, EvictTyped
<1>5. CASE UNCHANGED vars
  BY <1>5 DEF vars, TypeInv
<1> QED BY <1>1, <1>2, <1>3, <1>4, <1>5 DEF Next

\* Every variable has its type; in particular a deal that waits is in exactly
\* one queue, so that the two queues of a summary never count it twice
\* (deal_service.py: approve_gm closes the GM's task as it opens the director's).
THEOREM DashboardTypes == Spec => []TypeOK
<1>1. Init => TypeInv
  <2> SUFFICES ASSUME Init PROVE TypeInv
    OBVIOUS
  <2>1. \A d \in Deals : /\ row[d] \in Row
                         /\ row[d].status = "PENDING" => Cardinality(row[d].tasks) = 1
    BY RowsAssumption DEF Init
  <2>2. \A d \in Deals : RowTyped(row[d])
    <3> SUFFICES ASSUME NEW d \in Deals, row[d].status = "PENDING"
                 PROVE  \E role : row[d].tasks = {role}
      BY <2>1 DEF RowTyped
    <3>1. IsFiniteSet(Roles)
      <4>1. IsFiniteSet({"GM"} \cup {"DIRECTOR"})
        BY FS_Singleton, FS_AddElement
      <4>2. Roles = {"GM"} \cup {"DIRECTOR"}
        BY DEF Roles
      <4> QED BY <4>1, <4>2
    <3>2. IsFiniteSet(row[d].tasks)
      BY <2>1, <3>1, FS_Subset DEF Row
    <3> QED BY <2>1, <3>2, FS_Singleton
  <2> QED BY <2>2, RowsAssumption, TimesAssumption DEF Init, TypeInv, Entries, Idle
<1>2. TypeInv => TypeOK
  <2> SUFFICES ASSUME TypeInv PROVE TypeOK
    OBVIOUS
  <2>1. \A d \in Deals : row[d].status = "PENDING" => Cardinality(row[d].tasks) = 1
    BY FS_Singleton DEF TypeInv, RowTyped
  <2> QED BY <2>1 DEF TypeInv, TypeOK, Entries
<1> QED BY <1>1, <1>2, AtFirst, StepsKeepRight, TypeSteps, PTL DEF Spec

=============================================================================
