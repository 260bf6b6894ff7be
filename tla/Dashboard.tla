----------------------------- MODULE Dashboard -----------------------------
(***************************************************************************)
(* The cached summary of the dashboard (routes/dashboard.py) beside the     *)
(* handlers that change deals (routes/deals.py, deal_service.py).           *)
(*                                                                          *)
(* Summaries are computed by threads: a look into the cache, a statement    *)
(* over deals, one over tasks, a store.  Handlers of the event loop commit  *)
(* and then evict their organization's entries, in one run of the loop but  *)
(* not at once for the threads: they list the keys of a dictionary that     *)
(* others may be adding to, which Python answers with a RuntimeError, and   *)
(* pop them one by one.  restore_deal evicts nothing.                       *)
(*                                                                          *)
(* A deal is what a summary counts of it: its status, the roles that have   *)
(* a pending task on it, and whether it is in the trash.  Time is the age   *)
(* of the entries.                                                          *)
(***************************************************************************)
EXTENDS Naturals, FiniteSets

CONSTANTS Deals,
          OrgOf, BranchOf,  \* organization and branch of each deal
          Scopes,           \* what users ask for: <<organization, branch or All>>
          All,              \* no branch: head office, administrator
          Threads,          \* of the pool, computing summaries
          None,
          TTL,              \* _CACHE_TTL in ticks
          LeftRows,         \* tables earlier processes may have left
          MaxChanges        \* bound: commits that change a deal

Orgs == {s[1] : s \in Scopes}

ASSUME ScopesAssumption == \A s \in Scopes : s = <<s[1], s[2]>>
ASSUME DealsAssumption  ==
         IsFiniteSet(Deals) /\ OrgOf \in [Deals -> Orgs] /\ DOMAIN BranchOf = Deals
ASSUME TimesAssumption  == TTL \in Nat \ {0} /\ MaxChanges \in Nat
ASSUME NoneAssumption   == None \notin Orgs /\ Threads \cap Scopes = {}

Roles == {"GM", "DIRECTOR"}

Row == [status : {"NONE", "PENDING", "APPROVED", "REJECTED"}, tasks : SUBSET Roles,
        is_deleted : BOOLEAN]

\* A waiting deal is in one queue.
ASSUME RowsAssumption ==
         \A left \in LeftRows : left \in [Deals -> Row] /\
           \A d \in Deals : left[d].status = "PENDING" => Cardinality(left[d].tasks) = 1

VARIABLES row,      \* the committed deal and task rows, per deal
          cache,    \* _cache: an entry or None per key
          fill,     \* the summary each thread is computing
          evict,    \* what the event loop's handler is evicting
          changes,  \* how many commits there were
          passed    \* history: entries and computations a change has passed by

vars == <<row, cache, fill, evict, changes, passed>>

-----------------------------------------------------------------------------
(* Summaries *)

\* An entry belongs to what was asked for.
_cache_key(scope) == scope

Keys == {_cache_key(s) : s \in Scopes}

Rows(scope) ==
  {d \in Deals : /\ row[d].status # "NONE" /\ ~ row[d].is_deleted
                 /\ OrgOf[d] = scope[1]
                 /\ scope[2] = All \/ BranchOf[d] = scope[2]}

WithStatus(scope, s) == Cardinality({d \in Rows(scope) : row[d].status = s})
WithTask(scope, r)   == Cardinality({d \in Rows(scope) : r \in row[d].tasks})

\* The two statements of summary.
DealCounts(scope) ==
  [total    |-> Cardinality(Rows(scope)),
   approved |-> WithStatus(scope, "APPROVED"),
   pending  |-> WithStatus(scope, "PENDING"),
   rejected |-> WithStatus(scope, "REJECTED")]

TaskCounts(scope) ==
  [gm |-> WithTask(scope, "GM"), director |-> WithTask(scope, "DIRECTOR")]

\* An entry that has expired stays in the dictionary; what it said is of no
\* further use.
Expired == [age |-> TTL]

\* Slip: a hit renews the entry, and somebody polls all the time.
RenewedByPolls(e) == e

\* One tick of time.monotonic().
Older(e) == IF e = None \/ e = Expired THEN e
            ELSE IF e.age + 1 < TTL THEN [e EXCEPT !.age = @ + 1] ELSE Expired

\* _cache_get
Live(e) == e # None /\ e.age < TTL

-----------------------------------------------------------------------------
(* A thread answers a request *)

Idle == [at |-> "idle"]

Fill(t, f) == fill' = [fill EXCEPT ![t] = f]

\* With a live entry the request is answered at once and nothing changes.
Miss(t, scope) ==
  /\ fill[t] = Idle
  /\ ~ Live(cache[_cache_key(scope)])
  /\ Fill(t, [at |-> "deals", scope |-> scope])
  /\ UNCHANGED <<row, cache, evict, changes, passed>>

CountDeals(t) ==
  /\ fill[t].at = "deals"
  /\ Fill(t, [at |-> "tasks", scope |-> fill[t].scope, deals |-> DealCounts(fill[t].scope)])
  /\ passed' = passed \ {t}
  /\ UNCHANGED <<row, cache, evict, changes>>

CountTasks(t) ==
  /\ fill[t].at = "tasks"
  /\ Fill(t, [at |-> "set", scope |-> fill[t].scope, deals |-> fill[t].deals,
              tasks |-> TaskCounts(fill[t].scope)])
  /\ UNCHANGED <<row, cache, evict, changes, passed>>

\* _cache_set: the age counts from here, not from the statements.
_cache_set(t) ==
  /\ fill[t].at = "set"
  /\ LET key == _cache_key(fill[t].scope)
     IN  /\ cache' = [cache EXCEPT ![key] =
                        [deals |-> fill[t].deals, tasks |-> fill[t].tasks, age |-> 0]]
         /\ passed' = (IF t \in passed THEN passed \cup {key} ELSE passed \ {key}) \ {t}
  /\ Fill(t, Idle)
  /\ UNCHANGED <<row, evict, changes>>

-----------------------------------------------------------------------------
(* Changes.  A change passes by the computations of its organization that   *)
(* have begun, and, if it evicts nothing, by the entries too.               *)

Computing(org) == {t \in Threads : fill[t].at \in {"tasks", "set"} /\ fill[t].scope[1] = org}
EntriesOf(org) == {k \in Keys : cache[k] # None /\ k[1] = org}
LiveOf(org)    == {k \in Keys : Live(cache[k]) /\ k[1] = org}

Change(new) ==
  /\ changes < MaxChanges
  /\ changes' = changes + 1
  /\ row' = new
  /\ UNCHANGED <<cache, fill>>

NotEvicting == [at |-> "idle"]
Size == Cardinality({k \in Keys : cache[k] # None})

\* A handler of the event loop commits and begins to list the keys.
CommitAndEvict(d, new) ==
  /\ evict = NotEvicting
  /\ Change([row EXCEPT ![d] = new])
  /\ evict' = [at |-> "list", org |-> OrgOf[d], size |-> Size]
  /\ passed' = passed \cup Computing(OrgOf[d])

Deal(status, tasks, is_deleted) == [status |-> status, tasks |-> tasks, is_deleted |-> is_deleted]

create_deal(d) ==
  /\ row[d].status = "NONE"
  /\ \/ CommitAndEvict(d, Deal("APPROVED", {}, FALSE))
     \/ \E r \in Roles : CommitAndEvict(d, Deal("PENDING", {r}, FALSE))

Decidable(d) == row[d].status = "PENDING" /\ ~ row[d].is_deleted

\* Slip: the GM's task is left.
BothQueues(tasks) == tasks \cup {"DIRECTOR"}

Escalated(tasks) == (tasks \ {"GM"}) \cup {"DIRECTOR"}

\* approve_gm, above the director's limit and within it.
escalate(d) ==
  /\ Decidable(d)
  /\ CommitAndEvict(d, Deal("PENDING", Escalated(row[d].tasks), FALSE))

approve_gm(d) ==
  /\ Decidable(d)
  /\ CommitAndEvict(d, Deal("APPROVED", row[d].tasks \ {"GM"}, FALSE))

approve_director(d) ==
  /\ Decidable(d)
  /\ CommitAndEvict(d, Deal("APPROVED", row[d].tasks \ {"DIRECTOR"}, FALSE))

reject_deal(d) ==
  /\ Decidable(d)
  /\ CommitAndEvict(d, Deal("REJECTED", {}, FALSE))

soft_delete_deal(d) ==
  /\ row[d].status # "NONE" /\ ~ row[d].is_deleted
  /\ CommitAndEvict(d, [row[d] EXCEPT !.is_deleted = TRUE])

\* Evicts nothing: the change passes by the entries as well.
PassBy(org) == passed' = passed \cup Computing(org) \cup LiveOf(org)

restore_deal(d) ==
  /\ row[d].is_deleted
  /\ evict = NotEvicting
  /\ Change([row EXCEPT ![d].is_deleted = FALSE])
  /\ PassBy(OrgOf[d])
  /\ UNCHANGED evict

-----------------------------------------------------------------------------
(* invalidate_dashboard_cache *)

\* Slip: only the entry that sees all branches.
EntryOfAll(org) == EntriesOf(org) \cap {<<org, All>>}

KeysToEvict(org) == EntriesOf(org)

\* "for k in _cache" came to its end with the size it started from ...
ListKeys ==
  /\ evict.at = "list"
  /\ Size = evict.size
  /\ evict' = [at |-> "pop", org |-> evict.org, keys |-> KeysToEvict(evict.org)]
  /\ UNCHANGED <<row, cache, fill, changes, passed>>

\* ... or finds another: the request fails after its commit.
ListFails ==
  /\ evict.at = "list"
  /\ Size # evict.size
  /\ evict' = NotEvicting
  /\ passed' = passed \cup LiveOf(evict.org)
  /\ UNCHANGED <<row, cache, fill, changes>>

Pop ==
  /\ evict.at = "pop"
  /\ \E k \in evict.keys :
       /\ cache' = [cache EXCEPT ![k] = None]
       /\ evict' = [evict EXCEPT !.keys = @ \ {k}]
       /\ passed' = passed \ {k}
  /\ UNCHANGED <<row, fill, changes>>

Evicted ==
  /\ evict.at = "pop" /\ evict.keys = {}
  /\ evict' = NotEvicting
  /\ UNCHANGED <<row, cache, fill, changes, passed>>

Tick ==
  /\ cache' = [k \in Keys |-> Older(cache[k])]
  /\ passed' = passed \ {k \in Keys : ~ Live(cache'[k])}
  /\ UNCHANGED <<row, fill, evict, changes>>

-----------------------------------------------------------------------------
Init ==
  /\ row \in LeftRows
  /\ cache = [k \in Keys |-> None]
  /\ fill = [t \in Threads |-> Idle]
  /\ evict = NotEvicting
  /\ changes = 0
  /\ passed = {}

Compute(t) == CountDeals(t) \/ CountTasks(t) \/ _cache_set(t)
Evict == ListKeys \/ ListFails \/ Pop \/ Evicted

Next ==
  \/ \E t \in Threads : Compute(t) \/ \E s \in Scopes : Miss(t, s)
  \/ \E d \in Deals : \/ create_deal(d)
                      \/ escalate(d)
                      \/ approve_gm(d)
                      \/ approve_director(d)
                      \/ reject_deal(d)
                      \/ soft_delete_deal(d)
                      \/ restore_deal(d)
  \/ Evict
  \/ Tick

\* Threads and the loop go on with what they have begun, and time passes.
Fairness == WF_vars(Tick) /\ WF_vars(Evict) /\ \A t \in Threads : WF_vars(Compute(t))

Spec == Init /\ [][Next]_vars /\ Fairness

-----------------------------------------------------------------------------
(* Properties *)

DealCountsType == [total : Nat, approved : Nat, pending : Nat, rejected : Nat]
TaskCountsType == [gm : Nat, director : Nat]

\* Every variable has its type; a waiting deal is in exactly one queue.
TypeOK ==
  /\ row \in [Deals -> Row]
  /\ \A d \in Deals : row[d].status = "PENDING" => Cardinality(row[d].tasks) = 1
  /\ cache \in [Keys -> {None, Expired} \cup
                        [deals : DealCountsType, tasks : TaskCountsType, age : 0 .. TTL - 1]]
  /\ \A t \in Threads :
       \/ fill[t] = Idle
       \/ fill[t].at \in {"deals", "tasks", "set"} /\ fill[t].scope \in Scopes
  /\ evict = NotEvicting \/ evict.org \in Orgs
  /\ changes \in 0 .. MaxChanges
  /\ passed \subseteq Keys \cup Threads

\* The loop has still to evict this key.
BeingEvicted(k) ==
  \/ evict.at = "list" /\ evict.org = k[1]
  \/ evict.at = "pop" /\ k \in evict.keys

\* dashboard.py:50, for every scope a user asks for: an entry that would be
\* served is the summary of the database as it is, unless the eviction of its
\* key is under way or a change has passed it by: one that fell into its
\* computation, evicted nothing, or failed to list the keys.  In particular two
\* statements with no change between them are one state, no branch sees the
\* entry of another, and no handler changes deals behind the cache's back but
\* the restoration.
StaleExplained ==
  \A s \in Scopes :
    LET k == _cache_key(s)
        e == cache[k]
    IN  Live(e) /\ ~ BeingEvicted(k) /\ k \notin passed =>
          e.deals = DealCounts(s) /\ e.tasks = TaskCounts(s)

\* dashboard.py:29: whatever passed the entries by, they expire: once the deals
\* stop changing, every entry that would be served comes to be right and stays so.
EventuallyFresh ==
  <>[](\A s \in Scopes :
         LET e == cache[_cache_key(s)]
         IN  Live(e) => e.deals = DealCounts(s) /\ e.tasks = TaskCounts(s))

=============================================================================
