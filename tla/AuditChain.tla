----------------------------- MODULE AuditChain -----------------------------
(***************************************************************************)
(* The hash chain of audit_logs (audit_service.py) and its two writers,     *)
(* deletion and restoration of a deal (deal_service.py): coroutines without *)
(* an await, so that the event loop has one transaction under way.  A step  *)
(* is a statement; any statement can fail, and the process can die after    *)
(* any.  scripts/db_hardening.sql can be applied at any time.               *)
(*                                                                          *)
(* A row is its place in `rows`, in the order of created_at, and stands for *)
(* its own hash: row n is linked to row m by prev = m, and 0 is the genesis *)
(* hash.                                                                    *)
(***************************************************************************)
EXTENDS Integers, Sequences, FiniteSets

CONSTANTS Deals, Orgs, OrgOf,   \* OrgOf[d] is the organization of deal d
          NoDeal,               \* not a deal
          MaxRows               \* bound on the rows ever inserted

ASSUME OrgAssumption == OrgOf \in [Deals -> Orgs]
ASSUME NoDealAssumption == NoDeal \notin Deals
ASSUME RowsAssumption == MaxRows \in Nat

VARIABLES is_deleted,  \* deals.is_deleted, as committed
          rows,        \* audit_logs, with the row not yet committed and those rolled back
          request,     \* the transaction under way
          hardened     \* whether audit_logs refuses every UPDATE

vars == <<is_deleted, rows, request, hardened>>

Genesis == 0

Idle == [at |-> "idle", action |-> "NONE", deal |-> NoDeal, prev |-> Genesis]

-----------------------------------------------------------------------------
(* What the queries see *)

\* A row is committed together with its row_hash.
Committed(org) == {n \in DOMAIN rows : rows[n].state = "committed" /\ OrgOf[rows[n].deal] = org}

Newest(ns) == IF ns = {} THEN Genesis ELSE CHOOSE n \in ns : \A m \in ns : m <= n

\* Slip: rows of every organization.
latest_hash_anywhere(org) == Newest(UNION {Committed(o) : o \in Orgs})

_get_latest_hash(org) == Newest(Committed(org))

-----------------------------------------------------------------------------
(* A request *)

\* The first SELECT finds a deal in the state to be changed, or answers 404.
change_deal(d, action) ==
  /\ request = Idle
  /\ Len(rows) < MaxRows
  /\ is_deleted[d] = (action = "RESTORE")
  /\ request' = [Idle EXCEPT !.at = "link", !.action = action, !.deal = d]
  /\ UNCHANGED <<is_deleted, rows, hardened>>

soft_delete_deal(d) == change_deal(d, "DELETE")
restore_deal(d) == change_deal(d, "RESTORE")

\* log_action: the SELECT of the predecessor's hash ...
LinkRow ==
  /\ request.at = "link"
  /\ request' = [request EXCEPT !.at = "flush", !.prev = _get_latest_hash(OrgOf[request.deal])]
  /\ UNCHANGED <<is_deleted, rows, hardened>>

NewRow == [deal |-> request.deal, action |-> request.action, prev |-> request.prev,
           state |-> "unhashed"]

\* Slip: the change is committed first and its entry follows.
FlushAlone ==
  /\ request.at = "flush"
  /\ rows' = Append(rows, NewRow)
  /\ request' = [request EXCEPT !.at = "commit", !.prev = Genesis]
  /\ is_deleted' = [is_deleted EXCEPT ![request.deal] = (request.action = "DELETE")]
  /\ UNCHANGED hardened

\* ... and the flush, which updates the deal and inserts the row, its row_hash
\* still NULL: the row's id and created_at are part of the hash.
Flush ==
  /\ request.at = "flush"
  /\ rows' = Append(rows, NewRow)
  /\ request' = [request EXCEPT !.at = "commit", !.prev = Genesis]
  /\ UNCHANGED <<is_deleted, hardened>>

SetState(state) ==
  [n \in DOMAIN rows |-> IF rows[n].state = "unhashed" THEN [rows[n] EXCEPT !.state = state]
                                                       ELSE rows[n]]

\* The flush at the commit writes row_hash: an UPDATE.
Refused == request.at = "commit" /\ hardened

Commit ==
  /\ request.at = "commit"
  /\ ~ Refused
  /\ is_deleted' = [is_deleted EXCEPT ![request.deal] = (request.action = "DELETE")]
  /\ rows' = SetState("committed")
  /\ request' = Idle
  /\ UNCHANGED hardened

\* Slip: the entry is written in a session of its own.
KeepEntry ==
  /\ request.at # "idle"
  /\ rows' = SetState("committed")
  /\ request' = Idle
  /\ UNCHANGED <<is_deleted, hardened>>

\* Slip: a failed session is not closed.
LeaveOpen ==
  /\ request.at # "idle"
  /\ request' = Idle
  /\ UNCHANGED <<is_deleted, rows, hardened>>

\* A statement fails, as the refused UPDATE does, or the process dies.
Rollback ==
  /\ request.at # "idle"
  /\ rows' = SetState("gone")
  /\ request' = Idle
  /\ UNCHANGED <<is_deleted, hardened>>

\* The script, run once: CREATE TRIGGER waits for a transaction that has
\* written to the table.
Harden ==
  /\ ~ hardened
  /\ request.at # "commit"
  /\ hardened' = TRUE
  /\ UNCHANGED <<is_deleted, rows, request>>

-----------------------------------------------------------------------------
(* What the link check of verify_chain expects *)

ExpectedPrev(org, n) == Newest({m \in Committed(org) : m < n})

-----------------------------------------------------------------------------
Init ==
  /\ is_deleted = [d \in Deals |-> FALSE]
  /\ rows = <<>>
  /\ request = Idle
  /\ hardened = FALSE

Next ==
  \/ \E d \in Deals : soft_delete_deal(d) \/ restore_deal(d)
  \/ LinkRow
  \/ Flush
  \/ Commit
  \/ Rollback
  \/ Harden

Spec == Init /\ [][Next]_vars

-----------------------------------------------------------------------------
(* Properties *)

\* Every variable has its type, links point backwards, and a row is waiting
\* for its hash exactly while the transaction that inserted it, the newest, is
\* about to commit.
TypeOK ==
  /\ is_deleted \in [Deals -> BOOLEAN]
  /\ \A n \in DOMAIN rows :
       /\ rows[n] \in [deal : Deals, action : {"DELETE", "RESTORE"}, prev : 0 .. n - 1,
                       state : {"unhashed", "committed", "gone"}]
       /\ rows[n].state = "unhashed" <=> request.at = "commit" /\ n = Len(rows)
  /\ \/ request = Idle
     \/ request \in [at : {"link", "flush", "commit"}, action : {"DELETE", "RESTORE"},
                     deal : Deals, prev : 0 .. Len(rows)]
  /\ hardened \in BOOLEAN

\* The entries of an organization form one chain: each is linked to the one
\* committed before it, whatever failed or was rolled back in between and
\* whatever other organizations wrote.  The link check of verify_chain finds
\* nothing.
OneChain == \A o \in Orgs : \A n \in Committed(o) : rows[n].prev = ExpectedPrev(o, n)

\* audit_service.py:126: the entry and the change are an atomic pair.  A deal
\* is deleted or restored by a step that also commits an entry which says so,
\* and an entry is committed only for a deal that then is as it says.
AtomicPair ==
  [][/\ \A d \in Deals : is_deleted'[d] # is_deleted[d] =>
          \E n \in DOMAIN rows' :
            /\ rows'[n].state = "committed" /\ rows[n].state # "committed"
            /\ rows'[n].deal = d
            /\ rows'[n].action = IF is_deleted'[d] THEN "DELETE" ELSE "RESTORE"
     /\ \A n \in DOMAIN rows :
          rows[n].state # "committed" /\ rows'[n].state = "committed" =>
            is_deleted'[rows[n].deal] = (rows[n].action = "DELETE")]_vars

\* What the log says of a deal.
Entries(d) == {n \in DOMAIN rows : rows[n].state = "committed" /\ rows[n].deal = d}

\* A deal is in the trash exactly when its newest entry says so, however many
\* attempts failed half way.
LogTellsState ==
  \A d \in Deals :
    is_deleted[d] = (Entries(d) # {} /\ rows[Newest(Entries(d))].action = "DELETE")

\* scripts/db_hardening.sql:12: "Use soft-delete (is_deleted=true)."  A deletion
\* about to commit is not refused.
SoftDeleteAllowed == request.action = "DELETE" => ~ Refused

=============================================================================
