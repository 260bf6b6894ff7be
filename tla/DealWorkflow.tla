---------------------------- MODULE DealWorkflow ----------------------------
(***************************************************************************)
(* The deal pipeline of deal_service.py with the tables it reads and       *)
(* writes: deals, tasks, deal_events, audit_logs and fraud_audit_logs.     *)
(*                                                                         *)
(* The create, approve, reject, delete and restore handlers are coroutines *)
(* of one event loop and none of them awaits between its first query and   *)
(* its commit, so each is one action.  What they do after the commit       *)
(* (notifications, the dashboard cache) changes none of these tables.      *)
(***************************************************************************)
EXTENDS Pricing, FiniteSets

CONSTANTS
    Deals,          \* identifiers of deal rows
    Orgs, Phones, Salespeople,
    Quotes,         \* pricing inputs a request may carry
    OrgConfig,      \* organization -> its org_config row
    MAX_DAILY_DEALS_PER_PHONE,
    MAX_HOURLY_DEALS_PER_SALESPERSON,
    HOUR, DAY,      \* the two fraud windows, in ticks of the clock
    MAX_CLOCK       \* bound of the model: the clock stops here

ASSUME QuotesAssumption == Quotes \subseteq PricingInputs
ASSUME ConfigAssumption == OrgConfig \in [Orgs -> OrgConfigs]
ASSUME FraudAssumption ==
    /\ MAX_DAILY_DEALS_PER_PHONE \in Nat
    /\ MAX_HOURLY_DEALS_PER_SALESPERSON \in Nat
    /\ HOUR \in Nat /\ DAY \in Nat /\ MAX_CLOCK \in Nat

VARIABLES
    deal,           \* deal -> the columns of its row that never change
    status,         \* deal -> NONE before it is created, then its status
    approval_stage, \* deal -> NONE, GM, DIRECTOR or DONE
    is_deleted,     \* deal -> in the trash
    pending,        \* deal -> role -> number of PENDING task rows
    events,         \* deal -> the kinds of its deal_events rows
    audited,        \* deal -> the action types audit_logs holds for it
    fraud_log,      \* the reasons of the FRAUD_BLOCKED rows written
    verified,       \* phones with a legitimately_verified OTP row
    clock           \* now, in ticks

deals == <<deal, status, approval_stage, is_deleted>>       \* the deals table
vars == <<deals, pending, events, audited, fraud_log, verified, clock>>

Roles == {"GM", "DIRECTOR"}
Statuses == {"NONE", "PENDING", "APPROVED", "REJECTED"}
Stages == {"NONE", "GM", "DIRECTOR", "DONE"}
Reasons == {"daily_phone_limit_exceeded", "hourly_salesperson_limit_exceeded"}
Allowed == "allowed"
None == "none"

DealRow == [organization_id : Orgs \cup {None},
            salesperson_id : Salespeople \cup {None},
            customer_phone : Phones \cup {None},
            discount : Int, margin : Int, created_at : Nat]

NoDeal == [organization_id |-> None, salesperson_id |-> None, customer_phone |-> None,
           discount |-> 0, margin |-> 0, created_at |-> 0]

EventKinds == {"DEAL_CREATED", "ESCALATED_TO_DIRECTOR", "APPROVED_BY_GM",
               "APPROVED_BY_DIRECTOR", "DEAL_REJECTED", "DEAL_DELETED", "DEAL_RESTORED"}

Init ==
    /\ deal = [d \in Deals |-> NoDeal]
    /\ status = [d \in Deals |-> "NONE"]
    /\ approval_stage = [d \in Deals |-> "NONE"]
    /\ is_deleted = [d \in Deals |-> FALSE]
    /\ pending = [d \in Deals |-> [r \in Roles |-> 0]]
    /\ events = [d \in Deals |-> {}]
    /\ audited = [d \in Deals |-> {}]
    /\ fraud_log = {}
    /\ verified = {}
    /\ clock = 0

-----------------------------------------------------------------------------
(* Queries *)

Exists(d) == status[d] # "NONE"

(* A deal the handlers' first query can load.                              *)
Loadable(d) == Exists(d) /\ ~is_deleted[d]

(* check_phone_exists_in_deal: over all organizations, deleted rows apart. *)
PhoneInUse(p) == \E d \in Deals : Loadable(d) /\ deal[d].customer_phone = p

(* Slip: the fraud query leaves the deleted deals out.                      *)
DailyDealsKept(org, p) ==
    {d \in Deals : /\ Loadable(d)
                   /\ deal[d].organization_id = org
                   /\ deal[d].customer_phone = p
                   /\ deal[d].created_at >= clock - DAY}

(* The deals of one phone in the last day, and of one salesperson in the   *)
(* last hour; deleted deals count too.                                     *)
DailyDeals(org, p) ==
    {d \in Deals : /\ Exists(d)
                   /\ deal[d].organization_id = org
                   /\ deal[d].customer_phone = p
                   /\ deal[d].created_at >= clock - DAY}

HourlyDeals(org, sp) ==
    {d \in Deals : /\ Exists(d)
                   /\ deal[d].organization_id = org
                   /\ deal[d].salesperson_id = sp
                   /\ deal[d].created_at >= clock - HOUR}

check_fraud_rules(p, org, sp) ==
    IF Cardinality(DailyDeals(org, p)) >= MAX_DAILY_DEALS_PER_PHONE
    THEN "daily_phone_limit_exceeded"
    ELSE IF Cardinality(HourlyDeals(org, sp)) >= MAX_HOURLY_DEALS_PER_SALESPERSON
    THEN "hourly_salesperson_limit_exceeded"
    ELSE Allowed

(* Slip: the table is created without the partial unique index.            *)
NoIndex(d) == TRUE

(* The unique index on customer_phone over the rows that are not deleted.  *)
IndexAccepts(d) ==
    \A e \in Deals \ {d} :
        Loadable(e) => deal[e].customer_phone # deal[d].customer_phone

-----------------------------------------------------------------------------
(* Task rows: one PENDING row per deal and role is created at most; the     *)
(* first PENDING row is the one completed.                                  *)

(* Slips: no look for an existing task, no look at whether one was found.   *)
create_task_again(tasks, d, r) == [tasks EXCEPT ![d][r] = @ + 1]

complete_task_blindly(tasks, d, r) == [tasks EXCEPT ![d][r] = @ - 1]

create_task(tasks, d, r) ==
    IF tasks[d][r] > 0 THEN tasks ELSE [tasks EXCEPT ![d][r] = @ + 1]

complete_task(tasks, d, r) ==
    IF tasks[d][r] > 0 THEN [tasks EXCEPT ![d][r] = @ - 1] ELSE tasks

(* Slip: a rejection completes the GM's task only.                          *)
complete_gm_only(tasks, d) == complete_task(tasks, d, "GM")

complete_all(tasks, d) == [tasks EXCEPT ![d] = [r \in Roles |-> 0]]

_log_event(d, kind) == events' = [events EXCEPT ![d] = @ \cup {kind}]

_map_decision_to_status(decision) ==
    IF decision = AUTO_APPROVE THEN [status |-> "APPROVED", stage |-> "DONE"]
    ELSE IF decision = GM_APPROVAL THEN [status |-> "PENDING", stage |-> "GM"]
    ELSE [status |-> "PENDING", stage |-> "DIRECTOR"]

NewDeal(org, sp, p, in) ==
    [organization_id |-> org, salesperson_id |-> sp, customer_phone |-> p,
     discount |-> total_discount(in), margin |-> CreateMargin(in), created_at |-> clock]

-----------------------------------------------------------------------------
(* Handlers *)

(* verify_otp_secure succeeds for this phone.  The verification is never    *)
(* withdrawn and never consumed by a deal.                                  *)
VerifyPhone(p) ==
    /\ verified' = verified \cup {p}
    /\ UNCHANGED <<deals, pending, events, audited, fraud_log, clock>>

(* The checks of create_deal up to the fraud rules.                         *)
CreateChecks(p) == ~PhoneInUse(p) /\ p \in verified

create_deal(d, org, sp, p, in) ==
    LET to == _map_decision_to_status(CreateDecision(in, OrgConfig[org]))
    IN  /\ ~Exists(d)
        /\ CreateChecks(p)
        /\ check_fraud_rules(p, org, sp) = Allowed
        /\ PriceAccepted(in)
        /\ deal' = [deal EXCEPT ![d] = NewDeal(org, sp, p, in)]
        /\ status' = [status EXCEPT ![d] = to.status]
        /\ approval_stage' = [approval_stage EXCEPT ![d] = to.stage]
        /\ pending' = IF to.status = "APPROVED" THEN pending
                      ELSE create_task(pending, d, to.stage)
        /\ _log_event(d, "DEAL_CREATED")
        /\ UNCHANGED <<is_deleted, audited, fraud_log, verified, clock>>

(* A refusal by the fraud rules is committed to the fraud log.              *)
create_blocked(org, sp, p) ==
    /\ CreateChecks(p)
    /\ check_fraud_rules(p, org, sp) # Allowed
    /\ fraud_log' = fraud_log \cup {check_fraud_rules(p, org, sp)}
    /\ UNCHANGED <<deals, pending, events, audited, verified, clock>>

AboveDirectorLimit(d) ==
    /\ Exists(d)
    /\ deal[d].discount > OrgConfig[deal[d].organization_id].director_discount_limit

(* Slips: _deal_is_pending or the is_deleted filter is forgotten.           *)
DecidableTwice(d) == Loadable(d)
DecidableInTrash(d) == Exists(d) /\ status[d] = "PENDING"

Decidable(d) == Loadable(d) /\ status[d] = "PENDING"

Decide(d, verdict) ==
    /\ status' = [status EXCEPT ![d] = verdict]
    /\ approval_stage' = [approval_stage EXCEPT ![d] = "DONE"]
    /\ UNCHANGED <<deal, is_deleted>>

(* approve_gm, first branch: the approval stage is not read, so this also   *)
(* repeats on a deal that is already with the director.                     *)
approve_gm_escalates(d) ==
    /\ Decidable(d)
    /\ AboveDirectorLimit(d)
    /\ approval_stage' = [approval_stage EXCEPT ![d] = "DIRECTOR"]
    /\ pending' = create_task(complete_task(pending, d, "GM"), d, "DIRECTOR")
    /\ _log_event(d, "ESCALATED_TO_DIRECTOR")
    /\ UNCHANGED <<deal, status, is_deleted, audited, fraud_log, verified, clock>>

(* Slip: the GM approves whatever the discount.                             *)
approve_gm_unlimited(d) ==
    /\ Decidable(d)
    /\ Decide(d, "APPROVED")
    /\ pending' = complete_task(pending, d, "GM")
    /\ _log_event(d, "APPROVED_BY_GM")
    /\ UNCHANGED <<audited, fraud_log, verified, clock>>

approve_gm(d) ==
    /\ Decidable(d)
    /\ ~AboveDirectorLimit(d)
    /\ Decide(d, "APPROVED")
    /\ pending' = complete_task(pending, d, "GM")
    /\ _log_event(d, "APPROVED_BY_GM")
    /\ UNCHANGED <<audited, fraud_log, verified, clock>>

FraudVerdict(d) ==
    check_fraud_rules(deal[d].customer_phone, deal[d].organization_id,
                      deal[d].salesperson_id)

approve_director(d) ==
    /\ Decidable(d)
    /\ FraudVerdict(d) = Allowed
    /\ Decide(d, "APPROVED")
    /\ pending' = complete_task(pending, d, "DIRECTOR")
    /\ _log_event(d, "APPROVED_BY_DIRECTOR")
    /\ UNCHANGED <<audited, fraud_log, verified, clock>>

approve_director_blocked(d) ==
    /\ Decidable(d)
    /\ FraudVerdict(d) # Allowed
    /\ fraud_log' = fraud_log \cup {FraudVerdict(d)}
    /\ UNCHANGED <<deals, pending, events, audited, verified, clock>>

reject_deal(d) ==
    /\ Decidable(d)
    /\ Decide(d, "REJECTED")
    /\ pending' = complete_all(pending, d)
    /\ _log_event(d, "DEAL_REJECTED")
    /\ UNCHANGED <<audited, fraud_log, verified, clock>>

(* Neither the status nor the tasks of a deleted deal change.               *)
soft_delete_deal(d) ==
    /\ Loadable(d)
    /\ is_deleted' = [is_deleted EXCEPT ![d] = TRUE]
    /\ _log_event(d, "DEAL_DELETED")
    /\ audited' = [audited EXCEPT ![d] = @ \cup {"DELETE"}]
    /\ UNCHANGED <<deal, status, approval_stage, pending, fraud_log, verified, clock>>

(* Nothing but the index looks at the phone: where another deal holds it    *)
(* the commit fails and everything is rolled back.                          *)
restore_deal(d) ==
    /\ Exists(d) /\ is_deleted[d]
    /\ IndexAccepts(d)
    /\ is_deleted' = [is_deleted EXCEPT ![d] = FALSE]
    /\ _log_event(d, "DEAL_RESTORED")
    /\ audited' = [audited EXCEPT ![d] = @ \cup {"RESTORE"}]
    /\ UNCHANGED <<deal, status, approval_stage, pending, fraud_log, verified, clock>>

Tick ==
    /\ clock < MAX_CLOCK
    /\ clock' = clock + 1
    /\ UNCHANGED <<deals, pending, events, audited, fraud_log, verified>>

Next ==
    \/ Tick
    \/ \E p \in Phones : VerifyPhone(p)
    \/ \E org \in Orgs, sp \in Salespeople, p \in Phones :
          \/ \E d \in Deals, in \in Quotes : create_deal(d, org, sp, p, in)
          \/ create_blocked(org, sp, p)
    \/ \E d \in Deals :
          \/ approve_gm_escalates(d)
          \/ approve_gm(d)
          \/ approve_director(d)
          \/ approve_director_blocked(d)
          \/ reject_deal(d)
          \/ soft_delete_deal(d)
          \/ restore_deal(d)

Spec == Init /\ [][Next]_vars

-----------------------------------------------------------------------------
(* Properties *)

TypeOK ==
    /\ deal \in [Deals -> DealRow]
    /\ status \in [Deals -> Statuses]
    /\ approval_stage \in [Deals -> Stages]
    /\ is_deleted \in [Deals -> BOOLEAN]
    /\ pending \in [Deals -> [Roles -> Nat]]
    /\ events \in [Deals -> SUBSET EventKinds]
    /\ audited \in [Deals -> SUBSET {"DELETE", "RESTORE"}]
    /\ fraud_log \subseteq Reasons
    /\ verified \subseteq Phones
    /\ clock \in Nat

(* A deal that waits for a decision is in exactly one approval queue, once, *)
(* and it is the queue of its stage: whatever sequence of escalations,      *)
(* deletions and restores the deal went through, nobody finds it twice and  *)
(* it is never lost (create_task and complete_task, called by four          *)
(* handlers).                                                               *)
PendingDealQueued ==
    \A d \in Deals :
        status[d] = "PENDING" =>
            /\ approval_stage[d] \in Roles
            /\ \A r \in Roles :
                  pending[d][r] = IF r = approval_stage[d] THEN 1 ELSE 0

(* A decided deal is in no queue, but for one case: an approval completes    *)
(* the task of the approving role only (approve_gm, approve_director), so   *)
(* where the deal waited for the other role that one task stays.  A         *)
(* rejection clears both queues, and no automatic approval leaves a task.   *)
ApprovalOf == [GM |-> "APPROVED_BY_GM", DIRECTOR |-> "APPROVED_BY_DIRECTOR"]

DecidedLeavesQueues ==
    \A d \in Deals, r \in Roles :
        status[d] \in {"APPROVED", "REJECTED"} /\ pending[d][r] # 0 =>
            /\ status[d] = "APPROVED" /\ pending[d][r] = 1
            /\ \E q \in Roles \ {r} : ApprovalOf[q] \in events[d]

(* The event history tells one verdict, the one the row has: two handlers   *)
(* never both decide a deal, and a decided deal that was approved by nobody *)
(* was within every limit of its organization when it was created.          *)
HistoryTellsVerdict ==
    \A d \in Deals :
        LET verdicts == events[d] \cap {"APPROVED_BY_GM", "APPROVED_BY_DIRECTOR",
                                       "DEAL_REJECTED"}
        IN  /\ status[d] \in {"NONE", "PENDING"} => verdicts = {}
            /\ status[d] = "REJECTED" => verdicts = {"DEAL_REJECTED"}
            /\ status[d] = "APPROVED" =>
                  \/ verdicts = {"APPROVED_BY_GM"}
                  \/ verdicts = {"APPROVED_BY_DIRECTOR"}
                  \/ verdicts = {} /\ ~AboveDirectorLimit(d) /\ deal[d].margin >= 0

(* No path through create, escalate and approve lets a discount above the   *)
(* director limit through without the director's own approval.              *)
DirectorSignsAboveLimit ==
    \A d \in Deals :
        status[d] = "APPROVED" /\ AboveDirectorLimit(d)
            => "APPROVED_BY_DIRECTOR" \in events[d]

(* Two deals that are not deleted never share a phone, although create_deal *)
(* checks and restore_deal does not: the index refuses the restore.         *)
ActivePhonesDistinct ==
    \A d, e \in Deals :
        Loadable(d) /\ Loadable(e) /\ d # e
            => deal[d].customer_phone # deal[e].customer_phone

(* In any window, past or current, a phone was given at most the daily      *)
(* number of deals and a salesperson at most the hourly number, deleted     *)
(* deals included: neither deleting and creating again nor restoring gets   *)
(* around the fraud rules.                                                  *)
FraudWindowsRespected ==
    \A org \in Orgs, from \in 0..clock :
        LET opened(to) == {d \in Deals : /\ Exists(d) /\ deal[d].organization_id = org
                                        /\ deal[d].created_at \in from..to}
        IN  /\ \A p \in Phones :
                  Cardinality({d \in opened(from + DAY) : deal[d].customer_phone = p})
                      <= MAX_DAILY_DEALS_PER_PHONE
            /\ \A sp \in Salespeople :
                  Cardinality({d \in opened(from + HOUR) : deal[d].salesperson_id = sp})
                      <= MAX_HOURLY_DEALS_PER_SALESPERSON

(* Moving a deal to the trash and back neither decides it nor changes its   *)
(* tasks, and no handler works on it while it is there.                     *)
TrashKeepsWorkflow ==
    [][\A d \in Deals :
          is_deleted[d] \/ is_deleted'[d] =>
              /\ status'[d] = status[d] /\ approval_stage'[d] = approval_stage[d]
              /\ deal'[d] = deal[d] /\ pending'[d] = pending[d]]_vars

(* The workflow implements the approval promise of ApprovalAuthority.       *)
Signer(d) ==
    IF status[d] # "APPROVED" THEN "nobody"
    ELSE IF "APPROVED_BY_DIRECTOR" \in events[d] THEN "DIRECTOR"
    ELSE IF "APPROVED_BY_GM" \in events[d] THEN "GM"
    ELSE "system"

Authority ==
    INSTANCE ApprovalAuthority WITH
        verdict <- status,
        above <- [d \in Deals |-> AboveDirectorLimit(d)],
        signedBy <- [d \in Deals |-> Signer(d)]

ImplementsAuthority == Authority!Spec
=============================================================================
