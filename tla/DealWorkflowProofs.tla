------------------------- MODULE DealWorkflowProofs -------------------------
(***************************************************************************)
(* What holds of DealWorkflow for every set of deals, phones, salespeople  *)
(* and organizations, every organization's limits, every set of quotes and *)
(* every fraud limit.                                                      *)
(***************************************************************************)
EXTENDS DealWorkflow, FiniteSetTheorems, TLAPS

(* Where create_deal routes a new deal: to one of the two queues, or straight *)
(* to approval, and then its discount is within the director limit and its    *)
(* margin is not negative.                                                    *)
LEMMA Routing ==
    ASSUME NEW org \in Orgs, NEW in \in Quotes,
           NEW to, to = _map_decision_to_status(CreateDecision(in, OrgConfig[org]))
    PROVE  /\ total_discount(in) \in Int
           /\ CreateMargin(in) \in Int
           /\ to.status \in {"PENDING", "APPROVED"}
           /\ to.status = "PENDING" => to.stage \in Roles
           /\ to.status = "APPROVED" =>
                 /\ to.stage = "DONE"
                 /\ ~(total_discount(in) > OrgConfig[org].director_discount_limit)
                 /\ CreateMargin(in) >= 0
<1> DEFINE d == CreateDecision(in, OrgConfig[org])
<1>1. in \in PricingInputs /\ OrgConfig[org] \in OrgConfigs
  BY QuotesAssumption, ConfigAssumption
<1>2. total_discount(in) \in Int /\ CreateMargin(in) \in Int
  BY <1>1 DEF PricingInputs, total_discount, CreateMargin, margin
<1>3. CASE d = AUTO_APPROVE
  <2>1. /\ ~(total_discount(in) > OrgConfig[org].director_discount_limit)
        /\ ~(CreateMargin(in) < 0)
    BY <1>3 DEF CreateDecision, CreateMargin, evaluate, AUTO_APPROVE,
                GM_APPROVAL, DIRECTOR_APPROVAL
  <2>2. to = [status |-> "APPROVED", stage |-> "DONE"]
    BY <1>3 DEF _map_decision_to_status
  <2> QED BY <2>1, <2>2, <1>2
<1>4. CASE d # AUTO_APPROVE
  <2>1. \E stage \in Roles : to = [status |-> "PENDING", stage |-> stage]
    BY <1>4 DEF _map_decision_to_status, Roles
  <2> QED BY <2>1, <1>2
<1> QED BY <1>3, <1>4

LEMMA TaskTypes ==
    ASSUME pending \in [Deals -> [Roles -> Nat]], NEW d \in Deals, NEW r \in Roles
    PROVE  /\ create_task(pending, d, r) \in [Deals -> [Roles -> Nat]]
           /\ complete_task(pending, d, r) \in [Deals -> [Roles -> Nat]]
           /\ complete_all(pending, d) \in [Deals -> [Roles -> Nat]]
<1>1. create_task(pending, d, r) \in [Deals -> [Roles -> Nat]]
  BY DEF create_task
<1>2. complete_task(pending, d, r) \in [Deals -> [Roles -> Nat]]
  BY DEF complete_task
<1>3. complete_all(pending, d) \in [Deals -> [Roles -> Nat]]
  BY DEF complete_all
<1> QED BY <1>1, <1>2, <1>3

-----------------------------------------------------------------------------
(* Every row, task count, event set and log keeps its type, for every value *)
(* of the constants: in particular a stage is always one the code knows.    *)
THEOREM TypeCorrect == Spec => []TypeOK
<1>1. Init => TypeOK
  BY FraudAssumption DEF Init, TypeOK, NoDeal, DealRow, None, Roles, Statuses, Stages
<1>2. TypeOK /\ [Next]_vars => TypeOK'
  <2> SUFFICES ASSUME TypeOK, [Next]_vars PROVE TypeOK'
    OBVIOUS
  <2> USE DEF TypeOK, deals
  <2>1. CASE Tick
    BY <2>1 DEF Tick
  <2>2. ASSUME NEW p \in Phones, VerifyPhone(p) PROVE TypeOK'
    BY <2>2 DEF VerifyPhone
  <2>3. ASSUME NEW org \in Orgs, NEW sp \in Salespeople, NEW p \in Phones,
               NEW d \in Deals, NEW in \in Quotes, create_deal(d, org, sp, p, in)
        PROVE  TypeOK'
    <3> DEFINE to == _map_decision_to_status(CreateDecision(in, OrgConfig[org]))
    <3>1. /\ total_discount(in) \in Int /\ CreateMargin(in) \in Int
          /\ to.status \in {"PENDING", "APPROVED"}
          /\ to.status = "PENDING" => to.stage \in Roles
          /\ to.status = "APPROVED" => to.stage = "DONE"
      BY Routing
    <3>2. /\ deal' = [deal EXCEPT ![d] = NewDeal(org, sp, p, in)]
          /\ status' = [status EXCEPT ![d] = to.status]
          /\ approval_stage' = [approval_stage EXCEPT ![d] = to.stage]
          /\ pending' = IF to.status = "APPROVED" THEN pending
                        ELSE create_task(pending, d, to.stage)
          /\ events' = [events EXCEPT ![d] = @ \cup {"DEAL_CREATED"}]
          /\ UNCHANGED <<is_deleted, audited, fraud_log, verified, clock>>
      BY <2>3 DEF create_deal, _log_event
    <3> HIDE DEF to
    <3>3. NewDeal(org, sp, p, in) \in DealRow
      BY <3>1 DEF NewDeal, DealRow
    <3>4. pending' \in [Deals -> [Roles -> Nat]]
      BY <3>1, <3>2, TaskTypes
    <3> QED BY <3>1, <3>2, <3>3, <3>4 DEF Roles, Statuses, Stages, EventKinds
  <2>4. ASSUME NEW org \in Orgs, NEW sp \in Salespeople, NEW p \in Phones,
               create_blocked(org, sp, p)
        PROVE  TypeOK'
    BY <2>4 DEF create_blocked, check_fraud_rules, Reasons, Allowed
  <2>5. ASSUME NEW d \in Deals, approve_gm_escalates(d) PROVE TypeOK'
    <3>1. pending' \in [Deals -> [Roles -> Nat]]
      BY <2>5 DEF approve_gm_escalates, create_task, complete_task, Roles
    <3> QED BY <2>5, <3>1 DEF approve_gm_escalates, _log_event, EventKinds, Stages
  <2>6. ASSUME NEW d \in Deals, approve_gm(d) PROVE TypeOK'
    <3>1. pending' \in [Deals -> [Roles -> Nat]]
      BY <2>6, TaskTypes DEF approve_gm, Roles
    <3> QED BY <2>6, <3>1 DEF approve_gm, Decide, _log_event, EventKinds, Statuses, Stages
  <2>7. ASSUME NEW d \in Deals, approve_director(d) PROVE TypeOK'
    <3>1. pending' \in [Deals -> [Roles -> Nat]]
      BY <2>7, TaskTypes DEF approve_director, Roles
    <3> QED BY <2>7, <3>1 DEF approve_director, Decide, _log_event, EventKinds, Statuses, Stages
  <2>8. ASSUME NEW d \in Deals, approve_director_blocked(d) PROVE TypeOK'
    BY <2>8 DEF approve_director_blocked, FraudVerdict, check_fraud_rules, Reasons, Allowed
  <2>9. ASSUME NEW d \in Deals, reject_deal(d) PROVE TypeOK'
    <3>1. pending' \in [Deals -> [Roles -> Nat]]
      BY <2>9, TaskTypes DEF reject_deal, Roles
    <3> QED BY <2>9, <3>1 DEF reject_deal, Decide, _log_event, EventKinds, Statuses, Stages
  <2>10. ASSUME NEW d \in Deals, soft_delete_deal(d) PROVE TypeOK'
    BY <2>10 DEF soft_delete_deal, _log_event, EventKinds
  <2>11. ASSUME NEW d \in Deals, restore_deal(d) PROVE TypeOK'
    BY <2>11 DEF restore_deal, _log_event, EventKinds
  <2>12. CASE UNCHANGED vars
    BY <2>12 DEF vars
  <2> QED
    BY <2>1, <2>2, <2>3, <2>4, <2>5, <2>6, <2>7, <2>8, <2>9, <2>10, <2>11, <2>12 DEF Next
<1> QED BY <1>1, <1>2, PTL DEF Spec

-----------------------------------------------------------------------------
(* The approval queues *)

(* What the task helpers do to the number of pending tasks of every deal     *)
(* and role: creating fills an empty slot, completing takes one task away.   *)
LEMMA TaskCounts ==
    ASSUME NEW tasks \in [Deals -> [Roles -> Nat]], NEW d \in Deals, NEW r \in Roles,
           NEW e \in Deals, NEW q \in Roles
    PROVE  /\ create_task(tasks, d, r)[e][q] =
                 IF e = d /\ q = r /\ tasks[d][r] = 0 THEN 1 ELSE tasks[e][q]
           /\ complete_task(tasks, d, r)[e][q] =
                 IF e = d /\ q = r /\ tasks[d][r] > 0 THEN tasks[d][r] - 1 ELSE tasks[e][q]
           /\ complete_all(tasks, d)[e][q] = IF e = d THEN 0 ELSE tasks[e][q]
<1>1. create_task(tasks, d, r)[e][q] =
          IF e = d /\ q = r /\ tasks[d][r] = 0 THEN 1 ELSE tasks[e][q]
  BY DEF create_task
<1>2. complete_task(tasks, d, r)[e][q] =
          IF e = d /\ q = r /\ tasks[d][r] > 0 THEN tasks[d][r] - 1 ELSE tasks[e][q]
  BY DEF complete_task
<1>3. complete_all(tasks, d)[e][q] = IF e = d THEN 0 ELSE tasks[e][q]
  BY DEF complete_all
<1> QED BY <1>1, <1>2, <1>3

(* A row that does not exist yet has no task: with it, the invariant of the   *)
(* waiting deals is inductive.                                                *)
UnsubmittedNotQueued ==
    \A d \in Deals : status[d] = "NONE" => \A r \in Roles : pending[d][r] = 0

QueueInv == UnsubmittedNotQueued /\ PendingDealQueued

LEMMA QueueStep == TypeOK /\ QueueInv /\ [Next]_vars => QueueInv'
<1> SUFFICES ASSUME TypeOK, QueueInv, [Next]_vars, NEW e \in Deals
             PROVE  /\ status'[e] = "NONE" => \A r \in Roles : pending'[e][r] = 0
                    /\ status'[e] = "PENDING" =>
                          /\ approval_stage'[e] \in Roles
                          /\ \A r \in Roles : pending'[e][r] =
                                IF r = approval_stage'[e] THEN 1 ELSE 0
  BY DEF QueueInv, UnsubmittedNotQueued, PendingDealQueued
<1> DEFINE Goal == /\ status'[e] = "NONE" => \A r \in Roles : pending'[e][r] = 0
                   /\ status'[e] = "PENDING" =>
                         /\ approval_stage'[e] \in Roles
                         /\ \A r \in Roles : pending'[e][r] =
                               IF r = approval_stage'[e] THEN 1 ELSE 0
<1>0. /\ pending \in [Deals -> [Roles -> Nat]]
      /\ status \in [Deals -> Statuses]
      /\ approval_stage \in [Deals -> Stages]
  BY DEF TypeOK
<1>q. \A d \in Deals :
         /\ status[d] = "NONE" => \A r \in Roles : pending[d][r] = 0
         /\ status[d] = "PENDING" =>
               /\ approval_stage[d] \in Roles
               /\ \A r \in Roles : pending[d][r] = IF r = approval_stage[d] THEN 1 ELSE 0
  BY DEF QueueInv, UnsubmittedNotQueued, PendingDealQueued
<1>1. CASE UNCHANGED <<status, approval_stage, pending>>
  BY <1>q, <1>1
<1>2. ASSUME NEW org \in Orgs, NEW sp \in Salespeople, NEW p \in Phones,
             NEW d \in Deals, NEW in \in Quotes, create_deal(d, org, sp, p, in)
      PROVE  Goal
  <2> DEFINE to == _map_decision_to_status(CreateDecision(in, OrgConfig[org]))
  <2>1. /\ to.status \in {"PENDING", "APPROVED"}
        /\ to.status = "PENDING" => to.stage \in Roles
    BY Routing
  <2>2. /\ status[d] = "NONE"
        /\ status' = [status EXCEPT ![d] = to.status]
        /\ approval_stage' = [approval_stage EXCEPT ![d] = to.stage]
        /\ pending' = IF to.status = "APPROVED" THEN pending
                      ELSE create_task(pending, d, to.stage)
    BY <1>2 DEF create_deal, Exists
  <2> HIDE DEF to
  <2>3. CASE to.status = "APPROVED"
    BY <1>0, <1>q, <2>2, <2>3
  <2>4. CASE to.status = "PENDING"
    <3>1. /\ to.stage \in Roles /\ \A r \in Roles : pending[d][r] = 0
          /\ pending' = create_task(pending, d, to.stage)
      BY <1>q, <2>1, <2>2, <2>4
    <3>2. \A r \in Roles : pending'[e][r] =
              IF e = d /\ r = to.stage THEN 1 ELSE pending[e][r]
      <4> SUFFICES ASSUME NEW r \in Roles
                   PROVE  pending'[e][r] = IF e = d /\ r = to.stage THEN 1 ELSE pending[e][r]
        OBVIOUS
      <4>1. create_task(pending, d, to.stage)[e][r] =
                IF e = d /\ r = to.stage /\ pending[d][to.stage] = 0 THEN 1 ELSE pending[e][r]
        BY <1>0, <3>1, TaskCounts
      <4> QED BY <3>1, <4>1
    <3> QED BY <1>0, <1>q, <2>2, <2>4, <3>1, <3>2
  <2> QED BY <2>1, <2>3, <2>4
<1>3. ASSUME NEW d \in Deals, approve_gm_escalates(d) PROVE Goal
  <2>1. /\ status[d] = "PENDING" /\ status' = status
        /\ approval_stage' = [approval_stage EXCEPT ![d] = "DIRECTOR"]
        /\ pending' = create_task(complete_task(pending, d, "GM"), d, "DIRECTOR")
    BY <1>3 DEF approve_gm_escalates, Decidable
  <2> DEFINE done == complete_task(pending, d, "GM")
  <2>2. /\ done \in [Deals -> [Roles -> Nat]]
        /\ \A r \in Roles : done[e][r] =
              IF e = d /\ r = "GM" /\ pending[d]["GM"] > 0
              THEN pending[d]["GM"] - 1 ELSE pending[e][r]
        /\ done[d]["DIRECTOR"] = pending[d]["DIRECTOR"]
    <3>1. "GM" \in Roles /\ "DIRECTOR" \in Roles
      BY DEF Roles
    <3>2. done \in [Deals -> [Roles -> Nat]]
      BY <1>0, <3>1, TaskTypes
    <3>3. \A r \in Roles : done[e][r] =
              IF e = d /\ r = "GM" /\ pending[d]["GM"] > 0
              THEN pending[d]["GM"] - 1 ELSE pending[e][r]
      BY <1>0, <3>1, TaskCounts
    <3>4. done[d]["DIRECTOR"] = pending[d]["DIRECTOR"]
      BY <1>0, <3>1 DEF complete_task
    <3> QED BY <3>2, <3>3, <3>4
  <2> HIDE DEF done
  <2>3. \A r \in Roles : pending'[e][r] =
            IF e = d /\ r = "DIRECTOR" /\ done[d]["DIRECTOR"] = 0 THEN 1 ELSE done[e][r]
    BY <2>1, <2>2, TaskCounts DEF Roles, done
  <2>4. CASE e = d
    <3>1. \A r \in Roles : pending'[d][r] = IF r = "DIRECTOR" THEN 1 ELSE 0
      BY <1>q, <2>1, <2>2, <2>3, <2>4 DEF Roles
    <3> QED BY <1>0, <2>1, <2>4, <3>1 DEF Roles
  <2>5. CASE e # d
    BY <1>0, <1>q, <2>1, <2>2, <2>3, <2>5
  <2> QED BY <2>4, <2>5
<1>4. ASSUME NEW d \in Deals, NEW r \in Roles, Decide(d, "APPROVED"),
             pending' = complete_task(pending, d, r)
      PROVE  Goal
  <2>1. \A q \in Roles : e # d => pending'[e][q] = pending[e][q]
    BY <1>0, <1>4, TaskCounts
  <2> QED BY <1>0, <1>q, <1>4, <2>1 DEF Decide
<1>5. ASSUME NEW d \in Deals, reject_deal(d) PROVE Goal
  <2>1. \A q \in Roles : pending'[e][q] = IF e = d THEN 0 ELSE pending[e][q]
    BY <1>0, <1>5, TaskCounts DEF reject_deal
  <2> QED BY <1>0, <1>q, <1>5, <2>1 DEF reject_deal, Decide
<1> QED
  BY <1>1, <1>2, <1>3, <1>4, <1>5
     DEF Next, vars, deals, Tick, VerifyPhone, create_blocked, approve_gm, approve_director,
         approve_director_blocked, soft_delete_deal, restore_deal, Roles

(* No sequence of creations, escalations, decisions, deletions and restores  *)
(* loses a waiting deal or queues it twice (task_service.py and its callers).*)
THEOREM WaitingDealsQueued == Spec => []PendingDealQueued
<1>1. Init => QueueInv
  BY DEF Init, QueueInv, UnsubmittedNotQueued, PendingDealQueued
<1> QED BY <1>1, QueueStep, TypeCorrect, PTL DEF Spec, QueueInv

(* What the tasks of a decided deal may be: none, or one of the role that did *)
(* not approve it.                                                            *)
LeftTask(d, r) ==
    status[d] \in {"APPROVED", "REJECTED"} /\ pending[d][r] # 0 =>
        /\ status[d] = "APPROVED" /\ pending[d][r] = 1
        /\ \E q \in Roles \ {r} : ApprovalOf[q] \in events[d]

(* The task of the approving role goes, and the other queue held one task at  *)
(* most, as the deal was waiting.                                             *)
LEMMA ApprovalTasks ==
    ASSUME TypeOK, QueueInv, NEW d \in Deals, NEW q \in Roles, status[d] = "PENDING",
           Decide(d, "APPROVED"), pending' = complete_task(pending, d, q),
           _log_event(d, ApprovalOf[q]),
           NEW e \in Deals, NEW r \in Roles, LeftTask(e, r)
    PROVE  LeftTask(e, r)'
<1>1. pending \in [Deals -> [Roles -> Nat]] /\ status \in [Deals -> Statuses]
      /\ events \in [Deals -> SUBSET EventKinds]
  BY DEF TypeOK
<1>2. pending'[e][r] = IF e = d /\ r = q /\ pending[d][q] > 0
                       THEN pending[d][q] - 1 ELSE pending[e][r]
  BY <1>1, TaskCounts
<1>3. /\ status' = [status EXCEPT ![d] = "APPROVED"]
      /\ events' = [events EXCEPT ![d] = @ \cup {ApprovalOf[q]}]
  BY DEF Decide, _log_event
<1>4. CASE e # d
  BY <1>1, <1>2, <1>3, <1>4 DEF LeftTask
<1>5. CASE e = d
  <2>1. /\ approval_stage[d] \in Roles
        /\ pending[d][r] = IF r = approval_stage[d] THEN 1 ELSE 0
        /\ pending[d][q] = IF q = approval_stage[d] THEN 1 ELSE 0
    BY DEF QueueInv, PendingDealQueued
  <2>2. pending'[d][r] # 0 => r # q /\ pending'[d][r] = 1
    BY <1>2, <1>5, <2>1
  <2>3. status'[d] = "APPROVED" /\ ApprovalOf[q] \in events'[d]
    BY <1>1, <1>3
  <2> QED BY <1>5, <2>2, <2>3 DEF LeftTask
<1> QED BY <1>4, <1>5

LEMMA DecidedStep == TypeOK /\ QueueInv /\ DecidedLeavesQueues /\ [Next]_vars => DecidedLeavesQueues'
<1> SUFFICES ASSUME TypeOK, QueueInv, [Next]_vars, NEW e \in Deals, NEW r \in Roles,
                    LeftTask(e, r)
             PROVE  LeftTask(e, r)'
  BY DEF DecidedLeavesQueues, LeftTask
<1>0. /\ pending \in [Deals -> [Roles -> Nat]]
      /\ status \in [Deals -> Statuses]
      /\ events \in [Deals -> SUBSET EventKinds]
  BY DEF TypeOK
<1>1. ASSUME NEW org \in Orgs, NEW sp \in Salespeople, NEW p \in Phones,
             NEW d \in Deals, NEW in \in Quotes, create_deal(d, org, sp, p, in)
      PROVE  LeftTask(e, r)'
  <2> DEFINE to == _map_decision_to_status(CreateDecision(in, OrgConfig[org]))
  <2>1. /\ to.status \in {"PENDING", "APPROVED"}
        /\ to.status = "PENDING" => to.stage \in Roles
    BY Routing
  <2>2. /\ status[d] = "NONE"
        /\ status' = [status EXCEPT ![d] = to.status]
        /\ pending' = IF to.status = "APPROVED" THEN pending
                      ELSE create_task(pending, d, to.stage)
        /\ \E kind : events' = [events EXCEPT ![d] = @ \cup {kind}]
    BY <1>1 DEF create_deal, Exists, _log_event
  <2> HIDE DEF to
  <2>3. CASE e = d
    <3>1. pending[d][r] = 0
      BY <2>2 DEF QueueInv, UnsubmittedNotQueued
    <3>2. status'[d] = to.status
      BY <1>0, <2>2
    <3> QED BY <2>1, <2>2, <2>3, <3>1, <3>2 DEF LeftTask
  <2>4. CASE e # d
    <3>1. pending'[e][r] = pending[e][r]
      BY <1>0, <2>1, <2>2, <2>4, TaskCounts
    <3> QED BY <1>0, <2>2, <2>4, <3>1 DEF LeftTask
  <2> QED BY <2>3, <2>4
<1>2. ASSUME NEW d \in Deals, approve_gm_escalates(d) PROVE LeftTask(e, r)'
  <2>1. /\ status[d] = "PENDING" /\ status' = status
        /\ pending' = create_task(complete_task(pending, d, "GM"), d, "DIRECTOR")
        /\ events' = [events EXCEPT ![d] = @ \cup {"ESCALATED_TO_DIRECTOR"}]
    BY <1>2 DEF approve_gm_escalates, Decidable, _log_event
  <2>2. "GM" \in Roles /\ "DIRECTOR" \in Roles
    BY DEF Roles
  <2>3. complete_task(pending, d, "GM") \in [Deals -> [Roles -> Nat]]
    BY <1>0, <2>2, TaskTypes
  <2>4. e # d => pending'[e][r] = pending[e][r]
    BY <1>0, <2>1, <2>2, <2>3, TaskCounts
  <2> QED BY <1>0, <2>1, <2>4 DEF LeftTask
<1>3. ASSUME NEW d \in Deals, approve_gm(d) PROVE LeftTask(e, r)'
  <2>1. /\ status[d] = "PENDING" /\ Decide(d, "APPROVED")
        /\ pending' = complete_task(pending, d, "GM") /\ _log_event(d, ApprovalOf["GM"])
    BY <1>3 DEF approve_gm, Decidable, ApprovalOf
  <2> QED BY <2>1, ApprovalTasks DEF Roles
<1>4. ASSUME NEW d \in Deals, approve_director(d) PROVE LeftTask(e, r)'
  <2>1. /\ status[d] = "PENDING" /\ Decide(d, "APPROVED")
        /\ pending' = complete_task(pending, d, "DIRECTOR")
        /\ _log_event(d, ApprovalOf["DIRECTOR"])
    BY <1>4 DEF approve_director, Decidable, ApprovalOf
  <2> QED BY <2>1, ApprovalTasks DEF Roles
<1>5. ASSUME NEW d \in Deals, reject_deal(d) PROVE LeftTask(e, r)'
  <2>1. pending'[e][r] = IF e = d THEN 0 ELSE pending[e][r]
    BY <1>0, <1>5, TaskCounts DEF reject_deal
  <2>2. /\ status' = [status EXCEPT ![d] = "REJECTED"]
        /\ events' = [events EXCEPT ![d] = @ \cup {"DEAL_REJECTED"}]
    BY <1>5 DEF reject_deal, Decide, _log_event
  <2> QED BY <1>0, <2>1, <2>2 DEF LeftTask
<1>6. ASSUME NEW d \in Deals, soft_delete_deal(d) \/ restore_deal(d) PROVE LeftTask(e, r)'
  <2>1. status' = status /\ pending' = pending
        /\ \E kind : events' = [events EXCEPT ![d] = @ \cup {kind}]
    BY <1>6 DEF soft_delete_deal, restore_deal, _log_event
  <2> QED BY <1>0, <2>1 DEF LeftTask
<1>7. CASE UNCHANGED <<status, pending, events>>
  BY <1>7 DEF LeftTask
<1> QED
  BY <1>1, <1>2, <1>3, <1>4, <1>5, <1>6, <1>7
     DEF Next, vars, deals, Tick, VerifyPhone, create_blocked, approve_director_blocked

(* A rejected deal is in no queue and an approved one at most in that of the  *)
(* role that did not approve it (reject_deal and the two approvals).          *)
THEOREM DecidedDealsUnqueued == Spec => []DecidedLeavesQueues
<1>1. Init => QueueInv /\ DecidedLeavesQueues
  BY DEF Init, QueueInv, UnsubmittedNotQueued, PendingDealQueued, DecidedLeavesQueues
<1> QED BY <1>1, QueueStep, DecidedStep, TypeCorrect, PTL DEF Spec

-----------------------------------------------------------------------------
(* Verdicts *)

VerdictKinds == {"APPROVED_BY_GM", "APPROVED_BY_DIRECTOR", "DEAL_REJECTED"}

(* The two verdict invariants, strengthened to be inductive: an approval by a *)
(* GM is only ever found on a deal that is not above the director limit.      *)
VerdictTold(d) ==
    /\ status[d] \in {"NONE", "PENDING"} => events[d] \cap VerdictKinds = {}
    /\ status[d] = "REJECTED" => events[d] \cap VerdictKinds = {"DEAL_REJECTED"}
    /\ status[d] = "APPROVED" =>
          \/ events[d] \cap VerdictKinds = {"APPROVED_BY_GM"} /\ ~AboveDirectorLimit(d)
          \/ events[d] \cap VerdictKinds = {"APPROVED_BY_DIRECTOR"}
          \/ /\ events[d] \cap VerdictKinds = {}
             /\ ~AboveDirectorLimit(d) /\ deal[d].margin >= 0

VerdictInv == \A d \in Deals : VerdictTold(d)

(* Only create_deal changes what a deal is worth, and only on a new row.      *)
LEMMA LimitStable ==
    ASSUME NEW e \in Deals, deal'[e] = deal[e], Exists(e)' <=> Exists(e)
    PROVE  AboveDirectorLimit(e)' <=> AboveDirectorLimit(e)
BY DEF AboveDirectorLimit

LEMMA VerdictStep == TypeOK /\ VerdictInv /\ [Next]_vars => VerdictInv'
<1> SUFFICES ASSUME TypeOK, VerdictInv, [Next]_vars, NEW e \in Deals
             PROVE  VerdictTold(e)'
  BY DEF VerdictInv
<1>0. /\ VerdictTold(e)
      /\ status \in [Deals -> Statuses] /\ events \in [Deals -> SUBSET EventKinds]
      /\ deal \in [Deals -> DealRow]
  BY DEF TypeOK, VerdictInv
<1> USE <1>0
(* Nothing VerdictTold reads changes but, at most, events of another kind.    *)
<1>1. ASSUME UNCHANGED <<deal, status>>,
             events'[e] \cap VerdictKinds = events[e] \cap VerdictKinds
      PROVE  VerdictTold(e)'
  <2>1. AboveDirectorLimit(e)' <=> AboveDirectorLimit(e)
    BY <1>1, LimitStable DEF Exists
  <2> QED BY <1>1, <2>1 DEF VerdictTold
<1>2. ASSUME UNCHANGED <<deal, status>>, UNCHANGED events PROVE VerdictTold(e)'
  BY <1>1, <1>2
<1>3. ASSUME NEW d \in Deals, NEW kind \in EventKinds \ VerdictKinds,
             UNCHANGED <<deal, status>>, _log_event(d, kind)
      PROVE  VerdictTold(e)'
  <2>1. events'[e] \cap VerdictKinds = events[e] \cap VerdictKinds
    BY <1>3 DEF _log_event
  <2> QED BY <1>1, <1>3, <2>1
<1>4. ASSUME NEW org \in Orgs, NEW sp \in Salespeople, NEW p \in Phones,
             NEW d \in Deals, NEW in \in Quotes, create_deal(d, org, sp, p, in)
      PROVE  VerdictTold(e)'
  <2> DEFINE to == _map_decision_to_status(CreateDecision(in, OrgConfig[org]))
  <2>1. /\ to.status \in {"PENDING", "APPROVED"}
        /\ to.status = "APPROVED" =>
              /\ ~(total_discount(in) > OrgConfig[org].director_discount_limit)
              /\ CreateMargin(in) >= 0
    BY Routing
  <2>2. /\ status[d] = "NONE"
        /\ status' = [status EXCEPT ![d] = to.status]
        /\ deal' = [deal EXCEPT ![d] = NewDeal(org, sp, p, in)]
        /\ events' = [events EXCEPT ![d] = @ \cup {"DEAL_CREATED"}]
    BY <1>4 DEF create_deal, Exists, _log_event
  <2> HIDE DEF to
  <2>3. CASE e = d
    <3>1. /\ events[e] \cap VerdictKinds = {}
          /\ events'[e] \cap VerdictKinds = {}
      BY <2>2, <2>3 DEF VerdictTold, VerdictKinds
    <3>2. /\ deal'[e].organization_id = org
          /\ deal'[e].discount = total_discount(in)
          /\ deal'[e].margin = CreateMargin(in)
      BY <2>2, <2>3 DEF NewDeal
    <3> QED BY <2>1, <2>2, <2>3, <3>1, <3>2 DEF VerdictTold, AboveDirectorLimit
  <2>4. CASE e # d
    <3>1. deal'[e] = deal[e] /\ status'[e] = status[e] /\ events'[e] = events[e]
      BY <2>2, <2>4
    <3>2. AboveDirectorLimit(e)' <=> AboveDirectorLimit(e)
      BY <3>1, LimitStable DEF Exists
    <3> QED BY <3>1, <3>2 DEF VerdictTold
  <2> QED BY <2>3, <2>4
<1>5. ASSUME NEW d \in Deals, NEW kind \in VerdictKinds, NEW verdict, Decidable(d),
             Decide(d, verdict), _log_event(d, kind),
             \/ verdict = "REJECTED" /\ kind = "DEAL_REJECTED"
             \/ verdict = "APPROVED" /\ kind = "APPROVED_BY_DIRECTOR"
             \/ verdict = "APPROVED" /\ kind = "APPROVED_BY_GM" /\ ~AboveDirectorLimit(d)
      PROVE  VerdictTold(e)'
  <2>1. /\ status[d] = "PENDING" /\ status' = [status EXCEPT ![d] = verdict]
        /\ deal' = deal
        /\ events' = [events EXCEPT ![d] = @ \cup {kind}]
    BY <1>5 DEF Decidable, Decide, _log_event
  <2>2. AboveDirectorLimit(e)' <=> AboveDirectorLimit(e)
    BY <1>5, <2>1, LimitStable DEF Exists
  <2>3. CASE e = d
    <3>1. events'[e] \cap VerdictKinds = {kind}
      BY <1>5, <2>1, <2>3 DEF VerdictTold
    <3> QED BY <1>5, <2>1, <2>2, <2>3, <3>1 DEF VerdictTold
  <2>4. CASE e # d
    BY <2>1, <2>2, <2>4 DEF VerdictTold
  <2> QED BY <2>3, <2>4
<1> QED
  <2> USE DEF VerdictKinds, EventKinds
  <2>1. ASSUME NEW d \in Deals, approve_gm_escalates(d) PROVE VerdictTold(e)'
    BY <1>3, <2>1 DEF approve_gm_escalates
  <2>2. ASSUME NEW d \in Deals, soft_delete_deal(d) \/ restore_deal(d) PROVE VerdictTold(e)'
    BY <1>3, <2>2 DEF soft_delete_deal, restore_deal
  <2>3. ASSUME NEW d \in Deals, approve_gm(d) PROVE VerdictTold(e)'
    BY <1>5, <2>3 DEF approve_gm
  <2>4. ASSUME NEW d \in Deals, approve_director(d) PROVE VerdictTold(e)'
    BY <1>5, <2>4 DEF approve_director
  <2>5. ASSUME NEW d \in Deals, reject_deal(d) PROVE VerdictTold(e)'
    BY <1>5, <2>5 DEF reject_deal
  <2>6. CASE UNCHANGED vars
    BY <1>2, <2>6 DEF vars, deals
  <2>7. ASSUME NEW d \in Deals, approve_director_blocked(d) PROVE VerdictTold(e)'
    BY <1>2, <2>7 DEF approve_director_blocked, deals
  <2>8. ASSUME NEW org \in Orgs, NEW sp \in Salespeople, NEW p \in Phones,
               create_blocked(org, sp, p)
        PROVE  VerdictTold(e)'
    BY <1>2, <2>8 DEF create_blocked, deals
  <2>9. ASSUME Tick \/ \E p \in Phones : VerifyPhone(p) PROVE VerdictTold(e)'
    BY <1>2, <2>9 DEF Tick, VerifyPhone, deals
  <2> QED
    BY <1>4, <2>1, <2>2, <2>3, <2>4, <2>5, <2>6, <2>7, <2>8, <2>9 DEF Next

LEMMA VerdictInvHolds == Spec => []VerdictInv
<1>1. Init => VerdictInv
  BY DEF Init, VerdictInv, VerdictTold
<1> QED BY <1>1, VerdictStep, TypeCorrect, PTL DEF Spec

(* A discount above the organization's director limit is approved by the     *)
(* director's own handler or not at all, through any sequence of handlers.   *)
THEOREM DirectorSigns == Spec => []DirectorSignsAboveLimit
<1>1. VerdictInv => DirectorSignsAboveLimit
  BY DEF VerdictInv, VerdictTold, DirectorSignsAboveLimit, VerdictKinds
<1> QED BY <1>1, VerdictInvHolds, PTL

(* The event history of a deal tells exactly one verdict, the one its row    *)
(* has: no two handlers decide the same deal.                                *)
THEOREM OneVerdict == Spec => []HistoryTellsVerdict
<1>1. VerdictInv => HistoryTellsVerdict
  BY DEF VerdictInv, VerdictTold, HistoryTellsVerdict, VerdictKinds
<1> QED BY <1>1, VerdictInvHolds, PTL

-----------------------------------------------------------------------------
(* Refinement: the workflow implements ApprovalAuthority *)

Frame(e) ==
    /\ status'[e] = status[e]
    /\ AboveDirectorLimit(e)' = AboveDirectorLimit(e)
    /\ Signer(e)' = Signer(e)

(* Deletion, restoration, escalation, verification, refusals and time are   *)
(* stuttering steps: they add no verdict and change no discount.            *)
LEMMA Stutters ==
    ASSUME status' = status, deal' = deal,
           \A e \in Deals : events'[e] \cap VerdictKinds = events[e] \cap VerdictKinds
    PROVE  UNCHANGED Authority!vars
<1>1. ASSUME NEW e \in Deals PROVE Frame(e)
  <2>1. AboveDirectorLimit(e)' = AboveDirectorLimit(e)
    BY DEF AboveDirectorLimit, Exists
  <2>2. /\ "APPROVED_BY_GM" \in events'[e] <=> "APPROVED_BY_GM" \in events[e]
        /\ "APPROVED_BY_DIRECTOR" \in events'[e] <=> "APPROVED_BY_DIRECTOR" \in events[e]
    BY DEF VerdictKinds
  <2> QED BY <2>1, <2>2 DEF Frame, Signer
<1>2. [d \in Deals |-> AboveDirectorLimit(d)]' = [d \in Deals |-> AboveDirectorLimit(d)]
  BY <1>1, Zenon DEF Frame
<1>3. [d \in Deals |-> Signer(d)]' = [d \in Deals |-> Signer(d)]
  BY <1>1, Zenon DEF Frame
<1> QED BY <1>2, <1>3 DEF Authority!vars

(* A deal whose row, status and history do not change keeps its abstract     *)
(* state.                                                                    *)
LEMMA FrameKeeps ==
    ASSUME NEW e \in Deals, status'[e] = status[e], deal'[e] = deal[e],
           events'[e] = events[e]
    PROVE  Frame(e)
BY DEF Frame, Signer, AboveDirectorLimit, Exists

(* Every step of the workflow is a submission, a signature or a refusal of   *)
(* ApprovalAuthority, or changes nothing it shows.                           *)
LEMMA Simulates ==
    TypeOK /\ VerdictInv /\ [Next]_vars => [Authority!Next]_(Authority!vars)
<1> SUFFICES ASSUME TypeOK, VerdictInv, [Next]_vars
             PROVE  Authority!Next \/ UNCHANGED Authority!vars
  OBVIOUS
<1>0. /\ status \in [Deals -> Statuses] /\ events \in [Deals -> SUBSET EventKinds]
      /\ deal \in [Deals -> DealRow]
      /\ \A d \in Deals : VerdictTold(d)
  BY DEF TypeOK, VerdictInv
<1> USE <1>0
<1> DEFINE above == [d \in Deals |-> AboveDirectorLimit(d)]
           signedBy == [d \in Deals |-> Signer(d)]
<1>1. ASSUME NEW org \in Orgs, NEW sp \in Salespeople, NEW p \in Phones,
             NEW d \in Deals, NEW in \in Quotes, create_deal(d, org, sp, p, in)
      PROVE  Authority!Submit(d)
  <2> DEFINE to == _map_decision_to_status(CreateDecision(in, OrgConfig[org]))
             a == total_discount(in) > OrgConfig[org].director_discount_limit
  <2>1. /\ to.status \in {"PENDING", "APPROVED"}
        /\ to.status = "APPROVED" => ~a
    BY Routing
  <2>2. /\ status[d] = "NONE"
        /\ status' = [status EXCEPT ![d] = to.status]
        /\ deal' = [deal EXCEPT ![d] = NewDeal(org, sp, p, in)]
        /\ events' = [events EXCEPT ![d] = @ \cup {"DEAL_CREATED"}]
    BY <1>1 DEF create_deal, Exists, _log_event
  <2> HIDE DEF to
  <2>3. \A e \in Deals : e # d => Frame(e)
    BY <2>2, FrameKeeps
  <2>4. AboveDirectorLimit(d)' = a /\ a \in BOOLEAN
    <3>1. /\ deal'[d].organization_id = org
          /\ deal'[d].discount = total_discount(in)
          /\ status'[d] # "NONE"
      BY <2>1, <2>2 DEF NewDeal
    <3>2. AboveDirectorLimit(d)' <=> a
      BY <3>1 DEF AboveDirectorLimit, Exists
    <3>3. AboveDirectorLimit(d)' \in BOOLEAN /\ a \in BOOLEAN
      BY DEF AboveDirectorLimit
    <3> QED BY <3>2, <3>3
  <2>5. Signer(d)' = IF to.status = "APPROVED" THEN "system" ELSE Signer(d)
    <3>1. events'[d] \cap VerdictKinds = {}
      BY <2>2 DEF VerdictTold, VerdictKinds
    <3>2. Signer(d) = "nobody"
      BY <2>2 DEF Signer
    <3> QED BY <2>1, <2>2, <3>1, <3>2 DEF Signer, VerdictKinds
  <2> HIDE DEF a
  <2>6. above' = [above EXCEPT ![d] = a]
    BY <2>3, <2>4 DEF Frame
  <2>7. signedBy' = IF to.status = "APPROVED" THEN [signedBy EXCEPT ![d] = "system"]
                    ELSE signedBy
    BY <2>1, <2>3, <2>5 DEF Frame
  <2>8. above'[d] = a
    BY <2>4
  <2> HIDE DEF above, signedBy
  <2> QED BY <2>1, <2>2, <2>4, <2>6, <2>7, <2>8 DEF Authority!Submit, above, signedBy
<1>2. ASSUME NEW d \in Deals, Decidable(d), NEW who \in {"GM", "DIRECTOR"},
             Decide(d, "APPROVED"), AboveDirectorLimit(d) => who = "DIRECTOR",
             _log_event(d, IF who = "GM" THEN "APPROVED_BY_GM" ELSE "APPROVED_BY_DIRECTOR")
      PROVE  Authority!Sign(d, who)
  <2>1. /\ status[d] = "PENDING" /\ deal' = deal
        /\ status' = [status EXCEPT ![d] = "APPROVED"]
    BY <1>2 DEF Decidable, Decide
  <2>2. \A e \in Deals : e # d => Frame(e)
    BY <1>2, <2>1, FrameKeeps DEF _log_event
  <2>3. AboveDirectorLimit(d)' = AboveDirectorLimit(d)
    BY <2>1 DEF AboveDirectorLimit, Exists
  <2>4. Signer(d)' = who
    BY <1>2, <2>1 DEF Signer, _log_event, VerdictTold, VerdictKinds
  <2>5. above' = above /\ signedBy' = [signedBy EXCEPT ![d] = who]
    BY <2>2, <2>3, <2>4 DEF Frame
  <2>6. above[d] => who = "DIRECTOR"
    BY <1>2
  <2> HIDE DEF above, signedBy
  <2> QED BY <2>1, <2>5, <2>6 DEF Authority!Sign, above, signedBy
<1>3. ASSUME NEW d \in Deals, reject_deal(d) PROVE Authority!Refuse(d)
  <2>1. /\ status[d] = "PENDING" /\ deal' = deal
        /\ status' = [status EXCEPT ![d] = "REJECTED"]
        /\ events' = [events EXCEPT ![d] = @ \cup {"DEAL_REJECTED"}]
    BY <1>3 DEF reject_deal, Decidable, Decide, _log_event
  <2>2. \A e \in Deals : e # d => Frame(e)
    BY <2>1, FrameKeeps
  <2>3. AboveDirectorLimit(d)' = AboveDirectorLimit(d) /\ Signer(d)' = Signer(d)
    BY <2>1 DEF AboveDirectorLimit, Exists, Signer
  <2>4. above' = above /\ signedBy' = signedBy
    BY <2>2, <2>3 DEF Frame
  <2> HIDE DEF above, signedBy
  <2> QED BY <2>1, <2>4 DEF Authority!Refuse, above, signedBy
(* The handlers that add no verdict. *)
<1>4. ASSUME NEW d \in Deals, NEW kind \in EventKinds \ VerdictKinds,
             UNCHANGED <<deal, status>>, _log_event(d, kind)
      PROVE  UNCHANGED Authority!vars
  <2>1. \A e \in Deals : events'[e] \cap VerdictKinds = events[e] \cap VerdictKinds
    BY <1>4 DEF _log_event
  <2> QED BY <1>4, <2>1, Stutters
<1>5. ASSUME UNCHANGED <<deal, status, events>> PROVE UNCHANGED Authority!vars
  BY <1>5, Stutters
<1> QED
  <2> USE DEF VerdictKinds, EventKinds
  <2>1. ASSUME NEW d \in Deals, approve_gm_escalates(d) PROVE UNCHANGED Authority!vars
    BY <1>4, <2>1 DEF approve_gm_escalates
  <2>2. ASSUME NEW d \in Deals, soft_delete_deal(d) \/ restore_deal(d)
        PROVE  UNCHANGED Authority!vars
    BY <1>4, <2>2 DEF soft_delete_deal, restore_deal
  <2>3. ASSUME NEW d \in Deals, approve_gm(d) PROVE Authority!Sign(d, "GM")
    BY <1>2, <2>3 DEF approve_gm
  <2>4. ASSUME NEW d \in Deals, approve_director(d) PROVE Authority!Sign(d, "DIRECTOR")
    BY <1>2, <2>4 DEF approve_director
  <2>5. ASSUME \/ Tick
               \/ \E p \in Phones : VerifyPhone(p)
               \/ \E org \in Orgs, sp \in Salespeople, p \in Phones : create_blocked(org, sp, p)
               \/ \E d \in Deals : approve_director_blocked(d)
               \/ UNCHANGED vars
        PROVE  UNCHANGED Authority!vars
    BY <1>5, <2>5
       DEF Tick, VerifyPhone, create_blocked, approve_director_blocked, vars, deals
  <2> QED BY <1>1, <1>3, <2>1, <2>2, <2>3, <2>4, <2>5 DEF Next, Authority!Next

(* The whole pipeline - tasks, stages, escalation, fraud rules, trash and    *)
(* restore - implements the approval promise: one final verdict per deal,    *)
(* and above the director limit only the director's signature.               *)
THEOREM Refinement == Spec => ImplementsAuthority
<1>1. Init => Authority!Init
  <2> SUFFICES ASSUME Init PROVE Authority!Init
    OBVIOUS
  <2>1. \A d \in Deals : status[d] = "NONE"
    BY DEF Init
  <2>2. \A d \in Deals : AboveDirectorLimit(d) = FALSE /\ Signer(d) = "nobody"
    BY <2>1 DEF AboveDirectorLimit, Exists, Signer
  <2> QED BY <2>2 DEF Init, Authority!Init
<1> QED
  BY <1>1, Simulates, TypeCorrect, VerdictInvHolds, PTL
     DEF Spec, ImplementsAuthority, Authority!Spec

-----------------------------------------------------------------------------
(* Phones and the trash *)

(* What a step does to the phone and the trash of every deal: it creates one  *)
(* whose phone nobody active has, restores one that the index accepts, or     *)
(* makes none of the others active.                                           *)
LEMMA PhoneSteps ==
    ASSUME TypeOK, [Next]_vars
    PROVE  \/ \E d \in Deals : \E phone :
                /\ ~\E e \in Deals : Loadable(e) /\ deal[e].customer_phone = phone
                /\ \A e \in Deals : deal'[e].customer_phone =
                      IF e = d THEN phone ELSE deal[e].customer_phone
                /\ \A e \in Deals \ {d} : Loadable(e)' => Loadable(e)
           \/ \E d \in Deals : /\ IndexAccepts(d) /\ deal' = deal
                               /\ \A e \in Deals \ {d} : Loadable(e)' => Loadable(e)
           \/ deal' = deal /\ \A e \in Deals : Loadable(e)' => Loadable(e)
<1>0. /\ deal \in [Deals -> DealRow] /\ status \in [Deals -> Statuses]
      /\ is_deleted \in [Deals -> BOOLEAN]
  BY DEF TypeOK
<1>1. ASSUME NEW org \in Orgs, NEW sp \in Salespeople, NEW p \in Phones,
             NEW d \in Deals, NEW in \in Quotes, create_deal(d, org, sp, p, in)
      PROVE  /\ ~\E e \in Deals : Loadable(e) /\ deal[e].customer_phone = p
             /\ \A e \in Deals : deal'[e].customer_phone =
                   IF e = d THEN p ELSE deal[e].customer_phone
             /\ \A e \in Deals \ {d} : Loadable(e)' => Loadable(e)
  <2>1. /\ ~PhoneInUse(p) /\ is_deleted' = is_deleted
        /\ deal' = [deal EXCEPT ![d] = NewDeal(org, sp, p, in)]
        /\ \A e \in Deals \ {d} : status'[e] = status[e]
    BY <1>0, <1>1 DEF create_deal, CreateChecks
  <2>2. NewDeal(org, sp, p, in).customer_phone = p
    BY DEF NewDeal
  <2> QED BY <1>0, <2>1, <2>2 DEF PhoneInUse, Loadable, Exists
<1>2. ASSUME NEW d \in Deals, restore_deal(d)
      PROVE  /\ IndexAccepts(d) /\ deal' = deal
             /\ \A e \in Deals \ {d} : Loadable(e)' => Loadable(e)
  BY <1>0, <1>2 DEF restore_deal, Loadable, Exists
<1>3. ASSUME NEW d \in Deals,
             \/ approve_gm_escalates(d) \/ approve_gm(d) \/ approve_director(d)
             \/ approve_director_blocked(d) \/ reject_deal(d) \/ soft_delete_deal(d)
      PROVE  deal' = deal /\ \A e \in Deals : Loadable(e)' => Loadable(e)
  BY <1>0, <1>3
     DEF approve_gm_escalates, approve_gm, approve_director, approve_director_blocked,
         reject_deal, soft_delete_deal, Decide, Decidable, Loadable, Exists, deals
<1>4. UNCHANGED deals => deal' = deal /\ \A e \in Deals : Loadable(e)' => Loadable(e)
  BY DEF deals, Loadable, Exists
<1> QED BY <1>1, <1>2, <1>3, <1>4 DEF Next, vars, Tick, VerifyPhone, create_blocked, deals

(* create_deal looks for the phone and restore_deal leaves it to the index:   *)
(* with both, two active deals never share one, however many there are.       *)
THEOREM PhonesApart == Spec => []ActivePhonesDistinct
<1>1. Init => ActivePhonesDistinct
  BY DEF Init, ActivePhonesDistinct, Loadable, Exists
<1>2. TypeOK /\ ActivePhonesDistinct /\ [Next]_vars => ActivePhonesDistinct'
  <2> SUFFICES ASSUME TypeOK, ActivePhonesDistinct, [Next]_vars,
                      NEW d \in Deals, NEW e \in Deals, Loadable(d)', Loadable(e)', d # e
               PROVE  deal'[d].customer_phone # deal'[e].customer_phone
    BY DEF ActivePhonesDistinct
  <2> QED BY PhoneSteps DEF ActivePhonesDistinct, IndexAccepts
<1> QED BY <1>1, <1>2, TypeCorrect, PTL DEF Spec

(* No deal is born in the trash.                                              *)
FreshOutOfTrash == \A d \in Deals : status[d] = "NONE" => ~is_deleted[d]

(* A deal in the trash, or on its way there or back, keeps its row, stage and *)
(* tasks (every handler loads only deals that are not deleted).               *)
THEOREM TrashUntouched == Spec => TrashKeepsWorkflow
<1> DEFINE Kept == \A d \in Deals :
          is_deleted[d] \/ is_deleted'[d] =>
              /\ status'[d] = status[d] /\ approval_stage'[d] = approval_stage[d]
              /\ deal'[d] = deal[d] /\ pending'[d] = pending[d]
<1>1. Init => FreshOutOfTrash
  BY DEF Init, FreshOutOfTrash
<1>2. TypeOK /\ FreshOutOfTrash /\ [Next]_vars => FreshOutOfTrash' /\ Kept
  <2> SUFFICES ASSUME TypeOK, FreshOutOfTrash, [Next]_vars, NEW e \in Deals
               PROVE  /\ status'[e] = "NONE" => ~is_deleted'[e]
                      /\ is_deleted[e] \/ is_deleted'[e] =>
                           /\ status'[e] = status[e] /\ approval_stage'[e] = approval_stage[e]
                           /\ deal'[e] = deal[e] /\ pending'[e] = pending[e]
    BY DEF FreshOutOfTrash
  <2>0. /\ deal \in [Deals -> DealRow] /\ status \in [Deals -> Statuses]
        /\ approval_stage \in [Deals -> Stages] /\ is_deleted \in [Deals -> BOOLEAN]
        /\ pending \in [Deals -> [Roles -> Nat]]
        /\ status[e] = "NONE" => ~is_deleted[e]
    BY DEF TypeOK, FreshOutOfTrash
  <2> DEFINE Same == /\ status'[e] = status[e] /\ approval_stage'[e] = approval_stage[e]
                     /\ deal'[e] = deal[e] /\ pending'[e] = pending[e]
             Goal == /\ status'[e] = "NONE" => ~is_deleted'[e]
                     /\ is_deleted[e] \/ is_deleted'[e] => Same
  <2>1. ASSUME NEW org \in Orgs, NEW sp \in Salespeople, NEW p \in Phones,
               NEW d \in Deals, NEW in \in Quotes, create_deal(d, org, sp, p, in)
        PROVE  Goal
    <3>1. /\ status[d] = "NONE" /\ is_deleted' = is_deleted
          /\ e # d => Same
      BY <2>0, <2>1 DEF create_deal, Exists, create_task
    <3> QED BY <2>0, <3>1
  <2>2. ASSUME NEW d \in Deals,
               \/ approve_gm_escalates(d) \/ approve_gm(d) \/ approve_director(d)
               \/ reject_deal(d)
        PROVE  Goal
    <3>1. is_deleted' = is_deleted /\ ~is_deleted[d] /\ status[d] = "PENDING"
      BY <2>2 DEF approve_gm_escalates, approve_gm, approve_director, reject_deal, Decide,
                  Decidable, Loadable
    <3>2. e # d => Same
      BY <2>0, <2>2 DEF approve_gm_escalates, approve_gm, approve_director, reject_deal, Decide,
                  create_task, complete_task, complete_all
    <3> QED BY <2>0, <3>1, <3>2
  <2>3. ASSUME NEW d \in Deals, soft_delete_deal(d) \/ restore_deal(d)
        PROVE  Goal
    <3>1. Same /\ (status[d] # "NONE") /\ (e # d => is_deleted'[e] = is_deleted[e])
      BY <2>0, <2>3 DEF soft_delete_deal, restore_deal, Loadable, Exists
    <3> QED BY <2>0, <3>1
  <2>4. CASE UNCHANGED deals /\ UNCHANGED pending
    BY <2>0, <2>4 DEF deals
  <2> QED BY <2>1, <2>2, <2>3, <2>4
             DEF Next, vars, Tick, VerifyPhone, create_blocked, approve_director_blocked
<1> QED
  <2>1. TypeOK /\ FreshOutOfTrash /\ [Next]_vars => Kept
    BY <1>2
  <2> QED BY <1>1, <1>2, <2>1, TypeCorrect, PTL DEF Spec, TrashKeepsWorkflow

-----------------------------------------------------------------------------
(* The fraud windows *)

(* The deals created in a window for one phone, and by one salesperson.       *)
OfPhone(org, from, p) ==
    {d \in Deals : /\ Exists(d) /\ deal[d].organization_id = org
                   /\ deal[d].created_at \in from..from + DAY
                   /\ deal[d].customer_phone = p}

OfSalesperson(org, from, sp) ==
    {d \in Deals : /\ Exists(d) /\ deal[d].organization_id = org
                   /\ deal[d].created_at \in from..from + HOUR
                   /\ deal[d].salesperson_id = sp}

(* The limits, for any beginning of a window; and that there are finitely     *)
(* many deals, none from the future.                                          *)
WindowInv ==
    /\ IsFiniteSet({d \in Deals : Exists(d)})
    /\ \A d \in Deals : Exists(d) => deal[d].created_at <= clock
    /\ \A org \in Orgs, from \in Nat :
          /\ \A p \in Phones : Cardinality(OfPhone(org, from, p)) <= MAX_DAILY_DEALS_PER_PHONE
          /\ \A sp \in Salespeople :
                Cardinality(OfSalesperson(org, from, sp)) <= MAX_HOURLY_DEALS_PER_SALESPERSON

(* What the query counted, and the deal it let in.                            *)
LEMMA OneMore ==
    ASSUME NEW counted, IsFiniteSet(counted), NEW limit \in Nat, Cardinality(counted) < limit,
           NEW d, NEW window, window \subseteq counted \cup {d}
    PROVE  Cardinality(window) <= limit
<1>1. IsFiniteSet(counted \cup {d}) /\ Cardinality(counted \cup {d}) <= Cardinality(counted) + 1
  BY FS_AddElement, FS_CardinalityType
<1>2. IsFiniteSet(window) /\ Cardinality(window) <= Cardinality(counted \cup {d})
  BY <1>1, FS_Subset
<1> QED BY <1>1, <1>2, FS_CardinalityType

(* The last deal of a window is created while the others of the window are in *)
(* the query's own.                                                           *)
LEMMA CreateKeepsWindows ==
    ASSUME TypeOK, WindowInv, NEW org \in Orgs, NEW sp \in Salespeople, NEW p \in Phones,
           NEW d \in Deals, NEW in \in Quotes, create_deal(d, org, sp, p, in)
    PROVE  WindowInv'
<1> DEFINE to == _map_decision_to_status(CreateDecision(in, OrgConfig[org]))
           There == {e \in Deals : Exists(e)}
<1>0. /\ deal \in [Deals -> DealRow] /\ status \in [Deals -> Statuses] /\ clock \in Nat
      /\ HOUR \in Nat /\ DAY \in Nat
      /\ MAX_DAILY_DEALS_PER_PHONE \in Nat /\ MAX_HOURLY_DEALS_PER_SALESPERSON \in Nat
      /\ \A e \in Deals : deal[e].created_at \in Nat
  BY FraudAssumption DEF TypeOK, DealRow
<1>1. /\ ~Exists(d) /\ clock' = clock
      /\ check_fraud_rules(p, org, sp) = Allowed
      /\ deal'[d] = NewDeal(org, sp, p, in)
      /\ \A e \in Deals \ {d} : deal'[e] = deal[e] /\ (Exists(e)' <=> Exists(e))
  BY <1>0 DEF create_deal, Exists
<1>2. Exists(d)'
  <2>1. status'[d] = to.status
    BY <1>0 DEF create_deal
  <2>2. to.status \in {"PENDING", "APPROVED"}
    BY Routing
  <2> HIDE DEF to
  <2> QED BY <2>1, <2>2 DEF Exists
<1> DEFINE new == deal'[d]
<1>3. /\ new.organization_id = org /\ new.salesperson_id = sp
      /\ new.customer_phone = p /\ new.created_at = clock
  BY <1>1 DEF NewDeal
<1> HIDE DEF new
<1>4. IsFiniteSet(There)
  BY DEF WindowInv
<1>5. IsFiniteSet(There')
  <2>1. There' = There \cup {d}
    BY <1>1, <1>2
  <2> QED BY <1>4, <2>1, FS_AddElement
<1>6. /\ IsFiniteSet(DailyDeals(org, p)) /\ IsFiniteSet(HourlyDeals(org, sp))
      /\ Cardinality(DailyDeals(org, p)) < MAX_DAILY_DEALS_PER_PHONE
      /\ Cardinality(HourlyDeals(org, sp)) < MAX_HOURLY_DEALS_PER_SALESPERSON
  <2>1. DailyDeals(org, p) \subseteq There /\ HourlyDeals(org, sp) \subseteq There
    BY DEF DailyDeals, HourlyDeals
  <2>2. IsFiniteSet(DailyDeals(org, p)) /\ IsFiniteSet(HourlyDeals(org, sp))
    BY <1>4, <2>1, FS_Subset
  <2>3. Cardinality(DailyDeals(org, p)) \in Nat /\ Cardinality(HourlyDeals(org, sp)) \in Nat
    BY <2>2, FS_CardinalityType
  <2> QED BY <1>0, <1>1, <2>2, <2>3 DEF check_fraud_rules, Allowed
<1>7. \A e \in Deals : Exists(e)' => deal'[e].created_at <= clock'
  BY <1>0, <1>1, <1>3 DEF WindowInv, new
<1>8. ASSUME NEW o \in Orgs, NEW from \in Nat, NEW q \in Phones
      PROVE  Cardinality(OfPhone(o, from, q)') <= MAX_DAILY_DEALS_PER_PHONE
  <2>1. CASE d \in OfPhone(o, from, q)'
    <3>1. o = org /\ q = p /\ from <= clock /\ clock <= from + DAY
      BY <1>0, <1>3, <2>1 DEF OfPhone, new
    <3>2. OfPhone(o, from, q)' \subseteq DailyDeals(org, p) \cup {d}
      <4> SUFFICES ASSUME NEW e \in OfPhone(o, from, q)', e # d
                   PROVE  e \in DailyDeals(org, p)
        OBVIOUS
      <4>1. /\ e \in Deals /\ Exists(e) /\ deal[e].organization_id = org
            /\ deal[e].customer_phone = p /\ from <= deal[e].created_at
        BY <1>0, <1>1, <3>1 DEF OfPhone
      <4>2. deal[e].created_at >= clock - DAY
        BY <1>0, <3>1, <4>1
      <4> QED BY <4>1, <4>2 DEF DailyDeals
    <3> QED BY <1>0, <1>6, <3>2, OneMore
  <2>2. CASE d \notin OfPhone(o, from, q)'
    <3>1. OfPhone(o, from, q)' = OfPhone(o, from, q)
      BY <1>1, <2>2 DEF OfPhone
    <3> QED BY <3>1 DEF WindowInv
  <2> QED BY <2>1, <2>2
<1>9. ASSUME NEW o \in Orgs, NEW from \in Nat, NEW s \in Salespeople
      PROVE  Cardinality(OfSalesperson(o, from, s)') <= MAX_HOURLY_DEALS_PER_SALESPERSON
  <2>1. CASE d \in OfSalesperson(o, from, s)'
    <3>1. o = org /\ s = sp /\ from <= clock /\ clock <= from + HOUR
      BY <1>0, <1>3, <2>1 DEF OfSalesperson, new
    <3>2. OfSalesperson(o, from, s)' \subseteq HourlyDeals(org, sp) \cup {d}
      <4> SUFFICES ASSUME NEW e \in OfSalesperson(o, from, s)', e # d
                   PROVE  e \in HourlyDeals(org, sp)
        OBVIOUS
      <4>1. /\ e \in Deals /\ Exists(e) /\ deal[e].organization_id = org
            /\ deal[e].salesperson_id = sp /\ from <= deal[e].created_at
        BY <1>0, <1>1, <3>1 DEF OfSalesperson
      <4>2. deal[e].created_at >= clock - HOUR
        BY <1>0, <3>1, <4>1
      <4> QED BY <4>1, <4>2 DEF HourlyDeals
    <3> QED BY <1>0, <1>6, <3>2, OneMore
  <2>2. CASE d \notin OfSalesperson(o, from, s)'
    <3>1. OfSalesperson(o, from, s)' = OfSalesperson(o, from, s)
      BY <1>1, <2>2 DEF OfSalesperson
    <3> QED BY <3>1 DEF WindowInv
  <2> QED BY <2>1, <2>2
<1> QED BY <1>5, <1>7, <1>8, <1>9 DEF WindowInv

(* No other handler creates a deal or changes its row, and time goes forward. *)
LEMMA OthersKeepWindows ==
    ASSUME TypeOK, WindowInv, deal' = deal,
           \A d \in Deals : Exists(d)' <=> Exists(d), clock' \in {clock, clock + 1}
    PROVE  WindowInv'
<1>1. {d \in Deals : Exists(d)}' = {d \in Deals : Exists(d)}
  OBVIOUS
<1>2. \A org \in Orgs, from \in Nat :
          /\ \A p \in Phones : OfPhone(org, from, p)' = OfPhone(org, from, p)
          /\ \A sp \in Salespeople : OfSalesperson(org, from, sp)' = OfSalesperson(org, from, sp)
  BY DEF OfPhone, OfSalesperson
<1>3. \A d \in Deals : Exists(d)' => deal'[d].created_at <= clock'
  <2>1. clock \in Nat /\ \A d \in Deals : deal[d].created_at \in Nat
    BY DEF TypeOK, DealRow
  <2> QED BY <2>1 DEF WindowInv
<1> QED BY <1>1, <1>2, <1>3 DEF WindowInv

LEMMA WindowStep == TypeOK /\ WindowInv /\ [Next]_vars => WindowInv'
<1> SUFFICES ASSUME TypeOK, WindowInv, [Next]_vars PROVE WindowInv'
  OBVIOUS
<1>0. status \in [Deals -> Statuses] /\ clock \in Nat
  BY DEF TypeOK
<1>1. ASSUME NEW org \in Orgs, NEW sp \in Salespeople, NEW p \in Phones,
             NEW d \in Deals, NEW in \in Quotes, create_deal(d, org, sp, p, in)
      PROVE  WindowInv'
  BY <1>1, CreateKeepsWindows
<1>2. ASSUME NEW d \in Deals,
             \/ approve_gm_escalates(d) \/ approve_gm(d) \/ approve_director(d)
             \/ approve_director_blocked(d) \/ reject_deal(d)
             \/ soft_delete_deal(d) \/ restore_deal(d)
      PROVE  deal' = deal /\ clock' = clock /\ \A e \in Deals : Exists(e)' <=> Exists(e)
  BY <1>0, <1>2
     DEF approve_gm_escalates, approve_gm, approve_director, approve_director_blocked,
         reject_deal, soft_delete_deal, restore_deal, Decide, Decidable, Loadable, Exists, deals
<1>3. UNCHANGED deals => deal' = deal /\ \A e \in Deals : Exists(e)' <=> Exists(e)
  BY DEF deals, Exists
<1> QED BY <1>1, <1>2, <1>3, OthersKeepWindows DEF Next, vars, Tick, VerifyPhone, create_blocked

(* Whatever is deleted, restored or created again: no window, past or         *)
(* current, holds more deals of a phone or of a salesperson than the limits   *)
(* (check_fraud_rules counts deleted deals too).                              *)
THEOREM FraudLimitsHold == Spec => []FraudWindowsRespected
<1>1. Init => WindowInv
  <2> SUFFICES ASSUME Init PROVE WindowInv
    OBVIOUS
  <2>1. \A d \in Deals : ~Exists(d)
    BY DEF Init, Exists
  <2>2. \A org, from, p : OfPhone(org, from, p) = {} /\ OfSalesperson(org, from, p) = {}
    BY <2>1 DEF OfPhone, OfSalesperson
  <2>3. {d \in Deals : Exists(d)} = {}
    BY <2>1
  <2>4. IsFiniteSet({}) /\ Cardinality({}) = 0
    BY FS_EmptySet
  <2> QED BY <2>1, <2>2, <2>3, <2>4, FraudAssumption DEF WindowInv
<1>2. TypeOK /\ WindowInv => FraudWindowsRespected
  <2> SUFFICES ASSUME TypeOK, WindowInv, NEW org \in Orgs, NEW from \in 0..clock
               PROVE  LET opened(to) == {d \in Deals : /\ Exists(d)
                                                        /\ deal[d].organization_id = org
                                                        /\ deal[d].created_at \in from..to}
                      IN  /\ \A p \in Phones :
                              Cardinality({d \in opened(from + DAY) : deal[d].customer_phone = p})
                                  <= MAX_DAILY_DEALS_PER_PHONE
                          /\ \A sp \in Salespeople :
                              Cardinality({d \in opened(from + HOUR) : deal[d].salesperson_id = sp})
                                  <= MAX_HOURLY_DEALS_PER_SALESPERSON
    BY DEF FraudWindowsRespected
  <2> DEFINE opened(to) == {d \in Deals : /\ Exists(d) /\ deal[d].organization_id = org
                                          /\ deal[d].created_at \in from..to}
  <2>1. from \in Nat
    BY DEF TypeOK
  <2>2. \A p \in Phones :
           {d \in opened(from + DAY) : deal[d].customer_phone = p} = OfPhone(org, from, p)
    BY DEF OfPhone
  <2>3. \A sp \in Salespeople :
           {d \in opened(from + HOUR) : deal[d].salesperson_id = sp} = OfSalesperson(org, from, sp)
    BY DEF OfSalesperson
  <2> QED BY <2>1, <2>2, <2>3 DEF WindowInv
<1> QED BY <1>1, <1>2, WindowStep, TypeCorrect, PTL DEF Spec
=============================================================================
