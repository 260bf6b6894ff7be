------------------------------ MODULE Startup ------------------------------
(***************************************************************************)
(* How a process starts (main.py, database_migrations.py, seed.py): it      *)
(* waits for the database, runs the migrations one transaction at a time,   *)
(* creates the tables that are missing, seeds the organizations, branches   *)
(* and the administrator, and serves.  An error in a migration skips the    *)
(* rest of them and the start goes on; an error after that ends the         *)
(* process, and the platform starts it again.  A process may be killed at   *)
(* any point, and nothing keeps two of them from starting at once: every    *)
(* check and the statement that relies on it are two steps.                 *)
(*                                                                          *)
(* The schema is the set of its objects: tables, the columns migrations     *)
(* know of, and indexes.  Two of the eight columns added to deals stand     *)
(* for all: those that the index on customer_phone is over.  All            *)
(* performance indexes are one object, as they are one transaction.         *)
(***************************************************************************)
EXTENDS Naturals, Sequences, FiniteSets

CONSTANTS Procs,          \* processes of the server
          Orgs,           \* the organizations of SEED_ORGS
          FirstOrg,       \* the first of them
          Databases,      \* schemas an earlier version may have left, or {}
          None,
          RETRIES,        \* attempts to reach the database
          MaxDeals,       \* bound: deals of the phone that is followed
          MaxDisruptions  \* bound: kills, failing statements, failing connects

FULL   == "uq_deal_customer_phone"
ACTIVE == "uq_deal_customer_phone_active"

ColumnsOf ==
  [organizations     |-> {},
   users             |-> {"users.branch_id"},
   deals             |-> {"deals.customer_phone", "deals.is_deleted", "deals.branch_id"},
   branches          |-> {"branches.is_head_office"},
   otp_verifications |-> {"otp_verifications.legitimately_verified"},
   audit_logs        |-> {"audit_logs.row_hash", "audit_logs.prev_hash"}]

Tables  == DOMAIN ColumnsOf
Columns == UNION {ColumnsOf[t] : t \in Tables}
Created(t) == {t} \cup ColumnsOf[t]

\* What the program is written for.
Complete == Tables \cup Columns \cup {ACTIVE, "performance"}

WellFormed(db) ==
  /\ db \subseteq Complete \cup {FULL}
  /\ \A t \in Tables : t \notin db => db \cap ColumnsOf[t] = {}
  /\ ~ {FULL, ACTIVE} \subseteq db
  /\ db # {} => {"organizations", "users", "deals"} \subseteq db
  /\ {"users.branch_id", "deals.branch_id"} \cap db # {} => "branches" \in db
  /\ {FULL, ACTIVE} \cap db # {} => "deals.customer_phone" \in db

ASSUME DatabasesAssumption == \A db \in Databases : WellFormed(db)
ASSUME ProcsAssumption == IsFiniteSet(Procs) /\ Procs # {}
ASSUME OrgsAssumption == FirstOrg \in Orgs /\ None \notin Orgs
ASSUME BoundsAssumption == RETRIES \in Nat \ {0} /\ MaxDeals \in Nat /\ MaxDisruptions \in Nat

VARIABLES proc,         \* what each process is doing, with what it remembers
          schema,       \* objects of the database
          seeded,       \* the organizations and their configurations are there
          branches,     \* lots of SEED_BRANCHES each organization got
          admin,        \* the seeded administrator's organization and branch
          phone,        \* deals with one customer_phone: active and in the trash
          disruptions,  \* how many there were
          why           \* history: what disturbed the start of each process

vars == <<proc, schema, seeded, branches, admin, phone, disruptions, why>>

-----------------------------------------------------------------------------
(* The migrations, in the order of run_all_migrations.  Each looks for its  *)
(* object and, if that is missing, adds it in a transaction of its own; a   *)
(* column is looked for only in a table that is there.                      *)

MakeTable(t, needs) ==
  [object |-> t, of |-> "any", needs |-> needs, adds |-> Created(t), drops |-> {},
   if_not_exists |-> FALSE]

\* Slip: the look is for the table.
AddColumnOfNewTable(t, c, needs) ==
  [object |-> t, of |-> t, needs |-> needs, adds |-> {c}, drops |-> {},
   if_not_exists |-> FALSE]

\* _add_column
AddColumn(t, c, needs) ==
  [object |-> c, of |-> t, needs |-> needs, adds |-> {c}, drops |-> {},
   if_not_exists |-> FALSE]

\* Slip: the full constraint is kept.
AddActiveOnly ==
  [object |-> ACTIVE, of |-> "deals", needs |-> {"deals.customer_phone", "deals.is_deleted"},
   adds |-> {ACTIVE}, drops |-> {}, if_not_exists |-> TRUE]

migrate_phone_constraint ==
  [object |-> ACTIVE, of |-> "deals", needs |-> {"deals.customer_phone", "deals.is_deleted"},
   adds |-> {ACTIVE}, drops |-> {FULL}, if_not_exists |-> TRUE]

migrate_indexes ==
  [object |-> "performance", of |-> "any",
   needs |-> {"branches", "users.branch_id", "deals.branch_id", "deals.is_deleted"},
   adds |-> {"performance"}, drops |-> {}, if_not_exists |-> TRUE]

run_all_migrations ==
  <<MakeTable("branches", {"organizations"}),
    AddColumn("branches", "branches.is_head_office", {}),
    AddColumn("deals", "deals.customer_phone", {}),
    AddColumn("deals", "deals.is_deleted", {}),
    AddColumn("users", "users.branch_id", {"branches"}),
    AddColumn("deals", "deals.branch_id", {"branches"}),
    migrate_phone_constraint,
    MakeTable("otp_verifications", {}),
    AddColumn("otp_verifications", "otp_verifications.legitimately_verified", {}),
    MakeTable("audit_logs", {}),
    AddColumn("audit_logs", "audit_logs.row_hash", {}),
    AddColumn("audit_logs", "audit_logs.prev_hash", {}),
    migrate_indexes>>

\* The table a step is about is there, or it needs none.
HasTable(u) == u.of = "any" \/ u.of \in schema

\* The statement of u raises: something it refers to is missing, its object
\* has appeared since the look, or two active deals have the phone already.
Raises(u) ==
  \/ ~ u.needs \subseteq schema
  \/ ~ u.if_not_exists /\ u.object \in schema
  \/ u.object = ACTIVE /\ ACTIVE \notin schema /\ phone.active > 1

\* Slip: drop and create commit apart.
DropsStay(u) == schema \ u.drops

\* What a failing step leaves of the schema: its transaction is rolled back.
RolledBack(u) == schema

-----------------------------------------------------------------------------
(* Places of a process *)

Down            == [at |-> "down"]
Connecting(n)   == [at |-> "connect", tries |-> n]
Looking(i)      == [at |-> "look", unit |-> i]
Doing(i)        == [at |-> "do", unit |-> i]
ToCreate        == [at |-> "create_all"]
Creating(ts)    == [at |-> "creating", missing |-> ts]
CountOrgs       == [at |-> "count_orgs"]
AddOrgs         == [at |-> "add_orgs"]
Branches(org)   == [at |-> "branches", org |-> org]
AddBranches(org, to) == [at |-> "add_branches", org |-> org, to |-> to]
Admin(org)      == [at |-> "admin", org |-> org]
AddAdmin(row)   == [at |-> "add_admin", row |-> row]
Serving         == [at |-> "serving"]

Go(p, place) == proc' = [proc EXCEPT ![p] = place]

Starting(p) == proc[p] \notin {Down, Serving}

\* After the last migration, and after one that failed.
Unit(i) == IF i <= Len(run_all_migrations) THEN Looking(i) ELSE ToCreate

Mark(ps, cause) == [p \in Procs |-> IF p \in ps THEN why[p] \cup {cause} ELSE why[p]]

Disrupt == disruptions < MaxDisruptions /\ disruptions' = disruptions + 1

data == <<seeded, branches, admin>>

-----------------------------------------------------------------------------
(* Start: what is noted in `why` is only for the properties. *)

Causes(p) ==
  {c \in {"fresh", "overlap", "duplicates"} :
     \/ c = "fresh" /\ "organizations" \notin schema
     \/ c = "overlap" /\ \E q \in Procs \ {p} : Starting(q)
     \/ c = "duplicates" /\ phone.active > 1}

Start(p) ==
  /\ proc[p] = Down
  /\ Go(p, Connecting(1))
  /\ why' = [q \in Procs |-> IF q = p THEN Causes(p)
                            ELSE IF Starting(q) THEN why[q] \cup {"overlap"} ELSE why[q]]
  /\ UNCHANGED <<schema, data, phone, disruptions>>

\* _wait_for_db
Connect(p) ==
  /\ proc[p].at = "connect"
  /\ Go(p, Looking(1))
  /\ UNCHANGED <<schema, data, phone, disruptions, why>>

ConnectFails(p) ==
  /\ proc[p].at = "connect"
  /\ Disrupt
  /\ Go(p, IF proc[p].tries < RETRIES THEN Connecting(proc[p].tries + 1) ELSE Down)
  /\ UNCHANGED <<schema, data, phone, why>>

-----------------------------------------------------------------------------
(* Migrations *)

Look(p) ==
  /\ proc[p].at = "look"
  /\ LET i == proc[p].unit
         u == run_all_migrations[i]
     IN  Go(p, IF HasTable(u) /\ (u.if_not_exists \/ u.object \notin schema)
               THEN Doing(i) ELSE Unit(i + 1))
  /\ UNCHANGED <<schema, data, phone, disruptions, why>>

Do(p) ==
  /\ proc[p].at = "do"
  /\ LET i == proc[p].unit
         u == run_all_migrations[i]
     IN  IF Raises(u)
         THEN /\ schema' = RolledBack(u)
              /\ Go(p, ToCreate)
         ELSE /\ schema' = (schema \cup u.adds) \ u.drops
              /\ Go(p, Unit(i + 1))
  /\ UNCHANGED <<data, phone, disruptions, why>>

\* Any other error of the database: a timeout, a lost connection.
StatementFails(p) ==
  /\ proc[p].at \in {"look", "do"}
  /\ Disrupt
  /\ schema' = RolledBack(run_all_migrations[proc[p].unit])
  /\ Go(p, ToCreate)
  /\ why' = Mark({p}, "fault")
  /\ UNCHANGED <<data, phone>>

-----------------------------------------------------------------------------
(* Base.metadata.create_all: the tables missing now, in one transaction. *)

create_all(p) ==
  /\ proc[p] = ToCreate
  /\ Go(p, Creating(Tables \ schema))
  /\ UNCHANGED <<schema, data, phone, disruptions, why>>

create_tables(p) ==
  /\ proc[p].at = "creating"
  /\ IF proc[p].missing \cap schema = {}
     THEN /\ schema' = schema \cup UNION {Created(t) : t \in proc[p].missing}
          /\ Go(p, CountOrgs)
     ELSE /\ schema' = schema
          /\ Go(p, Down)
  /\ UNCHANGED <<data, phone, disruptions, why>>

-----------------------------------------------------------------------------
(* seed_database: three commits, each after a look of its own. *)

count_orgs(p) ==
  /\ proc[p] = CountOrgs
  /\ Go(p, IF seeded THEN Branches(None) ELSE AddOrgs)
  /\ UNCHANGED <<schema, data, phone, disruptions, why>>

\* The names of organizations are unique.
add_orgs(p) ==
  /\ proc[p] = AddOrgs
  /\ seeded' = TRUE
  /\ Go(p, IF seeded THEN Down ELSE Branches(FirstOrg))
  /\ UNCHANGED <<schema, branches, admin, phone, disruptions, why>>

\* The organization seeded in this start, or query(Organization).first(),
\* which has no order.
Chosen(org) == IF org = None THEN Orgs ELSE {org}

\* Slip: no look at the branches that are there.
NoBranch == TRUE

NoBranches == \A o \in Orgs : branches[o] = 0

_seed_branches_if_needed(p) ==
  /\ proc[p].at = "branches"
  /\ IF "branches.is_head_office" \notin schema THEN Go(p, Down)
     ELSE IF NoBranches THEN \E to \in Chosen(proc[p].org) : Go(p, AddBranches(proc[p].org, to))
     ELSE Go(p, Admin(proc[p].org))
  /\ UNCHANGED <<schema, data, phone, disruptions, why>>

add_branches(p) ==
  /\ proc[p].at = "add_branches"
  /\ branches' = [branches EXCEPT ![proc[p].to] = @ + 1]
  /\ Go(p, Admin(proc[p].org))
  /\ UNCHANGED <<schema, seeded, admin, phone, disruptions, why>>

\* Slips: the administrator is not looked for; the head office of any
\* organization will do.
NeverThere == FALSE
AnyHeadOffice(org) ==
  IF NoBranches THEN None ELSE CHOOSE o \in Orgs : branches[o] > 0

AdminThere == admin # None

\* The head office of the organization; there is none without branches.
HeadOffice(org) == IF branches[org] > 0 THEN org ELSE None

_seed_admin_if_needed(p) ==
  /\ proc[p].at = "admin"
  /\ IF "users.branch_id" \notin schema THEN Go(p, Down)
     ELSE IF AdminThere THEN Go(p, Serving)
     ELSE \E org \in Chosen(proc[p].org) :
            Go(p, AddAdmin([org |-> org, branch |-> HeadOffice(org)]))
  /\ UNCHANGED <<schema, data, phone, disruptions, why>>

\* Its email is unique.
add_admin(p) ==
  /\ proc[p].at = "add_admin"
  /\ admin' = IF admin = None THEN proc[p].row ELSE admin
  /\ Go(p, IF admin = None THEN Serving ELSE Down)
  /\ UNCHANGED <<schema, seeded, branches, phone, disruptions, why>>

-----------------------------------------------------------------------------
(* Deals of one phone number while somebody serves.  A request on deals     *)
(* fails as long as a column of the table is missing.                       *)

Usable == (\E p \in Procs : proc[p] = Serving) /\ Created("deals") \subseteq schema

Refused(active, rows) ==
  \/ ACTIVE \in schema /\ active > 1
  \/ FULL \in schema /\ rows > 1

SetPhone(active, trashed) ==
  /\ ~ Refused(active, active + trashed)
  /\ active + trashed <= MaxDeals
  /\ phone' = [active |-> active, trashed |-> trashed]
  /\ why' = IF active > 1 THEN Mark({p \in Procs : Starting(p)}, "duplicates") ELSE why
  /\ UNCHANGED <<proc, schema, data, disruptions>>

create_deal ==
  /\ Usable /\ phone.active = 0
  /\ SetPhone(1, phone.trashed)

soft_delete_deal ==
  /\ Usable /\ phone.active > 0
  /\ SetPhone(phone.active - 1, phone.trashed + 1)

restore_deal ==
  /\ Usable /\ phone.trashed > 0
  /\ SetPhone(phone.active + 1, phone.trashed - 1)

\* A kill, a deployment, a lost machine; or, outside the migrations, an error
\* of the database, which nothing catches.
Stop(p) ==
  /\ proc[p] # Down
  /\ Disrupt
  /\ Go(p, Down)
  /\ UNCHANGED <<schema, data, phone, why>>

-----------------------------------------------------------------------------
\* An empty database, or one that an earlier version seeded and used.
Init ==
  /\ proc = [p \in Procs |-> Down]
  /\ schema \in Databases
  /\ seeded = (schema # {})
  /\ branches \in {b \in [Orgs -> {0, 1}] : \A o \in Orgs : b[o] = 1 =>
                      "branches" \in schema /\ \A q \in Orgs \ {o} : b[q] = 0}
  /\ admin \in IF seeded THEN {None} \cup [org : Orgs, branch : {None}] ELSE {None}
  /\ phone = [active |-> 0, trashed |-> 0]
  /\ disruptions = 0
  /\ why = [p \in Procs |-> {}]

Progress(p) ==
  \/ Connect(p) \/ Look(p) \/ Do(p) \/ create_all(p) \/ create_tables(p)
  \/ count_orgs(p) \/ add_orgs(p)
  \/ _seed_branches_if_needed(p) \/ add_branches(p)
  \/ _seed_admin_if_needed(p) \/ add_admin(p)

Next ==
  \/ \E p \in Procs : \/ Start(p)
                      \/ Progress(p)
                      \/ ConnectFails(p)
                      \/ StatementFails(p)
                      \/ Stop(p)
  \/ create_deal
  \/ soft_delete_deal
  \/ restore_deal

\* A process that starts goes on, and the platform starts one that is down.
Fairness == \A p \in Procs : WF_vars(Start(p)) /\ WF_vars(Progress(p))

Spec == Init /\ [][Next]_vars /\ Fairness

-----------------------------------------------------------------------------
(* Properties *)

Places ==
  {Down, ToCreate, CountOrgs, AddOrgs, Serving}
    \cup {Connecting(n) : n \in 1 .. RETRIES}
    \cup [at : {"look", "do"}, unit : 1 .. Len(run_all_migrations)]
    \cup {Creating(ts) : ts \in SUBSET Tables}
    \cup [at : {"branches", "admin"}, org : Orgs \cup {None}]
    \cup [at : {"add_branches"}, org : Orgs \cup {None}, to : Orgs]
    \cup {AddAdmin(row) : row \in [org : Orgs, branch : Orgs \cup {None}]}

\* Every variable has its type; no column is without its table, and the two
\* forms of the phone constraint are never there together.
TypeOK ==
  /\ proc \in [Procs -> Places]
  /\ schema = {} \/ WellFormed(schema)
  /\ seeded \in BOOLEAN
  /\ branches \in [Orgs -> Nat]
  /\ admin \in {None} \cup [org : Orgs, branch : Orgs \cup {None}]
  /\ phone \in [active : 0 .. MaxDeals, trashed : 0 .. MaxDeals]
  /\ disruptions \in 0 .. MaxDisruptions
  /\ why \in [Procs -> SUBSET {"fresh", "overlap", "duplicates", "fault"}]

\* database_migrations.py:201: wherever the exchange of the full constraint for
\* the partial index is cut off or repeated, by whichever processes, a database
\* that kept two active deals from sharing a phone goes on doing so.
Guarded == {FULL, ACTIVE} \cap schema # {}
PhoneGuardStays == [][Guarded => Guarded']_vars

\* One restart repairs whatever the starts before it left half done: a process
\* that serves after a start during which nothing failed, nobody else was
\* starting and no two active deals had the phone, on a database that had its
\* first tables, serves the complete schema.
RestartRepairs == \A p \in Procs : proc[p] = Serving /\ why[p] = {} => schema = Complete

\* seed.py:82: the branches are seeded once.  The look and the commit are apart,
\* so each process may be in between while another commits; but however often
\* starts are killed and repeated, there are never more lots than processes.
Lots == UNION {{o} \X (1 .. branches[o]) : o \in Orgs}
BranchesBounded == Cardinality(Lots) <= Cardinality(Procs)

\* seed.py:116: a start that goes on where a killed one left off may seed the
\* branches and the administrator for different organizations, but never puts
\* the administrator in an office of another organization than its own.
AdminOffice ==
  admin # None /\ admin.branch # None => admin.branch = admin.org /\ branches[admin.org] > 0

\* main.py:105: whatever state a kill, an error or a race leaves behind, no
\* start can fail for ever: once the disruptions are over every process comes to
\* serve and goes on serving a database with its seeds.
EventuallyServes ==
  <>[](seeded /\ ~ NoBranches /\ admin # None /\ \A p \in Procs : proc[p] = Serving)

\* models.py:152: "Partial unique index (uq_deal_customer_phone_active) enforced
\* at DB level via migration".  On an empty database the migrations come before
\* the tables and stop at the first.
PhoneIndexServed ==
  \A p \in Procs : proc[p] = Serving /\ why[p] \subseteq {"fresh"} => ACTIVE \in schema

=============================================================================
