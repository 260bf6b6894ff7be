--------------------------- MODULE StartupProofs ---------------------------
(***************************************************************************)
(* What holds of every start, for any number of processes, organizations,   *)
(* disruptions and deals, over every database that an earlier version left. *)
(***************************************************************************)
EXTENDS Startup, FiniteSetTheorems, TLAPS

-----------------------------------------------------------------------------
(* The list of migrations *)

U(i) == run_all_migrations[i]

Few == 1 .. 13

LEMMA UnitList ==
  /\ Len(run_all_migrations) = 13
  /\ U(1) = MakeTable("branches", {"organizations"})
  /\ U(2) = AddColumn("branches", "branches.is_head_office", {})
  /\ U(3) = AddColumn("deals", "deals.customer_phone", {})
  /\ U(4) = AddColumn("deals", "deals.is_deleted", {})
  /\ U(5) = AddColumn("users", "users.branch_id", {"branches"})
  /\ U(6) = AddColumn("deals", "deals.branch_id", {"branches"})
  /\ U(7) = migrate_phone_constraint
  /\ U(8) = MakeTable("otp_verifications", {})
  /\ U(9) = AddColumn("otp_verifications", "otp_verifications.legitimately_verified", {})
  /\ U(10) = MakeTable("audit_logs", {})
  /\ U(11) = AddColumn("audit_logs", "audit_logs.row_hash", {})
  /\ U(12) = AddColumn("audit_logs", "audit_logs.prev_hash", {})
  /\ U(13) = migrate_indexes
BY DEF U, run_all_migrations

LEMMA CompleteIs ==
  /\ Complete = {"organizations", "users", "deals", "branches", "otp_verifications",
                 "audit_logs", "users.branch_id", "deals.customer_phone", "deals.is_deleted",
                 "deals.branch_id", "branches.is_head_office",
                 "otp_verifications.legitimately_verified", "audit_logs.row_hash",
                 "audit_logs.prev_hash", "uq_deal_customer_phone_active", "performance"}
  /\ Tables = {"organizations", "users", "deals", "branches", "otp_verifications", "audit_logs"}
  /\ Created("branches") = {"branches", "branches.is_head_office"}
  /\ Created("otp_verifications") =
       {"otp_verifications", "otp_verifications.legitimately_verified"}
  /\ Created("audit_logs") = {"audit_logs", "audit_logs.row_hash", "audit_logs.prev_hash"}
  /\ Created("deals") = {"deals", "deals.customer_phone", "deals.is_deleted", "deals.branch_id"}
  /\ Created("users") = {"users", "users.branch_id"}
  /\ Created("organizations") = {"organizations"}
<1>1. Tables = {"organizations", "users", "deals", "branches", "otp_verifications", "audit_logs"}
  BY DEF Tables, ColumnsOf
<1>2. /\ ColumnsOf["organizations"] = {}
      /\ ColumnsOf["users"] = {"users.branch_id"}
      /\ ColumnsOf["deals"] = {"deals.customer_phone", "deals.is_deleted", "deals.branch_id"}
      /\ ColumnsOf["branches"] = {"branches.is_head_office"}
      /\ ColumnsOf["otp_verifications"] = {"otp_verifications.legitimately_verified"}
      /\ ColumnsOf["audit_logs"] = {"audit_logs.row_hash", "audit_logs.prev_hash"}
  BY DEF ColumnsOf
<1>3. Columns = {"users.branch_id", "deals.customer_phone", "deals.is_deleted",
                 "deals.branch_id", "branches.is_head_office",
                 "otp_verifications.legitimately_verified", "audit_logs.row_hash",
                 "audit_logs.prev_hash"}
  <2>1. \A c : c \in Columns <=> \E t \in Tables : c \in ColumnsOf[t]
    BY DEF Columns
  <2> QED BY <1>1, <1>2, <2>1
<1> QED BY <1>1, <1>2, <1>3 DEF Complete, Created, ACTIVE

\* Every migration adds objects of the complete schema, its own among them,
\* and only the exchange of the phone constraint drops anything.
Sound(i) ==
  /\ U(i).adds \subseteq Complete \ {"organizations"}
  /\ U(i).object \in U(i).adds
  /\ U(i).drops = {} \/ (U(i).drops = {FULL} /\ ACTIVE \in U(i).adds)
  /\ i = 7 => U(i).drops = {FULL} /\ U(i).if_not_exists

LEMMA UnitsSound == \A i \in Few : Sound(i)
<1> USE UnitList, CompleteIs
<1>1. ASSUME NEW t \in {"branches", "otp_verifications", "audit_logs"}, NEW needs, NEW i \in Few,
             U(i) = MakeTable(t, needs), i # 7
      PROVE  Sound(i)
  <2>1. U(i).adds = Created(t) /\ U(i).object = t /\ U(i).drops = {}
    BY <1>1 DEF MakeTable
  <2> QED BY <1>1, <2>1 DEF Sound
<1>2. ASSUME NEW t, NEW c \in Complete \ {"organizations"}, NEW needs, NEW i \in Few,
             U(i) = AddColumn(t, c, needs), i # 7
      PROVE  Sound(i)
  <2>1. U(i).adds = {c} /\ U(i).object = c /\ U(i).drops = {}
    BY <1>2 DEF AddColumn
  <2> QED BY <1>2, <2>1 DEF Sound
<1>3. Sound(7)
  <2>1. /\ U(7).adds = {ACTIVE} /\ U(7).object = ACTIVE /\ U(7).drops = {FULL}
        /\ U(7).if_not_exists = TRUE
    BY DEF migrate_phone_constraint
  <2> QED BY <2>1 DEF Sound, ACTIVE
<1>4. Sound(13)
  <2>1. U(13).adds = {"performance"} /\ U(13).object = "performance" /\ U(13).drops = {}
    BY DEF migrate_indexes
  <2> QED BY <2>1 DEF Sound
<1>5. Sound(1) /\ Sound(8) /\ Sound(10)
  BY <1>1 DEF Few
<1>6. Sound(2) /\ Sound(3) /\ Sound(4) /\ Sound(5)
  BY <1>2 DEF Few
<1>7. Sound(6) /\ Sound(9) /\ Sound(11) /\ Sound(12)
  BY <1>2 DEF Few
<1> QED BY <1>3, <1>4, <1>5, <1>6, <1>7 DEF Few

\* Over the first tables, with the migrations before it done, a migration finds
\* its table and what its statement refers to.
Begun(db) == {"organizations", "users", "deals"} \subseteq db

LEMMA UnitsInOrder ==
  ASSUME NEW i \in Few, Begun(schema), \A j \in Few : j < i => U(j).object \in schema
  PROVE  HasTable(U(i)) /\ U(i).needs \subseteq schema
<1> USE UnitList
<1>1. /\ U(1).object = "branches" /\ U(3).object = "deals.customer_phone"
      /\ U(4).object = "deals.is_deleted" /\ U(5).object = "users.branch_id"
      /\ U(6).object = "deals.branch_id" /\ U(8).object = "otp_verifications"
      /\ U(10).object = "audit_logs"
  BY DEF MakeTable, AddColumn
<1>2. CASE i = 1
  BY <1>2 DEF MakeTable, HasTable, Begun
<1>3. CASE i \in {8, 10}
  BY <1>3 DEF MakeTable, HasTable
<1>4. CASE i \in {3, 4}
  BY <1>4 DEF AddColumn, HasTable, Begun
<1>5. CASE i \in {2, 5, 6}
  <2>1. "branches" \in schema
    BY <1>1, <1>5 DEF Few
  <2> QED BY <1>5, <2>1 DEF AddColumn, HasTable, Begun
<1>6. CASE i = 7
  <2>1. "deals.customer_phone" \in schema /\ "deals.is_deleted" \in schema
    BY <1>1, <1>6 DEF Few
  <2> QED BY <1>6, <2>1 DEF migrate_phone_constraint, HasTable, Begun
<1>7. CASE i = 9
  <2>1. "otp_verifications" \in schema
    BY <1>1, <1>7 DEF Few
  <2> QED BY <1>7, <2>1 DEF AddColumn, HasTable
<1>8. CASE i \in {11, 12}
  <2>1. "audit_logs" \in schema
    BY <1>1, <1>8 DEF Few
  <2> QED BY <1>8, <2>1 DEF AddColumn, HasTable
<1>9. CASE i = 13
  <2>1. {"branches", "users.branch_id", "deals.branch_id", "deals.is_deleted"} \subseteq schema
    BY <1>1, <1>9 DEF Few
  <2> QED BY <1>9, <2>1 DEF migrate_indexes, HasTable
<1> QED BY <1>2, <1>3, <1>4, <1>5, <1>6, <1>7, <1>8, <1>9 DEF Few

\* All of them done, over the first tables: the schema is complete.
LEMMA AllDone ==
  ASSUME Begun(schema), schema \subseteq Complete \cup {FULL}, FULL \notin schema,
         \A j \in Few : U(j).object \in schema
  PROVE  schema = Complete
<1>1. /\ U(1).object = "branches" /\ U(2).object = "branches.is_head_office"
      /\ U(3).object = "deals.customer_phone" /\ U(4).object = "deals.is_deleted"
      /\ U(5).object = "users.branch_id" /\ U(6).object = "deals.branch_id"
  BY UnitList DEF MakeTable, AddColumn
<1>2. /\ U(8).object = "otp_verifications"
      /\ U(9).object = "otp_verifications.legitimately_verified"
      /\ U(10).object = "audit_logs" /\ U(11).object = "audit_logs.row_hash"
      /\ U(12).object = "audit_logs.prev_hash"
  BY UnitList DEF MakeTable, AddColumn
<1>3. U(7).object = "uq_deal_customer_phone_active" /\ U(13).object = "performance"
  BY UnitList DEF migrate_phone_constraint, migrate_indexes, ACTIVE
<1>4. /\ {"branches", "branches.is_head_office", "deals.customer_phone", "deals.is_deleted",
          "users.branch_id", "deals.branch_id"} \subseteq schema
      /\ {"otp_verifications", "otp_verifications.legitimately_verified", "audit_logs",
          "audit_logs.row_hash", "audit_logs.prev_hash"} \subseteq schema
      /\ {"uq_deal_customer_phone_active", "performance"} \subseteq schema
  BY <1>1, <1>2, <1>3 DEF Few
<1>5. Complete \subseteq schema
  BY <1>4, CompleteIs DEF Begun
<1> QED BY <1>5

-----------------------------------------------------------------------------
(* Places and what is remembered there *)

Administrators == [org : Orgs, branch : Orgs \cup {None}]

\* A place says what it is and remembers what its kind does.
Fits(place) ==
  /\ place \in Places
  /\ place.at = "down" => place = Down
  /\ place.at = "serving" => place = Serving
  /\ place.at = "connect" => place.tries \in 1 .. RETRIES
  /\ place.at \in {"look", "do"} => place.unit \in Few
  /\ place.at = "add_admin" => place.row \in Administrators
  /\ place.at = "add_branches" => place.to \in Orgs
  /\ place.at \in {"branches", "add_branches", "admin"} => place.org \in Orgs \cup {None}

\* The parts of the types that the proofs below rest on.
PlaceInv ==
  /\ proc \in [Procs -> Places] /\ DOMAIN why = Procs
  /\ branches \in [Orgs -> Nat]
  /\ \A p \in Procs : Fits(proc[p])

LEMMA PlacesFit ==
  /\ Fits(Down) /\ Fits(ToCreate) /\ Fits(CountOrgs) /\ Fits(AddOrgs) /\ Fits(Serving)
  /\ \A n \in 1 .. RETRIES : Fits(Connecting(n))
  /\ \A ts \in SUBSET Tables : Fits(Creating(ts))
  /\ \A row \in Administrators : Fits(AddAdmin(row))
  /\ \A i \in Few : Fits(Looking(i)) /\ Fits(Doing(i)) /\ Fits(Unit(i + 1))
  /\ \A org \in Orgs \cup {None} : Fits(Branches(org)) /\ Fits(Admin(org))
  /\ \A org \in Orgs \cup {None}, to \in Orgs : Fits(AddBranches(org, to))
<1>1. Fits(Down) /\ Fits(ToCreate) /\ Fits(CountOrgs) /\ Fits(AddOrgs) /\ Fits(Serving)
  <2>1. {Down, ToCreate, CountOrgs, AddOrgs, Serving} \subseteq Places
    BY DEF Places
  <2> QED BY <2>1 DEF Fits, Down, ToCreate, CountOrgs, AddOrgs, Serving
<1>2. ASSUME NEW n \in 1 .. RETRIES PROVE Fits(Connecting(n))
  <2>1. Connecting(n) \in Places
    BY DEF Places
  <2> QED BY <2>1 DEF Fits, Connecting
<1>3. ASSUME NEW ts \in SUBSET Tables PROVE Fits(Creating(ts))
  <2>1. Creating(ts) \in Places
    BY DEF Places
  <2> QED BY <2>1 DEF Fits, Creating
<1>4. ASSUME NEW row \in Administrators PROVE Fits(AddAdmin(row))
  <2>1. AddAdmin(row) \in Places
    BY DEF Places, Administrators
  <2> QED BY <2>1 DEF Fits, AddAdmin
<1>5. ASSUME NEW i \in Few PROVE Fits(Looking(i)) /\ Fits(Doing(i))
  <2>1. {Looking(i), Doing(i)} \subseteq [at : {"look", "do"}, unit : Few]
    BY DEF Looking, Doing
  <2>2. [at : {"look", "do"}, unit : Few] \subseteq Places
    BY UnitList DEF Places, Few
  <2> QED BY <2>1, <2>2 DEF Fits, Looking, Doing
<1>6. ASSUME NEW i \in Few PROVE Fits(Unit(i + 1))
  <2>1. CASE i < 13
    <3>1. Unit(i + 1) = Looking(i + 1) /\ i + 1 \in Few
      BY <2>1, UnitList DEF Unit, Few
    <3> QED BY <3>1, <1>5
  <2>2. CASE i = 13
    <3>1. Unit(i + 1) = ToCreate
      BY <2>2, UnitList DEF Unit
    <3> QED BY <3>1, <1>1
  <2> QED BY <2>1, <2>2 DEF Few
<1>7. ASSUME NEW org \in Orgs \cup {None} PROVE Fits(Branches(org)) /\ Fits(Admin(org))
  <2>1. {Branches(org), Admin(org)} \subseteq [at : {"branches", "admin"}, org : Orgs \cup {None}]
    BY DEF Branches, Admin
  <2>2. [at : {"branches", "admin"}, org : Orgs \cup {None}] \subseteq Places
    BY DEF Places
  <2> QED BY <2>1, <2>2 DEF Fits, Branches, Admin
<1>8. ASSUME NEW org \in Orgs \cup {None}, NEW to \in Orgs PROVE Fits(AddBranches(org, to))
  <2>1. AddBranches(org, to) \in [at : {"add_branches"}, org : Orgs \cup {None}, to : Orgs]
    BY DEF AddBranches
  <2>2. [at : {"add_branches"}, org : Orgs \cup {None}, to : Orgs] \subseteq Places
    BY DEF Places
  <2> QED BY <2>1, <2>2 DEF Fits, AddBranches
<1> QED BY <1>1, <1>2, <1>3, <1>4, <1>5, <1>6, <1>7, <1>8

\* What a step of p may do to where the processes are.
Moves(p) == \E place : Fits(place) /\ Go(p, place)

LEMMA EveryStepFits ==
  ASSUME PlaceInv, NEW p \in Procs,
         \/ Start(p) \/ Progress(p) \/ ConnectFails(p) \/ StatementFails(p) \/ Stop(p)
  PROVE  Moves(p)
<1> USE DEF Moves
<1>1. CASE Start(p) \/ ConnectFails(p)
  <2>1. ConnectFails(p) => proc[p].tries \in 1 .. RETRIES
    BY DEF ConnectFails, PlaceInv, Fits
  <2>2. (\E n \in 1 .. RETRIES : Go(p, Connecting(n))) \/ Go(p, Down)
    BY <1>1, <2>1, BoundsAssumption DEF Start, ConnectFails
  <2> QED BY <2>2, PlacesFit
<1>2. CASE Connect(p)
  BY <1>2, PlacesFit DEF Connect, Few
<1>3. CASE Look(p) \/ Do(p)
  <2>1. proc[p].unit \in Few
    BY <1>3 DEF Look, Do, PlaceInv, Fits
  <2>2. \/ Go(p, Doing(proc[p].unit)) \/ Go(p, Unit(proc[p].unit + 1)) \/ Go(p, ToCreate)
    BY <1>3 DEF Look, Do
  <2> QED BY <2>1, <2>2, PlacesFit
<1>4. CASE StatementFails(p) \/ Stop(p)
  BY <1>4, PlacesFit DEF StatementFails, Stop
<1>5. CASE create_all(p) \/ create_tables(p)
  <2>1. (\E ts \in SUBSET Tables : Go(p, Creating(ts))) \/ Go(p, CountOrgs) \/ Go(p, Down)
    BY <1>5 DEF create_all, create_tables
  <2> QED BY <2>1, PlacesFit
<1>6. CASE count_orgs(p) \/ add_orgs(p)
  <2>1. \/ Go(p, Branches(None)) \/ Go(p, AddOrgs) \/ Go(p, Down) \/ Go(p, Branches(FirstOrg))
    BY <1>6 DEF count_orgs, add_orgs
  <2> QED BY <2>1, PlacesFit, OrgsAssumption
<1>7. CASE _seed_branches_if_needed(p) \/ add_branches(p)
  <2>1. proc[p].org \in Orgs \cup {None}
    BY <1>7 DEF _seed_branches_if_needed, add_branches, PlaceInv, Fits
  <2>2. Chosen(proc[p].org) \subseteq Orgs
    BY <2>1 DEF Chosen
  <2>3. \/ Go(p, Down) \/ Go(p, Admin(proc[p].org))
        \/ \E to \in Orgs : Go(p, AddBranches(proc[p].org, to))
    BY <1>7, <2>2 DEF _seed_branches_if_needed, add_branches
  <2> QED BY <2>1, <2>3, PlacesFit
<1>8. CASE _seed_admin_if_needed(p) \/ add_admin(p)
  <2>1. proc[p].at = "admin" => Chosen(proc[p].org) \subseteq Orgs
    BY DEF Chosen, PlaceInv, Fits
  <2>2. \A org \in Orgs : [org |-> org, branch |-> HeadOffice(org)] \in Administrators
    BY DEF HeadOffice, Administrators
  <2>3. (\E row \in Administrators : Go(p, AddAdmin(row))) \/ Go(p, Down) \/ Go(p, Serving)
    BY <1>8, <2>1, <2>2 DEF _seed_admin_if_needed, add_admin
  <2> QED BY <2>3, PlacesFit
<1> QED BY <1>1, <1>2, <1>3, <1>4, <1>5, <1>6, <1>7, <1>8 DEF Progress

\* Where the processes go, and that branches are only added.
LEMMA Steps ==
  ASSUME PlaceInv, [Next]_vars
  PROVE  /\ PlaceInv'
         /\ \A o \in Orgs : branches[o] <= branches'[o]
<1>1. ASSUME NEW p \in Procs, Moves(p)
      PROVE  proc' \in [Procs -> Places] /\ \A q \in Procs : Fits(proc'[q])
  <2>1. PICK place : Fits(place) /\ proc' = [proc EXCEPT ![p] = place]
    BY <1>1 DEF Moves, Go
  <2>2. proc' \in [Procs -> Places]
    BY <2>1 DEF PlaceInv, Fits
  <2>3. \A q \in Procs : proc'[q] = IF q = p THEN place ELSE proc[q]
    BY <2>1 DEF PlaceInv
  <2> QED BY <2>1, <2>2, <2>3 DEF PlaceInv
<1>2. proc' \in [Procs -> Places] /\ \A q \in Procs : Fits(proc'[q])
  <2>1. (\E p \in Procs : Moves(p)) \/ proc' = proc
    BY EveryStepFits DEF Next, vars, create_deal, soft_delete_deal, restore_deal, SetPhone
  <2> QED BY <1>1, <2>1 DEF PlaceInv
<1>3. DOMAIN why' = Procs
  BY DEF PlaceInv, Next, vars, Start, Progress, Connect, ConnectFails, Look, Do, StatementFails,
         create_all, create_tables, count_orgs, add_orgs, _seed_branches_if_needed, add_branches,
         _seed_admin_if_needed, add_admin, create_deal, soft_delete_deal, restore_deal, SetPhone,
         Stop, Mark
<1>4. branches' \in [Orgs -> Nat] /\ \A o \in Orgs : branches[o] <= branches'[o]
  <2>1. ASSUME NEW p \in Procs, add_branches(p)
        PROVE  branches' \in [Orgs -> Nat] /\ \A o \in Orgs : branches[o] <= branches'[o]
    BY <2>1 DEF add_branches, PlaceInv, Fits
  <2>2. (\E p \in Procs : add_branches(p)) \/ branches' = branches
    BY DEF Next, vars, data, Start, Progress, Connect, ConnectFails, Look, Do, StatementFails,
           create_all, create_tables, count_orgs, add_orgs, _seed_branches_if_needed,
           _seed_admin_if_needed, add_admin, create_deal, soft_delete_deal, restore_deal, SetPhone,
           Stop
  <2> QED BY <2>1, <2>2 DEF PlaceInv
<1> QED BY <1>2, <1>3, <1>4 DEF PlaceInv

LEMMA PlaceInvHolds == Spec => []PlaceInv
<1>1. Init => PlaceInv
  <2> SUFFICES ASSUME Init PROVE PlaceInv
    OBVIOUS
  <2>1. Down \in Places /\ Fits(Down)
    BY PlacesFit DEF Fits
  <2> QED BY <2>1 DEF Init, PlaceInv
<1> QED BY <1>1, Steps, PTL DEF Spec

-----------------------------------------------------------------------------
(* The constraint on the phone *)

\* Wherever a start is cut off, repeated or overtaken by another, a database
\* that kept active deals from sharing a phone goes on doing so: the exchange
\* of the constraint for the index is one transaction (migrate_phone_constraint).
THEOREM PhoneGuardKept == Spec => PhoneGuardStays
<1>1. PlaceInv /\ [Next]_vars => (Guarded => Guarded')
  <2> SUFFICES ASSUME PlaceInv, [Next]_vars, Guarded PROVE Guarded'
    OBVIOUS
  <2>1. ASSUME NEW p \in Procs, Do(p) PROVE Guarded'
    <3>1. proc[p].unit \in Few
      BY <2>1 DEF Do, PlaceInv, Fits
    <3>2. schema' = schema \/ schema' = (schema \cup U(proc[p].unit).adds) \ U(proc[p].unit).drops
      BY <2>1 DEF Do, U, RolledBack
    <3>3. Sound(proc[p].unit)
      BY <3>1, UnitsSound
    <3> QED BY <3>2, <3>3 DEF Guarded, Sound, FULL, ACTIVE
  <2>2. ASSUME NEW p \in Procs, create_tables(p) PROVE Guarded'
    BY <2>2 DEF create_tables, Guarded
  <2>3. \/ \E p \in Procs : Do(p) \/ create_tables(p)
        \/ schema' = schema
    BY DEF Next, vars, Start, Progress, Connect, ConnectFails, Look, StatementFails, RolledBack,
           create_all, count_orgs, add_orgs, _seed_branches_if_needed, add_branches,
           _seed_admin_if_needed, add_admin, create_deal, soft_delete_deal, restore_deal, SetPhone,
           Stop
  <2> QED BY <2>1, <2>2, <2>3 DEF Guarded
<1> QED BY <1>1, PlaceInvHolds, PTL DEF Spec, PhoneGuardStays

-----------------------------------------------------------------------------
(* The administrator *)

InOffice(row, lots) ==
  row.branch # None => row.branch = row.org /\ row.org \in Orgs /\ lots[row.org] > 0

\* What a process is about to insert is as good as what is there.
OfficeInv ==
  /\ admin # None => InOffice(admin, branches)
  /\ \A p \in Procs : proc[p].at = "add_admin" => InOffice(proc[p].row, branches)

\* Only looking for the administrator leads to its insertion, and only the
\* insertion changes it.
LEMMA AdminSteps ==
  ASSUME PlaceInv, [Next]_vars
  PROVE  /\ \A p \in Procs :
              proc'[p].at = "add_admin" =>
                \/ proc[p] = proc'[p]
                \/ \E org \in Orgs : proc'[p].row = [org |-> org, branch |-> HeadOffice(org)]
         /\ admin' = admin \/ \E p \in Procs : proc[p].at = "add_admin" /\ admin' = proc[p].row
<1>1. ASSUME NEW p \in Procs, NEW place, place.at # "add_admin", Go(p, place)
      PROVE  \A q \in Procs : proc'[q].at = "add_admin" => proc[q] = proc'[q]
  BY <1>1 DEF Go, PlaceInv
<1> DEFINE Same == \A q \in Procs : proc'[q].at = "add_admin" => proc[q] = proc'[q]
<1>2. \A i \in Few : Unit(i + 1).at # "add_admin"
  BY DEF Unit, Looking, ToCreate
<1>3. ASSUME NEW p \in Procs, Look(p) \/ Do(p) PROVE Same
  <2>1. proc[p].unit \in Few
    BY <1>3 DEF Look, Do, PlaceInv, Fits
  <2>2. \/ Go(p, Doing(proc[p].unit)) \/ Go(p, Unit(proc[p].unit + 1)) \/ Go(p, ToCreate)
    BY <1>3 DEF Look, Do
  <2>3. Doing(proc[p].unit).at # "add_admin" /\ ToCreate.at # "add_admin"
    BY DEF Doing, ToCreate
  <2> QED BY <1>1, <1>2, <2>1, <2>2, <2>3
<1>4. ASSUME NEW p \in Procs,
             \/ Start(p) \/ Connect(p) \/ ConnectFails(p) \/ StatementFails(p) \/ Stop(p)
             \/ create_all(p) \/ create_tables(p)
      PROVE  Same
  <2>1. \E place : place.at # "add_admin" /\ Go(p, place)
    BY <1>4 DEF Start, Connect, ConnectFails, StatementFails, Stop, create_all, create_tables,
                Connecting, Looking, Creating, Down, ToCreate, CountOrgs
  <2> QED BY <1>1, <2>1
<1>5. ASSUME NEW p \in Procs,
             \/ count_orgs(p) \/ add_orgs(p)
             \/ _seed_branches_if_needed(p) \/ add_branches(p) \/ add_admin(p)
      PROVE  Same
  <2>1. \E place : place.at # "add_admin" /\ Go(p, place)
    BY <1>5 DEF count_orgs, add_orgs, _seed_branches_if_needed, add_branches, add_admin,
                Down, AddOrgs, Branches, AddBranches, Admin, Serving
  <2> QED BY <1>1, <2>1
<1>6. ASSUME NEW p \in Procs, _seed_admin_if_needed(p)
      PROVE  \A q \in Procs : proc'[q].at = "add_admin" =>
                \/ proc[q] = proc'[q]
                \/ \E org \in Orgs : proc'[q].row = [org |-> org, branch |-> HeadOffice(org)]
  <2>1. Chosen(proc[p].org) \subseteq Orgs
    BY <1>6 DEF Chosen, _seed_admin_if_needed, PlaceInv, Fits
  <2>2. CASE Go(p, Down) \/ Go(p, Serving)
    BY <1>1, <2>2 DEF Down, Serving
  <2>3. ASSUME NEW org \in Orgs, Go(p, AddAdmin([org |-> org, branch |-> HeadOffice(org)]))
        PROVE  \A q \in Procs : \/ proc[q] = proc'[q]
                                \/ proc'[q].row = [org |-> org, branch |-> HeadOffice(org)]
    BY <2>3 DEF Go, AddAdmin, PlaceInv
  <2> QED BY <1>6, <2>1, <2>2, <2>3 DEF _seed_admin_if_needed
<1>7. UNCHANGED proc => Same
  OBVIOUS
<1>8. \A p \in Procs :
         proc'[p].at = "add_admin" =>
           \/ proc[p] = proc'[p]
           \/ \E org \in Orgs : proc'[p].row = [org |-> org, branch |-> HeadOffice(org)]
  BY <1>3, <1>4, <1>5, <1>6, <1>7
     DEF Next, Progress, vars, create_deal, soft_delete_deal, restore_deal, SetPhone
<1>9. admin' = admin \/ \E p \in Procs : proc[p].at = "add_admin" /\ admin' = proc[p].row
  BY DEF Next, vars, data, Start, Progress, Connect, ConnectFails, Look, Do, StatementFails,
         create_all, create_tables, count_orgs, add_orgs, _seed_branches_if_needed, add_branches,
         _seed_admin_if_needed, add_admin, create_deal, soft_delete_deal, restore_deal, SetPhone,
         Stop
<1> QED BY <1>8, <1>9

\* However starts are killed and repeated, and whatever organizations they go
\* on with, the administrator's office is its own organization's (seed.py:116).
THEOREM AdminInOwnOffice == Spec => []AdminOffice
<1>1. Init => OfficeInv
  <2> SUFFICES ASSUME Init PROVE OfficeInv
    OBVIOUS
  <2>1. admin # None => admin.branch = None
    BY DEF Init
  <2>2. \A p \in Procs : proc[p].at # "add_admin"
    BY DEF Init, Down
  <2> QED BY <2>1, <2>2 DEF OfficeInv, InOffice
<1>2. PlaceInv /\ OfficeInv /\ [Next]_vars => OfficeInv'
  <2> SUFFICES ASSUME PlaceInv, OfficeInv, [Next]_vars PROVE OfficeInv'
    OBVIOUS
  <2>1. \A o \in Orgs : branches[o] \in Nat /\ branches'[o] \in Nat /\ branches[o] <= branches'[o]
    BY Steps DEF PlaceInv
  <2>2. \A row : InOffice(row, branches) => InOffice(row, branches')
    BY <2>1 DEF InOffice
  <2>3. \A org \in Orgs : InOffice([org |-> org, branch |-> HeadOffice(org)], branches)
    BY DEF InOffice, HeadOffice
  <2>4. admin' # None => InOffice(admin', branches')
    <3>1. CASE admin' = admin
      BY <2>2, <3>1 DEF OfficeInv
    <3>2. ASSUME NEW p \in Procs, proc[p].at = "add_admin", admin' = proc[p].row
          PROVE  InOffice(admin', branches')
      BY <2>2, <3>2 DEF OfficeInv
    <3> QED BY <3>1, <3>2, AdminSteps
  <2>5. \A p \in Procs : proc'[p].at = "add_admin" => InOffice(proc'[p].row, branches')
    <3> SUFFICES ASSUME NEW p \in Procs, proc'[p].at = "add_admin"
                 PROVE  InOffice(proc'[p].row, branches')
      OBVIOUS
    <3>1. CASE proc[p] = proc'[p]
      BY <2>2, <3>1 DEF OfficeInv
    <3>2. ASSUME NEW org \in Orgs, proc'[p].row = [org |-> org, branch |-> HeadOffice(org)]
          PROVE  InOffice(proc'[p].row, branches')
      BY <2>2, <2>3, <3>2
    <3> QED BY <3>1, <3>2, AdminSteps
  <2> QED BY <2>4, <2>5 DEF OfficeInv
<1>3. OfficeInv => AdminOffice
  BY DEF OfficeInv, InOffice, AdminOffice
<1> QED BY <1>1, <1>2, <1>3, PlaceInvHolds, PTL DEF Spec

-----------------------------------------------------------------------------
(* The seeding of the branches *)

\* Those that have found no branches and are about to add a lot.
Adding == {p \in Procs : proc[p].at = "add_branches"}

\* Every lot there is, and every one to come, is the work of a process of its
\* own, but for the lot an earlier version left: that one keeps all from adding.
LotsInv ==
  /\ IsFiniteSet(Lots)
  /\ Cardinality(Lots) + Cardinality(Adding) <= Cardinality(Procs)

LEMMA LotOf == \A o, n : <<o, n>> \in Lots <=> o \in Orgs /\ n \in 1 .. branches[o]
BY DEF Lots

LEMMA NoneInEmpty == \A n : n \notin 1 .. 0
OBVIOUS

LEMMA LotIsPair == \A l \in Lots : \E o, n : l = <<o, n>>
BY DEF Lots

LEMMA AddingFinite ==
  /\ IsFiniteSet(Adding) /\ Cardinality(Adding) \in Nat
  /\ Cardinality(Adding) <= Cardinality(Procs) /\ Cardinality(Procs) \in Nat
<1>1. Adding \in SUBSET Procs
  BY DEF Adding
<1> QED BY <1>1, ProcsAssumption, FS_Subset, FS_CardinalityType

\* Only a process that finds no branches sets out to add some, and each that
\* does adds one lot and goes on.
LEMMA LotSteps ==
  ASSUME PlaceInv, [Next]_vars
  PROVE  \/ branches' = branches /\ (NoBranches \/ Adding' \subseteq Adding)
         \/ \E p \in Adding, o \in Orgs :
              /\ branches' = [branches EXCEPT ![o] = @ + 1]
              /\ Adding' \subseteq Adding \ {p}
<1>1. ASSUME NEW p \in Procs, NEW place, place.at # "add_branches", Go(p, place)
      PROVE  Adding' \subseteq Adding \ {p}
  BY <1>1 DEF Go, PlaceInv, Adding
<1>2. \A i : Unit(i).at # "add_branches" /\ Doing(i).at # "add_branches"
  BY DEF Unit, Looking, ToCreate, Doing
<1>3. ASSUME NEW p \in Procs, Look(p) \/ Do(p)
      PROVE  branches' = branches /\ Adding' \subseteq Adding
  <2>1. branches' = branches
    BY <1>3 DEF Look, Do, data
  <2>2. (\E i : Go(p, Doing(i)) \/ Go(p, Unit(i))) \/ Go(p, ToCreate)
    BY <1>3 DEF Look, Do
  <2>3. ToCreate.at # "add_branches"
    BY DEF ToCreate
  <2> QED BY <1>1, <1>2, <2>1, <2>2, <2>3
<1>4. ASSUME NEW p \in Procs,
             \/ Start(p) \/ Connect(p) \/ ConnectFails(p) \/ StatementFails(p) \/ Stop(p)
             \/ create_all(p) \/ create_tables(p) \/ count_orgs(p) \/ add_orgs(p)
      PROVE  branches' = branches /\ Adding' \subseteq Adding
  <2>1. branches' = branches
    BY <1>4 DEF Start, Connect, ConnectFails, StatementFails, Stop, create_all, create_tables,
                count_orgs, add_orgs, data
  <2>2. \E place : place.at # "add_branches" /\ Go(p, place)
    BY <1>4 DEF Start, Connect, ConnectFails, StatementFails, Stop, create_all, create_tables,
                count_orgs, add_orgs, Connecting, Looking, Creating, Down, ToCreate, CountOrgs,
                AddOrgs, Branches
  <2> QED BY <1>1, <2>1, <2>2
<1>5. ASSUME NEW p \in Procs, _seed_admin_if_needed(p) \/ add_admin(p)
      PROVE  branches' = branches /\ Adding' \subseteq Adding
  <2>1. branches' = branches
    BY <1>5 DEF _seed_admin_if_needed, add_admin, data
  <2>2. \E place : place.at # "add_branches" /\ Go(p, place)
    BY <1>5 DEF _seed_admin_if_needed, add_admin, Down, AddAdmin, Serving
  <2> QED BY <1>1, <2>1, <2>2
<1>6. ASSUME NEW p \in Procs, _seed_branches_if_needed(p)
      PROVE  branches' = branches /\ (NoBranches \/ Adding' \subseteq Adding)
  <2>1. branches' = branches
    BY <1>6 DEF _seed_branches_if_needed, data
  <2>2. NoBranches \/ \E place : place.at # "add_branches" /\ Go(p, place)
    BY <1>6 DEF _seed_branches_if_needed, Down, Admin
  <2> QED BY <1>1, <2>1, <2>2
<1>7. ASSUME NEW p \in Procs, add_branches(p)
      PROVE  \E o \in Orgs : /\ branches' = [branches EXCEPT ![o] = @ + 1]
                             /\ p \in Adding /\ Adding' \subseteq Adding \ {p}
  <2>1. proc[p].to \in Orgs /\ p \in Adding
    BY <1>7 DEF add_branches, PlaceInv, Fits, Adding
  <2>2. \E place : place.at # "add_branches" /\ Go(p, place)
    BY <1>7 DEF add_branches, Admin
  <2> QED BY <1>1, <1>7, <2>1, <2>2 DEF add_branches
<1>8. UNCHANGED proc => Adding' \subseteq Adding
  BY DEF Adding
<1>9. create_deal \/ soft_delete_deal \/ restore_deal \/ UNCHANGED vars
        => branches' = branches /\ UNCHANGED proc
  BY DEF create_deal, soft_delete_deal, restore_deal, SetPhone, vars, data
<1> QED BY <1>3, <1>4, <1>5, <1>6, <1>7, <1>8, <1>9 DEF Next, Progress

\* A lot more in an organization is one lot more.
LEMMA LotAdded ==
  ASSUME PlaceInv, NEW o \in Orgs, branches' = [branches EXCEPT ![o] = @ + 1]
  PROVE  Lots' = Lots \cup {<<o, branches[o] + 1>>}
<1>1. branches \in [Orgs -> Nat]
  BY DEF PlaceInv
<1>2. \A q \in Orgs : branches'[q] = IF q = o THEN branches[o] + 1 ELSE branches[q]
  BY <1>1
<1>3. 1 .. branches[o] + 1 = (1 .. branches[o]) \cup {branches[o] + 1}
  BY <1>1
<1>4. \A q, n : <<q, n>> \in Lots' <=> q \in Orgs /\ n \in 1 .. branches'[q]
  BY DEF Lots
<1>5. \A q, n : <<q, n>> \in Lots' <=> <<q, n>> \in Lots \cup {<<o, branches[o] + 1>>}
  BY <1>2, <1>3, <1>4, LotOf
<1>6. \A l \in Lots' : \E q, n : l = <<q, n>>
  BY DEF Lots
<1> QED BY <1>5, <1>6, LotIsPair

\* Each process that adds branches found none, so that all of them together
\* add no more lots than there are processes (seed.py:82).
THEOREM OneLotPerProcess == Spec => []BranchesBounded
<1>1. Init => LotsInv
  <2> SUFFICES ASSUME Init PROVE LotsInv
    OBVIOUS
  <2>1. Adding = {}
    BY DEF Init, Adding, Down
  <2>2. \A o \in Orgs : branches[o] \in {0, 1}
    BY DEF Init
  <2>3. \A o, q \in Orgs : branches[o] = 1 /\ branches[q] = 1 => o = q
    BY DEF Init
  <2>4. \E x : Lots \subseteq {x}
    <3>1. CASE \A o \in Orgs : branches[o] = 0
      <4>1. \A o, n : <<o, n>> \notin Lots
        BY <3>1, LotOf, NoneInEmpty
      <4> QED BY <4>1, LotIsPair
    <3>2. ASSUME NEW o \in Orgs, branches[o] = 1 PROVE Lots \subseteq {<<o, 1>>}
      <4>1. ASSUME NEW q, NEW n, <<q, n>> \in Lots PROVE <<q, n>> = <<o, 1>>
        <5>1. q \in Orgs /\ n \in 1 .. branches[q]
          BY <4>1, LotOf
        <5>2. branches[q] = 1 /\ n = 1
          BY <2>2, <5>1
        <5> QED BY <2>3, <3>2, <5>1, <5>2
      <4> QED BY <4>1, LotIsPair
    <3> QED BY <2>2, <3>1, <3>2
  <2>5. PICK x : Lots \in SUBSET {x}
    BY <2>4
  <2>6. IsFiniteSet(Lots) /\ Cardinality(Lots) <= 1 /\ Cardinality(Lots) \in Nat
    <3>1. IsFiniteSet({x}) /\ Cardinality({x}) = 1
      BY FS_Singleton
    <3>2. IsFiniteSet(Lots) /\ Cardinality(Lots) <= Cardinality({x})
      BY <2>5, <3>1, FS_Subset
    <3> QED BY <3>1, <3>2, FS_CardinalityType
  <2>7. Cardinality(Procs) \in Nat /\ Cardinality(Procs) # 0 /\ Cardinality(Adding) = 0
    BY <2>1, ProcsAssumption, FS_EmptySet, FS_CardinalityType
  <2> QED BY <2>6, <2>7 DEF LotsInv
<1>2. PlaceInv /\ LotsInv /\ [Next]_vars => LotsInv'
  <2> SUFFICES ASSUME PlaceInv, LotsInv, [Next]_vars PROVE LotsInv'
    OBVIOUS
  <2>1. IsFiniteSet(Lots) /\ Cardinality(Lots) \in Nat
    BY FS_CardinalityType DEF LotsInv
  <2>2. /\ IsFiniteSet(Adding) /\ Cardinality(Adding) \in Nat
        /\ Cardinality(Adding) <= Cardinality(Procs) /\ Cardinality(Procs) \in Nat
    BY AddingFinite
  <2>3. Adding' \in SUBSET Procs
    BY DEF Adding
  <2>4. Cardinality(Adding') \in Nat /\ Cardinality(Adding') <= Cardinality(Procs)
    BY <2>3, ProcsAssumption, FS_Subset, FS_CardinalityType
  <2>5. CASE branches' = branches /\ NoBranches
    <3>1. \A o, n : <<o, n>> \notin Lots
      BY <2>5, LotOf, NoneInEmpty DEF NoBranches
    <3>2. Lots' = {}
      BY <2>5, <3>1, LotIsPair DEF Lots
    <3> QED BY <2>4, <3>2, FS_EmptySet DEF LotsInv
  <2>6. CASE branches' = branches /\ Adding' \subseteq Adding
    <3>1. Lots' = Lots
      BY <2>6 DEF Lots
    <3>2. Cardinality(Adding') <= Cardinality(Adding)
      BY <2>2, <2>6, FS_Subset
    <3> QED BY <2>1, <2>2, <2>4, <3>1, <3>2 DEF LotsInv
  <2>7. ASSUME NEW p \in Adding, NEW o \in Orgs, branches' = [branches EXCEPT ![o] = @ + 1],
               Adding' \subseteq Adding \ {p}
        PROVE  LotsInv'
    <3>1. Lots' = Lots \cup {<<o, branches[o] + 1>>}
      BY <2>7, LotAdded
    <3>2. /\ IsFiniteSet(Lots') /\ Cardinality(Lots') \in Nat
          /\ Cardinality(Lots') <= Cardinality(Lots) + 1
      <4>1. PICK lot : lot = <<o, branches[o] + 1>>
        OBVIOUS
      <4>2. /\ IsFiniteSet(Lots \cup {lot})
            /\ Cardinality(Lots \cup {lot}) =
                 IF lot \in Lots THEN Cardinality(Lots) ELSE Cardinality(Lots) + 1
        BY <2>1, FS_AddElement
      <4> QED BY <2>1, <3>1, <4>1, <4>2
    <3>3. IsFiniteSet(Adding \ {p}) /\ Cardinality(Adding \ {p}) = Cardinality(Adding) - 1
      BY <2>2, FS_RemoveElement
    <3>4. Cardinality(Adding') <= Cardinality(Adding) - 1
      BY <2>7, <3>3, FS_Subset
    <3> QED BY <2>1, <2>2, <2>4, <3>2, <3>4 DEF LotsInv
  <2> QED BY <2>5, <2>6, <2>7, LotSteps
<1>3. LotsInv => BranchesBounded
  <2> SUFFICES ASSUME LotsInv PROVE BranchesBounded
    OBVIOUS
  <2>1. Cardinality(Lots) \in Nat
    BY FS_CardinalityType DEF LotsInv
  <2> QED BY <2>1, AddingFinite DEF LotsInv, BranchesBounded
<1> QED BY <1>1, <1>2, <1>3, PlaceInvHolds, PTL DEF Spec

-----------------------------------------------------------------------------
(* A start that nothing disturbs *)

Later == {"create_all", "creating", "count_orgs", "add_orgs", "branches", "add_branches",
          "admin", "add_admin", "serving"}

\* The migrations behind a place have left their objects.
Ready(place, db) ==
  /\ Begun(db)
  /\ place.at = "do" => U(place.unit).if_not_exists \/ U(place.unit).object \notin db
  /\ place.at \in {"look", "do"} =>
       /\ \A j \in Few : j < place.unit => U(j).object \in db
       /\ place.unit > 7 => FULL \notin db
  /\ place.at \in Later => (\A j \in Few : U(j).object \in db) /\ FULL \notin db

\* The first tables are made together, and nothing else is ever in the schema.
SchemaInv ==
  /\ schema \subseteq Complete \cup {FULL}
  /\ "organizations" \in schema => Begun(schema)
  /\ \A p \in Procs : proc[p].at = "creating" =>
       proc[p].missing \subseteq Tables /\ Tables \ proc[p].missing \subseteq schema
  /\ phone.active \in Nat

\* Undisturbed, a start is the only one, and it is ready for where it is.
CleanInv ==
  \A p \in Procs : why[p] = {} /\ proc[p].at # "down" =>
    /\ Ready(proc[p], schema)
    /\ proc[p].at # "serving" =>
         /\ phone.active <= 1
         /\ \A q \in Procs \ {p} : proc[q].at \in {"down", "serving"}

\* Nothing but the full constraint is dropped, and that never comes back.
Grows(db, next) ==
  /\ db \ {FULL} \subseteq next /\ next \subseteq Complete \cup {FULL}
  /\ FULL \in next => FULL \in db
  /\ "organizations" \in next => "organizations" \in db \/ Tables \subseteq next

LEMMA NoFull == FULL \notin Complete /\ FULL \notin Tables
BY CompleteIs DEF FULL

LEMMA DoGrows ==
  ASSUME PlaceInv, SchemaInv, NEW p \in Procs, Do(p)
  PROVE  Grows(schema, schema')
<1>1. proc[p].unit \in Few
  BY DEF Do, PlaceInv, Fits
<1>2. schema' = schema \/ schema' = (schema \cup U(proc[p].unit).adds) \ U(proc[p].unit).drops
  BY DEF Do, U, RolledBack
<1>3. Sound(proc[p].unit)
  BY <1>1, UnitsSound
<1> QED BY <1>2, <1>3, NoFull DEF Grows, Sound, SchemaInv

LEMMA CreateGrows ==
  ASSUME PlaceInv, SchemaInv, NEW p \in Procs, create_tables(p)
  PROVE  Grows(schema, schema')
<1>1. CASE schema' = schema
  BY <1>1 DEF Grows, SchemaInv
<1>2. CASE schema' = schema \cup UNION {Created(t) : t \in proc[p].missing}
  <2>1. proc[p].missing \subseteq Tables /\ Tables \ proc[p].missing \subseteq schema
    BY DEF create_tables, SchemaInv
  <2>2. \A t \in Tables : t \in Created(t) /\ Created(t) \subseteq Complete
    BY DEF Created, Complete, Columns
  <2>3. Tables \subseteq schema'
    BY <1>2, <2>1, <2>2
  <2>4. schema \subseteq schema' /\ schema' \subseteq schema \cup Complete
    BY <1>2, <2>1, <2>2
  <2> QED BY <2>3, <2>4, NoFull DEF Grows, SchemaInv
<1> QED BY <1>1, <1>2 DEF create_tables

LEMMA SchemaSteps ==
  ASSUME PlaceInv, SchemaInv, [Next]_vars
  PROVE  Grows(schema, schema') /\ SchemaInv'
<1>1. schema' = schema => Grows(schema, schema')
  BY DEF Grows, SchemaInv
<1>2. \/ \E p \in Procs : Do(p) \/ create_tables(p)
      \/ schema' = schema
  BY DEF Next, vars, Start, Progress, Connect, ConnectFails, Look, StatementFails, RolledBack,
         create_all, count_orgs, add_orgs, _seed_branches_if_needed, add_branches,
         _seed_admin_if_needed, add_admin, create_deal, soft_delete_deal, restore_deal, SetPhone,
         Stop
<1>3. Grows(schema, schema')
  BY <1>1, <1>2, DoGrows, CreateGrows
<1>4. "organizations" \in schema' => Begun(schema')
  <2>1. Begun(schema) => Begun(schema')
    BY <1>3 DEF Begun, Grows, FULL
  <2>2. Tables \subseteq schema' => Begun(schema')
    BY CompleteIs DEF Begun
  <2> QED BY <1>3, <2>1, <2>2 DEF Grows, SchemaInv
<1>5. ASSUME NEW p \in Procs, proc'[p].at = "creating"
      PROVE  proc'[p] = proc[p] \/ proc'[p].missing = Tables \ schema
  <2>1. ASSUME NEW q \in Procs, NEW place, place.at # "creating", Go(q, place)
        PROVE  proc'[p] = proc[p]
    BY <1>5, <2>1 DEF Go, PlaceInv
  <2>2. ASSUME NEW q \in Procs, create_all(q)
        PROVE  proc'[p] = proc[p] \/ proc'[p].missing = Tables \ schema
    BY <2>2 DEF create_all, Go, Creating, PlaceInv
  <2>3. ASSUME NEW q \in Procs, Look(q) \/ Do(q)
        PROVE  \E place : place.at # "creating" /\ Go(q, place)
    <3>1. \A n : Unit(n).at # "creating" /\ Doing(n).at # "creating" /\ ToCreate.at # "creating"
      BY DEF Unit, Looking, Doing, ToCreate
    <3>2. \/ \E n : Go(q, Doing(n)) \/ Go(q, Unit(n))
          \/ Go(q, ToCreate)
      BY <2>3 DEF Look, Do
    <3> QED BY <3>1, <3>2
  <2>4. ASSUME NEW q \in Procs,
               \/ Start(q) \/ Connect(q) \/ ConnectFails(q) \/ StatementFails(q) \/ Stop(q)
               \/ create_tables(q) \/ count_orgs(q) \/ add_orgs(q)
        PROVE  \E place : place.at # "creating" /\ Go(q, place)
    BY <2>4 DEF Start, Connect, ConnectFails, StatementFails, Stop, create_tables, count_orgs,
                add_orgs, Connecting, Looking, Down, ToCreate, CountOrgs, AddOrgs, Branches
  <2>5. ASSUME NEW q \in Procs,
               \/ _seed_branches_if_needed(q) \/ add_branches(q)
               \/ _seed_admin_if_needed(q) \/ add_admin(q)
        PROVE  \E place : place.at # "creating" /\ Go(q, place)
    BY <2>5 DEF _seed_branches_if_needed, add_branches, _seed_admin_if_needed, add_admin,
                Down, AddBranches, Admin, AddAdmin, Serving
  <2> QED
    BY <2>1, <2>2, <2>3, <2>4, <2>5
       DEF Next, Progress, vars, create_deal, soft_delete_deal, restore_deal, SetPhone
<1>6. \A p \in Procs : proc'[p].at = "creating" =>
         proc'[p].missing \subseteq Tables /\ Tables \ proc'[p].missing \subseteq schema'
  <2>1. Tables \cap schema \subseteq schema'
    BY <1>3, NoFull DEF Grows
  <2> QED BY <1>5, <2>1 DEF SchemaInv
<1>7. phone'.active \in Nat
  <2>1. \/ phone' = phone
        \/ \E trashed : \/ phone' = [active |-> 1, trashed |-> trashed]
                        \/ /\ phone.active > 0
                           /\ phone' = [active |-> phone.active - 1, trashed |-> trashed]
                        \/ phone' = [active |-> phone.active + 1, trashed |-> trashed]
    BY DEF Next, vars, Start, Progress, Connect, ConnectFails, Look, Do, StatementFails,
           create_all, create_tables, count_orgs, add_orgs, _seed_branches_if_needed, add_branches,
           _seed_admin_if_needed, add_admin, create_deal, soft_delete_deal, restore_deal, SetPhone,
           Stop
  <2> QED BY <2>1 DEF SchemaInv
<1> QED BY <1>3, <1>4, <1>6, <1>7 DEF SchemaInv, Grows

\* What is ready in a schema stays so as the schema grows, but for the look of
\* a statement still to come.
LEMMA ReadyGrows ==
  ASSUME NEW place, NEW db, NEW next, Ready(place, db), Grows(db, next), place.at # "do",
         place.at \in {"look"} => place.unit \in Few
  PROVE  Ready(place, next)
<1>1. \A j \in Few : U(j).object # FULL
  BY UnitsSound, NoFull DEF Sound
<1>2. \A j \in Few : U(j).object \in db => U(j).object \in next
  BY <1>1 DEF Grows
<1>3. Begun(next)
  BY DEF Ready, Begun, Grows, FULL
<1> QED BY <1>2, <1>3 DEF Ready, Grows

LEMMA NextReady ==
  ASSUME NEW i \in Few, NEW db, Begun(db), \A j \in Few : j <= i => U(j).object \in db,
         i >= 7 => FULL \notin db
  PROVE  Ready(Unit(i + 1), db)
<1>1. CASE i < 13
  <2>1. Unit(i + 1) = [at |-> "look", unit |-> i + 1]
    BY <1>1, UnitList DEF Unit, Looking, Few
  <2>2. \A j \in Few : j < i + 1 => U(j).object \in db
    BY DEF Few
  <2>3. i + 1 > 7 => FULL \notin db
    BY DEF Few
  <2> QED BY <2>1, <2>2, <2>3 DEF Ready, Later
<1>2. CASE i = 13
  <2>1. Unit(i + 1) = [at |-> "create_all"]
    BY <1>2, UnitList DEF Unit, ToCreate
  <2>2. \A j \in Few : U(j).object \in db
    BY <1>2 DEF Few
  <2> QED BY <1>2, <2>1, <2>2 DEF Ready, Later
<1> QED BY <1>1, <1>2 DEF Few

\* A migration that is ready finds everything as it needs it.
LEMMA LookReady ==
  ASSUME PlaceInv, NEW p \in Procs, Ready(proc[p], schema), Look(p)
  PROVE  Ready(proc'[p], schema')
<1> DEFINE i == proc[p].unit
<1>1. /\ proc[p].at = "look" /\ i \in Few /\ schema' = schema
      /\ Begun(schema) /\ \A j \in Few : j < i => U(j).object \in schema
      /\ i > 7 => FULL \notin schema
  BY DEF Look, PlaceInv, Fits, Ready
<1>2. HasTable(U(i))
  BY <1>1, UnitsInOrder
<1>3. CASE U(i).if_not_exists \/ U(i).object \notin schema
  <2>1. proc'[p] = [at |-> "do", unit |-> i]
    BY <1>2, <1>3 DEF Look, Go, Doing, PlaceInv, U
  <2> QED BY <1>1, <1>3, <2>1 DEF Ready, Later
<1>4. CASE ~ (U(i).if_not_exists \/ U(i).object \notin schema)
  <2>1. proc'[p] = Unit(i + 1)
    BY <1>2, <1>4 DEF Look, Go, PlaceInv, U
  <2>2. i # 7
    BY <1>1, <1>4, UnitsSound DEF Sound
  <2>3. \A j \in Few : j <= i => U(j).object \in schema
    BY <1>1, <1>4 DEF Few
  <2>4. i >= 7 => FULL \notin schema
    BY <1>1, <2>2 DEF Few
  <2> HIDE DEF i
  <2>5. Ready(Unit(i + 1), schema)
    BY <1>1, <2>3, <2>4, NextReady
  <2> QED BY <1>1, <2>1, <2>5
<1> QED BY <1>3, <1>4

LEMMA DoReady ==
  ASSUME PlaceInv, SchemaInv, NEW p \in Procs, Ready(proc[p], schema), phone.active <= 1, Do(p)
  PROVE  Ready(proc'[p], schema')
<1> DEFINE i == proc[p].unit
<1>1. /\ proc[p].at = "do" /\ i \in Few
      /\ Begun(schema) /\ \A j \in Few : j < i => U(j).object \in schema
      /\ i > 7 => FULL \notin schema
      /\ U(i).if_not_exists \/ U(i).object \notin schema
  BY DEF Do, PlaceInv, Fits, Ready
<1>2. U(i).needs \subseteq schema
  BY <1>1, UnitsInOrder
<1>3. ~ Raises(U(i))
  BY <1>1, <1>2 DEF Raises, SchemaInv
<1>4. schema' = (schema \cup U(i).adds) \ U(i).drops /\ proc'[p] = Unit(i + 1)
  BY <1>3 DEF Do, Go, PlaceInv, U
<1>5. Sound(i)
  BY <1>1, UnitsSound
<1>6. Grows(schema, schema')
  BY DoGrows
<1>7. Begun(schema')
  BY <1>1, <1>6 DEF Begun, Grows, FULL
<1>8. \A j \in Few : U(j).object # FULL
  BY UnitsSound, NoFull DEF Sound
<1>9. \A j \in Few : j <= i => U(j).object \in schema'
  <2>1. U(i).object \in schema'
    BY <1>1, <1>4, <1>5, <1>8 DEF Sound
  <2>2. \A j \in Few : j < i => U(j).object \in schema'
    BY <1>1, <1>6, <1>8 DEF Grows
  <2> QED BY <1>1, <2>1, <2>2 DEF Few
<1>10. i >= 7 => FULL \notin schema'
  <2>1. i = 7 => FULL \notin schema'
    BY <1>4, <1>5 DEF Sound
  <2>2. i > 7 => FULL \notin schema'
    BY <1>1, <1>6 DEF Grows
  <2> QED BY <1>1, <2>1, <2>2 DEF Few
<1> HIDE DEF i
<1> QED BY <1>1, <1>4, <1>7, <1>9, <1>10, NextReady

\* After the migrations, and before them, only the place changes.
LEMMA ProgressReady ==
  ASSUME PlaceInv, SchemaInv, NEW p \in Procs, Ready(proc[p], schema), phone.active <= 1,
         Progress(p) \/ ConnectFails(p)
  PROVE  proc'[p].at = "down" \/ Ready(proc'[p], schema')
<1>0. Begun(schema)
  BY DEF Ready
<1>1. CASE Connect(p) \/ ConnectFails(p)
  <2>1. schema' = schema /\ (proc'[p] = [at |-> "look", unit |-> 1]
                             \/ proc'[p].at \in {"connect", "down"})
    BY <1>1 DEF Connect, ConnectFails, Go, PlaceInv, Looking, Connecting, Down
  <2> QED BY <1>0, <2>1 DEF Ready, Later, Few
<1>2. CASE Look(p)
  BY <1>2, LookReady
<1>3. CASE Do(p)
  BY <1>3, DoReady
<1>4. CASE create_all(p) \/ create_tables(p)
  <2>1. proc[p].at \in Later /\ proc'[p].at \in {"creating", "count_orgs", "down"}
    BY <1>4 DEF create_all, create_tables, Go, PlaceInv, ToCreate, Creating, CountOrgs, Down, Later
  <2>2. Grows(schema, schema')
    BY <1>4, CreateGrows DEF create_all, Grows, SchemaInv
  <2>3. Ready([at |-> proc'[p].at], schema) \/ proc'[p].at = "down"
    BY <2>1 DEF Ready, Later
  <2>4. Ready([at |-> proc'[p].at], schema') \/ proc'[p].at = "down"
    BY <2>1, <2>2, <2>3, ReadyGrows
  <2> QED BY <2>1, <2>4 DEF Ready, Later
<1>5. CASE count_orgs(p) \/ add_orgs(p)
  <2>1. /\ proc[p].at \in Later /\ schema' = schema
        /\ proc'[p].at \in {"branches", "add_orgs", "down"}
    BY <1>5 DEF count_orgs, add_orgs, Go, PlaceInv, CountOrgs, AddOrgs, Branches, Down, Later
  <2> QED BY <2>1 DEF Ready, Later
<1>6. CASE _seed_branches_if_needed(p) \/ add_branches(p)
  <2>1. /\ proc[p].at \in Later /\ schema' = schema
        /\ proc'[p].at \in {"add_branches", "admin", "down"}
    BY <1>6 DEF _seed_branches_if_needed, add_branches, Go, PlaceInv, AddBranches, Admin, Down, Later
  <2> QED BY <2>1 DEF Ready, Later
<1>7. CASE _seed_admin_if_needed(p) \/ add_admin(p)
  <2>1. /\ proc[p].at \in Later /\ schema' = schema
        /\ proc'[p].at \in {"add_admin", "serving", "down"}
    BY <1>7 DEF _seed_admin_if_needed, add_admin, Go, PlaceInv, AddAdmin, Serving, Down, Later
  <2> QED BY <2>1 DEF Ready, Later
<1> QED BY <1>1, <1>2, <1>3, <1>4, <1>5, <1>6, <1>7 DEF Progress

LEMMA StartingAt ==
  ASSUME PlaceInv, NEW p \in Procs
  PROVE  Starting(p) <=> proc[p].at \notin {"down", "serving"}
BY DEF PlaceInv, Fits, Starting, Down, Serving

\* A start under way is alone, so that nobody else's step concerns it; what
\* serves is ready in every schema to come.
LEMMA CleanStep == PlaceInv /\ SchemaInv /\ CleanInv /\ [Next]_vars => CleanInv'
<1> SUFFICES ASSUME PlaceInv, SchemaInv, CleanInv, [Next]_vars, NEW p \in Procs,
                    why'[p] = {}, proc'[p].at # "down"
             PROVE  /\ Ready(proc'[p], schema')
                    /\ proc'[p].at # "serving" =>
                         /\ phone'.active <= 1
                         /\ \A q \in Procs \ {p} : proc'[q].at \in {"down", "serving"}
  BY DEF CleanInv
<1> DEFINE Goal == /\ Ready(proc'[p], schema')
                   /\ proc'[p].at # "serving" =>
                         /\ phone'.active <= 1
                         /\ \A q \in Procs \ {p} : proc'[q].at \in {"down", "serving"}
<1>1. Grows(schema, schema')
  BY SchemaSteps
<1>2. ASSUME proc'[p] = proc[p], why[p] = {}, proc[p].at = "serving" PROVE Goal
  <2>1. Ready(proc[p], schema)
    BY <1>2 DEF CleanInv
  <2>2. Ready(proc[p], schema')
    BY <1>1, <1>2, <2>1, ReadyGrows
  <2> QED BY <1>2, <2>2
<1>3. ASSUME NEW s \in Procs, Progress(s) \/ ConnectFails(s) PROVE Goal
  <2>1. why' = why /\ phone' = phone
    BY <1>3 DEF Progress, ConnectFails, Connect, Look, Do, create_all, create_tables, count_orgs,
                add_orgs, _seed_branches_if_needed, add_branches, _seed_admin_if_needed, add_admin
  <2>2. proc[s].at \notin {"down", "serving"}
    BY <1>3 DEF Progress, ConnectFails, Connect, Look, Do, create_all, create_tables, count_orgs,
                add_orgs, _seed_branches_if_needed, add_branches, _seed_admin_if_needed, add_admin,
                ToCreate, CountOrgs, AddOrgs
  <2>3. \A q \in Procs \ {s} : proc'[q] = proc[q]
    BY <1>3, EveryStepFits DEF Moves, Go, PlaceInv
  <2>4. CASE p = s
    <3>1. Ready(proc[p], schema) /\ phone.active <= 1
          /\ \A q \in Procs \ {p} : proc[q].at \in {"down", "serving"}
      BY <2>1, <2>2, <2>4 DEF CleanInv
    <3>2. Ready(proc'[p], schema')
      BY <1>3, <2>4, <3>1, ProgressReady
    <3> QED BY <2>1, <2>3, <2>4, <3>1, <3>2
  <2>5. CASE p # s
    <3>1. proc'[p] = proc[p] /\ why[p] = {} /\ proc[p].at # "down"
      BY <2>1, <2>3, <2>5
    <3>2. proc[p].at = "serving"
      BY <2>2, <2>5, <3>1 DEF CleanInv
    <3> QED BY <1>2, <3>1, <3>2
  <2> QED BY <2>4, <2>5
<1>4. ASSUME NEW s \in Procs, Start(s) PROVE Goal
  <2>1. /\ schema' = schema /\ phone' = phone /\ proc[s] = Down
        /\ proc'[s] = Connecting(1) /\ \A q \in Procs \ {s} : proc'[q] = proc[q]
    BY <1>4 DEF Start, Go, PlaceInv
  <2>2. CASE p = s
    <3>1. Causes(s) = {}
      BY <1>4, <2>2 DEF Start
    <3>2. /\ "organizations" \in schema /\ ~ (phone.active > 1)
          /\ \A q \in Procs \ {s} : ~ Starting(q)
      BY <3>1 DEF Causes
    <3>3. Begun(schema) /\ phone.active <= 1
      BY <3>2 DEF SchemaInv
    <3>4. Ready(proc'[s], schema')
      BY <2>1, <3>3 DEF Ready, Connecting, Later
    <3>5. \A q \in Procs \ {s} : proc'[q].at \in {"down", "serving"}
      BY <2>1, <3>2, StartingAt
    <3> QED BY <2>1, <2>2, <3>3, <3>4, <3>5
  <2>3. CASE p # s
    <3>1. ~ Starting(p) /\ why[p] = {}
      BY <1>4, <2>3 DEF Start
    <3>2. proc[p].at = "serving"
      BY <2>1, <2>3, <3>1, StartingAt
    <3> QED BY <1>2, <2>1, <2>3, <3>1, <3>2
  <2> QED BY <2>2, <2>3
<1>5. ASSUME NEW s \in Procs, StatementFails(s) \/ Stop(s) PROVE Goal
  <2>1. /\ schema' = schema /\ phone' = phone /\ \A q \in Procs \ {s} : proc'[q] = proc[q]
        /\ Go(s, Down) \/ (why' = Mark({s}, "fault"))
        /\ why' = why \/ why' = Mark({s}, "fault")
    BY <1>5 DEF StatementFails, Stop, Go, PlaceInv, RolledBack
  <2>2. p # s /\ why[p] = {}
    BY <2>1 DEF Mark, Go, PlaceInv, Down
  <2>3. proc'[p] = proc[p]
    BY <2>1, <2>2
  <2>4. CASE proc[p].at = "serving"
    BY <1>2, <2>2, <2>3, <2>4
  <2>5. CASE proc[p].at # "serving"
    <3>1. /\ Ready(proc[p], schema) /\ phone.active <= 1
          /\ \A q \in Procs \ {p} : proc[q].at \in {"down", "serving"}
      BY <2>2, <2>3, <2>5 DEF CleanInv
    <3>2. Stop(s)
      BY <1>5, <2>2, <3>1 DEF StatementFails
    <3>3. proc'[s].at = "down"
      BY <3>2 DEF Stop, Go, PlaceInv, Down
    <3> QED BY <2>1, <2>2, <2>3, <3>1, <3>3
  <2> QED BY <2>4, <2>5
<1>6. ASSUME create_deal \/ soft_delete_deal \/ restore_deal PROVE Goal
  <2>1. /\ proc' = proc /\ schema' = schema
        /\ why' = IF phone'.active > 1 THEN Mark({q \in Procs : Starting(q)}, "duplicates") ELSE why
    BY <1>6 DEF create_deal, soft_delete_deal, restore_deal, SetPhone
  <2>2. why[p] = {} /\ (Starting(p) => ~ (phone'.active > 1))
    BY <2>1 DEF Mark
  <2>3. phone'.active \in Nat
    BY SchemaSteps DEF SchemaInv
  <2> QED BY <2>1, <2>2, <2>3, StartingAt DEF CleanInv
<1>7. CASE UNCHANGED vars
  BY <1>7 DEF vars, CleanInv
<1> QED BY <1>3, <1>4, <1>5, <1>6, <1>7 DEF Next

\* One undisturbed restart repairs what the starts before it left half done:
\* the migrations are in an order in which each finds what it refers to, and
\* none of them needs anything a failed one would have left behind.
THEOREM OneRestartRepairs == Spec => []RestartRepairs
<1>1. Init => SchemaInv /\ CleanInv
  <2> SUFFICES ASSUME Init PROVE SchemaInv /\ CleanInv
    OBVIOUS
  <2>1. WellFormed(schema)
    BY DatabasesAssumption DEF Init
  <2>2. schema \subseteq Complete \cup {FULL} /\ ("organizations" \in schema => Begun(schema))
    BY <2>1 DEF WellFormed, Begun
  <2>3. \A p \in Procs : proc[p].at = "down"
    BY DEF Init, Down
  <2>4. phone.active = 0
    BY DEF Init
  <2> QED BY <2>2, <2>3, <2>4 DEF SchemaInv, CleanInv
<1>2. SchemaInv /\ CleanInv => RestartRepairs
  <2> SUFFICES ASSUME SchemaInv, CleanInv, NEW p \in Procs, proc[p] = Serving, why[p] = {}
               PROVE  schema = Complete
    BY DEF RestartRepairs
  <2>1. Ready(proc[p], schema) /\ proc[p].at \in Later
    BY DEF CleanInv, Serving, Later
  <2> QED BY <2>1, AllDone DEF Ready, SchemaInv
<1>3. PlaceInv /\ SchemaInv /\ [Next]_vars => SchemaInv'
  BY SchemaSteps
<1> QED BY <1>1, <1>2, <1>3, CleanStep, PlaceInvHolds, PTL DEF Spec

-----------------------------------------------------------------------------
(* The types, and that the schema stays well-formed *)

\* What a schema may be, object by object.
Explicit(db) ==
  /\ db \subseteq Complete \cup {FULL}
  /\ "users" \notin db => "users.branch_id" \notin db
  /\ "deals" \notin db =>
       {"deals.customer_phone", "deals.is_deleted", "deals.branch_id"} \cap db = {}
  /\ "branches" \notin db => "branches.is_head_office" \notin db
  /\ "otp_verifications" \notin db => "otp_verifications.legitimately_verified" \notin db
  /\ "audit_logs" \notin db => {"audit_logs.row_hash", "audit_logs.prev_hash"} \cap db = {}
  /\ FULL \notin db \/ ACTIVE \notin db
  /\ db # {} => {"organizations", "users", "deals"} \subseteq db
  /\ {"users.branch_id", "deals.branch_id"} \cap db # {} => "branches" \in db
  /\ {FULL, ACTIVE} \cap db # {} => "deals.customer_phone" \in db

LEMMA WellFormedIs == \A db : WellFormed(db) <=> Explicit(db)
<1> TAKE db
<1>1. /\ ColumnsOf["organizations"] = {}
      /\ ColumnsOf["users"] = {"users.branch_id"}
      /\ ColumnsOf["deals"] = {"deals.customer_phone", "deals.is_deleted", "deals.branch_id"}
      /\ ColumnsOf["branches"] = {"branches.is_head_office"}
      /\ ColumnsOf["otp_verifications"] = {"otp_verifications.legitimately_verified"}
      /\ ColumnsOf["audit_logs"] = {"audit_logs.row_hash", "audit_logs.prev_hash"}
  BY DEF ColumnsOf
<1>2. (\A t \in Tables : t \notin db => db \cap ColumnsOf[t] = {}) <=>
        /\ "users" \notin db => "users.branch_id" \notin db
        /\ "deals" \notin db =>
             {"deals.customer_phone", "deals.is_deleted", "deals.branch_id"} \cap db = {}
        /\ "branches" \notin db => "branches.is_head_office" \notin db
        /\ "otp_verifications" \notin db => "otp_verifications.legitimately_verified" \notin db
        /\ "audit_logs" \notin db => {"audit_logs.row_hash", "audit_logs.prev_hash"} \cap db = {}
  BY <1>1, CompleteIs
<1> QED BY <1>2 DEF WellFormed, Explicit

\* A migration whose table is there and that finds what it needs leaves the
\* schema well-formed.
LEMMA UnitKeeps ==
  ASSUME NEW i \in Few, Explicit(schema), schema # {}, HasTable(U(i)), U(i).needs \subseteq schema
  PROVE  Explicit((schema \cup U(i).adds) \ U(i).drops)
<1> USE UnitList
<1>0. /\ FULL = "uq_deal_customer_phone" /\ ACTIVE = "uq_deal_customer_phone_active"
      /\ FULL \notin Complete
  BY NoFull DEF FULL, ACTIVE
<1>1. ASSUME NEW t \in {"branches", "otp_verifications", "audit_logs"}
      PROVE  Explicit(schema \cup Created(t))
  <2>1. CASE t = "branches"
    BY <1>0, <2>1, CompleteIs DEF Explicit
  <2>2. CASE t = "otp_verifications"
    BY <1>0, <2>2, CompleteIs DEF Explicit
  <2>3. CASE t = "audit_logs"
    BY <1>0, <2>3, CompleteIs DEF Explicit
  <2> QED BY <1>1, <2>1, <2>2, <2>3
<1>2. CASE i \in {1, 8, 10}
  <2>1. PICK t \in {"branches", "otp_verifications", "audit_logs"} :
           \E needs : U(i) = MakeTable(t, needs)
    BY <1>2
  <2>2. U(i).adds = Created(t) /\ U(i).drops = {}
    BY <2>1 DEF MakeTable
  <2>3. (schema \cup U(i).adds) \ U(i).drops = schema \cup Created(t)
    BY <2>2
  <2> QED BY <1>1, <2>3
<1>3. ASSUME NEW t \in Tables, NEW c \in Created(t) \ {t}, NEW needs, U(i) = AddColumn(t, c, needs),
             c \in {"users.branch_id", "deals.branch_id"} => "branches" \in needs
      PROVE  Explicit((schema \cup U(i).adds) \ U(i).drops)
  <2>1. t # "any"
    BY CompleteIs
  <2>2. t \in schema /\ needs \subseteq schema
    BY <1>3, <2>1 DEF AddColumn, HasTable
  <2>3. (schema \cup U(i).adds) \ U(i).drops = schema \cup {c}
    BY <1>3 DEF AddColumn
  <2>4. \/ t = "branches" /\ c = "branches.is_head_office"
        \/ t = "deals" /\ c \in {"deals.customer_phone", "deals.is_deleted"}
        \/ t = "users" /\ c = "users.branch_id" /\ "branches" \in schema
        \/ t = "deals" /\ c = "deals.branch_id" /\ "branches" \in schema
        \/ t = "otp_verifications" /\ c = "otp_verifications.legitimately_verified"
        \/ t = "audit_logs" /\ c \in {"audit_logs.row_hash", "audit_logs.prev_hash"}
    BY <1>3, <2>2, CompleteIs
  <2>5. c \in Complete
    BY <2>4, CompleteIs
  <2>6. Explicit(schema \cup {c})
    BY <1>0, <2>2, <2>4, <2>5 DEF Explicit
  <2> QED BY <2>3, <2>6
<1>4. CASE i = 2
  <2>1. "branches.is_head_office" \in Created("branches") \ {"branches"} /\ "branches" \in Tables
    BY CompleteIs
  <2> QED BY <1>3, <1>4, <2>1
<1>5. CASE i = 3
  <2>1. "deals.customer_phone" \in Created("deals") \ {"deals"} /\ "deals" \in Tables
    BY CompleteIs
  <2> QED BY <1>3, <1>5, <2>1
<1>6. CASE i = 4
  <2>1. "deals.is_deleted" \in Created("deals") \ {"deals"} /\ "deals" \in Tables
    BY CompleteIs
  <2> QED BY <1>3, <1>6, <2>1
<1>7. CASE i = 5
  <2>1. "users.branch_id" \in Created("users") \ {"users"} /\ "users" \in Tables
    BY CompleteIs
  <2> QED BY <1>3, <1>7, <2>1
<1>8. CASE i = 6
  <2>1. "deals.branch_id" \in Created("deals") \ {"deals"} /\ "deals" \in Tables
    BY CompleteIs
  <2> QED BY <1>3, <1>8, <2>1
<1>9. CASE i = 7
  <2>1. U(i).adds = {ACTIVE} /\ U(i).drops = {FULL} /\ "deals.customer_phone" \in schema
    BY <1>9 DEF migrate_phone_constraint
  <2> QED BY <1>0, <2>1, CompleteIs DEF Explicit
<1>10. CASE i = 9
  <2>1. /\ "otp_verifications.legitimately_verified"
             \in Created("otp_verifications") \ {"otp_verifications"}
        /\ "otp_verifications" \in Tables
    BY CompleteIs
  <2> QED BY <1>3, <1>10, <2>1
<1>11. CASE i = 11
  <2>1. "audit_logs.row_hash" \in Created("audit_logs") \ {"audit_logs"} /\ "audit_logs" \in Tables
    BY CompleteIs
  <2> QED BY <1>3, <1>11, <2>1
<1>12. CASE i = 12
  <2>1. "audit_logs.prev_hash" \in Created("audit_logs") \ {"audit_logs"} /\ "audit_logs" \in Tables
    BY CompleteIs
  <2> QED BY <1>3, <1>12, <2>1
<1>13. CASE i = 13
  <2>1. U(i).adds = {"performance"} /\ U(i).drops = {}
    BY <1>13 DEF migrate_indexes
  <2> QED BY <1>0, <2>1, CompleteIs DEF Explicit
<1> QED
  BY <1>2, <1>4, <1>5, <1>6, <1>7, <1>8, <1>9, <1>10, <1>11, <1>12, <1>13 DEF Few

\* The first migration fails on an empty database; behind it, there are tables,
\* and the one a statement to come is about.
UnitInv ==
  \A p \in Procs :
    /\ proc[p].at \in {"look", "do"} /\ schema = {} => proc[p].unit = 1
    /\ proc[p].at = "do" => HasTable(U(proc[p].unit))

\* A process comes to a migration from the database, from the look or the
\* statement before it.
LEMMA UnitArrivals ==
  ASSUME PlaceInv, [Next]_vars, NEW p \in Procs, proc'[p].at \in {"look", "do"}
  PROVE  proc'[p] = proc[p] \/ proc'[p] = Looking(1) \/ Look(p) \/ Do(p)
<1>1. ASSUME NEW q \in Procs, NEW place, place.at \notin {"look", "do"}, Go(q, place)
      PROVE  proc'[p] = proc[p]
  BY <1>1 DEF Go, PlaceInv
<1>2. ASSUME NEW q \in Procs, Connect(q) \/ Look(q) \/ Do(q)
      PROVE  proc'[p] = proc[p] \/ proc'[p] = Looking(1) \/ Look(p) \/ Do(p)
  <2>1. CASE q = p
    BY <1>2, <2>1 DEF Connect, Go, PlaceInv
  <2>2. CASE q # p
    BY <1>2, <2>2, EveryStepFits DEF Moves, Go, PlaceInv, Progress
  <2> QED BY <2>1, <2>2
<1>3. ASSUME NEW q \in Procs,
             \/ Start(q) \/ ConnectFails(q) \/ StatementFails(q) \/ Stop(q)
             \/ create_all(q) \/ create_tables(q) \/ count_orgs(q) \/ add_orgs(q)
      PROVE  proc'[p] = proc[p]
  <2>1. \E place : place.at \notin {"look", "do"} /\ Go(q, place)
    BY <1>3 DEF Start, ConnectFails, StatementFails, Stop, create_all, create_tables, count_orgs,
                add_orgs, Connecting, Creating, Down, ToCreate, CountOrgs, AddOrgs, Branches
  <2> QED BY <1>1, <2>1
<1>4. ASSUME NEW q \in Procs,
             \/ _seed_branches_if_needed(q) \/ add_branches(q)
             \/ _seed_admin_if_needed(q) \/ add_admin(q)
      PROVE  proc'[p] = proc[p]
  <2>1. \E place : place.at \notin {"look", "do"} /\ Go(q, place)
    BY <1>4 DEF _seed_branches_if_needed, add_branches, _seed_admin_if_needed, add_admin,
                Down, AddBranches, Admin, AddAdmin, Serving
  <2> QED BY <1>1, <2>1
<1> QED
  BY <1>2, <1>3, <1>4
     DEF Next, Progress, vars, create_deal, soft_delete_deal, restore_deal, SetPhone

LEMMA UnitTables == \A i \in Few : U(i).of = "any" \/ U(i).of \in Tables
BY UnitList, CompleteIs DEF Few, MakeTable, AddColumn, migrate_phone_constraint, migrate_indexes

LEMMA UnitSteps ==
  ASSUME PlaceInv, SchemaInv, Explicit(schema), UnitInv, [Next]_vars
  PROVE  UnitInv'
<1>1. Grows(schema, schema')
  BY SchemaSteps
<1>2. schema # {} => schema' # {}
  BY <1>1 DEF Grows, Explicit, FULL
<1>3. \A i \in Few : HasTable(U(i)) => U(i).of = "any" \/ U(i).of \in schema'
  BY <1>1, UnitTables, NoFull DEF HasTable, Grows
<1> SUFFICES ASSUME NEW p \in Procs, proc'[p].at \in {"look", "do"}
             PROVE  /\ schema' = {} => proc'[p].unit = 1
                    /\ proc'[p].at = "do" =>
                         U(proc'[p].unit).of = "any" \/ U(proc'[p].unit).of \in schema'
  BY DEF UnitInv, HasTable
<1> DEFINE i == proc[p].unit
<1>4. CASE proc'[p] = proc[p]
  BY <1>2, <1>3, <1>4 DEF UnitInv, PlaceInv, Fits
<1>5. CASE proc'[p] = Looking(1)
  BY <1>5 DEF Looking
<1>6. CASE Look(p)
  <2>1. i \in Few /\ schema' = schema /\ proc[p].at = "look"
    BY <1>6 DEF Look, PlaceInv, Fits
  <2>2. \/ HasTable(U(i)) /\ proc'[p] = Doing(i)
        \/ /\ ~ (HasTable(U(i)) /\ (U(i).if_not_exists \/ U(i).object \notin schema))
           /\ proc'[p] = Unit(i + 1)
    BY <1>6 DEF Look, Go, PlaceInv, U
  <2>3. CASE HasTable(U(i)) /\ proc'[p] = Doing(i)
    BY <1>3, <2>1, <2>3 DEF Doing, UnitInv
  <2>4. CASE /\ ~ (HasTable(U(i)) /\ (U(i).if_not_exists \/ U(i).object \notin schema))
             /\ proc'[p] = Unit(i + 1)
    <3>1. U(1).of = "any"
      BY UnitList DEF MakeTable
    <3>2. schema # {}
      BY <2>1, <2>4, <3>1 DEF UnitInv, HasTable
    <3>3. proc'[p].at = "look"
      BY <2>4 DEF Unit, Looking, ToCreate
    <3> QED BY <1>2, <3>2, <3>3
  <2> QED BY <2>2, <2>3, <2>4
<1>7. CASE Do(p)
  <2>1. i \in Few /\ proc[p].at = "do"
    BY <1>7 DEF Do, PlaceInv, Fits
  <2>2. proc'[p] = ToCreate \/ (proc'[p] = Unit(i + 1) /\ ~ Raises(U(i)))
    BY <1>7 DEF Do, Go, PlaceInv, U
  <2>3. proc'[p] # ToCreate
    BY DEF ToCreate
  <2>4. proc'[p].at = "look"
    BY <2>2, <2>3 DEF Unit, Looking, ToCreate
  <2>5. U(1).needs = {"organizations"}
    BY UnitList DEF MakeTable
  <2>6. schema # {}
    BY <2>1, <2>2, <2>3, <2>5 DEF UnitInv, Raises
  <2> QED BY <1>2, <2>4, <2>6
<1> QED BY <1>4, <1>5, <1>6, <1>7, UnitArrivals

\* Every step leaves the schema well-formed: the tables missing at the look are
\* made all together, and a migration finds its table and what it needs.
LEMMA SchemaKept ==
  ASSUME PlaceInv, SchemaInv, UnitInv, Explicit(schema), [Next]_vars
  PROVE  Explicit(schema')
<1>1. ASSUME NEW p \in Procs, Do(p) PROVE Explicit(schema')
  <2>1. PICK i : i = proc[p].unit
    OBVIOUS
  <2>2. i \in Few /\ HasTable(U(i))
    BY <1>1, <2>1 DEF Do, PlaceInv, Fits, UnitInv
  <2>3. \/ schema' = schema
        \/ ~ Raises(U(i)) /\ schema' = (schema \cup U(i).adds) \ U(i).drops
    BY <1>1, <2>1 DEF Do, RolledBack, U
  <2>4. ASSUME ~ Raises(U(i)) PROVE U(i).needs \subseteq schema /\ schema # {}
    <3>1. U(1).needs = {"organizations"}
      BY UnitList DEF MakeTable
    <3> QED BY <1>1, <2>1, <2>4, <3>1 DEF Raises, UnitInv, Do
  <2> QED BY <2>2, <2>3, <2>4, UnitKeeps
<1>2. ASSUME NEW p \in Procs, create_tables(p) PROVE Explicit(schema')
  <2>1. CASE schema' = schema
    BY <2>1
  <2>2. CASE /\ proc[p].missing \cap schema = {}
             /\ schema' = schema \cup UNION {Created(t) : t \in proc[p].missing}
    <3>1. proc[p].missing \subseteq Tables /\ Tables \ proc[p].missing \subseteq schema
      BY <1>2 DEF create_tables, SchemaInv
    <3>2. \A t \in Tables : t \in Created(t) /\ Created(t) \subseteq Tables \cup Columns
      BY DEF Created, Columns
    <3>3. Tables \subseteq schema' /\ schema \subseteq schema'
          /\ schema' \subseteq schema \cup Tables \cup Columns
      BY <2>2, <3>1, <3>2
    <3>4. FULL \notin Tables \cup Columns /\ ACTIVE \notin Tables \cup Columns
      <4>1. Columns \subseteq Complete \ {ACTIVE} /\ ACTIVE \notin Tables
        <5>1. \A c : c \in Columns => \E t \in Tables : c \in ColumnsOf[t]
          BY DEF Columns
        <5>2. \A t \in Tables : ColumnsOf[t] = Created(t) \ {t} \/ ColumnsOf[t] \subseteq Created(t)
          BY DEF Created
        <5>3. \A t \in Tables : ACTIVE \notin Created(t)
          BY CompleteIs DEF ACTIVE
        <5> QED BY <5>1, <5>2, <5>3, CompleteIs DEF Complete, ACTIVE
      <4> QED BY <4>1, NoFull
    <3>5. Tables \cup Columns \subseteq Complete
      BY DEF Complete
    <3>6. /\ {"organizations", "users", "deals", "branches", "otp_verifications", "audit_logs"}
               \subseteq schema'
          /\ FULL \in schema' => FULL \in schema
          /\ ACTIVE \in schema' => ACTIVE \in schema
          /\ schema' \subseteq Complete \cup {FULL}
      BY <3>3, <3>4, <3>5, CompleteIs DEF Explicit
    <3> QED BY <3>3, <3>6 DEF Explicit
  <2> QED BY <1>2, <2>1, <2>2 DEF create_tables
<1>3. \/ \E p \in Procs : Do(p) \/ create_tables(p)
      \/ schema' = schema
  BY DEF Next, vars, Start, Progress, Connect, ConnectFails, Look, StatementFails, RolledBack,
         create_all, count_orgs, add_orgs, _seed_branches_if_needed, add_branches,
         _seed_admin_if_needed, add_admin, create_deal, soft_delete_deal, restore_deal, SetPhone,
         Stop
<1> QED BY <1>1, <1>2, <1>3

\* The types of the rest.
RestTyped ==
  /\ seeded \in BOOLEAN
  /\ admin \in {None} \cup Administrators
  /\ phone \in [active : 0 .. MaxDeals, trashed : 0 .. MaxDeals]
  /\ disruptions \in 0 .. MaxDisruptions
  /\ why \in [Procs -> SUBSET {"fresh", "overlap", "duplicates", "fault"}]

LEMMA RestKept ==
  ASSUME PlaceInv, RestTyped, [Next]_vars
  PROVE  RestTyped'
<1>1. seeded' \in BOOLEAN
  BY DEF RestTyped, Next, vars, data, Start, Progress, Connect, ConnectFails, Look, Do,
         StatementFails, create_all, create_tables, count_orgs, add_orgs, _seed_branches_if_needed,
         add_branches, _seed_admin_if_needed, add_admin, create_deal, soft_delete_deal,
         restore_deal, SetPhone, Stop
<1>2. admin' \in {None} \cup Administrators
  <2>1. admin' = admin \/ \E p \in Procs : proc[p].at = "add_admin" /\ admin' = proc[p].row
    BY AdminSteps
  <2> QED BY <2>1 DEF RestTyped, PlaceInv, Fits
<1>3. phone' \in [active : 0 .. MaxDeals, trashed : 0 .. MaxDeals]
  <2>1. \/ phone' = phone
        \/ \E active, trashed \in Nat :
             active + trashed <= MaxDeals /\ phone' = [active |-> active, trashed |-> trashed]
    <3>1. phone.active \in Nat /\ phone.trashed \in Nat
      BY BoundsAssumption DEF RestTyped
    <3>2. CASE create_deal
      BY <3>1, <3>2 DEF create_deal, SetPhone
    <3>3. CASE soft_delete_deal
      <4>1. phone.active - 1 \in Nat /\ phone.trashed + 1 \in Nat
        BY <3>1, <3>3 DEF soft_delete_deal
      <4> QED BY <3>3, <4>1 DEF soft_delete_deal, SetPhone
    <3>4. CASE restore_deal
      <4>1. phone.active + 1 \in Nat /\ phone.trashed - 1 \in Nat
        BY <3>1, <3>4 DEF restore_deal
      <4> QED BY <3>4, <4>1 DEF restore_deal, SetPhone
    <3>5. CASE ~ (create_deal \/ soft_delete_deal \/ restore_deal)
      BY <3>5 DEF Next, vars, Start, Progress, Connect, ConnectFails, Look, Do, StatementFails,
                  create_all, create_tables, count_orgs, add_orgs, _seed_branches_if_needed,
                  add_branches, _seed_admin_if_needed, add_admin, Stop
    <3> QED BY <3>2, <3>3, <3>4, <3>5
  <2> QED BY <2>1, BoundsAssumption DEF RestTyped
<1>4. disruptions' \in 0 .. MaxDisruptions
  <2>1. disruptions' = disruptions \/ Disrupt
    BY DEF Next, vars, data, Start, Progress, Connect, ConnectFails, Look, Do, StatementFails,
           create_all, create_tables, count_orgs, add_orgs, _seed_branches_if_needed, add_branches,
           _seed_admin_if_needed, add_admin, create_deal, soft_delete_deal, restore_deal, SetPhone,
           Stop
  <2> QED BY <2>1, BoundsAssumption DEF RestTyped, Disrupt
<1>5. why' \in [Procs -> SUBSET {"fresh", "overlap", "duplicates", "fault"}]
  <2>1. ASSUME NEW ps, NEW cause \in {"duplicates", "fault"}
        PROVE  Mark(ps, cause) \in [Procs -> SUBSET {"fresh", "overlap", "duplicates", "fault"}]
    BY DEF Mark, RestTyped
  <2>2. ASSUME NEW p \in Procs, Start(p)
        PROVE  why' \in [Procs -> SUBSET {"fresh", "overlap", "duplicates", "fault"}]
    <3>1. Causes(p) \subseteq {"fresh", "overlap", "duplicates", "fault"}
      BY DEF Causes
    <3> QED BY <2>2, <3>1 DEF Start, RestTyped
  <2>3. \/ \E p \in Procs : Start(p)
        \/ \E ps : why' = Mark(ps, "duplicates") \/ why' = Mark(ps, "fault")
        \/ why' = why
    BY DEF Next, vars, data, Progress, Connect, ConnectFails, Look, Do, StatementFails, create_all,
           create_tables, count_orgs, add_orgs, _seed_branches_if_needed, add_branches,
           _seed_admin_if_needed, add_admin, create_deal, soft_delete_deal, restore_deal, SetPhone,
           Stop
  <2> QED BY <2>1, <2>2, <2>3 DEF RestTyped
<1> QED BY <1>1, <1>2, <1>3, <1>4, <1>5 DEF RestTyped

\* Every variable has its type whatever is killed or overtaken; in particular a
\* schema never holds a column without its table, a reference to branches
\* without them, or both forms of the constraint on the phone.
THEOREM StartupTypes == Spec => []TypeOK
<1>1. Init => SchemaInv /\ UnitInv /\ Explicit(schema) /\ RestTyped
  <2> SUFFICES ASSUME Init PROVE SchemaInv /\ UnitInv /\ Explicit(schema) /\ RestTyped
    OBVIOUS
  <2>1. \A p \in Procs : proc[p].at = "down"
    BY DEF Init, Down
  <2>2. Explicit(schema)
    BY DatabasesAssumption, WellFormedIs DEF Init
  <2>3. SchemaInv
    BY <2>1, <2>2 DEF Init, SchemaInv, Explicit, Begun
  <2>4. UnitInv
    BY <2>1 DEF UnitInv
  <2>5. RestTyped
    BY BoundsAssumption DEF Init, RestTyped, Administrators
  <2> QED BY <2>2, <2>3, <2>4, <2>5
<1>2. PlaceInv /\ SchemaInv /\ UnitInv /\ Explicit(schema) /\ RestTyped /\ [Next]_vars
        => SchemaInv' /\ UnitInv' /\ Explicit(schema)' /\ RestTyped'
  BY SchemaSteps, UnitSteps, SchemaKept, RestKept DEF Explicit
<1>3. PlaceInv /\ Explicit(schema) /\ RestTyped => TypeOK
  BY WellFormedIs DEF PlaceInv, RestTyped, TypeOK, Administrators
<1> QED BY <1>1, <1>2, <1>3, PlaceInvHolds, PTL DEF Spec

=============================================================================
