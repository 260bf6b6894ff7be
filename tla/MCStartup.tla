----------------------------- MODULE MCStartup -----------------------------
(***************************************************************************)
(* Two processes over an empty database or one that an earlier version      *)
(* left: the first tables; the full constraint on the phone and branches    *)
(* without their later columns; or all but the later columns of the codes   *)
(* and of the audit log.                                                    *)
(***************************************************************************)
EXTENDS Startup

CONSTANTS p1, p2, o1, o2

MCProcs == {p1, p2}
MCOrgs == {o1, o2}

Core == {"organizations", "users", "deals"}

MCDatabases ==
  {{},
   Core,
   Core \cup {"branches", "deals.customer_phone", FULL},
   Core \cup Created("branches") \cup ColumnsOf["users"] \cup ColumnsOf["deals"]
        \cup {FULL, "otp_verifications", "audit_logs"}}
=============================================================================
