-------------------------- MODULE ApprovalAuthority --------------------------
(***************************************************************************)
(* What the approval workflow promises, without tasks, stages, fraud rules *)
(* or deletion: a deal gets one verdict, the verdict is final, and a deal  *)
(* whose discount is above the director limit gets a favourable one only   *)
(* from a director.                                                        *)
(***************************************************************************)
CONSTANT Deals

VARIABLES
    verdict,    \* deal -> NONE (not submitted) | PENDING | APPROVED | REJECTED
    above,      \* deal -> the discount is above the director limit
    signedBy    \* deal -> who approved it: nobody, system, GM or DIRECTOR

vars == <<verdict, above, signedBy>>

Signers == {"nobody", "system", "GM", "DIRECTOR"}

Init ==
    /\ verdict = [d \in Deals |-> "NONE"]
    /\ above = [d \in Deals |-> FALSE]
    /\ signedBy = [d \in Deals |-> "nobody"]

(* A submitted deal waits for a verdict, or is within every limit and is    *)
(* approved on the spot.                                                    *)
Submit(d) ==
    /\ verdict[d] = "NONE"
    /\ \E a \in BOOLEAN : above' = [above EXCEPT ![d] = a]
    /\ \/ /\ verdict' = [verdict EXCEPT ![d] = "PENDING"]
          /\ UNCHANGED signedBy
       \/ /\ ~above'[d]
          /\ verdict' = [verdict EXCEPT ![d] = "APPROVED"]
          /\ signedBy' = [signedBy EXCEPT ![d] = "system"]

Sign(d, who) ==
    /\ verdict[d] = "PENDING"
    /\ above[d] => who = "DIRECTOR"
    /\ verdict' = [verdict EXCEPT ![d] = "APPROVED"]
    /\ signedBy' = [signedBy EXCEPT ![d] = who]
    /\ UNCHANGED above

Refuse(d) ==
    /\ verdict[d] = "PENDING"
    /\ verdict' = [verdict EXCEPT ![d] = "REJECTED"]
    /\ UNCHANGED <<above, signedBy>>

Next ==
    \E d \in Deals :
        \/ Submit(d)
        \/ \E who \in {"GM", "DIRECTOR"} : Sign(d, who)
        \/ Refuse(d)

Spec == Init /\ [][Next]_vars
=============================================================================
