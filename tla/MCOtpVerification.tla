-------------------------- MODULE MCOtpVerification --------------------------
(* An instance of OtpVerification for TLC.                                   *)
EXTENDS OtpVerification, TLC

CONSTANTS e1, p1, p2

(* One customer's email, used for two phones: they share the rate limit, and *)
(* each has its own cooldown.                                                *)
SomePairs == {<<e1, p1>>, <<e1, p2>>}

Symmetry == Permutations(Threads) \cup Permutations({p1, p2})
=============================================================================
