--------------------------- MODULE OtpVerification ---------------------------
(***************************************************************************)
(* Phone verification by a code sent by email (otp_service_secure.py), the *)
(* condition create_deal puts on a phone, and the older service for the    *)
(* same (email_otp_service.py), which still sends codes into the same      *)
(* table.  Its limits are those of the newer one but for the attempts.     *)
(* Addresses are in lower case, as they are stored: the older service      *)
(* counts the codes of an address as it was typed.                         *)
(*                                                                         *)
(* The routes are plain functions, run by FastAPI in a pool of threads, so *)
(* a request is several steps: what it reads may have changed when it      *)
(* commits.  The database is at READ COMMITTED: a statement sees what was  *)
(* committed when it began, and an UPDATE that waited for a row looks at   *)
(* its WHERE clause again.                                                 *)
(***************************************************************************)
EXTENDS Integers, Sequences, FiniteSets

CONSTANTS
    Threads,
    Pairs,          \* the <<email, phone>> of the customers
    RESEND_COOLDOWN, OTP_EXPIRY, RATE_LIMIT_WINDOW,     \* in ticks
    MAX_OTP_PER_WINDOW, MAX_VERIFY_ATTEMPTS,
    LEGACY_VERIFY_ATTEMPTS,
    MAX_OTPS, MAX_CLOCK     \* bounds of the model

ASSUME AttemptsAssumption ==
    /\ MAX_VERIFY_ATTEMPTS \in Nat /\ LEGACY_VERIFY_ATTEMPTS \in Nat
    /\ LEGACY_VERIFY_ATTEMPTS < MAX_VERIFY_ATTEMPTS

ASSUME TicksAssumption == OTP_EXPIRY \in Nat /\ MAX_CLOCK \in Nat

ASSUME LimitAssumption == RATE_LIMIT_WINDOW \in Nat /\ MAX_OTP_PER_WINDOW \in Nat

ASSUME ThreadsAssumption == IsFiniteSet(Threads) /\ Threads # {}

VARIABLES
    otps,       \* the rows of otp_verifications, in commit order
    in_deal,    \* phones of a deal that is not deleted
    request,    \* thread -> the request it is running
    clock

vars == <<otps, in_deal, request, clock>>

Idle == [op |-> "idle"]
Phones == {pair[2] : pair \in Pairs}
Otps == 1..Len(otps)

Init ==
    /\ otps = <<>>
    /\ in_deal = {}
    /\ request = [t \in Threads |-> Idle]
    /\ clock = 0

-----------------------------------------------------------------------------
(* Queries *)

Of(pair) == {i \in Otps : otps[i].pair = pair}
Unverified(pair) == {i \in Of(pair) : ~otps[i].verified}
Newest(S) == {i \in S : \A j \in S : otps[j].created_at <= otps[i].created_at}

(* Codes sent in the window to this email, or for this phone.               *)
Recent(pair) ==
    {i \in Otps : /\ otps[i].pair[1] = pair[1] \/ otps[i].pair[2] = pair[2]
                  /\ otps[i].created_at >= clock - RATE_LIMIT_WINDOW}

_check_rate_limit(pair) == Cardinality(Recent(pair)) < MAX_OTP_PER_WINDOW

_check_resend_cooldown(pair) ==
    \A i \in Newest(Of(pair)) : clock >= otps[i].created_at + RESEND_COOLDOWN

is_phone_verified_for_deal(p) ==
    \E i \in Otps : otps[i].pair[2] = p /\ otps[i].legitimately_verified

-----------------------------------------------------------------------------
(* send_otp_secure *)

(* Checks 1 to 3.                                                           *)
Sendable(pair) ==
    /\ pair[2] \notin in_deal
    /\ _check_rate_limit(pair)
    /\ _check_resend_cooldown(pair)

Sending == {t \in Threads : request[t].op \in {"send", "resend", "legacy"}}

HasRoom == Len(otps) + Cardinality(Sending) < MAX_OTPS

send_refused(t, pair) == request[t] = Idle /\ ~Sendable(pair) /\ UNCHANGED vars

send_check(t, pair) ==
    /\ request[t] = Idle
    /\ HasRoom
    /\ Sendable(pair)
    /\ request' = [request EXCEPT ![t] = [op |-> "send", pair |-> pair]]
    /\ UNCHANGED <<otps, in_deal, clock>>

(* Step 4: the UPDATE begins, and sees the codes committed so far.          *)
send_invalidate(t) ==
    /\ request[t].op = "send"
    /\ request' = [request EXCEPT ![t] =
           [op |-> "resend", pair |-> @.pair, old |-> Unverified(@.pair)]]
    /\ UNCHANGED <<otps, in_deal, clock>>

Lock(row) == [row EXCEPT !.verified = TRUE, !.attempts = MAX_VERIFY_ATTEMPTS]

(* Slip: the old codes are left as they are.                                *)
LeftActive(old) == otps

(* The old codes as the UPDATE leaves them: those still unverified are      *)
(* locked.                                                                  *)
Invalidated(old) ==
    [i \in Otps |-> IF i \in old /\ ~otps[i].verified THEN Lock(otps[i]) ELSE otps[i]]

NewOtp(pair, limit) ==
    [pair |-> pair, created_at |-> clock, expires_at |-> clock + OTP_EXPIRY,
     verified |-> FALSE, attempts |-> 0, max_attempts |-> limit,
     legitimately_verified |-> FALSE]

(* Slip: the new code is stored before the UPDATE, which locks it too.      *)
send_commit_first(t) ==
    /\ request[t].op = "resend"
    /\ otps' = Append(Invalidated(request[t].old),
                      Lock(NewOtp(request[t].pair, MAX_VERIFY_ATTEMPTS)))
    /\ request' = [request EXCEPT ![t] = Idle]
    /\ UNCHANGED <<in_deal, clock>>

(* Steps 5 and 6.  Whether the email then goes out changes no row.          *)
send_commit(t) ==
    /\ request[t].op = "resend"
    /\ otps' = Append(Invalidated(request[t].old),
                      NewOtp(request[t].pair, MAX_VERIFY_ATTEMPTS))
    /\ request' = [request EXCEPT ![t] = Idle]
    /\ UNCHANGED <<in_deal, clock>>

-----------------------------------------------------------------------------
(* verify_otp_secure *)

(* Slip: attempts are counted and never limited.                            *)
Unexpired(i) == otps[i].expires_at >= clock

Verifiable(i) ==
    otps[i].expires_at >= clock /\ otps[i].attempts < otps[i].max_attempts

(* No unverified code, or the newest expired or has no attempts left.       *)
verify_refused(t, pair) ==
    /\ request[t] = Idle
    /\ \/ Unverified(pair) = {}
       \/ \E i \in Newest(Unverified(pair)) : ~Verifiable(i)
    /\ UNCHANGED vars

(* Steps 1 to 4 read the newest unverified code of the pair.                *)
verify_check(t, pair, correct) ==
    /\ request[t] = Idle
    /\ \E i \in Newest(Unverified(pair)) :
          /\ Verifiable(i)
          /\ request' = [request EXCEPT ![t] =
                 [op |-> "verify", otp |-> i, attempts |-> otps[i].attempts,
                  correct |-> correct]]
    /\ UNCHANGED <<otps, in_deal, clock>>

(* Slip: every column of the row that was read is written back.             *)
verify_commit_row(t) ==
    /\ request[t].op = "verify"
    /\ LET i == request[t].otp
       IN  otps' = [otps EXCEPT ![i].verified = request[t].correct,
                                ![i].legitimately_verified = request[t].correct,
                                ![i].attempts = request[t].attempts + 1]
    /\ request' = [request EXCEPT ![t] = Idle]
    /\ UNCHANGED <<in_deal, clock>>

(* The hash is compared.                                                    *)
Tried(row, req) ==
    IF req.correct
    THEN [row EXCEPT !.verified = TRUE, !.legitimately_verified = TRUE]
    ELSE [row EXCEPT !.attempts = req.attempts + 1]

(* Steps 5 and 6: the columns that change are written with what was read,   *)
(* to the row of that primary key.                                          *)
verify_commit(t) ==
    /\ request[t].op = "verify"
    /\ otps' = [otps EXCEPT ![request[t].otp] = Tried(@, request[t])]
    /\ request' = [request EXCEPT ![t] = Idle]
    /\ UNCHANGED <<in_deal, clock>>

-----------------------------------------------------------------------------
(* send_email_otp and verify_email_otp, the older service *)

LegacySendable(pair) == pair[2] \notin in_deal /\ _check_rate_limit(pair)

legacy_send_refused(t, pair) ==
    request[t] = Idle /\ ~LegacySendable(pair) /\ UNCHANGED vars

legacy_send_check(t, pair) ==
    /\ request[t] = Idle
    /\ HasRoom
    /\ LegacySendable(pair)
    /\ request' = [request EXCEPT ![t] = [op |-> "legacy", pair |-> pair]]
    /\ UNCHANGED <<otps, in_deal, clock>>

(* No cooldown, and the codes sent before remain as they are.               *)
legacy_send_commit(t) ==
    /\ request[t].op = "legacy"
    /\ otps' = Append(otps, NewOtp(request[t].pair, LEGACY_VERIFY_ATTEMPTS))
    /\ request' = [request EXCEPT ![t] = Idle]
    /\ UNCHANGED <<in_deal, clock>>

(* Without an unverified code it answers 400.  With one it compares the     *)
(* naive expires_at of the column with an aware now, whatever the code: a   *)
(* TypeError, answered with 500.  Neither changes a row.                    *)
legacy_verify(t) == request[t] = Idle /\ UNCHANGED vars

-----------------------------------------------------------------------------
(* The environment *)

(* create_deal and soft_delete_deal, for the phone they take or free.       *)
TakePhone(p) ==
    /\ p \notin in_deal /\ is_phone_verified_for_deal(p)
    /\ in_deal' = in_deal \cup {p}
    /\ UNCHANGED <<otps, request, clock>>

FreePhone(p) ==
    /\ p \in in_deal
    /\ in_deal' = in_deal \ {p}
    /\ UNCHANGED <<otps, request, clock>>

Tick ==
    /\ clock < MAX_CLOCK
    /\ clock' = clock + 1
    /\ UNCHANGED <<otps, in_deal, request>>

Next ==
    \/ Tick
    \/ \E p \in Phones : TakePhone(p) \/ FreePhone(p)
    \/ \E t \in Threads :
          \/ send_invalidate(t)
          \/ send_commit(t)
          \/ verify_commit(t)
          \/ legacy_send_commit(t)
          \/ legacy_verify(t)
          \/ \E pair \in Pairs :
                \/ send_refused(t, pair)
                \/ send_check(t, pair)
                \/ verify_refused(t, pair)
                \/ legacy_send_refused(t, pair)
                \/ legacy_send_check(t, pair)
                \/ \E correct \in BOOLEAN : verify_check(t, pair, correct)

Spec == Init /\ [][Next]_vars

-----------------------------------------------------------------------------
(* Properties *)

Otp == [pair : Pairs, created_at : Nat, expires_at : Nat, verified : BOOLEAN,
        attempts : 0..MAX_VERIFY_ATTEMPTS,
        max_attempts : {MAX_VERIFY_ATTEMPTS, LEGACY_VERIFY_ATTEMPTS},
        legitimately_verified : BOOLEAN]

Request ==
    [op : {"idle"}]
        \cup [op : {"send", "legacy"}, pair : Pairs]
        \cup [op : {"resend"}, pair : Pairs, old : SUBSET Nat]
        \cup [op : {"verify"}, otp : Nat, attempts : Nat, correct : BOOLEAN]

(* The attempts of a code stay within its limit, although a request writes  *)
(* back a count it read before another one changed the row.                 *)
TypeOK ==
    /\ otps \in Seq(Otp)
    /\ \A i \in Otps : otps[i].attempts <= otps[i].max_attempts \/ otps[i].verified
    /\ in_deal \subseteq Phones
    /\ request \in [Threads -> Request]
    /\ \A t \in Threads :
          /\ request[t].op = "resend" => request[t].old \subseteq Of(request[t].pair)
          /\ request[t].op = "verify" =>
                /\ request[t].otp \in Otps
                /\ request[t].attempts < otps[request[t].otp].max_attempts
    /\ clock \in Nat

(* The code sent last is never the one a resend locks: whatever requests    *)
(* of both services overlap, a customer with the newest code can still use  *)
(* it, until it expires or the attempts are spent.                          *)
NewestOtpUsable ==
    \A pair \in Pairs : \A last \in Of(pair) :
        (\A i \in Of(pair) : i <= last) =>
            (otps[last].verified => otps[last].legitimately_verified)

(* Codes of the newer service.                                              *)
Secure(i) == otps[i].max_attempts = MAX_VERIFY_ATTEMPTS

(* The newer service leaves a pair at most as many usable codes of its own  *)
(* as requests can overlap; and both services together send at most that    *)
(* many codes above the limit to an email, and for a phone, in a window.    *)
OverlapBounded ==
    LET spare == Cardinality(Threads) - 1
        InWindow(i) == otps[i].created_at >= clock - RATE_LIMIT_WINDOW
    IN  \A pair \in Pairs :
            /\ Cardinality({i \in Unverified(pair) : Secure(i)}) <= 1 + spare
            /\ \A k \in {1, 2} :
                  Cardinality({i \in Otps : otps[i].pair[k] = pair[k] /\ InWindow(i)})
                      <= MAX_OTP_PER_WINDOW + spare

(* A phone once verified stays verified, whatever is sent or tried later,   *)
(* and a locked or used code never becomes usable again.  The workflow of   *)
(* deals relies on it: create_deal checks the phone before it commits.      *)
VerificationLasts ==
    [][/\ \A p \in Phones : is_phone_verified_for_deal(p) => is_phone_verified_for_deal(p)'
       /\ \A i \in Otps : otps[i].verified => otps'[i].verified]_vars
=============================================================================
